------------------------------ MODULE Machine ------------------------------
(***************************************************************************)
(* The sequence state machine of craftsman/sequencer/machine.py.           *)
(*                                                                         *)
(* The code's table maps (state, event) to a new state.  Every event has   *)
(* one target whatever the state it leaves, so the table is given by the   *)
(* states each event may leave (Sources) and the state it leads to         *)
(* (Target).  The "*" rows of the code match every state that is not       *)
(* terminal; no pair is given both explicitly and by "*", so the order in  *)
(* which next_state looks at them does not show.                           *)
(***************************************************************************)

Terminal ==
    {"replied_interested", "replied_objection", "replied_not_now", "bounced",
     "unsubscribed", "finished_no_reply", "meeting_booked", "error"}

Live ==
    {"queued", "researching", "ready", "waiting", "awaiting_human_touch",
     "ooo_rescheduled"}

States == Live \cup Terminal

Replied == {"replied_interested", "replied_objection", "replied_not_now"}

Target ==
    [research_done |-> "ready", research_failed |-> "error",
     send_ok |-> "waiting", send_failed |-> "error", timer |-> "ready",
     task_created |-> "awaiting_human_touch", task_done |-> "waiting",
     task_skipped |-> "waiting", task_expired |-> "waiting",
     reply_interested |-> "replied_interested",
     reply_objection |-> "replied_objection",
     reply_not_now |-> "replied_not_now", reply_ooo |-> "ooo_rescheduled",
     bounce |-> "bounced", unsubscribe |-> "unsubscribed",
     meeting_booked |-> "meeting_booked"]

Events == DOMAIN Target

Sources ==
    [research_done |-> {"queued", "researching"},
     research_failed |-> {"queued", "researching"},
     send_ok |-> {"ready"}, send_failed |-> {"ready"},
     timer |-> {"waiting", "ooo_rescheduled"},
     task_created |-> {"ready"},
     task_done |-> {"awaiting_human_touch"},
     task_skipped |-> {"awaiting_human_touch"},
     task_expired |-> {"awaiting_human_touch"},
     reply_interested |-> {"waiting", "ooo_rescheduled", "awaiting_human_touch"},
     reply_objection |-> {"waiting", "awaiting_human_touch"},
     reply_not_now |-> {"waiting", "awaiting_human_touch"},
     reply_ooo |-> {"waiting", "awaiting_human_touch"},
     bounce |-> Live, unsubscribe |-> Live,
     meeting_booked |-> Replied \cup
        {"waiting", "awaiting_human_touch", "ooo_rescheduled", "ready"}]

(* next_state raises InvalidTransition exactly where this is false.        *)
Defined(s, ev) == s \in Sources[ev]

NextState(s, ev) == Target[ev]

=============================================================================
