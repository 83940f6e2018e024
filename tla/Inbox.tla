------------------------------- MODULE Inbox -------------------------------
(***************************************************************************)
(* Everything that moves a lead: the e-mail and task steps of SendPath and *)
(* TouchTasks, and what comes back from outside: replies                   *)
(* (poll_inboxes, inbox/poller.py, inbox/pipeline.py), a person's verdict  *)
(* on a reply (api/routers/inbox.py) and bookings (api/routers/meetings.py)*)
(*                                                                         *)
(* The poll loads the enrollment of a mail, waits for the classifier, and  *)
(* commits what it computed from the row it loaded: values that did not    *)
(* change are not written, the others are, whatever the row holds by then. *)
(* A poll here handles one mail.                                           *)
(***************************************************************************)
EXTENDS TouchTasks

CONSTANTS Mails,        \* inbound e-mails
          ReplyTo,      \* the outbound row each of them answers
          Labels,       \* what the classifier may say of a mail
          Rules         \* the escalation rules an operator configured

AllLabels == {"interested", "objection", "not_now", "ooo", "unsubscribe", "bounce_or_auto"}

Rule == [labels: SUBSET AllLabels, keyword: BOOLEAN, sureOnly: BOOLEAN,
         suppress: BOOLEAN, review: BOOLEAN]

ASSUME InboxAssumption ==
    /\ ReplyTo \in [Mails -> Keys]
    /\ Labels \subseteq AllLabels
    /\ Rules \subseteq Rule

VARIABLES inbox,        \* where each mail is
          poll,         \* the mail being handled, with the row loaded for it
          answered,     \* history: leads a stored interested reply came from
          settled,      \* history: how often each task was resolved
          rivals        \* history: how often one more actor set out to resolve
                        \* a task that another had read as open

inboxVars == <<inbox, poll, answered>>
inboxAllVars == <<allVars, inboxVars>>
leadVars == <<inboxAllVars, settled, rivals>>

MailStatus == {"unsent", "unseen", "seen", "ignored", "stored", "lost"}
NoPoll == [busy |-> FALSE]
Polling == [m: Mails, row: Row]

InboxTypeOK ==
    /\ TouchTypeOK
    /\ inbox \in [Mails -> MailStatus]
    /\ poll \in Polling \cup {NoPoll}
    /\ answered \subseteq Enrollments
    /\ settled \in [Keys -> Nat] /\ rivals \in [Keys -> Nat]

InboxInit ==
    /\ TouchInit
    /\ inbox = [m \in Mails |-> "unsent"]
    /\ poll = NoPoll
    /\ answered = {}
    /\ settled = [k \in Keys |-> 0] /\ rivals = settled

LeadOf(m) == ReplyTo[m][1]

-----------------------------------------------------------------------------
(* apply_classification on a loaded row *)

LabelToEvent ==
    [interested |-> "reply_interested", objection |-> "reply_objection",
     not_now |-> "reply_not_now", ooo |-> "reply_ooo",
     unsubscribe |-> "unsubscribe", bounce_or_auto |-> "bounce"]

(* Mutant: the reply sets the state without asking the state machine.      *)
AppliedAnyState(row, label, dated) ==
    [state |-> NextState(row.state, LabelToEvent[label]),
     step |-> row.step,
     due |-> CASE label = "ooo" -> row.due \/ dated
               [] label = "bounce_or_auto" -> row.due
               [] OTHER -> FALSE]

(* An undefined transition is skipped; next_action_at is dealt with either *)
(* way.  dated: the out-of-office note gives a return date.                *)
Applied(row, label, dated) ==
    [state |-> IF Defined(row.state, LabelToEvent[label])
               THEN NextState(row.state, LabelToEvent[label]) ELSE row.state,
     step |-> row.step,
     due |-> CASE label = "ooo" -> row.due \/ dated
               [] label = "bounce_or_auto" -> row.due
               [] OTHER -> FALSE]

(* What the transaction leaves in the row, now another one: the columns it *)
(* changed in the row it loaded.  A return date always is a new value.     *)
Merge(old, new, now, dated) ==
    [now EXCEPT !.state = IF new.state # old.state THEN new.state ELSE @,
                !.due = IF dated \/ new.due # old.due THEN new.due ELSE @]

(* A row that does not change is not written, and waits for no lock.       *)
WriteChanged(e, row) == IF row = enr[e] THEN UNCHANGED enr ELSE Write(e, row)

(* suppress, with SendPath's history of the tasks past their last check    *)
OptOut(e) ==
    /\ suppressed' = suppressed \cup {e}
    /\ past' = IF e \in suppressed THEN past
               ELSE [past EXCEPT ![e] = Cardinality({w \in Workers :
                        worker[w].pc \in {"reserved", "claimed"} /\ worker[w].e = e})]

(* The built-in rules that change state: a legal keyword, whatever the     *)
(* classifier made of the reply.                                           *)
DefaultRules == {[labels |-> AllLabels, keyword |-> TRUE, sureOnly |-> FALSE,
                  suppress |-> TRUE, review |-> TRUE]}

Matches(rule, label, keyword, sure) ==
    /\ label \in rule.labels
    /\ rule.keyword => keyword
    /\ rule.sureOnly => sure

(* evaluate: the union of what the matching rules ask for.                 *)
Escalation(label, keyword, sure) ==
    LET matching == {rule \in DefaultRules \cup Rules : Matches(rule, label, keyword, sure)}
    IN  [suppress |-> \E rule \in matching : rule.suppress,
         review |-> \E rule \in matching : rule.review]

(* Mutant: only an interested lead's task is cancelled.                    *)
OrphanedByInterest(row, new, label) ==
    row.state = "awaiting_human_touch" /\ new.state # row.state /\ label = "interested"

(* The reply moved the lead on while it awaited a person.                  *)
Orphaned(row, new, label) == row.state = "awaiting_human_touch" /\ new.state # row.state

(* All a confident classification does: the transition, the open tasks of  *)
(* a lead that no longer awaits a person, suppression, and what the        *)
(* escalation rules ask for.                                               *)
Classify(e, row, label, dated, keyword) ==
    LET new == Applied(row, label, dated)
        asks == Escalation(label, keyword, TRUE) IN
    /\ WriteChanged(e, Merge(row, new, enr[e], dated /\ label = "ooo"))
    /\ IF Orphaned(row, new, label) THEN Cancel({e}) ELSE UNCHANGED task
    /\ IF asks.suppress \/ label \in {"unsubscribe", "bounce_or_auto"}
       THEN OptOut(e) ELSE UNCHANGED <<suppressed, past>>
    /\ review' = IF asks.review THEN review \cup {e} ELSE review
    /\ crossed' = IF enr[e] # row THEN crossed \cup {e} ELSE crossed
    /\ answered' = IF label = "interested" THEN answered \cup {e} ELSE answered

-----------------------------------------------------------------------------
(* The poll *)

(* A lead answers an e-mail it got.                                        *)
Arrive(m) ==
    /\ inbox[m] = "unsent"
    /\ delivered[ReplyTo[m]] > 0
    /\ inbox' = [inbox EXCEPT ![m] = "unseen"]
    /\ UNCHANGED <<allVars, poll, answered>>

(* fetch_unseen marks the mail seen on the server.  match_thread finds     *)
(* outbound rows by smtp_message_id, which is stored when the send task    *)
(* ends; a mail that answers a copy without such a row is ignored.         *)
Poll(m) ==
    LET k == ReplyTo[m] IN
    /\ inbox[m] = "unseen" /\ poll = NoPoll
    /\ \/ /\ msg[k].status = "sent"
          /\ inbox' = [inbox EXCEPT ![m] = "seen"]
          /\ poll' = [m |-> m, row |-> enr[LeadOf(m)]]
       \/ /\ msg[k].status # "sent" \/ delivered[k] > wire[k]
          /\ inbox' = [inbox EXCEPT ![m] = "ignored"]
          /\ UNCHANGED poll
    /\ UNCHANGED <<allVars, answered>>

PollEnds(status) ==
    /\ poll # NoPoll
    /\ inbox' = [inbox EXCEPT ![poll.m] = status]
    /\ poll' = NoPoll

PollConfident ==
    /\ PollEnds("stored")
    /\ \E label \in Labels, dated, keyword \in BOOLEAN :
          Classify(LeadOf(poll.m), poll.row, label, dated, keyword)
    /\ UNCHANGED <<tick, queue, worker, brief, crashes, redrives, dropped, msg, sentToday, day,
                   delivered, wire, todays, misfreed, late, armed, request, clicks>>

(* An unsure classifier: the mail goes to the review queue, and only the   *)
(* escalation rules act.                                                   *)
PollUnsure ==
    /\ PollEnds("stored")
    /\ review' = review \cup {LeadOf(poll.m)}
    /\ \E label \in Labels, keyword \in BOOLEAN :
          IF Escalation(label, keyword, FALSE).suppress
          THEN OptOut(LeadOf(poll.m)) ELSE UNCHANGED <<suppressed, past>>
    /\ UNCHANGED <<enr, tick, queue, worker, brief, crashes, redrives, dropped, msg, sentToday,
                   day, delivered, wire, todays, misfreed, late, touchVars, answered>>

(* The poll dies or the classifier raises: nothing is committed, and the   *)
(* mail stays seen on the server.                                          *)
PollFails ==
    /\ Faults \cap {"death", "exception"} # {}
    /\ crashes < MaxCrashes /\ Spare
    /\ crashes' = crashes + 1
    /\ PollEnds("lost")
    /\ UNCHANGED <<enr, tick, queue, worker, brief, review, redrives, dropped, sendVars,
                   histVars, touchVars, answered>>

-----------------------------------------------------------------------------
(* A person overrides the label of a stored reply.  One short request.     *)
Reclassify(m, label) ==
    /\ inbox[m] = "stored"
    /\ clicks < MaxClicks
    /\ clicks' = clicks + 1
    /\ \E keyword \in BOOLEAN : Classify(LeadOf(m), enr[LeadOf(m)], label, FALSE, keyword)
    /\ UNCHANGED <<tick, queue, worker, brief, crashes, redrives, dropped, msg, sentToday, day,
                   delivered, wire, todays, misfreed, late, armed, request, inbox, poll>>

(* A booking, of a lead in a state it may arrive from; any other booking   *)
(* leaves the lead alone.                                                  *)
MeetingBooked(e) ==
    /\ Defined(enr[e].state, "meeting_booked")
    /\ Write(e, [enr[e] EXCEPT !.state = NextState(@, "meeting_booked"), !.due = FALSE])
    /\ IF enr[e].state = "awaiting_human_touch" THEN Cancel({e}) ELSE UNCHANGED task
    /\ UNCHANGED <<tick, queue, worker, brief, review, crashes, redrives, dropped, sendVars,
                   histVars, armed, request, clicks, crossed, inboxVars>>

-----------------------------------------------------------------------------
Aside(A) == A /\ UNCHANGED inboxVars

InboxAct ==
    \/ Aside(TouchNext)
    \/ \E e \in Enrollments : MeetingBooked(e)
    \/ \E m \in Mails : Arrive(m) \/ Poll(m)
    \/ \E m \in Mails, label \in Labels : Reclassify(m, label)
    \/ PollConfident \/ PollUnsure \/ PollFails

(* Those that have read the task as open and are about to resolve it: the  *)
(* requests past their checks, and the tick that expires it.               *)
Asking(k) == {p \in Requests : request[p] # NoRequest /\ request[p].k = k}
Holders(k) == Cardinality(Asking(k)) + IF Expiring(k) THEN 1 ELSE 0

Cancelled(k) == task'[k] = "cancelled" /\ task[k] # "cancelled"

(* A request ends, the tick commits the expiry, or the task is cancelled.  *)
Settles(k) ==
    \/ \E p \in Asking(k) : request'[p] = NoRequest
    \/ Expiring(k) /\ enr'[k[1]] # enr[k[1]]
    \/ Cancelled(k)

(* One more is about to resolve the task, or cancels it.                   *)
Joins(k) ==
    \/ \E p \in Asking(k)' : request[p] = NoRequest
    \/ ~Expiring(k) /\ Expiring(k)'
    \/ Cancelled(k)

NoteSettling ==
    /\ settled' = [k \in Keys |-> IF Settles(k) THEN settled[k] + 1 ELSE settled[k]]
    /\ rivals' = [k \in Keys |-> IF Joins(k) /\ Holders(k) > 0 THEN rivals[k] + 1 ELSE rivals[k]]

InboxNext == InboxAct /\ NoteSettling

InboxSpec == InboxInit /\ [][InboxNext]_leadVars

(* The fairness of SendPath, for the larger steps, and of a poll.  Nothing *)
(* makes a mail arrive or a person act, but a request ends.                *)
InboxFairness ==
    /\ \A e \in Enrollments : WF_inboxAllVars(Aside(TouchTickStep(e)))
    /\ WF_inboxAllVars(Aside(TouchTickCommit))
    /\ \A w \in Workers :
          /\ WF_inboxAllVars(\E e \in Enrollments, n \in 0..MaxRetries :
                                Aside(TouchTakeJob(w, e, n)))
          /\ WF_inboxAllVars(Aside(TouchWorkerStep(w)))
    /\ \A p \in Requests : WF_inboxAllVars(Aside(Resolve(p)))
    /\ \A k \in Keys : WF_inboxAllVars(Aside(Beside(SweepUnsent(k))))
    /\ WF_inboxAllVars(PollConfident \/ PollUnsure)

FairInboxSpec == InboxSpec /\ InboxFairness

(* The types of the composition, the agreement of tasks and leads that its *)
(* actions rely on, and the timer a queued or waiting lead needs.          *)
InboxInv == InboxTypeOK /\ TaskMatchesLead /\ WaitingStaysArmed

(* touch.py: "only open tasks resolve, so a resolved task can never        *)
(* advance a sequence twice".  Each resolution after the first is that of  *)
(* one who had read the task as open while another was resolving it; no    *)
(* request, expiry or cancellation begins with a task resolved already.    *)
TaskResolvedOnce == \A k \in Keys : settled[k] <= 1 + rivals[k]

-----------------------------------------------------------------------------
(* What the README and the overview say and the code does not do *)

(* README.md: "interested replies stop the sequence": no step of a lead    *)
(* whose interested reply is stored is begun.                              *)
RepliesStopTheSequence ==
    [][\A w \in Workers :
          worker[w] = IdleWorker /\ worker'[w] # IdleWorker =>
              worker'[w].e \notin answered]_inboxAllVars

(* APPLICATION_OVERVIEW.md: "ooo -> ooo_rescheduled -> timer -> resumes    *)
(* the already-queued drip": a lead out of office has a timer.             *)
OutOfOfficeResumes ==
    \A e \in Enrollments :
        enr[e].state = "ooo_rescheduled" => enr[e].due \/ e \in crossed

=============================================================================
