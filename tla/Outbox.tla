------------------------------- MODULE Outbox -------------------------------
(***************************************************************************)
(* What the outbound rows of the messages table promise, without workers,  *)
(* jobs or retries.  A row is opened for a (lead, step), at most one mail  *)
(* goes out under it, and it ends done, with its mail sent, or is          *)
(* cancelled, after which the step may be opened afresh.  A step that is   *)
(* done is never opened again.                                             *)
(*                                                                         *)
(* SendPath and ReplyDraft implement this (OutboxPromise there).           *)
(***************************************************************************)
EXTENDS Naturals

CONSTANT Keys

VARIABLES row,      \* "none", "claimed" or "sent"
          mails     \* mails sent under the present row

vars == <<row, mails>>

Init == row = [k \in Keys |-> "none"] /\ mails = [k \in Keys |-> 0]

Open(k) ==
    /\ row[k] = "none"
    /\ row' = [row EXCEPT ![k] = "claimed"]
    /\ UNCHANGED mails

Mail(k) ==
    /\ row[k] = "claimed" /\ mails[k] = 0
    /\ mails' = [mails EXCEPT ![k] = 1]
    /\ UNCHANGED row

Done(k) ==
    /\ row[k] = "claimed" /\ mails[k] = 1
    /\ row' = [row EXCEPT ![k] = "sent"]
    /\ UNCHANGED mails

Cancel(k) ==
    /\ row[k] = "claimed"
    /\ row' = [row EXCEPT ![k] = "none"]
    /\ mails' = [mails EXCEPT ![k] = 0]

Next == \E k \in Keys : Open(k) \/ Mail(k) \/ Done(k) \/ Cancel(k)

Spec == Init /\ [][Next]_vars
=============================================================================
