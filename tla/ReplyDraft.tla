----------------------------- MODULE ReplyDraft -----------------------------
(***************************************************************************)
(* The answers drafted to the replies of one thread (one enrollment):      *)
(* generate_reply_draft and _maybe_autopilot_send (workers/tasks.py), the  *)
(* dispatch of sender/reply.py and the inbox endpoints.                    *)
(*                                                                         *)
(* A process is a Celery worker running the generation task, which under   *)
(* Autopilot goes on to dispatch its own draft, or an API request in which *)
(* a person sends a draft.  Its program counter:                           *)
(*    generate   claim row committed, LLM writing                          *)
(*    dispatch   in send_reply_draft, before the claim of the draft        *)
(*    claimed    status sending committed, suppression not yet looked at   *)
(*    checked    every check passed, outbound row flushed, not committed   *)
(*    mailed     the SMTP server took the e-mail                           *)
(***************************************************************************)
EXTENDS Naturals, FiniteSets

CONSTANTS Replies,        \* interested and objection replies of the thread
          Procs,          \* worker and API processes
          MaxRetries,     \* max_retries of generate_reply_draft
          Faults,         \* what may go wrong in this instance
          MaxFaults,      \* bound on failures a task does not handle
          MaxClicks,      \* bound on reclassify and send requests
          MaxToggles      \* bound on switches of Autopilot

(*   death       a process dies            exception  code raises          *)
(*   db_error    a commit fails            blocked    mailbox full or slow *)
(*   smtp_error  delivery fails            lost_reply the server took the  *)
(*                                            e-mail, its reply was lost   *)
AllFaults == {"death", "exception", "db_error", "blocked", "smtp_error", "lost_reply"}

ASSUME ReplyDraftAssumption ==
    /\ IsFiniteSet(Procs)
    /\ Faults \subseteq AllFaults
    /\ MaxRetries \in Nat /\ MaxFaults \in Nat /\ MaxClicks \in Nat /\ MaxToggles \in Nat

VARIABLES inbound,      \* how far the poll has come with each reply
          draft,        \* the reply_drafts row of each reply
          queue,        \* generation jobs in Redis
          proc,         \* what each process runs
          enabled,      \* campaigns.autopilot_enabled
          suppressed,   \* the lead is on the suppression list
          unsent,       \* committed outbound rows of replies with sent_at NULL
          freed,        \* campaign slots given back for such rows
          mails,        \* history: e-mails the server took, per draft
          wire,         \*    of those, under the present dispatch claim
          unconfirmed,  \*    of those, under a claim released as not sent
          autoMails, autoUnconfirmed,   \*    the same for automatic dispatches
          late, past,   \* history: e-mails after suppression; dispatches that
                        \*    were past their last check when it came
          stranded,     \* history: drafts whose task or dispatch ended before
                        \*    its handlers could settle them
          faults, clicks, toggles       \* how much of each bound is used

vars == <<inbound, draft, queue, proc, enabled, suppressed, unsent, freed, mails, wire,
          unconfirmed, autoMails, autoUnconfirmed, late, past, stranded, faults, clicks, toggles>>

rowVars == <<draft, queue, unsent>>
mailVars == <<mails, wire, unconfirmed, autoMails, autoUnconfirmed, late>>
restVars == <<inbound, enabled, suppressed, freed, past, clicks, toggles>>
failVars == <<faults, stranded>>

Resolved == {"sent", "edited_sent", "discarded", "skipped", "failed"}
Status == {"none", "generating", "pending", "sending"} \cup Resolved
Draft == [status: Status, auto: BOOLEAN]
NoDraft == [status |-> "none", auto |-> FALSE]

Idle == [pc |-> "idle"]
Dispatching == {"claimed", "checked", "mailed"}
Busy == [pc: {"generate", "dispatch"} \cup Dispatching, d: Replies, n: 0..MaxRetries,
         auto: BOOLEAN, edited: BOOLEAN, enabled: BOOLEAN]
Job == [d: Replies, n: 0..MaxRetries]

TypeOK ==
    /\ inbound \in [Replies -> {"unread", "flushed", "stored"}]
    /\ draft \in [Replies -> Draft]
    /\ queue \in [Job -> Nat]
    /\ proc \in [Procs -> Busy \cup {Idle}]
    /\ enabled \in BOOLEAN /\ suppressed \in BOOLEAN
    /\ unsent \in Nat /\ freed \in Nat
    /\ mails \in [Replies -> Nat] /\ wire \in [Replies -> Nat]
    /\ unconfirmed \in [Replies -> Nat]
    /\ autoMails \in Nat /\ autoUnconfirmed \in Nat
    /\ late \in Nat /\ past \in Nat /\ stranded \subseteq Replies
    /\ faults \in Nat /\ clicks \in Nat /\ toggles \in Nat

Init ==
    /\ inbound = [d \in Replies |-> "unread"]
    /\ draft = [d \in Replies |-> NoDraft]
    /\ queue = [j \in Job |-> 0]
    /\ proc = [p \in Procs |-> Idle]
    /\ enabled \in BOOLEAN
    /\ suppressed = FALSE
    /\ unsent = 0 /\ freed = 0
    /\ mails = [d \in Replies |-> 0]
    /\ wire = [d \in Replies |-> 0]
    /\ unconfirmed = [d \in Replies |-> 0]
    /\ autoMails = 0 /\ autoUnconfirmed = 0 /\ late = 0 /\ past = 0
    /\ stranded = {}
    /\ faults = 0 /\ clicks = 0 /\ toggles = 0

-----------------------------------------------------------------------------
(* Helpers *)

Publish(d) == queue' = [queue EXCEPT ![[d |-> d, n |-> 0]] = @ + 1]

Take(p, j) ==
    /\ proc[p] = Idle
    /\ queue[j] > 0
    /\ queue' = [queue EXCEPT ![j] = @ - 1]

Stop(p) == proc' = [proc EXCEPT ![p] = Idle]

Goto(p, pc) == proc' = [proc EXCEPT ![p].pc = pc]

SetStatus(d, status) == draft' = [draft EXCEPT ![d].status = status]

(* _release: an undispatched draft holds no reservation of the thread.     *)
Release(d, status) == draft' = [draft EXCEPT ![d] = [status |-> status, auto |-> FALSE]]

(* prior_auto_replies                                                      *)
PriorAuto == {d \in Replies : draft[d].auto /\ draft[d].status \in {"sent", "edited_sent"}}

UseFault == faults < MaxFaults /\ faults' = faults + 1

(* What process p has in progress is left as it is, by nobody's choice     *)
(* (history only).  A dispatch without its claim has nothing in progress.  *)
Strands(p) ==
    stranded' = IF proc[p].pc = "dispatch" THEN stranded ELSE stranded \cup {proc[p].d}

-----------------------------------------------------------------------------
(* The poll, the reclassify endpoint, the switches *)

(* handle_inbound flushes the inbound row and publishes the drafting job;  *)
(* poll_inboxes commits when it is through with all mailboxes.             *)
Poll(d) ==
    /\ inbound[d] = "unread"
    /\ inbound' = [inbound EXCEPT ![d] = "flushed"]
    /\ Publish(d)
    /\ UNCHANGED <<draft, proc, enabled, suppressed, unsent, freed, mailVars, past,
                   failVars, clicks, toggles>>

PollCommit(d) ==
    /\ inbound[d] = "flushed"
    /\ inbound' = [inbound EXCEPT ![d] = "stored"]
    /\ UNCHANGED <<rowVars, proc, enabled, suppressed, freed, mailVars, past,
                   failVars, clicks, toggles>>

Reclassify(d) ==
    /\ inbound[d] = "stored"
    /\ clicks < MaxClicks
    /\ clicks' = clicks + 1
    /\ Publish(d)
    /\ UNCHANGED <<inbound, draft, proc, enabled, suppressed, unsent, freed, mailVars, past,
                   failVars, toggles>>

Toggle ==
    /\ toggles < MaxToggles
    /\ toggles' = toggles + 1
    /\ enabled' = ~enabled
    /\ UNCHANGED <<inbound, rowVars, proc, suppressed, freed, mailVars, past, failVars, clicks>>

Suppress ==
    /\ ~suppressed
    /\ suppressed' = TRUE
    /\ past' = Cardinality({p \in Procs : proc[p].pc = "checked"})
    /\ UNCHANGED <<inbound, rowVars, proc, enabled, freed, mailVars, failVars, clicks, toggles>>

-----------------------------------------------------------------------------
(* generate_reply_draft *)

(* The task returns: its inbound row is not there, the lead is suppressed, *)
(* or the reply has a draft already (uq_reply_draft_inbound).  It is used  *)
(* up too if it raises before its claim.                                   *)
StartDropped(p, d, n) ==
    /\ Take(p, [d |-> d, n |-> n])
    /\ \/ inbound[d] # "stored" \/ suppressed \/ draft[d].status # "none"
       \/ "exception" \in Faults
    /\ UNCHANGED <<draft, proc, unsent, mailVars, restVars, failVars>>

(* Mutant: uq_reply_draft_inbound missing, the claim of another task that  *)
(* is still generating goes unnoticed.                                     *)
StartTwice(p, d, n) ==
    /\ Take(p, [d |-> d, n |-> n])
    /\ inbound[d] = "stored" /\ ~suppressed
    /\ draft[d].status \in {"none", "generating"}
    /\ SetStatus(d, "generating")
    /\ proc' = [proc EXCEPT ![p] = [pc |-> "generate", d |-> d, n |-> n, auto |-> TRUE,
                                    edited |-> FALSE, enabled |-> enabled]]
    /\ UNCHANGED <<unsent, mailVars, restVars, failVars>>

(* The campaign row is loaded here and kept for the rest of the task.      *)
StartDraft(p, d, n) ==
    /\ Take(p, [d |-> d, n |-> n])
    /\ inbound[d] = "stored" /\ ~suppressed /\ draft[d].status = "none"
    /\ SetStatus(d, "generating")
    /\ proc' = [proc EXCEPT ![p] = [pc |-> "generate", d |-> d, n |-> n, auto |-> TRUE,
                                    edited |-> FALSE, enabled |-> enabled]]
    /\ UNCHANGED <<unsent, mailVars, restVars, failVars>>

(* The LLM call raises: delete the claim and retry.                        *)
GenerateFailed(p) ==
    LET d == proc[p].d  n == proc[p].n IN
    /\ "exception" \in Faults
    /\ proc[p].pc = "generate"
    /\ SetStatus(d, "none")
    /\ IF n < MaxRetries THEN queue' = [queue EXCEPT ![[d |-> d, n |-> n + 1]] = @ + 1]
                         ELSE UNCHANGED queue
    /\ Stop(p)
    /\ UNCHANGED <<unsent, mailVars, restVars, failVars>>

(* Between the claim and the call, or in the policy of Autopilot, code     *)
(* raises that no handler surrounds, or the commit that ends the task      *)
(* fails: the job is used up and the row stays generating.                 *)
GenerateStranded(p) ==
    /\ Faults \cap {"exception", "db_error"} # {}
    /\ proc[p].pc = "generate"
    /\ UseFault /\ Strands(p)
    /\ Stop(p)
    /\ UNCHANGED <<rowVars, mailVars, restVars>>

(* The draft is left to a person: not drafted on purpose, rejected twice,  *)
(* or pending, when Autopilot is off or one of its gates refuses.          *)
DraftForHuman(p) ==
    /\ proc[p].pc = "generate"
    /\ \E status \in {"skipped", "failed", "pending"} : SetStatus(proc[p].d, status)
    /\ Stop(p)
    /\ UNCHANGED <<queue, unsent, mailVars, restVars, failVars>>

(* decide() says send: the pending draft is committed, dispatch follows.   *)
DraftForAutopilot(p) ==
    /\ proc[p].pc = "generate"
    /\ proc[p].enabled
    /\ PriorAuto = {}
    /\ SetStatus(proc[p].d, "pending")
    /\ Goto(p, "dispatch")
    /\ UNCHANGED <<queue, unsent, mailVars, restVars, failVars>>

-----------------------------------------------------------------------------
(* send_reply_draft *)

(* A person sends a draft, as it is or edited.                             *)
Click(p, d, edited) ==
    /\ proc[p] = Idle
    /\ draft[d].status # "none"
    /\ clicks < MaxClicks
    /\ clicks' = clicks + 1
    /\ proc' = [proc EXCEPT ![p] = [pc |-> "dispatch", d |-> d, n |-> 0, auto |-> FALSE,
                                    edited |-> edited, enabled |-> FALSE]]
    /\ UNCHANGED <<inbound, rowVars, enabled, suppressed, freed, mailVars, past,
                   failVars, toggles>>

(* Mutant: a thread is taken only once an automatic reply was recorded.    *)
ThreadTakenBySent(d) == \E i \in PriorAuto \ {d} : TRUE

(* uq_auto_reply_per_thread                                                *)
ThreadTaken(d) == \E i \in Replies \ {d} : draft[i].auto

(* Mutant: the claim is an unconditional UPDATE.                           *)
ClaimWithoutCAS(p) ==
    LET d == proc[p].d IN
    /\ proc[p].pc = "dispatch"
    /\ proc[p].auto => ~ThreadTaken(d)
    /\ draft' = [draft EXCEPT ![d] = [status |-> "sending",
                                      auto |-> proc[p].auto \/ draft[d].auto]]
    /\ Goto(p, "claimed")
    /\ UNCHANGED <<queue, unsent, mailVars, restVars, failVars>>

(* _claim: pending to sending in one conditional UPDATE, committed.        *)
ClaimDraft(p) ==
    LET d == proc[p].d IN
    /\ proc[p].pc = "dispatch"
    /\ draft[d].status = "pending"
    /\ proc[p].auto => ~ThreadTaken(d)
    /\ draft' = [draft EXCEPT ![d] = [status |-> "sending",
                                      auto |-> proc[p].auto \/ draft[d].auto]]
    /\ Goto(p, "claimed")
    /\ UNCHANGED <<queue, unsent, mailVars, restVars, failVars>>

ClaimRefused(p) ==
    LET d == proc[p].d IN
    /\ proc[p].pc = "dispatch"
    /\ \/ draft[d].status # "pending"
       \/ proc[p].auto /\ ThreadTaken(d)
       \/ proc[p].edited                \* the edited body fails validation
       \/ "exception" \in Faults        \* anything raises before the claim
    /\ Stop(p)
    /\ UNCHANGED <<rowVars, mailVars, restVars, failVars>>

(* Mutants: a refused send is recorded as a status the inbox does not      *)
(* know; it keeps its claim.                                               *)
BlockedIsAStatus(p) ==
    /\ proc[p].pc = "claimed"
    /\ \/ suppressed /\ Release(proc[p].d, "discarded")
       \/ ~suppressed /\ "blocked" \in Faults /\ Release(proc[p].d, "blocked")
    /\ Stop(p)
    /\ UNCHANGED <<queue, unsent, mailVars, restVars, failVars>>

BlockedKeepsClaim(p) ==
    /\ proc[p].pc = "claimed"
    /\ \/ suppressed /\ Release(proc[p].d, "discarded")
       \/ ~suppressed /\ "blocked" \in Faults /\ UNCHANGED draft
    /\ Stop(p)
    /\ UNCHANGED <<queue, unsent, mailVars, restVars, failVars>>

(* Suppressed: discarded for good.  No mailbox or rate limited: pending.   *)
SendBlocked(p) ==
    /\ proc[p].pc = "claimed"
    /\ \/ suppressed /\ Release(proc[p].d, "discarded")
       \/ ~suppressed /\ "blocked" \in Faults /\ Release(proc[p].d, "pending")
    /\ Stop(p)
    /\ UNCHANGED <<queue, unsent, mailVars, restVars, failVars>>

(* Mutant: suppression is looked at only when the reply is drafted.        *)
SuppressionUnchecked(p) ==
    /\ proc[p].pc = "claimed"
    /\ Goto(p, "checked")
    /\ UNCHANGED <<rowVars, mailVars, restVars, failVars>>

CheckPassed(p) ==
    /\ proc[p].pc = "claimed"
    /\ ~suppressed
    /\ Goto(p, "checked")
    /\ UNCHANGED <<rowVars, mailVars, restVars, failVars>>

(* The SMTP server takes the e-mail (history only).                        *)
Accepted(p) ==
    /\ mails' = [mails EXCEPT ![proc[p].d] = @ + 1]
    /\ autoMails' = IF proc[p].auto THEN autoMails + 1 ELSE autoMails
    /\ late' = IF suppressed THEN late + 1 ELSE late

(* A mail that went out is written off as not sent (history only).         *)
WrittenOff(p) ==
    /\ unconfirmed' = [unconfirmed EXCEPT ![proc[p].d] = @ + 1]
    /\ autoUnconfirmed' = IF proc[p].auto THEN autoUnconfirmed + 1 ELSE autoUnconfirmed

Deliver(p) ==
    /\ proc[p].pc = "checked"
    /\ Accepted(p)
    /\ wire' = [wire EXCEPT ![proc[p].d] = @ + 1]
    /\ Goto(p, "mailed")
    /\ UNCHANGED <<rowVars, unconfirmed, autoUnconfirmed, restVars, failVars>>

(* Mutant: a draft whose delivery failed is resolved as sent.              *)
FailureIsSent(p) ==
    /\ proc[p].pc = "checked"
    /\ "smtp_error" \in Faults
    /\ SetStatus(proc[p].d, "sent")
    /\ Stop(p)
    /\ UNCHANGED <<queue, unsent, mailVars, restVars, failVars>>

(* deliver() raises: drop the outbound row, back to pending.               *)
DeliveryFailed(p) ==
    /\ proc[p].pc = "checked"
    /\ \/ "smtp_error" \in Faults /\ UNCHANGED mailVars
       \/ "lost_reply" \in Faults /\ Accepted(p) /\ WrittenOff(p) /\ UNCHANGED wire
    /\ Release(proc[p].d, "pending")
    /\ Stop(p)
    /\ UNCHANGED <<queue, unsent, restVars, failVars>>

Finish(p) ==
    /\ proc[p].pc = "mailed"
    /\ draft' = [draft EXCEPT ![proc[p].d] =
           [status |-> IF proc[p].edited THEN "edited_sent" ELSE "sent",
            auto |-> proc[p].auto]]
    /\ Stop(p)
    /\ UNCHANGED <<queue, unsent, mailVars, restVars, failVars>>

(* The handler of any other exception puts the draft back to pending and   *)
(* commits.  Between flush and delivery this commits the outbound row too, *)
(* with sent_at NULL; after delivery it forgets that the e-mail went out.  *)
UnexpectedFailure(p) ==
    /\ "exception" \in Faults
    /\ proc[p].pc \in Dispatching
    /\ UseFault
    /\ Release(proc[p].d, "pending")
    /\ unsent' = IF proc[p].pc = "checked" THEN unsent + 1 ELSE unsent
    /\ IF proc[p].pc = "mailed"
       THEN WrittenOff(p) /\ wire' = [wire EXCEPT ![proc[p].d] = 0]
                          /\ UNCHANGED <<mails, autoMails, late>>
       ELSE UNCHANGED mailVars
    /\ Stop(p)
    /\ UNCHANGED <<queue, restVars, stranded>>

(* The commit at the end of the dispatch fails.  The draft in memory is    *)
(* "sent" by then (or cannot be read any more), so the handler does not    *)
(* release it, but the row is still "sending".  So it is when the database *)
(* fails the handlers of an earlier failure too.                           *)
CommitFailed(p) ==
    /\ "db_error" \in Faults
    /\ proc[p].pc \in Dispatching
    /\ UseFault /\ Strands(p)
    /\ Stop(p)
    /\ UNCHANGED <<rowVars, mailVars, restVars>>

(* Mutant: discard takes a draft of any kind.                              *)
DiscardAny(d) ==
    /\ draft[d].status # "none"
    /\ SetStatus(d, "discarded")
    /\ UNCHANGED <<queue, proc, unsent, mailVars, restVars, failVars>>

(* discard_reply_draft: pending to discarded in one conditional UPDATE.    *)
DiscardDraft(d) ==
    /\ draft[d].status = "pending"
    /\ SetStatus(d, "discarded")
    /\ UNCHANGED <<queue, proc, unsent, mailVars, restVars, failVars>>

-----------------------------------------------------------------------------
(* A process dies; a task's job is delivered again or, when only the child *)
(* process was killed, acknowledged.                                       *)
Crash(p) ==
    /\ "death" \in Faults
    /\ proc[p] # Idle
    /\ UseFault /\ Strands(p)
    /\ Stop(p)
    /\ \/ UNCHANGED queue
       \/ /\ proc[p].auto
          /\ queue' = [queue EXCEPT ![[d |-> proc[p].d, n |-> proc[p].n]] = @ + 1]
    /\ UNCHANGED <<draft, unsent, mailVars, restVars>>

(* redrive_unsent_claims does not ask whether the row is a reply: it frees *)
(* a slot of the campaign and of the org for it.                           *)
SweepUnsent ==
    /\ unsent > 0
    /\ unsent' = unsent - 1
    /\ freed' = freed + 1
    /\ UNCHANGED <<inbound, draft, queue, proc, enabled, suppressed, mailVars, past,
                   failVars, clicks, toggles>>

-----------------------------------------------------------------------------
TakeJob(p) ==
    \E d \in Replies, n \in 0..MaxRetries : StartDropped(p, d, n) \/ StartDraft(p, d, n)

Progress(p) ==
    \/ GenerateFailed(p) \/ GenerateStranded(p) \/ DraftForHuman(p) \/ DraftForAutopilot(p)
    \/ ClaimDraft(p) \/ ClaimRefused(p) \/ SendBlocked(p) \/ CheckPassed(p)
    \/ Deliver(p) \/ DeliveryFailed(p) \/ Finish(p) \/ UnexpectedFailure(p) \/ CommitFailed(p)

Next ==
    \/ \E d \in Replies : Poll(d) \/ PollCommit(d) \/ Reclassify(d) \/ DiscardDraft(d)
    \/ Toggle \/ Suppress \/ SweepUnsent
    \/ \E p \in Procs :
          \/ TakeJob(p) \/ Progress(p) \/ Crash(p)
          \/ \E d \in Replies, edited \in BOOLEAN : Click(p, d, edited)

Spec == Init /\ [][Next]_vars

(* Beat runs the poll, workers take jobs, and the calls of a running task  *)
(* or request return.  People and failures need not act.                   *)
Fairness ==
    /\ \A d \in Replies : WF_vars(Poll(d)) /\ WF_vars(PollCommit(d))
    /\ \A p \in Procs : WF_vars(TakeJob(p)) /\ WF_vars(Progress(p))

FairSpec == Spec /\ Fairness

-----------------------------------------------------------------------------
(* Safety *)

(* A draft's e-mail goes out a second time only after a dispatch that sent *)
(* it was written off as failed: double clicks, Autopilot racing a person, *)
(* duplicate jobs and crashes never cause one.                             *)
OneMailPerDraft == \A d \in Replies : mails[d] <= 1 + unconfirmed[d]

(* Autopilot answers a thread once, but for answers written off as failed, *)
(* however many replies its workers handle at the same time.               *)
OneAutoReply == autoMails <= 1 + autoUnconfirmed

(* A reply is drafted by one task at a time, and what the LLM wrote never  *)
(* overwrites a draft a person can see: the row stays generating until its *)
(* task is through with it.  Inductive.                                    *)
GenerateOwned ==
    /\ \A p \in Procs : proc[p].pc = "generate" => draft[proc[p].d].status = "generating"
    /\ \A p, q \in Procs :
          proc[p].pc = "generate" /\ proc[q].pc = "generate" /\ proc[p].d = proc[q].d
              => p = q

(* A dispatch and the draft it claimed belong together: the draft is       *)
(* sending, no other process dispatches it, what has gone out is what the  *)
(* program counter says, and its flag tells an automatic dispatch.  A      *)
(* thread has at most one such flag and it means sending or sent.          *)
DispatchOwned ==
    /\ \A p \in Procs : proc[p].pc \in Dispatching =>
          /\ draft[proc[p].d] = [status |-> "sending", auto |-> proc[p].auto]
          /\ wire[proc[p].d] = IF proc[p].pc = "mailed" THEN 1 ELSE 0
    /\ \A p, q \in Procs :
          proc[p].pc \in Dispatching /\ proc[q].pc \in Dispatching /\ proc[p].d = proc[q].d
              => p = q
    /\ \A d \in Replies :
          /\ wire[d] \in 0..1
          /\ wire[d] = 1 => draft[d].status \in {"sending", "sent", "edited_sent"}
          /\ draft[d].status \in {"sent", "edited_sent"} => wire[d] = 1
          /\ draft[d].auto => draft[d].status \in {"sending", "sent", "edited_sent"}
    /\ \A d, i \in Replies : draft[d].auto /\ draft[i].auto => d = i

(* Together: a draft in progress belongs to one task or one dispatch.      *)
DraftsOwned == GenerateOwned /\ DispatchOwned

(* Once the lead is suppressed, only dispatches past their last check send *)
(* to it, each once: neither a click nor a job starts a new one.           *)
SuppressionStops == late <= past

(* Replies take no slot of the campaign, and one is given back for a reply *)
(* only after an unexpected failure committed its row unsent: refusals,    *)
(* failed deliveries and crashes leave the campaign's counter alone.       *)
SlotsFreedByFailure == freed + unsent <= faults

(* A draft that was sent, discarded, skipped or failed never changes again,*)
(* so no late worker or click undoes what a person was shown.              *)
ResolvedIsFinal ==
    [][\A d \in Replies : draft[d].status \in Resolved => draft'[d] = draft[d]]_vars

(* A draft being written or sent ends up pending, resolved or deleted,     *)
(* whatever is refused, blocked or fails on the way, unless the very task  *)
(* or dispatch that has it dies, fails to commit, or raises where no       *)
(* handler surrounds it: then nothing takes the draft up again.            *)
InProgress == {"generating", "sending"}

DraftsSettle ==
    \A d \in Replies :
        draft[d].status \in InProgress ~> draft[d].status \notin InProgress \/ d \in stranded

(* Drafts keep the promise of Outbox, a draft that may be sent being a     *)
(* mail not yet opened.                                                    *)
OutboxRow(status) == CASE status = "sending" -> "claimed"
                       [] status \in {"sent", "edited_sent"} -> "sent"
                       [] OTHER -> "none"

Outbox == INSTANCE Outbox WITH Keys <- Replies,
                               row <- [d \in Replies |-> OutboxRow(draft[d].status)],
                               mails <- wire

OutboxPromise == Outbox!Spec

-----------------------------------------------------------------------------
(* What comments and docs of the repository say and the code does not do *)

(* api/routers/campaigns.py on the kill switch: "instant: the flag is read *)
(* fresh at every policy evaluation".                                      *)
KillSwitchIsFresh == [][\A p \in Procs : DraftForAutopilot(p) => enabled]_vars

(* inbox/pipeline.py: "interested/objection replies get a validated draft  *)
(* queued for a human" (unless the lead is suppressed).                    *)
ReplyGetsDraft ==
    \A d \in Replies :
        inbound[d] = "stored" ~> (draft[d].status # "none" \/ suppressed)
=============================================================================
