------------------------------ MODULE SendPath ------------------------------
(***************************************************************************)
(* The e-mail send path: generate_and_send (workers/tasks.py), the slot    *)
(* counters of sender/smtp.py, the sweep of unsent claims                  *)
(* (sequencer/redrive.py), the daily reset and the suppression list.       *)
(*                                                                         *)
(* generate_and_send commits three times: after it reserved a slot of the  *)
(* campaign's and of the org's daily cap, after it inserted the outbound   *)
(* message row that claims the step, and at the end.  Its program counter  *)
(* is the last point it passed:                                            *)
(*    generate    row loaded, LLM writing the copy                         *)
(*    reserved    slots committed                                          *)
(*    claimed     outbound row committed with sent_at NULL                 *)
(*    delivered   the SMTP server took the e-mail                          *)
(***************************************************************************)
EXTENDS Sequencer

CONSTANTS Cap,            \* daily cap of each quota
          MaxDays         \* bound on daily resets

Quotas == {"campaign", "org"}

ASSUME SendPathAssumption ==
    /\ Cap \in [Quotas -> Nat]
    /\ MaxDays \in Nat

Keys == Enrollments \X Steps      \* what uq_outbound_step makes unique

VARIABLES msg,          \* the outbound messages row of each (enrollment, step)
          sentToday,    \* campaigns.sent_today and orgs.sent_today
          suppressed,   \* leads on the suppression list
          day,          \* daily resets so far
          delivered,    \* e-mails the SMTP server took, ever
          wire,         \* of those, the ones under the present message row
          todays,       \* e-mails taken today on slots reserved today
          misfreed,     \* slots given back today that were not today's, or whose
                        \* e-mail had gone out
          late,         \* e-mails taken after the lead was suppressed
          past          \* tasks past their last check when it was suppressed

sendVars == <<msg, sentToday, suppressed, day>>
histVars == <<delivered, wire, todays, misfreed, late, past>>
vars == <<seqVars, sendVars, histVars>>

Message == [status: {"none", "claimed", "sent"}, day: Nat]
NoMessage == [status |-> "none", day |-> 0]

SendTypeOK ==
    /\ msg \in [Keys -> Message]
    /\ sentToday \in [Quotas -> Nat]
    /\ suppressed \subseteq Enrollments
    /\ day \in Nat
    /\ delivered \in [Keys -> Nat]
    /\ wire \in [Keys -> Nat]
    /\ todays \in Nat /\ misfreed \in Nat
    /\ late \in [Enrollments -> Nat]
    /\ past \in [Enrollments -> Nat]

TypeOK == SequencerTypeOK /\ SendTypeOK

Init ==
    /\ SequencerInit
    /\ msg = [k \in Keys |-> NoMessage]
    /\ sentToday = [q \in Quotas |-> 0]
    /\ suppressed = {}
    /\ day = 0
    /\ delivered = [k \in Keys |-> 0]
    /\ wire = [k \in Keys |-> 0]
    /\ todays = 0 /\ misfreed = 0
    /\ late = [e \in Enrollments |-> 0]
    /\ past = [e \in Enrollments |-> 0]

KeyOf(w) == <<worker[w].e, worker[w].step>>

-----------------------------------------------------------------------------
(* Daily slots *)

(* reserve_campaign_slot, then reserve_org_slot: one conditional UPDATE    *)
(* each.  A refusal by the org gives the campaign's slot back in the same  *)
(* transaction.                                                            *)
SlotFree == \A q \in Quotas : sentToday[q] < Cap[q]

(* Mutant: the org's cap is forgotten.                                    *)
ReserveCampaignOnly ==
    /\ sentToday["campaign"] < Cap["campaign"]
    /\ sentToday' = [q \in Quotas |-> sentToday[q] + 1]

ReserveSlots == SlotFree /\ sentToday' = [q \in Quotas |-> sentToday[q] + 1]

(* Mutant: the release lacks the condition sent_today > 0.                 *)
ReleaseBelowZero(reservedOn, gone) ==
    /\ sentToday' = [q \in Quotas |-> sentToday[q] - 1]
    /\ misfreed' = IF reservedOn # day \/ gone THEN misfreed + 1 ELSE misfreed

(* release_campaign_slot and release_org_slot decrement today's counters,  *)
(* whatever day the slot is of; reservedOn and gone only feed the history. *)
ReleaseSlots(reservedOn, gone) ==
    /\ sentToday' = [q \in Quotas |-> IF sentToday[q] > 0 THEN sentToday[q] - 1 ELSE 0]
    /\ misfreed' = IF reservedOn # day \/ gone THEN misfreed + 1 ELSE misfreed

(* reset_daily_counters *)
DailyReset ==
    /\ day < MaxDays
    /\ day' = day + 1
    /\ sentToday' = [q \in Quotas |-> 0]
    /\ todays' = 0 /\ misfreed' = 0
    /\ UNCHANGED <<seqVars, msg, suppressed, delivered, wire, late, past>>

-----------------------------------------------------------------------------
(* generate_and_send, from the job to the end of its pre-send checks *)

StartSend(w, e, n) ==
    /\ Take(w, "send", e, n)
    /\ enr[e].state = "ready"
    /\ e \notin suppressed
    /\ Channel[AtLeastOne(enr[e].step)] = "email"
    /\ Run(w, "generate", e, n)
    /\ UNCHANGED <<enr, tick, brief, review, crashes, redrives, dropped, sendVars, histVars>>

(* The address is suppressed, or the step has no active variant.           *)
StartRefused(w, e, n) ==
    /\ Take(w, "send", e, n)
    /\ enr[e].state = "ready"
    /\ \/ /\ e \in suppressed
          /\ Write(e, After(e, "unsubscribe"))
       \/ /\ e \notin suppressed
          /\ "bad_copy" \in Faults
          /\ Channel[AtLeastOne(enr[e].step)] = "email"
          /\ Write(e, After(e, "send_failed"))
    /\ UNCHANGED <<tick, worker, brief, review, crashes, redrives, dropped, sendVars, histVars>>

(* The channel guard: a send job that finds a task step hands it to the    *)
(* task generator.                                                         *)
Reroute(w, e, n) ==
    /\ worker[w] = IdleWorker
    /\ LET j == [kind |-> "send", e |-> e, n |-> n]
           t == [kind |-> "touch", e |-> e, n |-> 0] IN
       queue[j] > 0 /\ queue' = [queue EXCEPT ![j] = @ - 1, ![t] = @ + 1]
    /\ enr[e].state = "ready"
    /\ e \notin suppressed
    /\ Channel[AtLeastOne(enr[e].step)] = "task"
    /\ UNCHANGED <<enr, tick, worker, brief, review, crashes, redrives, dropped,
                   sendVars, histVars>>

(* The copy failed validation twice: the row goes to error and a person    *)
(* gets a review item.                                                     *)
CopyRejected(w) ==
    LET e == worker[w].e IN
    /\ "bad_copy" \in Faults
    /\ worker[w].pc = "generate"
    /\ Write(e, [enr[e] EXCEPT !.state = "error"])
    /\ review' = review \cup {e}
    /\ Stop(w)
    /\ UNCHANGED <<tick, queue, brief, crashes, redrives, dropped, sendVars, histVars>>

(* run_presend_checks finds the address suppressed: UNSUBSCRIBE is applied *)
(* to the loaded row, in state ready.                                      *)
PresendSuppressed(w) ==
    LET e == worker[w].e IN
    /\ worker[w].pc = "generate"
    /\ e \in suppressed
    /\ Write(e, [enr[e] EXCEPT !.state = NextState("ready", "unsubscribe")])
    /\ Stop(w)
    /\ UNCHANGED <<tick, queue, brief, review, crashes, redrives, dropped, sendVars, histVars>>

(* No mailbox has capacity or a rate limit says wait (both external to     *)
(* this module: any send may meet them), or a daily cap is reached: retry. *)
PresendBlocked(w) ==
    /\ worker[w].pc = "generate"
    /\ worker[w].e \notin suppressed
    /\ "no_capacity" \in Faults \/ ~SlotFree
    /\ Retry(w)
    /\ Stop(w)
    /\ UNCHANGED <<enr, tick, brief, review, crashes, redrives, sendVars, histVars>>

(* Mutant: suppression is not checked again after the copy is written.     *)
ReserveUnchecked(w) ==
    /\ worker[w].pc = "generate"
    /\ ReserveSlots
    /\ worker' = [worker EXCEPT ![w].pc = "reserved", ![w].day = day]
    /\ UNCHANGED <<enr, tick, queue, brief, review, crashes, redrives, dropped,
                   msg, suppressed, day, histVars>>

Reserve(w) ==
    /\ worker[w].pc = "generate"
    /\ worker[w].e \notin suppressed
    /\ ReserveSlots
    /\ worker' = [worker EXCEPT ![w].pc = "reserved", ![w].day = day]
    /\ UNCHANGED <<enr, tick, queue, brief, review, crashes, redrives, dropped,
                   msg, suppressed, day, histVars>>

-----------------------------------------------------------------------------
(* generate_and_send, from the claim to the end *)

(* Mutants: no unique index on the claim; sent_at is set by the claim.     *)
ClaimNotUnique(w) ==
    /\ worker[w].pc = "reserved"
    /\ msg' = [msg EXCEPT ![KeyOf(w)] = [status |-> "claimed", day |-> worker[w].day]]
    /\ worker' = [worker EXCEPT ![w].pc = "claimed"]
    /\ UNCHANGED <<enr, tick, queue, brief, review, crashes, redrives, dropped,
                   sentToday, suppressed, day, histVars>>

ClaimAsSent(w) ==
    /\ worker[w].pc = "reserved"
    /\ msg[KeyOf(w)].status = "none"
    /\ msg' = [msg EXCEPT ![KeyOf(w)] = [status |-> "sent", day |-> worker[w].day]]
    /\ worker' = [worker EXCEPT ![w].pc = "claimed"]
    /\ UNCHANGED <<enr, tick, queue, brief, review, crashes, redrives, dropped,
                   sentToday, suppressed, day, histVars>>

Claim(w) ==
    /\ worker[w].pc = "reserved"
    /\ msg[KeyOf(w)].status = "none"
    /\ msg' = [msg EXCEPT ![KeyOf(w)] = [status |-> "claimed", day |-> worker[w].day]]
    /\ worker' = [worker EXCEPT ![w].pc = "claimed"]
    /\ UNCHANGED <<enr, tick, queue, brief, review, crashes, redrives, dropped,
                   sentToday, suppressed, day, histVars>>

(* Mutant: a duplicate claim is taken to mean the step was sent.           *)
DuplicateAdvances(w) ==
    LET e == worker[w].e IN
    /\ worker[w].pc = "reserved"
    /\ msg[KeyOf(w)].status # "none"
    /\ ReleaseSlots(worker[w].day, FALSE)
    /\ Write(e, [enr[e] EXCEPT !.state = "waiting", !.due = TRUE, !.step = AtLeastOne(@)])
    /\ Stop(w)
    /\ UNCHANGED <<tick, queue, brief, review, crashes, redrives, dropped,
                   msg, suppressed, day, delivered, wire, todays, late, past>>

(* IntegrityError: another attempt holds or finished this step.            *)
DuplicateClaim(w) ==
    /\ worker[w].pc = "reserved"
    /\ msg[KeyOf(w)].status # "none"
    /\ ReleaseSlots(worker[w].day, FALSE)
    /\ Stop(w)
    /\ Drop(worker[w].e)
    /\ UNCHANGED <<enr, tick, queue, brief, review, crashes, redrives,
                   msg, suppressed, day, delivered, wire, todays, late, past>>

(* The SMTP server takes the e-mail (history only: nothing is stored yet). *)
Accepted(w) ==
    LET k == KeyOf(w)  e == worker[w].e IN
    /\ delivered' = [delivered EXCEPT ![k] = @ + 1]
    /\ todays' = IF worker[w].day = day THEN todays + 1 ELSE todays
    /\ late' = IF e \in suppressed THEN [late EXCEPT ![e] = @ + 1] ELSE late

Deliver(w) ==
    /\ worker[w].pc = "claimed"
    /\ Accepted(w)
    /\ wire' = [wire EXCEPT ![KeyOf(w)] = @ + 1]
    /\ worker' = [worker EXCEPT ![w].pc = "delivered"]
    /\ UNCHANGED <<enr, tick, queue, brief, review, crashes, redrives, dropped,
                   sendVars, misfreed, past>>

(* deliver() raised: delete the claim, give the slots back, retry.  The    *)
(* code takes the exception to mean the server did not get the e-mail; the *)
(* second disjunct is the exchange that broke after it had.                *)
DeliverFailed(w) ==
    /\ worker[w].pc = "claimed"
    /\ \/ /\ "smtp_error" \in Faults
          /\ ReleaseSlots(worker[w].day, FALSE)
          /\ UNCHANGED <<delivered, todays, late, past>>
       \/ /\ "lost_reply" \in Faults
          /\ Accepted(w)
          /\ ReleaseSlots(worker[w].day, TRUE)
    /\ msg' = [msg EXCEPT ![KeyOf(w)] = NoMessage]
    /\ wire' = [wire EXCEPT ![KeyOf(w)] = 0]
    /\ Retry(w)
    /\ Stop(w)
    /\ UNCHANGED <<enr, tick, brief, review, crashes, redrives, suppressed, day, past>>

(* Mutant: the next step is not scheduled.                                 *)
FinalizeUnscheduled(w) ==
    LET e == worker[w].e IN
    /\ worker[w].pc = "delivered"
    /\ msg' = [msg EXCEPT ![KeyOf(w)].status = "sent"]
    /\ Write(e, [enr[e] EXCEPT !.state = NextState("ready", "send_ok"),
                               !.step = worker[w].step])
    /\ Stop(w)
    /\ UNCHANGED <<tick, queue, brief, review, crashes, redrives, dropped,
                   sentToday, suppressed, day, histVars>>

(* The row written is the one loaded in state ready: SEND_OK makes it      *)
(* waiting whatever it holds now, and current_step is written only if this *)
(* changes the loaded value.                                               *)
Finalize(w) ==
    LET e == worker[w].e IN
    /\ worker[w].pc = "delivered"
    /\ msg' = [msg EXCEPT ![KeyOf(w)].status = "sent"]
    /\ Write(e, [enr[e] EXCEPT !.state = NextState("ready", "send_ok"), !.due = TRUE,
                               !.step = IF worker[w].first THEN worker[w].step ELSE @])
    /\ Stop(w)
    /\ UNCHANGED <<tick, queue, brief, review, crashes, redrives, dropped,
                   sentToday, suppressed, day, histVars>>

-----------------------------------------------------------------------------
(* Beat jobs and the unsubscribe link *)

Sending(w) == worker[w].pc \in {"claimed", "delivered"}

InFlight(k) == \E w \in Workers : Sending(w) /\ KeyOf(w) = k

(* Mutants: the sweep has no age cutoff; it sweeps only for ready leads.   *)
SweepTooEarly(k) ==
    LET e == k[1] IN
    /\ msg[k].status = "claimed"
    /\ msg' = [msg EXCEPT ![k] = NoMessage]
    /\ wire' = [wire EXCEPT ![k] = 0]
    /\ ReleaseSlots(msg[k].day, wire[k] > 0)
    /\ IF enr[e].state = "ready" THEN Write(e, [enr[e] EXCEPT !.due = TRUE])
                                 ELSE UNCHANGED enr
    /\ UNCHANGED <<tick, queue, worker, brief, review, crashes, redrives, dropped,
                   suppressed, day, delivered, todays, late, past>>

SweepReadyOnly(k) ==
    LET e == k[1] IN
    /\ enr[e].state = "ready"
    /\ msg[k].status = "claimed"
    /\ ~InFlight(k)
    /\ msg' = [msg EXCEPT ![k] = NoMessage]
    /\ wire' = [wire EXCEPT ![k] = 0]
    /\ ReleaseSlots(msg[k].day, wire[k] > 0)
    /\ Write(e, [enr[e] EXCEPT !.due = TRUE])
    /\ UNCHANGED <<tick, queue, worker, brief, review, crashes, redrives, dropped,
                   suppressed, day, delivered, todays, late, past>>

(* redrive_unsent_claims, for one claim past the age cutoff.  The cutoff   *)
(* (15 minutes) is far beyond the SMTP timeouts, so a claim that old has   *)
(* no worker left.                                                         *)
SweepUnsent(k) ==
    LET e == k[1] IN
    /\ msg[k].status = "claimed"
    /\ ~InFlight(k)
    /\ msg' = [msg EXCEPT ![k] = NoMessage]
    /\ wire' = [wire EXCEPT ![k] = 0]
    /\ ReleaseSlots(msg[k].day, wire[k] > 0)
    /\ IF enr[e].state = "ready" THEN Write(e, [enr[e] EXCEPT !.due = TRUE])
                                 ELSE UNCHANGED enr
    /\ UNCHANGED <<tick, queue, worker, brief, review, crashes, redrives, dropped,
                   suppressed, day, delivered, todays, late, past>>

(* The unsubscribe link only adds to the suppression list; the enrollment  *)
(* moves when the send path next looks.                                    *)
Suppress(e) ==
    /\ e \notin suppressed
    /\ suppressed' = suppressed \cup {e}
    /\ past' = [past EXCEPT ![e] = Cardinality({w \in Workers :
                    worker[w].pc \in {"reserved", "claimed"} /\ worker[w].e = e})]
    /\ UNCHANGED <<seqVars, msg, sentToday, day, delivered, wire, todays, misfreed, late>>

-----------------------------------------------------------------------------
(* A step of Sequencer that leaves this module's variables alone.          *)
Alone(A) == A /\ UNCHANGED <<sendVars, histVars>>

TickStep(e) ==
    \/ Alone(TickQueued(e)) \/ Alone(TickFinished(e))
    \/ Alone(TickTimer(e)) \/ Alone(TickReady(e))

TakeJob(w, e, n) ==
    \/ Alone(StartResearch(w, e, n))
    \/ Alone(Discard(w, "research", "researching", e, n))
    \/ Alone(Discard(w, "send", "ready", e, n))
    \/ StartSend(w, e, n) \/ StartRefused(w, e, n) \/ Reroute(w, e, n)

WorkerStep(w) ==
    \/ Alone(FinishResearch(w)) \/ Alone(TaskException(w))
    \/ CopyRejected(w) \/ PresendSuppressed(w) \/ PresendBlocked(w) \/ Reserve(w)
    \/ Claim(w) \/ DuplicateClaim(w) \/ Deliver(w) \/ DeliverFailed(w) \/ Finalize(w)

Failure ==
    \/ Alone(TickCrash) \/ Alone(RedisLost) \/ Alone(Redeliver)
    \/ \E w \in Workers : Alone(Crash(w))

PersonStep(e) ==
    \/ Suppress(e)
    \/ \E action \in {"retry", "skip", "kill"} : Alone(Redrive(e, action))

Next ==
    \/ \E e \in Enrollments : TickStep(e) \/ PersonStep(e)
    \/ Alone(TickCommit)
    \/ \E w \in Workers :
          \/ WorkerStep(w)
          \/ \E e \in Enrollments, n \in 0..MaxRetries : TakeJob(w, e, n)
    \/ \E k \in Keys : SweepUnsent(k)
    \/ DailyReset
    \/ Failure

Spec == Init /\ [][Next]_vars

(* Beat runs the tick and the sweep again and again, a tick commits, a     *)
(* worker takes queued jobs, and the LLM, database and SMTP calls of a     *)
(* running task return.  Nothing makes a person or a failure happen, and   *)
(* the day need not end.                                                   *)
Fairness ==
    /\ \A e \in Enrollments : WF_vars(TickStep(e))
    /\ WF_vars(Alone(TickCommit))
    /\ \A w \in Workers :
          /\ WF_vars(\E e \in Enrollments, n \in 0..MaxRetries : TakeJob(w, e, n))
          /\ WF_vars(WorkerStep(w))
    /\ \A k \in Keys : WF_vars(SweepUnsent(k))

FairSpec == Spec /\ Fairness

-----------------------------------------------------------------------------
(* Safety *)

(* Under one claim row at most one e-mail goes out, however many copies of *)
(* the job run, whoever dies and whatever SMTP answers.  This is what      *)
(* uq_outbound_step and the commit before deliver() are for.               *)
OneDeliveryPerClaim == \A k \in Keys : wire[k] <= 1

(* A row that says sent stands for an e-mail the server took: no failure   *)
(* path leaves sent_at set on a step the lead never got.                   *)
SentWasDelivered == \A k \in Keys : msg[k].status = "sent" => wire[k] = 1

(* E-mails sent today on today's slots exceed a daily cap by no more than  *)
(* the slots wrongly given back today: ones of an earlier day (a failure   *)
(* or a sweep after the reset) and ones whose e-mail had gone out.         *)
CapLedger == \A q \in Quotas : todays <= Cap[q] + misfreed

(* Suppressing a lead stops everything but the tasks already past their    *)
(* last check (run_presend_checks), and each of those sends at most once,  *)
(* across retries, sweeps and redeliveries.                                *)
SuppressionStops == \A e \in Enrollments : late[e] <= past[e]

(* A queued or waiting lead always has a next_action_at: the tick, the     *)
(* only thing that moves it on, will see it.                               *)
WaitingIsArmed ==
    \A e \in Enrollments : enr[e].state \in {"queued", "waiting"} => enr[e].due

(* A lead nothing will ever move: dispatched, and no job, task, tick or    *)
(* unsent claim is left for it.                                            *)
Stranded(e) ==
    /\ \/ enr[e].state = "researching"
       \/ enr[e].state = "ready" /\ ~enr[e].due
    /\ ~Pending(e)
    /\ \A s \in Steps : msg[<<e, s>>].status # "claimed"

(* A lead is stranded only after one of its jobs came to nothing in a way  *)
(* the model names with Drop: it ran before the tick that published it     *)
(* committed, ran out of retries, met the claim of another attempt, died,  *)
(* raised, or was lost with Redis.  The scheduler itself strands nobody.   *)
StrandedHasCause == \A e \in Enrollments : Stranded(e) => e \in dropped

(* Together: the schedule loses a lead only where the model says why.      *)
ScheduleKept == WaitingIsArmed /\ StrandedHasCause

(* Unless a person redrives it, a lead reaches step s+1 only after the     *)
(* e-mail of step s was sent and recorded.                                 *)
StepsInOrder ==
    redrives = 0 => \A e \in Enrollments, s \in Steps :
        s < enr[e].step => msg[<<e, s>>].status = "sent"

(* Nothing has died, been lost, been delivered twice or been redriven.     *)
Undisturbed == crashes = 0 /\ redrives = 0

(* Dispatch clears next_action_at so that a lead never has two jobs or     *)
(* running tasks at a time; it holds until something dies, a job is        *)
(* delivered again or somebody redrives a lead.                            *)
OneTaskAtATime ==
    Undisturbed => \A e \in Enrollments :
        /\ \A j, i \in Job : (j.e = e /\ i.e = e /\ queue[j] > 0 /\ queue[i] > 0) => i = j
        /\ \A j \in Job : j.e = e => queue[j] <= 1
        /\ \A j \in Job, w \in Workers :
              ~(j.e = e /\ queue[j] > 0 /\ worker[w] # IdleWorker /\ worker[w].e = e)
        /\ \A w, v \in Workers :
              (worker[w] # IdleWorker /\ worker[v] # IdleWorker
                  /\ worker[w].e = e /\ worker[v].e = e) => w = v

(* So long, the row of a lead in a terminal state is never written again   *)
(* (no inbound mail or calendar event arrives here): no task still running *)
(* brings the lead back into the sequence.                                 *)
TerminalIsFinal ==
    [][Undisturbed' => \A e \in Enrollments :
          enr[e].state \in Terminal => enr'[e] = enr[e]]_vars

(* Every claim is finalized, given up or swept: no outbound row stays      *)
(* unsent for ever.                                                        *)
ClaimsResolve == \A k \in Keys : msg[k].status = "claimed" ~> msg[k].status # "claimed"

(* Why OneDeliveryPerClaim holds: a task between its claim and its end     *)
(* owns the row it claimed, no two own the same, and what has gone out     *)
(* under the row is what the owner's program counter says.  Inductive.     *)
ClaimsOwned ==
    /\ \A w \in Workers : Sending(w) =>
          /\ msg[KeyOf(w)].status = "claimed"
          /\ wire[KeyOf(w)] = IF worker[w].pc = "delivered" THEN 1 ELSE 0
    /\ \A w, v \in Workers : Sending(w) /\ Sending(v) /\ KeyOf(w) = KeyOf(v) => w = v
    /\ \A k \in Keys :
          /\ wire[k] \in 0..1
          /\ msg[k].status = "none" => wire[k] = 0
          /\ msg[k].status = "sent" => wire[k] = 1

(* The send path keeps the promise of Outbox.                              *)
Outbox == INSTANCE Outbox WITH row <- [k \in Keys |-> msg[k].status], mails <- wire

OutboxPromise == Outbox!Spec

-----------------------------------------------------------------------------
(* What comments and docs of the repository say and the code does not do *)

(* workers/tasks.py: "a worker killed mid-send never produces a duplicate  *)
(* email"; "In-process failure means it did NOT send".                     *)
NoDuplicateEmail == \A k \in Keys : delivered[k] <= 1

(* sequencer/tick.py: "The worker task owns the next schedule either way,  *)
(* so next_action_at is cleared on dispatch".                              *)
DispatchIsAnswered ==
    \A e \in Enrollments :
        (enr[e].state = "ready" /\ ~enr[e].due) ~> (enr[e].state # "ready" \/ enr[e].due)
=============================================================================
