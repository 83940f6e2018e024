----------------------------- MODULE Sequencer -----------------------------
(***************************************************************************)
(* Enrollments, the scheduler pass that advances them and the Celery jobs  *)
(* it hands out: craftsman/sequencer/tick.py, redrive.py and the research  *)
(* task of workers/tasks.py.  SendPath extends this module with the e-mail *)
(* steps of a sequence, and TouchTasks that one with the steps a person    *)
(* does.                                                                   *)
(*                                                                         *)
(* A database transaction is one step, with two exceptions where the code  *)
(* spreads it over time and lets others run in between: the tick, which    *)
(* publishes jobs to Redis before it commits the rows it has locked, and a *)
(* task that keeps the rows it loaded across an LLM or SMTP call and then  *)
(* writes back what it computed from them (sessions are opened with        *)
(* expire_on_commit=False and rows carry no version).                      *)
(*                                                                         *)
(* Clock time is left out: next_action_at is NULL (due = FALSE) or set     *)
(* (due = TRUE), and a tick may find any set one due.                      *)
(***************************************************************************)
EXTENDS Naturals, FiniteSets, Machine

CONSTANTS Enrollments,      \* the leads enrolled in one campaign
          Workers,          \* Celery worker processes
          LastStep,         \* highest step_order of the campaign's sequence
          Channel,          \* the channel of each step, "email" or "task"
          MaxRetries,       \* max_retries of the tasks
          Faults,           \* what may go wrong in this instance
          MaxCrashes,       \* bound on deaths, losses, exceptions, redeliveries
          MaxRedrives,      \* bound on a person's redrive clicks
          MaxEvents         \* bound on both together

Steps == 1..LastStep

(* The failures the code handles, each of which a model may leave out:     *)
(*   death       a worker or the tick dies      broker_loss  Redis is lost *)
(*   exception   a task raises unexpectedly     no_capacity  mailboxes full*)
(*   bad_copy    copy rejected, research fails  smtp_error   delivery fails*)
(*   lost_reply  the server took the e-mail but its reply never arrives    *)
(*   redelivery  a retry outlives the visibility timeout of Redis          *)
AllFaults == {"death", "broker_loss", "exception", "no_capacity", "bad_copy",
              "smtp_error", "lost_reply", "redelivery"}

ASSUME SequencerAssumption ==
    /\ IsFiniteSet(Workers)
    /\ LastStep \in Nat \ {0}
    /\ Channel \in [Steps -> {"email", "task"}]
    /\ Faults \subseteq AllFaults
    /\ MaxRetries \in Nat /\ MaxCrashes \in Nat /\ MaxRedrives \in Nat /\ MaxEvents \in Nat

VARIABLES enr,        \* the enrollments row of each lead
          tick,       \* the rows a running tick has locked, as it will commit them
          queue,      \* how many copies of each job Redis holds
          worker,     \* the task each worker runs
          brief,      \* enrollments whose company has a research brief
          review,     \* enrollments some review_queue item points at
          crashes, redrives,  \* how much of each bound is used
          dropped     \* history: enrollments one of whose jobs came to nothing

seqVars == <<enr, tick, queue, worker, brief, review, crashes, redrives, dropped>>

Row == [state: States, step: 0..LastStep, due: BOOLEAN]
NoRow == [state |-> "unlocked", step |-> 0, due |-> FALSE]

Job == [kind: {"research", "send", "touch"}, e: Enrollments, n: 0..MaxRetries]

IdleWorker == [pc |-> "idle"]

(* A running task: the enrollment it loaded, its retry count, the step it  *)
(* works on, whether the loaded current_step was still 0, and the day its  *)
(* send slot was reserved (see SendPath).                                  *)
BusyPC == {"research", "generate", "reserved", "claimed", "delivered", "touch"}
Busy == [pc: BusyPC, e: Enrollments, n: 0..MaxRetries, step: Steps,
         first: BOOLEAN, day: Nat]

SequencerTypeOK ==
    /\ enr \in [Enrollments -> Row]
    /\ tick \in [Enrollments -> Row \cup {NoRow}]
    /\ queue \in [Job -> Nat]
    /\ worker \in [Workers -> Busy \cup {IdleWorker}]
    /\ brief \subseteq Enrollments
    /\ review \subseteq Enrollments
    /\ dropped \subseteq Enrollments
    /\ crashes \in Nat
    /\ redrives \in Nat

(* score_and_enroll inserts every row queued, at step 0 and due at once.   *)
SequencerInit ==
    /\ enr = [e \in Enrollments |-> [state |-> "queued", step |-> 0, due |-> TRUE]]
    /\ tick = [e \in Enrollments |-> NoRow]
    /\ queue = [j \in Job |-> 0]
    /\ worker = [w \in Workers |-> IdleWorker]
    /\ brief = {} /\ review = {} /\ dropped = {}
    /\ crashes = 0 /\ redrives = 0

-----------------------------------------------------------------------------
(* Helpers *)

AtLeastOne(n) == IF n = 0 THEN 1 ELSE n

Locked(e) == tick[e] # NoRow

(* The bound on failures and a person's redrives leaves room for one more. *)
Spare == crashes + redrives < MaxEvents

(* Two commits to one row wait for each other: an UPDATE of a row the tick *)
(* has locked blocks until the tick is over.                               *)
Write(e, row) == ~Locked(e) /\ enr' = [enr EXCEPT ![e] = row]

After(e, ev) == [enr[e] EXCEPT !.state = NextState(@, ev)]

Publish(kind, e) == queue' = [queue EXCEPT ![[kind |-> kind, e |-> e, n |-> 0]] = @ + 1]

Consume(j) == queue[j] > 0 /\ queue' = [queue EXCEPT ![j] = @ - 1]

KindOf(pc) == IF pc = "research" THEN "research"
              ELSE IF pc = "touch" THEN "touch" ELSE "send"

JobOf(w) == [kind |-> KindOf(worker[w].pc), e |-> worker[w].e, n |-> worker[w].n]

Stop(w) == worker' = [worker EXCEPT ![w] = IdleWorker]

Drop(e) == dropped' = dropped \cup {e}

(* self.retry(): publish the job again with one retry more, or give up     *)
(* with a dead letter once max_retries are used.                           *)
Retry(w) ==
    LET e == worker[w].e  n == worker[w].n
        again == [JobOf(w) EXCEPT !.n = n + 1] IN
    IF n < MaxRetries
    THEN queue' = [queue EXCEPT ![again] = @ + 1] /\ UNCHANGED dropped
    ELSE Drop(e) /\ UNCHANGED queue

-----------------------------------------------------------------------------
(* sequencer_tick: select the due rows FOR UPDATE SKIP LOCKED, one row     *)
(* after the other compute the new row and publish its job, commit last.   *)

(* Mutant: the scan forgets the state filter.                              *)
DueInAnyState(e, states) == ~Locked(e) /\ enr[e].due

Due(e, states) == ~Locked(e) /\ enr[e].due /\ enr[e].state \in states

Hold(e, row) == tick' = [tick EXCEPT ![e] = row]

(* Mutant: dispatch leaves next_action_at set.                             *)
DispatchStaysDue(e, row) ==
    /\ Hold(e, row)
    /\ Publish(IF Channel[AtLeastOne(row.step)] = "task" THEN "touch" ELSE "send", e)

Dispatch(e, row) ==
    /\ Hold(e, [row EXCEPT !.due = FALSE])
    /\ Publish(IF Channel[AtLeastOne(row.step)] = "task" THEN "touch" ELSE "send", e)

TickQueued(e) ==
    /\ Due(e, {"queued"})
    /\ Hold(e, [enr[e] EXCEPT !.state = "researching"])
    /\ Publish("research", e)
    /\ UNCHANGED <<enr, worker, brief, review, crashes, redrives, dropped>>

TickFinished(e) ==
    /\ Due(e, {"waiting", "ooo_rescheduled"})
    /\ enr[e].step >= LastStep
    /\ Hold(e, [enr[e] EXCEPT !.state = "finished_no_reply", !.due = FALSE])
    /\ UNCHANGED <<enr, queue, worker, brief, review, crashes, redrives, dropped>>

TickTimer(e) ==
    /\ Due(e, {"waiting", "ooo_rescheduled"})
    /\ enr[e].step < LastStep
    /\ Dispatch(e, [After(e, "timer") EXCEPT !.step = @ + 1])
    /\ UNCHANGED <<enr, worker, brief, review, crashes, redrives, dropped>>

TickReady(e) ==
    /\ Due(e, {"ready"})
    /\ Dispatch(e, enr[e])
    /\ UNCHANGED <<enr, worker, brief, review, crashes, redrives, dropped>>

(* Ticks may overlap (SKIP LOCKED), so not all locked rows end at once.    *)
TickCommit ==
    \E S \in SUBSET {e \in Enrollments : Locked(e)} :
        /\ S # {}
        /\ enr' = [e \in Enrollments |-> IF e \in S THEN tick[e] ELSE enr[e]]
        /\ tick' = [e \in Enrollments |-> IF e \in S THEN NoRow ELSE tick[e]]
        /\ UNCHANGED <<queue, worker, brief, review, crashes, redrives, dropped>>

(* The process running a tick dies: its rows roll back, its jobs stay.     *)
TickCrash ==
    /\ "death" \in Faults
    /\ crashes < MaxCrashes /\ Spare
    /\ crashes' = crashes + 1
    /\ \E S \in SUBSET {e \in Enrollments : Locked(e)} :
          S # {} /\ tick' = [e \in Enrollments |-> IF e \in S THEN NoRow ELSE tick[e]]
    /\ UNCHANGED <<enr, queue, worker, brief, review, redrives, dropped>>

-----------------------------------------------------------------------------
(* A worker takes a job, works on the row it loads, and may die doing so.  *)

Take(w, kind, e, n) ==
    /\ worker[w] = IdleWorker
    /\ Consume([kind |-> kind, e |-> e, n |-> n])

Run(w, pc, e, n) ==
    worker' = [worker EXCEPT ![w] =
        [pc |-> pc, e |-> e, n |-> n, step |-> AtLeastOne(enr[e].step),
         first |-> enr[e].step = 0, day |-> 0]]

(* The row is not in the state the job was published for: return, and the  *)
(* job is used up.  When a tick holds the row the worker reads the version *)
(* before the tick.                                                        *)
Discard(w, kind, state, e, n) ==
    /\ Take(w, kind, e, n)
    /\ enr[e].state # state
    /\ Drop(e)
    /\ UNCHANGED <<enr, tick, worker, brief, review, crashes, redrives>>

StartResearch(w, e, n) ==
    /\ Take(w, "research", e, n)
    /\ enr[e].state = "researching"
    /\ Run(w, "research", e, n)
    /\ UNCHANGED <<enr, tick, brief, review, crashes, redrives, dropped>>

(* What the task commits after the LLM call; the event is applied to the   *)
(* loaded row, in state researching, whatever the row holds by now.        *)
FinishResearch(w) ==
    LET e == worker[w].e IN
    /\ worker[w].pc = "research"
    /\ \/ /\ Write(e, [enr[e] EXCEPT !.state = NextState("researching", "research_done"),
                                     !.due = TRUE])
          /\ brief' = brief \cup {e}
       \/ /\ "bad_copy" \in Faults
          /\ Write(e, [enr[e] EXCEPT !.state = NextState("researching", "research_failed")])
          /\ UNCHANGED brief
    /\ Stop(w)
    /\ UNCHANGED <<tick, queue, review, crashes, redrives, dropped>>

(* An exception the task does not catch, at any point: the session rolls   *)
(* back what is not committed and the job ends in a dead letter.           *)
TaskException(w) ==
    /\ "exception" \in Faults
    /\ worker[w] # IdleWorker
    /\ crashes < MaxCrashes /\ Spare
    /\ crashes' = crashes + 1
    /\ Stop(w)
    /\ Drop(worker[w].e)
    /\ UNCHANGED <<enr, tick, queue, brief, review, redrives>>

(* A worker dies.  With acks_late the broker delivers the job again when   *)
(* the whole worker is gone; when only its child process is killed, Celery *)
(* acknowledges the job and records a dead letter                          *)
(* (task_reject_on_worker_lost is not set).                                *)
Crash(w) ==
    /\ "death" \in Faults
    /\ worker[w] # IdleWorker
    /\ crashes < MaxCrashes /\ Spare
    /\ crashes' = crashes + 1
    /\ Stop(w)
    /\ \/ queue' = [queue EXCEPT ![JobOf(w)] = @ + 1] /\ UNCHANGED dropped
       \/ Drop(worker[w].e) /\ UNCHANGED queue
    /\ UNCHANGED <<enr, tick, brief, review, redrives>>

(* Redis is lost and restarted empty (docs/operations.md).                 *)
RedisLost ==
    /\ "broker_loss" \in Faults
    /\ \E j \in Job : queue[j] > 0
    /\ crashes < MaxCrashes /\ Spare
    /\ crashes' = crashes + 1
    /\ queue' = [j \in Job |-> 0]
    /\ dropped' = dropped \cup {e \in Enrollments : \E j \in Job : j.e = e /\ queue[j] > 0}
    /\ UNCHANGED <<enr, tick, worker, brief, review, redrives>>

(* A retry waits out its countdown unacknowledged.  For the countdown of   *)
(* an hour this is as long as Redis waits before it delivers a job again   *)
(* (no visibility_timeout is configured).                                  *)
Redeliver ==
    /\ "redelivery" \in Faults
    /\ crashes < MaxCrashes /\ Spare
    /\ crashes' = crashes + 1
    /\ \E j \in Job : queue[j] > 0 /\ j.n > 0 /\ queue' = [queue EXCEPT ![j] = @ + 1]
    /\ UNCHANGED <<enr, tick, worker, brief, review, redrives, dropped>>

-----------------------------------------------------------------------------
(* redrive_enrollment, called from POST /inbox/review/{id}/action.  Neither *)
(* the item's resolved flag nor the enrollment's state is looked at.        *)
Redrive(e, action) ==
    /\ e \in review
    /\ redrives < MaxRedrives /\ Spare
    /\ redrives' = redrives + 1
    /\ \/ /\ action = "kill"
          /\ Write(e, [enr[e] EXCEPT !.state = "error", !.due = FALSE])
       \/ /\ action = "retry" /\ e \in brief
          /\ Write(e, [enr[e] EXCEPT !.state = "ready", !.step = AtLeastOne(@), !.due = TRUE])
       \/ /\ action = "retry" /\ e \notin brief
          /\ Write(e, [state |-> "queued", step |-> 0, due |-> TRUE])
       \/ /\ action = "skip" /\ enr[e].step >= LastStep
          /\ Write(e, [enr[e] EXCEPT !.state = "finished_no_reply", !.due = FALSE])
       \/ /\ action = "skip" /\ enr[e].step < LastStep
          /\ Write(e, [state |-> "ready", step |-> enr[e].step + 1, due |-> TRUE])
    /\ UNCHANGED <<tick, queue, worker, brief, review, crashes, dropped>>

-----------------------------------------------------------------------------
(* A worker still runs the task of enrollment e, or a job for it is queued.*)
Pending(e) ==
    \/ \E w \in Workers : worker[w] # IdleWorker /\ worker[w].e = e
    \/ \E j \in Job : j.e = e /\ queue[j] > 0
    \/ Locked(e)
=============================================================================
