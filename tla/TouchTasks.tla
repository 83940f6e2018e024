----------------------------- MODULE TouchTasks -----------------------------
(***************************************************************************)
(* Steps done by a person: generate_touch_task (workers/tasks.py), the     *)
(* life of a touch task (sequencer/touch.py), its expiry by the tick and   *)
(* the /tasks endpoints (api/routers/tasks.py), beside the e-mail steps of *)
(* SendPath.                                                               *)
(*                                                                         *)
(* A worker with program counter "touch" has loaded a ready enrollment and *)
(* waits for the LLM.  A person's request loads the task and its           *)
(* enrollment, and writes both when it ends.  A row computed from one that *)
(* has changed meanwhile is written all the same; crossed remembers the    *)
(* leads this happened to.                                                 *)
(***************************************************************************)
EXTENDS SendPath

CONSTANTS Requests,       \* API processes
          SkipOnExpire,   \* the task steps with skip_on_expire
          MaxClicks       \* bound on complete and skip requests

ASSUME TouchTasksAssumption ==
    /\ SkipOnExpire \subseteq {s \in Steps : Channel[s] = "task"}
    /\ MaxClicks \in Nat /\ IsFiniteSet(Requests)

VARIABLES task,         \* the touch_tasks row of each (enrollment, step)
          armed,        \* workers whose loaded enrollment had a next_action_at
          request,      \* the complete or skip request each API process runs
          clicks,       \* requests so far
          crossed       \* history: leads one of whose updates was lost

touchVars == <<task, armed, request, clicks, crossed>>
allVars == <<vars, touchVars>>

TaskStatus == {"none", "open", "done", "skipped", "expired", "cancelled"}
Resolution == {"done", "skipped"}
ResolveEvent == [done |-> "task_done", skipped |-> "task_skipped", expired |-> "task_expired"]

NoRequest == [to |-> "none"]
Request == [k: Keys, to: Resolution, row: Row]

TouchTypeOK ==
    /\ TypeOK
    /\ task \in [Keys -> TaskStatus]
    /\ armed \subseteq Workers
    /\ request \in [Requests -> Request \cup {NoRequest}]
    /\ clicks \in Nat
    /\ crossed \subseteq Enrollments

TouchInit ==
    /\ Init
    /\ task = [k \in Keys |-> "none"]
    /\ armed = {}
    /\ request = [p \in Requests |-> NoRequest]
    /\ clicks = 0
    /\ crossed = {}

-----------------------------------------------------------------------------
(* Helpers *)

LoadedState(w) == IF worker[w].pc = "research" THEN "researching" ELSE "ready"

(* The enrollment is no longer what worker w loaded.                       *)
Outdated(w) ==
    LET e == worker[w].e IN
    \/ enr[e].state # LoadedState(w)
    \/ AtLeastOne(enr[e].step) # worker[w].step

(* History: a task that writes an enrollment it loaded before another wrote*)
NoteWrite(w) ==
    crossed' = IF enr' # enr /\ Outdated(w) THEN crossed \cup {worker[w].e} ELSE crossed

(* cancel_open_tasks, for each lead of S                                   *)
Cancel(S) ==
    task' = [k \in Keys |-> IF k[1] \in S /\ task[k] = "open" THEN "cancelled" ELSE task[k]]

OpenAt(e, s) == s \in Steps /\ task[<<e, s>>] = "open"

-----------------------------------------------------------------------------
(* The tick: _expire_due_task *)

(* Mutant: expiry only disarms the lead.                                   *)
TickExpireHolds(e) ==
    /\ Due(e, {"awaiting_human_touch"})
    /\ Hold(e, [enr[e] EXCEPT !.due = FALSE])
    /\ UNCHANGED <<enr, queue, worker, brief, review, crashes, redrives, dropped,
                   sendVars, histVars, touchVars>>

(* The open task of a skip_on_expire step expires and the lead moves on;   *)
(* a step that holds the sequence, or a lead without an open task, is      *)
(* disarmed.                                                               *)
TickExpire(e) ==
    LET s == AtLeastOne(enr[e].step) IN
    /\ Due(e, {"awaiting_human_touch"})
    /\ IF s \in SkipOnExpire /\ OpenAt(e, enr[e].step)
       THEN Hold(e, [enr[e] EXCEPT !.state = NextState(@, ResolveEvent["expired"])])
       ELSE Hold(e, [enr[e] EXCEPT !.due = FALSE])
    /\ UNCHANGED <<enr, queue, worker, brief, review, crashes, redrives, dropped,
                   sendVars, histVars, touchVars>>

(* A task the running tick has read as open and will write as expired,     *)
(* whatever the task has become by then.                                   *)
Expiring(k) ==
    LET e == k[1] IN
    /\ Locked(e) /\ k[2] = enr[e].step
    /\ enr[e].state = "awaiting_human_touch" /\ tick[e].state = "waiting"

TouchTickCommit ==
    /\ TickCommit
    /\ task' = [k \in Keys |-> IF Expiring(k) /\ tick'[k[1]] = NoRow
                               THEN "expired" ELSE task[k]]
    /\ crossed' = crossed \cup
          {e \in Enrollments : \E s \in Steps : task'[<<e, s>>] # task[<<e, s>>]
                                             /\ task[<<e, s>>] # "open"}
    /\ UNCHANGED <<sendVars, histVars, armed, request, clicks>>

-----------------------------------------------------------------------------
(* generate_touch_task *)

StartTouch(w, e, n) ==
    /\ Take(w, "touch", e, n)
    /\ enr[e].state = "ready"
    /\ e \notin suppressed
    /\ Channel[AtLeastOne(enr[e].step)] = "task"
    /\ Run(w, "touch", e, n)
    /\ armed' = IF enr[e].due THEN armed \cup {w} ELSE armed \ {w}
    /\ UNCHANGED <<enr, tick, brief, review, crashes, redrives, dropped, sendVars, histVars,
                   task, request, clicks, crossed>>

(* Suppressed: UNSUBSCRIBE.  An e-mail step is refused, and the job is     *)
(* used up.                                                                *)
TouchRefused(w, e, n) ==
    /\ Take(w, "touch", e, n)
    /\ enr[e].state = "ready"
    /\ \/ /\ e \in suppressed
          /\ Write(e, After(e, "unsubscribe"))
          /\ UNCHANGED dropped
       \/ /\ e \notin suppressed
          /\ Channel[AtLeastOne(enr[e].step)] = "email"
          /\ Drop(e)
          /\ UNCHANGED enr
    /\ UNCHANGED <<tick, worker, brief, review, crashes, redrives, sendVars, histVars,
                   touchVars>>

(* Rejected content, or a LinkedIn step without an active variant.         *)
TouchRejected(w) ==
    LET e == worker[w].e IN
    /\ "bad_copy" \in Faults
    /\ worker[w].pc = "touch"
    /\ Write(e, [enr[e] EXCEPT !.state = "error"])
    /\ review' = review \cup {e}
    /\ Stop(w)
    /\ NoteWrite(w)
    /\ UNCHANGED <<tick, queue, brief, crashes, redrives, dropped, sendVars, histVars,
                   task, armed, request, clicks>>

(* The task row and the waiting lead in one commit.  next_action_at is the *)
(* due date of a skip_on_expire step, else NULL, which is written only if  *)
(* the loaded value was not NULL already.                                  *)
CreateTask(w) ==
    LET e == worker[w].e  s == worker[w].step IN
    /\ worker[w].pc = "touch"
    /\ task[<<e, s>>] = "none"
    /\ task' = [task EXCEPT ![<<e, s>>] = "open"]
    /\ Write(e, [enr[e] EXCEPT !.state = NextState("ready", "task_created"),
                               !.step = IF worker[w].first THEN s ELSE @,
                               !.due = s \in SkipOnExpire \/ (@ /\ w \notin armed)])
    /\ Stop(w)
    /\ NoteWrite(w)
    /\ UNCHANGED <<tick, queue, brief, review, crashes, redrives, dropped, sendVars, histVars,
                   armed, request, clicks>>

(* uq_touch_task_step: the step has a task already; everything rolls back. *)
DuplicateTask(w) ==
    /\ worker[w].pc = "touch"
    /\ task[KeyOf(w)] # "none"
    /\ Stop(w)
    /\ Drop(worker[w].e)
    /\ UNCHANGED <<enr, tick, queue, brief, review, crashes, redrives, sendVars, histVars,
                   touchVars>>

-----------------------------------------------------------------------------
(* The /tasks endpoints *)

(* Whoever looks at the open task of a suppressed lead cancels it: list,   *)
(* get, complete, skip and dial.  The enrollment stays as it is.           *)
CancelSuppressed(e) ==
    /\ e \in suppressed
    /\ \E s \in Steps : OpenAt(e, s)
    /\ Cancel({e})
    /\ UNCHANGED <<vars, armed, request, clicks, crossed>>

(* Mutant: whether the task is open is not asked.                          *)
ClickAnyStatus(p, k, to) ==
    /\ request[p] = NoRequest
    /\ task[k] # "none" /\ k[1] \notin suppressed
    /\ Defined(enr[k[1]].state, ResolveEvent[to])
    /\ clicks < MaxClicks
    /\ clicks' = clicks + 1
    /\ request' = [request EXCEPT ![p] = [k |-> k, to |-> to, row |-> enr[k[1]]]]
    /\ UNCHANGED <<vars, task, armed, crossed>>

(* complete or skip, as far as its checks; a task whose lead does not      *)
(* await it is refused by the state machine.                               *)
Click(p, k, to) ==
    /\ request[p] = NoRequest
    /\ task[k] = "open" /\ k[1] \notin suppressed
    /\ Defined(enr[k[1]].state, ResolveEvent[to])
    /\ clicks < MaxClicks
    /\ clicks' = clicks + 1
    /\ request' = [request EXCEPT ![p] = [k |-> k, to |-> to, row |-> enr[k[1]]]]
    /\ UNCHANGED <<vars, task, armed, crossed>>

(* resolve_task and the commit: the task is resolved, the lead moves on    *)
(* from the row loaded and its next step is scheduled.                     *)
Resolve(p) ==
    LET k == request[p].k  e == k[1] IN
    /\ request[p] # NoRequest
    /\ task' = [task EXCEPT ![k] = request[p].to]
    /\ Write(e, [enr[e] EXCEPT !.state = NextState(@, ResolveEvent[request[p].to]),
                               !.due = TRUE])
    /\ request' = [request EXCEPT ![p] = NoRequest]
    /\ crossed' = IF enr[e] # request[p].row \/ task[k] # "open"
                  THEN crossed \cup {e} ELSE crossed
    /\ UNCHANGED <<tick, queue, worker, brief, review, crashes, redrives, dropped,
                   sendVars, histVars, armed, clicks>>

-----------------------------------------------------------------------------
(* A step of SendPath that leaves this module's variables alone; one in    *)
(* which a task writes back the enrollment it loaded.                      *)
Beside(A) == A /\ UNCHANGED touchVars

Writing(w, A) == A /\ NoteWrite(w) /\ UNCHANGED <<task, armed, request, clicks>>

TouchTickStep(e) == Beside(TickStep(e)) \/ TickExpire(e)

TouchTakeJob(w, e, n) ==
    \/ Beside(TakeJob(w, e, n))
    \/ Beside(Alone(Discard(w, "touch", "ready", e, n)))
    \/ StartTouch(w, e, n) \/ TouchRefused(w, e, n)

TouchWorkerStep(w) ==
    \/ Writing(w, WorkerStep(w))
    \/ TouchRejected(w) \/ CreateTask(w) \/ DuplicateTask(w)

TouchPersonStep(e) ==
    \/ Beside(PersonStep(e)) \/ CancelSuppressed(e)
    \/ \E p \in Requests, s \in Steps, to \in Resolution : Click(p, <<e, s>>, to)

TouchNext ==
    \/ \E e \in Enrollments : TouchTickStep(e) \/ TouchPersonStep(e)
    \/ TouchTickCommit
    \/ \E w \in Workers :
          \/ TouchWorkerStep(w)
          \/ \E e \in Enrollments, n \in 0..MaxRetries : TouchTakeJob(w, e, n)
    \/ \E p \in Requests : Resolve(p)
    \/ \E k \in Keys : Beside(SweepUnsent(k))
    \/ Beside(DailyReset)
    \/ Beside(Failure)

TouchSpec == TouchInit /\ [][TouchNext]_allVars

-----------------------------------------------------------------------------
(* Properties.  The exceptions are named: a lost update (crossed), a       *)
(* person's redrive, suppression.                                          *)

(* Tasks and leads agree: an open task is that of the step its lead waits  *)
(* at, and a lead waits for a person only while there is a task for one.   *)
TaskMatchesLead ==
    redrives = 0 => \A e \in Enrollments \ crossed :
        /\ \A s \in Steps : task[<<e, s>>] = "open" =>
              enr[e].state = "awaiting_human_touch" /\ enr[e].step = s
        /\ enr[e].state = "awaiting_human_touch" /\ e \notin suppressed =>
              OpenAt(e, enr[e].step)

(* No task still running, request or mail brings a finished lead back into *)
(* the sequence, but for one that loaded the lead before it finished.      *)
FinishedStaysFinished ==
    [][\A e \in Enrollments : enr[e].state \in Terminal /\ enr'[e].state \notin Terminal =>
          e \in crossed' \/ redrives' > redrives]_allVars

(* With replies, bookings and people, a queued or waiting lead still has a *)
(* next_action_at.                                                         *)
WaitingStaysArmed ==
    \A e \in Enrollments : enr[e].state \in {"queued", "waiting"} => enr[e].due \/ e \in crossed

(* A step with skip_on_expire never holds the sequence: the lead leaves it *)
(* whatever the person does.                                               *)
ExpiringStepsMoveOn ==
    \A e \in Enrollments :
        (enr[e].state = "awaiting_human_touch" /\ enr[e].step \in SkipOnExpire) ~>
            \/ enr[e].state # "awaiting_human_touch" \/ enr[e].step \notin SkipOnExpire
            \/ e \in suppressed \cup crossed

=============================================================================
