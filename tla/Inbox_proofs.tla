--------------------------- MODULE Inbox_proofs ---------------------------
(***************************************************************************)
(* Proofs about everything that moves a lead, for every set of leads,      *)
(* workers, requests and mails, every sequence of steps, every choice of   *)
(* caps and bounds and every set of escalation rules: first about the      *)
(* e-mail steps alone (SendPath), whose theorems are about Spec, then      *)
(* about their composition with the touch tasks and the inbox (TouchTasks, *)
(* Inbox), whose theorems are about InboxSpec.                             *)
(***************************************************************************)
EXTENDS Inbox, FiniteSetTheorems, TLAPS

USE SequencerAssumption, SendPathAssumption

-----------------------------------------------------------------------------
(* What the helpers return *)

(* machine.py never leaves the set of states it documents.                 *)
LEMMA NextStateType ==
    ASSUME NEW s, NEW ev \in Events
    PROVE  NextState(s, ev) \in States
BY DEF NextState, Events, Target, States, Live, Terminal

LEMMA StepType ==
    ASSUME NEW n \in 0..LastStep
    PROVE  AtLeastOne(n) \in Steps
BY DEF AtLeastOne, Steps

LEMMA WriteType ==
    ASSUME SequencerTypeOK, NEW e \in Enrollments, NEW row \in Row, Write(e, row)
    PROVE  enr' \in [Enrollments -> Row]
BY DEF Write, SequencerTypeOK

LEMMA JobOfType ==
    ASSUME SequencerTypeOK, NEW w \in Workers, worker[w] \in Busy
    PROVE  JobOf(w) \in Job
BY DEF JobOf, Job, KindOf, Busy

LEMMA BusyWorker ==
    ASSUME SequencerTypeOK, NEW w \in Workers, worker[w].pc # "idle"
    PROVE  worker[w] \in Busy
BY DEF SequencerTypeOK, IdleWorker

LEMMA KeyType ==
    ASSUME SequencerTypeOK, NEW w \in Workers, worker[w] \in Busy
    PROVE  KeyOf(w) \in Keys /\ worker[w].e \in Enrollments /\ worker[w].step \in Steps
           /\ worker[w].day \in Nat
BY DEF KeyOf, Keys, Busy

LEMMA StopType ==
    ASSUME SequencerTypeOK, NEW w \in Workers, Stop(w)
    PROVE  worker' \in [Workers -> Busy \cup {IdleWorker}]
BY DEF SequencerTypeOK, Stop

LEMMA RunType ==
    ASSUME SequencerTypeOK, NEW w \in Workers, NEW e \in Enrollments,
           NEW n \in 0..MaxRetries, NEW pc \in BusyPC, Run(w, pc, e, n)
    PROVE  worker' \in [Workers -> Busy \cup {IdleWorker}]
<1>1. enr[e].step \in 0..LastStep
  BY DEF SequencerTypeOK, Row
<1>2. AtLeastOne(enr[e].step) \in Steps
  BY <1>1, StepType
<1>3. [pc |-> pc, e |-> e, n |-> n, step |-> AtLeastOne(enr[e].step),
       first |-> enr[e].step = 0, day |-> 0] \in Busy
  BY <1>2 DEF Busy
<1> QED
  BY <1>3 DEF Run, SequencerTypeOK

LEMMA RetryType ==
    ASSUME SequencerTypeOK, NEW w \in Workers, worker[w] \in Busy, Retry(w)
    PROVE  queue' \in [Job -> Nat] /\ dropped' \subseteq Enrollments
<1>1. JobOf(w) \in Job
  BY JobOfType
<1>2. worker[w].e \in Enrollments /\ worker[w].n \in 0..MaxRetries
  BY DEF Busy
<1>3. CASE worker[w].n < MaxRetries
  <2>1. [JobOf(w) EXCEPT !.n = worker[w].n + 1] \in Job
    BY <1>1, <1>2, <1>3 DEF Job
  <2> QED
    BY <1>3, <2>1 DEF Retry, SequencerTypeOK
<1>4. CASE ~(worker[w].n < MaxRetries)
  BY <1>2, <1>4 DEF Retry, Drop, SequencerTypeOK
<1> QED
  BY <1>3, <1>4

LEMMA ConsumeType ==
    ASSUME SequencerTypeOK, NEW j \in Job, Consume(j)
    PROVE  queue' \in [Job -> Nat]
BY DEF SequencerTypeOK, Consume

LEMMA PublishType ==
    ASSUME SequencerTypeOK, NEW kind \in {"research", "send", "touch"},
           NEW e \in Enrollments, Publish(kind, e)
    PROVE  queue' \in [Job -> Nat]
<1>1. [kind |-> kind, e |-> e, n |-> 0] \in Job
  BY DEF Job
<1> QED
  BY <1>1 DEF Publish, SequencerTypeOK

LEMMA ReleaseType ==
    ASSUME SendTypeOK, NEW reservedOn, NEW gone, ReleaseSlots(reservedOn, gone)
    PROVE  sentToday' \in [Quotas -> Nat] /\ misfreed' \in Nat
BY DEF SendTypeOK, ReleaseSlots, Quotas

LEMMA AcceptedType ==
    ASSUME TypeOK, NEW w \in Workers, worker[w] \in Busy, Accepted(w)
    PROVE  /\ delivered' \in [Keys -> Nat]
           /\ todays' \in Nat
           /\ late' \in [Enrollments -> Nat]
<1>1. KeyOf(w) \in Keys /\ worker[w].e \in Enrollments
  BY KeyType DEF TypeOK
<1> QED
  BY <1>1 DEF Accepted, TypeOK, SendTypeOK

-----------------------------------------------------------------------------
(* Type correctness *)

(* A tick holds well-formed rows and publishes well-formed jobs.           *)
LEMMA TickType ==
    ASSUME SequencerTypeOK, NEW e \in Enrollments,
           TickQueued(e) \/ TickFinished(e) \/ TickTimer(e) \/ TickReady(e)
    PROVE  SequencerTypeOK'
<1>1. enr[e] \in Row
  BY DEF SequencerTypeOK
<1>2. ASSUME NEW row \in Row, Hold(e, row)
      PROVE  tick' \in [Enrollments -> Row \cup {NoRow}]
  BY <1>2 DEF Hold, SequencerTypeOK
<1>3. ASSUME NEW row \in Row, Dispatch(e, row)
      PROVE  /\ tick' \in [Enrollments -> Row \cup {NoRow}]
             /\ queue' \in [Job -> Nat]
  <2>1. [row EXCEPT !.due = FALSE] \in Row
    BY DEF Row
  <2>2. tick' \in [Enrollments -> Row \cup {NoRow}]
    BY <1>2, <1>3, <2>1 DEF Dispatch
  <2> QED
    BY <1>3, <2>2, PublishType DEF Dispatch
<1>4. CASE TickQueued(e)
  <2>1. [enr[e] EXCEPT !.state = "researching"] \in Row
    BY <1>1 DEF Row, States, Live
  <2>2. tick' \in [Enrollments -> Row \cup {NoRow}]
    BY <1>2, <1>4, <2>1 DEF TickQueued
  <2>3. queue' \in [Job -> Nat]
    BY <1>4, PublishType DEF TickQueued
  <2> QED
    BY <1>4, <2>2, <2>3 DEF TickQueued, SequencerTypeOK
<1>5. CASE TickFinished(e)
  <2>1. [enr[e] EXCEPT !.state = "finished_no_reply", !.due = FALSE] \in Row
    BY <1>1 DEF Row, States, Terminal
  <2>2. tick' \in [Enrollments -> Row \cup {NoRow}]
    BY <1>2, <1>5, <2>1 DEF TickFinished
  <2> QED
    BY <1>5, <2>2 DEF TickFinished, SequencerTypeOK
<1>6. CASE TickTimer(e)
  <2>1. After(e, "timer") \in Row /\ After(e, "timer").step = enr[e].step
    BY <1>1, NextStateType DEF After, Row, Events, Target
  <2>2. [After(e, "timer") EXCEPT !.step = @ + 1] \in Row
    BY <1>1, <1>6, <2>1 DEF TickTimer, Row
  <2> QED
    BY <1>3, <1>6, <2>2 DEF TickTimer, SequencerTypeOK
<1>7. CASE TickReady(e)
  BY <1>1, <1>3, <1>7 DEF TickReady, SequencerTypeOK
<1> QED
  BY <1>4, <1>5, <1>6, <1>7

LEMMA TickEndType ==
    ASSUME SequencerTypeOK, TickCommit \/ TickCrash
    PROVE  SequencerTypeOK'
BY DEF SequencerTypeOK, TickCommit, TickCrash, Locked

LEMMA ResearchType ==
    ASSUME SequencerTypeOK, NEW w \in Workers, NEW e \in Enrollments,
           NEW n \in 0..MaxRetries,
           \/ StartResearch(w, e, n)
           \/ Discard(w, "research", "researching", e, n)
           \/ Discard(w, "send", "ready", e, n)
    PROVE  SequencerTypeOK'
<1>1. /\ [kind |-> "research", e |-> e, n |-> n] \in Job
      /\ [kind |-> "send", e |-> e, n |-> n] \in Job
  BY DEF Job
<1>2. queue' \in [Job -> Nat]
  BY <1>1, ConsumeType DEF StartResearch, Discard, Take
<1>3. CASE StartResearch(w, e, n)
  <2>1. worker' \in [Workers -> Busy \cup {IdleWorker}]
    BY <1>3, RunType DEF StartResearch, BusyPC
  <2> QED
    BY <1>2, <1>3, <2>1 DEF StartResearch, SequencerTypeOK
<1>4. CASE \/ Discard(w, "research", "researching", e, n)
           \/ Discard(w, "send", "ready", e, n)
  BY <1>2, <1>4 DEF Discard, Drop, SequencerTypeOK
<1> QED
  BY <1>3, <1>4

LEMMA ResearchEndType ==
    ASSUME SequencerTypeOK, NEW w \in Workers,
           FinishResearch(w) \/ TaskException(w) \/ Crash(w)
    PROVE  SequencerTypeOK'
<1>1. worker[w] \in Busy
  BY BusyWorker DEF FinishResearch, TaskException, Crash, SequencerTypeOK
<1>2. worker[w].e \in Enrollments /\ JobOf(w) \in Job
  BY <1>1, JobOfType DEF Busy
<1>3. worker' \in [Workers -> Busy \cup {IdleWorker}]
  BY StopType DEF FinishResearch, TaskException, Crash
<1>4. CASE FinishResearch(w)
  <2>1. enr[worker[w].e] \in Row
    BY <1>2 DEF SequencerTypeOK
  <2>2. /\ [enr[worker[w].e] EXCEPT
               !.state = NextState("researching", "research_done"), !.due = TRUE] \in Row
        /\ [enr[worker[w].e] EXCEPT
               !.state = NextState("researching", "research_failed")] \in Row
    BY <2>1, NextStateType DEF Row, Events, Target
  <2>3. enr' \in [Enrollments -> Row]
    BY <1>2, <1>4, <2>2, WriteType DEF FinishResearch
  <2> QED
    BY <1>2, <1>3, <1>4, <2>3 DEF FinishResearch, SequencerTypeOK
<1>5. CASE TaskException(w)
  BY <1>2, <1>3, <1>5 DEF TaskException, Drop, SequencerTypeOK
<1>6. CASE Crash(w)
  BY <1>2, <1>3, <1>6 DEF Crash, Drop, SequencerTypeOK
<1> QED
  BY <1>4, <1>5, <1>6

LEMMA RedisType ==
    ASSUME SequencerTypeOK, RedisLost \/ Redeliver
    PROVE  SequencerTypeOK'
BY DEF SequencerTypeOK, RedisLost, Redeliver

LEMMA RedriveType ==
    ASSUME SequencerTypeOK, NEW e \in Enrollments,
           NEW action \in {"retry", "skip", "kill"}, Redrive(e, action)
    PROVE  SequencerTypeOK'
<1>1. enr[e] \in Row
  BY DEF SequencerTypeOK
<1>2. {"error", "ready", "queued", "finished_no_reply"} \subseteq States
  BY DEF States, Live, Terminal
<1>3. /\ [enr[e] EXCEPT !.state = "error", !.due = FALSE] \in Row
      /\ [enr[e] EXCEPT !.state = "finished_no_reply", !.due = FALSE] \in Row
  BY <1>1, <1>2 DEF Row
<1>4. /\ [enr[e] EXCEPT !.state = "ready", !.step = AtLeastOne(@), !.due = TRUE] \in Row
      /\ [state |-> "queued", step |-> 0, due |-> TRUE] \in Row
  <2>1. ASSUME NEW n \in 0..LastStep
        PROVE  [enr[e] EXCEPT !.state = "ready", !.step = n, !.due = TRUE] \in Row
    BY <1>1, <1>2 DEF Row
  <2>2. (IF enr[e].step = 0 THEN 1 ELSE enr[e].step) \in 0..LastStep
    BY <1>1 DEF Row
  <2>3. [enr[e] EXCEPT !.state = "ready", !.step = AtLeastOne(@), !.due = TRUE] \in Row
    BY <2>1, <2>2, Zenon DEF AtLeastOne
  <2> QED
    BY <1>2, <2>3 DEF Row
<1>5. enr[e].step < LastStep =>
        [state |-> "ready", step |-> enr[e].step + 1, due |-> TRUE] \in Row
  BY <1>1, <1>2 DEF Row
<1>6. enr' \in [Enrollments -> Row]
  BY <1>3, <1>4, <1>5, WriteType DEF Redrive
<1> QED
  BY <1>6 DEF Redrive, SequencerTypeOK

(* Each step of the send path keeps the types of both modules' variables.  *)
LEMMA TakeSendType ==
    ASSUME TypeOK, NEW w \in Workers, NEW e \in Enrollments, NEW n \in 0..MaxRetries,
           StartSend(w, e, n) \/ StartRefused(w, e, n) \/ Reroute(w, e, n)
    PROVE  TypeOK'
<1>1. /\ [kind |-> "send", e |-> e, n |-> n] \in Job
      /\ [kind |-> "touch", e |-> e, n |-> 0] \in Job
  BY DEF Job
<1>2. enr[e] \in Row
  BY DEF TypeOK, SequencerTypeOK
<1>3. CASE StartSend(w, e, n)
  <2>1. queue' \in [Job -> Nat]
    BY <1>1, <1>3, ConsumeType DEF StartSend, Take, TypeOK
  <2>2. worker' \in [Workers -> Busy \cup {IdleWorker}]
    BY <1>3, RunType DEF StartSend, BusyPC, TypeOK
  <2> QED
    BY <1>3, <2>1, <2>2
    DEF StartSend, TypeOK, SequencerTypeOK, SendTypeOK, sendVars, histVars
<1>4. CASE StartRefused(w, e, n)
  <2>1. queue' \in [Job -> Nat]
    BY <1>1, <1>4, ConsumeType DEF StartRefused, Take, TypeOK
  <2>2. After(e, "unsubscribe") \in Row /\ After(e, "send_failed") \in Row
    BY <1>2, NextStateType DEF After, Row, Events, Target
  <2>3. enr' \in [Enrollments -> Row]
    BY <1>4, <2>2, WriteType DEF StartRefused, TypeOK
  <2> QED
    BY <1>4, <2>1, <2>3
    DEF StartRefused, TypeOK, SequencerTypeOK, SendTypeOK, sendVars, histVars
<1>5. CASE Reroute(w, e, n)
  <2>1. queue' \in [Job -> Nat]
    BY <1>1, <1>5 DEF Reroute, TypeOK, SequencerTypeOK
  <2> QED
    BY <1>5, <2>1
    DEF Reroute, TypeOK, SequencerTypeOK, SendTypeOK, sendVars, histVars
<1> QED
  BY <1>3, <1>4, <1>5

LEMMA PresendType ==
    ASSUME TypeOK, NEW w \in Workers,
           CopyRejected(w) \/ PresendSuppressed(w) \/ PresendBlocked(w) \/ Reserve(w)
    PROVE  TypeOK'
<1>1. worker[w] \in Busy
  BY BusyWorker DEF CopyRejected, PresendSuppressed, PresendBlocked, Reserve, TypeOK
<1>2. worker[w].e \in Enrollments /\ enr[worker[w].e] \in Row
  BY <1>1 DEF Busy, TypeOK, SequencerTypeOK
<1>3. CASE CopyRejected(w)
  <2>1. [enr[worker[w].e] EXCEPT !.state = "error"] \in Row
    BY <1>2 DEF Row, States, Terminal
  <2>2. enr' \in [Enrollments -> Row]
    BY <1>2, <1>3, <2>1, WriteType DEF CopyRejected, TypeOK
  <2>3. worker' \in [Workers -> Busy \cup {IdleWorker}]
    BY <1>3, StopType DEF CopyRejected, TypeOK
  <2> QED
    BY <1>2, <1>3, <2>2, <2>3
    DEF CopyRejected, TypeOK, SequencerTypeOK, SendTypeOK, sendVars, histVars
<1>4. CASE PresendSuppressed(w)
  <2>1. [enr[worker[w].e] EXCEPT !.state = NextState("ready", "unsubscribe")] \in Row
    BY <1>2, NextStateType DEF Row, Events, Target
  <2>2. enr' \in [Enrollments -> Row]
    BY <1>2, <1>4, <2>1, WriteType DEF PresendSuppressed, TypeOK
  <2>3. worker' \in [Workers -> Busy \cup {IdleWorker}]
    BY <1>4, StopType DEF PresendSuppressed, TypeOK
  <2> QED
    BY <1>4, <2>2, <2>3
    DEF PresendSuppressed, TypeOK, SequencerTypeOK, SendTypeOK, sendVars, histVars
<1>5. CASE PresendBlocked(w)
  <2>1. queue' \in [Job -> Nat] /\ dropped' \subseteq Enrollments
    BY <1>1, <1>5, RetryType DEF PresendBlocked, TypeOK
  <2>2. worker' \in [Workers -> Busy \cup {IdleWorker}]
    BY <1>5, StopType DEF PresendBlocked, TypeOK
  <2> QED
    BY <1>5, <2>1, <2>2
    DEF PresendBlocked, TypeOK, SequencerTypeOK, SendTypeOK, sendVars, histVars
<1>6. CASE Reserve(w)
  <2>1. sentToday' \in [Quotas -> Nat]
    BY <1>6 DEF Reserve, ReserveSlots, TypeOK, SendTypeOK
  <2>2. [worker[w] EXCEPT !.pc = "reserved", !.day = day] \in Busy
    BY <1>1 DEF Busy, BusyPC, TypeOK, SendTypeOK
  <2>3. worker' \in [Workers -> Busy \cup {IdleWorker}]
    BY <1>6, <2>2 DEF Reserve, TypeOK, SequencerTypeOK
  <2> QED
    BY <1>6, <2>1, <2>3
    DEF Reserve, TypeOK, SequencerTypeOK, SendTypeOK, histVars
<1> QED
  BY <1>3, <1>4, <1>5, <1>6

LEMMA ClaimType ==
    ASSUME TypeOK, NEW w \in Workers,
           \/ Claim(w) \/ DuplicateClaim(w) \/ Deliver(w)
           \/ DeliverFailed(w) \/ Finalize(w)
    PROVE  TypeOK'
<1>1. worker[w] \in Busy
  BY BusyWorker DEF Claim, DuplicateClaim, Deliver, DeliverFailed, Finalize, TypeOK
<1>2. /\ KeyOf(w) \in Keys /\ worker[w].e \in Enrollments
      /\ worker[w].day \in Nat /\ worker[w].step \in Steps
  BY <1>1, KeyType DEF TypeOK
<1>3. ASSUME NEW pc \in BusyPC, worker' = [worker EXCEPT ![w].pc = pc]
      PROVE  worker' \in [Workers -> Busy \cup {IdleWorker}]
  <2>1. [worker[w] EXCEPT !.pc = pc] \in Busy
    BY <1>1 DEF Busy
  <2> QED
    BY <1>3, <2>1 DEF TypeOK, SequencerTypeOK
<1>4. CASE Claim(w)
  <2>1. msg' \in [Keys -> Message]
    BY <1>2, <1>4 DEF Claim, Message, TypeOK, SendTypeOK
  <2>2. worker' \in [Workers -> Busy \cup {IdleWorker}]
    BY <1>3, <1>4 DEF Claim, BusyPC
  <2> QED
    BY <1>4, <2>1, <2>2 DEF Claim, TypeOK, SequencerTypeOK, SendTypeOK, histVars
<1>5. CASE DuplicateClaim(w)
  <2>1. sentToday' \in [Quotas -> Nat] /\ misfreed' \in Nat
    BY <1>5, ReleaseType DEF DuplicateClaim, TypeOK
  <2>2. worker' \in [Workers -> Busy \cup {IdleWorker}]
    BY <1>5, StopType DEF DuplicateClaim, TypeOK
  <2> QED
    BY <1>2, <1>5, <2>1, <2>2
    DEF DuplicateClaim, Drop, TypeOK, SequencerTypeOK, SendTypeOK
<1>6. CASE Deliver(w)
  <2>1. delivered' \in [Keys -> Nat] /\ todays' \in Nat /\ late' \in [Enrollments -> Nat]
    BY <1>1, <1>6, AcceptedType DEF Deliver
  <2>2. wire' \in [Keys -> Nat]
    BY <1>2, <1>6 DEF Deliver, TypeOK, SendTypeOK
  <2>3. worker' \in [Workers -> Busy \cup {IdleWorker}]
    BY <1>3, <1>6 DEF Deliver, BusyPC
  <2> QED
    BY <1>6, <2>1, <2>2, <2>3
    DEF Deliver, TypeOK, SequencerTypeOK, SendTypeOK, sendVars
<1>7. CASE DeliverFailed(w)
  <2>1. /\ delivered' \in [Keys -> Nat] /\ todays' \in Nat
        /\ late' \in [Enrollments -> Nat]
    BY <1>1, <1>7, AcceptedType DEF DeliverFailed, TypeOK, SendTypeOK
  <2>2. sentToday' \in [Quotas -> Nat] /\ misfreed' \in Nat
    BY <1>7, ReleaseType DEF DeliverFailed, TypeOK
  <2>3. msg' \in [Keys -> Message] /\ wire' \in [Keys -> Nat]
    BY <1>2, <1>7 DEF DeliverFailed, Message, NoMessage, TypeOK, SendTypeOK
  <2>4. queue' \in [Job -> Nat] /\ dropped' \subseteq Enrollments
    BY <1>1, <1>7, RetryType DEF DeliverFailed, TypeOK
  <2>5. worker' \in [Workers -> Busy \cup {IdleWorker}]
    BY <1>7, StopType DEF DeliverFailed, TypeOK
  <2> QED
    BY <1>7, <2>1, <2>2, <2>3, <2>4, <2>5
    DEF DeliverFailed, TypeOK, SequencerTypeOK, SendTypeOK
<1>8. CASE Finalize(w)
  <2>1. enr[worker[w].e] \in Row
    BY <1>2 DEF TypeOK, SequencerTypeOK
  <2>2. [enr[worker[w].e] EXCEPT
            !.state = NextState("ready", "send_ok"), !.due = TRUE,
            !.step = IF worker[w].first THEN worker[w].step ELSE @] \in Row
    <3>1. NextState("ready", "send_ok") \in States
      BY NextStateType DEF Events, Target
    <3>2. (IF worker[w].first THEN worker[w].step ELSE enr[worker[w].e].step) \in 0..LastStep
      BY <1>2, <2>1 DEF Row, Steps
    <3> QED
      BY <2>1, <3>1, <3>2 DEF Row
  <2>3. enr' \in [Enrollments -> Row]
    BY <1>2, <1>8, <2>2, WriteType DEF Finalize, TypeOK
  <2>4. msg[KeyOf(w)] \in Message /\ [msg[KeyOf(w)] EXCEPT !.status = "sent"] \in Message
    BY <1>2 DEF TypeOK, SendTypeOK, Message
  <2>5. msg' \in [Keys -> Message]
    BY <1>2, <1>8, <2>4 DEF Finalize, TypeOK, SendTypeOK
  <2>6. worker' \in [Workers -> Busy \cup {IdleWorker}]
    BY <1>8, StopType DEF Finalize, TypeOK
  <2> QED
    BY <1>8, <2>3, <2>5, <2>6
    DEF Finalize, TypeOK, SequencerTypeOK, SendTypeOK, histVars
<1> QED
  BY <1>4, <1>5, <1>6, <1>7, <1>8

LEMMA BeatType ==
    ASSUME TypeOK,
           \/ \E k \in Keys : SweepUnsent(k)
           \/ DailyReset
           \/ \E e \in Enrollments : Suppress(e)
    PROVE  TypeOK'
<1>1. ASSUME NEW k \in Keys, SweepUnsent(k)
      PROVE  TypeOK'
  <2>1. k[1] \in Enrollments /\ enr[k[1]] \in Row
    BY DEF Keys, TypeOK, SequencerTypeOK
  <2>2. [enr[k[1]] EXCEPT !.due = TRUE] \in Row
    BY <2>1 DEF Row
  <2>3. enr' \in [Enrollments -> Row]
    BY <1>1, <2>1, <2>2, WriteType DEF SweepUnsent, TypeOK, SequencerTypeOK
  <2>4. msg' \in [Keys -> Message] /\ wire' \in [Keys -> Nat]
    BY <1>1 DEF SweepUnsent, Message, NoMessage, TypeOK, SendTypeOK
  <2>5. sentToday' \in [Quotas -> Nat] /\ misfreed' \in Nat
    BY <1>1, ReleaseType DEF SweepUnsent, TypeOK
  <2> QED
    BY <1>1, <2>3, <2>4, <2>5
    DEF SweepUnsent, TypeOK, SequencerTypeOK, SendTypeOK
<1>2. CASE DailyReset
  BY <1>2 DEF DailyReset, seqVars, TypeOK, SequencerTypeOK, SendTypeOK
<1>3. ASSUME NEW e \in Enrollments, Suppress(e)
      PROVE  TypeOK'
  <2>1. Cardinality({w \in Workers :
            worker[w].pc \in {"reserved", "claimed"} /\ worker[w].e = e}) \in Nat
    BY FS_Subset, FS_CardinalityType
  <2> QED
    BY <1>3, <2>1 DEF Suppress, seqVars, TypeOK, SequencerTypeOK, SendTypeOK
<1> QED
  BY <1>1, <1>2, <1>3

LEMMA InitType == Init => TypeOK
<1>1. ASSUME Init
      PROVE  SequencerTypeOK
  <2>1. [state |-> "queued", step |-> 0, due |-> TRUE] \in Row
    BY DEF Row, States, Live
  <2> QED
    BY <1>1, <2>1 DEF Init, SequencerInit, SequencerTypeOK
<1>2. ASSUME Init
      PROVE  SendTypeOK
  BY <1>2 DEF Init, SendTypeOK, Message, NoMessage
<1> QED
  BY <1>1, <1>2 DEF TypeOK

LEMMA NextType == TypeOK /\ [Next]_vars => TypeOK'
<1> SUFFICES ASSUME TypeOK, [Next]_vars
             PROVE  TypeOK'
  OBVIOUS
<1>1. ASSUME NEW A, A => SequencerTypeOK', Alone(A)
      PROVE  TypeOK'
  BY <1>1 DEF Alone, TypeOK, SendTypeOK, sendVars, histVars
<1>2. ASSUME NEW e \in Enrollments, TickStep(e)
      PROVE  TypeOK'
  BY <1>1, <1>2, TickType DEF TickStep, TypeOK
<1>3. ASSUME NEW e \in Enrollments, PersonStep(e)
      PROVE  TypeOK'
  BY <1>1, <1>3, RedriveType, BeatType DEF PersonStep, TypeOK
<1>4. CASE Alone(TickCommit)
  BY <1>1, <1>4, TickEndType DEF TypeOK
<1>5. ASSUME NEW w \in Workers, WorkerStep(w)
      PROVE  TypeOK'
  BY <1>1, <1>5, ResearchEndType, PresendType, ClaimType DEF WorkerStep, TypeOK
<1>6. ASSUME NEW w \in Workers, NEW e \in Enrollments, NEW n \in 0..MaxRetries,
             TakeJob(w, e, n)
      PROVE  TypeOK'
  BY <1>1, <1>6, ResearchType, TakeSendType DEF TakeJob, TypeOK
<1>7. CASE Failure
  BY <1>1, <1>7, TickEndType, RedisType, ResearchEndType DEF Failure, TypeOK
<1>8. CASE UNCHANGED vars
  BY <1>8 DEF vars, seqVars, sendVars, histVars, TypeOK, SequencerTypeOK, SendTypeOK
<1> QED
  BY <1>2, <1>3, <1>4, <1>5, <1>6, <1>7, <1>8, BeatType DEF Next

(* Every value any run of the model gives a variable is one the code could *)
(* store there: no handler writes an undocumented state, a step beyond the *)
(* sequence or a negative counter.                                         *)
THEOREM TypeCorrect == Spec => []TypeOK
<1>1. Init => TypeOK
  BY InitType
<1>2. TypeOK /\ [Next]_vars => TypeOK'
  BY NextType
<1> QED
  BY <1>1, <1>2, PTL DEF Spec

-----------------------------------------------------------------------------
(* One e-mail per claim.  ClaimsOwned is inductive: a task enters the part *)
(* between claim and end only through Claim, which needs the row free, and *)
(* the sweep touches no row that part owns.                                *)

(* A step that leaves the rows alone and moves no task into or within that *)
(* part keeps ClaimsOwned.                                                 *)
LEMMA ClaimsOwnedFrame ==
    ASSUME ClaimsOwned, UNCHANGED <<msg, wire>>,
           \A w \in Workers : Sending(w)' => worker'[w] = worker[w]
    PROVE  ClaimsOwned'
<1>1. \A w \in Workers : Sending(w)' =>
         Sending(w) /\ KeyOf(w)' = KeyOf(w) /\ worker'[w].pc = worker[w].pc
  BY DEF Sending, KeyOf
<1> QED
  BY <1>1 DEF ClaimsOwned

(* The task of w ends, or is one outside that part.                        *)
LEMMA StopFrame ==
    ASSUME TypeOK, NEW w \in Workers, Stop(w)
    PROVE  \A v \in Workers : Sending(v)' => v # w /\ worker'[v] = worker[v]
BY DEF Stop, Sending, IdleWorker, TypeOK, SequencerTypeOK

LEMMA RunFrame ==
    ASSUME TypeOK, NEW w \in Workers, NEW e \in Enrollments, NEW n \in 0..MaxRetries,
           NEW pc \in {"research", "generate"}, Run(w, pc, e, n)
    PROVE  \A v \in Workers : Sending(v)' => worker'[v] = worker[v]
BY DEF Run, Sending, TypeOK, SequencerTypeOK

(* What every step that neither claims nor sends does.                     *)
Quiet == /\ UNCHANGED <<msg, wire>>
         /\ \A w \in Workers : Sending(w)' => worker'[w] = worker[w]

LEMMA QuietSteps ==
    ASSUME TypeOK,
           \/ \E e \in Enrollments : TickStep(e) \/ PersonStep(e)
           \/ Alone(TickCommit)
           \/ \E w \in Workers, e \in Enrollments, n \in 0..MaxRetries : TakeJob(w, e, n)
           \/ \E w \in Workers :
                 \/ Alone(FinishResearch(w)) \/ Alone(TaskException(w))
                 \/ CopyRejected(w) \/ PresendSuppressed(w) \/ PresendBlocked(w)
                 \/ Reserve(w) \/ DuplicateClaim(w)
           \/ DailyReset
           \/ Failure
    PROVE  Quiet
<1>1. ASSUME NEW e \in Enrollments, TickStep(e)
      PROVE  Quiet
  BY <1>1 DEF TickStep, Alone, TickQueued, TickFinished, TickTimer, TickReady,
              sendVars, histVars, Quiet
<1>2. ASSUME NEW e \in Enrollments, PersonStep(e)
      PROVE  Quiet
  BY <1>2 DEF PersonStep, Alone, Redrive, Suppress, seqVars, sendVars, histVars, Quiet
<1>3. CASE Alone(TickCommit)
  BY <1>3 DEF Alone, TickCommit, sendVars, histVars, Quiet
<1>4. ASSUME NEW w \in Workers, NEW e \in Enrollments, NEW n \in 0..MaxRetries,
             TakeJob(w, e, n)
      PROVE  Quiet
  <2>1. CASE Alone(StartResearch(w, e, n)) \/ StartSend(w, e, n)
    BY <2>1, RunFrame DEF Alone, StartResearch, StartSend, sendVars, histVars, Quiet
  <2>2. CASE \/ Alone(Discard(w, "research", "researching", e, n))
             \/ Alone(Discard(w, "send", "ready", e, n))
             \/ StartRefused(w, e, n) \/ Reroute(w, e, n)
    BY <2>2 DEF Alone, Discard, StartRefused, Reroute, sendVars, histVars, Quiet
  <2> QED
    BY <1>4, <2>1, <2>2 DEF TakeJob
<1>5. ASSUME NEW w \in Workers,
             \/ Alone(FinishResearch(w)) \/ Alone(TaskException(w))
             \/ CopyRejected(w) \/ PresendSuppressed(w) \/ PresendBlocked(w)
             \/ DuplicateClaim(w)
      PROVE  Quiet
  <2>1. UNCHANGED <<msg, wire>>
    BY <1>5 DEF Alone, FinishResearch, TaskException, CopyRejected, PresendSuppressed,
                PresendBlocked, DuplicateClaim, sendVars, histVars
  <2>2. Stop(w)
    BY <1>5 DEF Alone, FinishResearch, TaskException, CopyRejected, PresendSuppressed,
                PresendBlocked, DuplicateClaim
  <2> QED
    BY <2>1, <2>2, StopFrame DEF Quiet
<1>6. ASSUME NEW w \in Workers, Reserve(w)
      PROVE  Quiet
  <2>1. worker[w] \in Busy
    BY <1>6, BusyWorker DEF Reserve, TypeOK
  <2>2. worker'[w].pc = "reserved"
    BY <1>6, <2>1 DEF Reserve, Busy, TypeOK, SequencerTypeOK
  <2> QED
    BY <1>6, <2>2 DEF Reserve, histVars, Sending, Quiet, TypeOK, SequencerTypeOK
<1>7. CASE DailyReset
  BY <1>7 DEF DailyReset, seqVars, Quiet
<1>8. CASE Failure
  <2>1. CASE Alone(TickCrash) \/ Alone(RedisLost) \/ Alone(Redeliver)
    BY <2>1 DEF Alone, TickCrash, RedisLost, Redeliver, sendVars, histVars, Quiet
  <2>2. ASSUME NEW w \in Workers, Alone(Crash(w))
        PROVE  Quiet
    BY <2>2, StopFrame DEF Alone, Crash, sendVars, histVars, Quiet
  <2> QED
    BY <1>8, <2>1, <2>2 DEF Failure
<1> QED
  BY <1>1, <1>2, <1>3, <1>4, <1>5, <1>6, <1>7, <1>8

(* A claim needs the row free, so it gives the row its only owner.         *)
LEMMA ClaimOwns ==
    ASSUME TypeOK, ClaimsOwned, NEW w \in Workers, Claim(w)
    PROVE  ClaimsOwned'
<1>1. worker[w] \in Busy /\ KeyOf(w) \in Keys
  BY BusyWorker, KeyType DEF Claim, TypeOK
<1>2. /\ worker'[w].pc = "claimed" /\ KeyOf(w)' = KeyOf(w)
      /\ \A v \in Workers : v # w => worker'[v] = worker[v]
  BY <1>1 DEF Claim, KeyOf, Busy, TypeOK, SequencerTypeOK
<1>3. \A v \in Workers : v # w =>
         Sending(v)' = Sending(v) /\ KeyOf(v)' = KeyOf(v) /\ worker'[v].pc = worker[v].pc
  BY <1>2 DEF Sending, KeyOf
<1>4. \A v \in Workers : Sending(v) => KeyOf(v) # KeyOf(w)
  BY DEF ClaimsOwned, Claim
<1>5. /\ msg'[KeyOf(w)].status = "claimed"
      /\ \A k \in Keys : k # KeyOf(w) => msg'[k] = msg[k]
      /\ wire' = wire
      /\ wire[KeyOf(w)] = 0
  BY <1>1 DEF Claim, ClaimsOwned, TypeOK, SendTypeOK, histVars
<1>6. \A v \in Workers : Sending(v)' =>
         /\ msg'[KeyOf(v)'].status = "claimed"
         /\ wire'[KeyOf(v)'] = IF worker'[v].pc = "delivered" THEN 1 ELSE 0
  <2> SUFFICES ASSUME NEW v \in Workers, Sending(v)'
               PROVE  /\ msg'[KeyOf(v)'].status = "claimed"
                      /\ wire'[KeyOf(v)'] = IF worker'[v].pc = "delivered" THEN 1 ELSE 0
    OBVIOUS
  <2>1. CASE v = w
    BY <1>2, <1>5, <2>1
  <2>2. CASE v # w
    <3>1. Sending(v) /\ KeyOf(v)' = KeyOf(v) /\ worker'[v].pc = worker[v].pc
      BY <1>3, <2>2
    <3>2. worker[v] \in Busy /\ KeyOf(v) \in Keys /\ KeyOf(v) # KeyOf(w)
      BY <1>4, <3>1, BusyWorker, KeyType DEF Sending, TypeOK
    <3> QED
      BY <1>5, <3>1, <3>2 DEF ClaimsOwned
  <2> QED
    BY <2>1, <2>2
<1>7. \A v, u \in Workers : Sending(v)' /\ Sending(u)' /\ KeyOf(v)' = KeyOf(u)' => v = u
  BY <1>2, <1>3, <1>4 DEF ClaimsOwned
<1>8. \A k \in Keys :
         /\ wire'[k] \in 0..1
         /\ msg'[k].status = "none" => wire'[k] = 0
         /\ msg'[k].status = "sent" => wire'[k] = 1
  BY <1>5 DEF ClaimsOwned
<1> QED
  BY <1>6, <1>7, <1>8 DEF ClaimsOwned

(* A change to one row by its owner, who keeps it (pc delivered) or stops, *)
(* leaves the other owners' rows alone.                                    *)
LEMMA OwnerFrame ==
    ASSUME TypeOK, ClaimsOwned, NEW w \in Workers, Sending(w),
           \A v \in Workers : v # w => worker'[v] = worker[v],
           \A k \in Keys : k # KeyOf(w) => msg'[k] = msg[k] /\ wire'[k] = wire[k]
    PROVE  \A v \in Workers : v # w /\ Sending(v)' =>
              /\ msg'[KeyOf(v)'].status = "claimed"
              /\ wire'[KeyOf(v)'] = IF worker'[v].pc = "delivered" THEN 1 ELSE 0
              /\ KeyOf(v)' # KeyOf(w)
              /\ Sending(v) /\ KeyOf(v)' = KeyOf(v)
<1> SUFFICES ASSUME NEW v \in Workers, v # w, Sending(v)'
             PROVE  /\ msg'[KeyOf(v)'].status = "claimed"
                    /\ wire'[KeyOf(v)'] = IF worker'[v].pc = "delivered" THEN 1 ELSE 0
                    /\ KeyOf(v)' # KeyOf(w)
                    /\ Sending(v) /\ KeyOf(v)' = KeyOf(v)
  OBVIOUS
<1>1. Sending(v) /\ KeyOf(v)' = KeyOf(v) /\ worker'[v].pc = worker[v].pc
  BY DEF Sending, KeyOf
<1>2. KeyOf(v) \in Keys /\ KeyOf(v) # KeyOf(w)
  BY <1>1, BusyWorker, KeyType DEF Sending, TypeOK, ClaimsOwned
<1> QED
  BY <1>1, <1>2 DEF ClaimsOwned

LEMMA DeliverOwns ==
    ASSUME TypeOK, ClaimsOwned, NEW w \in Workers, Deliver(w)
    PROVE  ClaimsOwned'
<1>1. worker[w] \in Busy /\ KeyOf(w) \in Keys /\ Sending(w)
  BY BusyWorker, KeyType DEF Deliver, TypeOK, Sending
<1>2. /\ worker'[w].pc = "delivered" /\ KeyOf(w)' = KeyOf(w)
      /\ \A v \in Workers : v # w => worker'[v] = worker[v]
  BY <1>1 DEF Deliver, KeyOf, Busy, TypeOK, SequencerTypeOK
<1>3. /\ msg' = msg
      /\ msg[KeyOf(w)].status = "claimed" /\ wire[KeyOf(w)] = 0
      /\ wire'[KeyOf(w)] = wire[KeyOf(w)] + 1
      /\ \A k \in Keys : k # KeyOf(w) => wire'[k] = wire[k]
  BY <1>1 DEF Deliver, ClaimsOwned, TypeOK, SendTypeOK, sendVars
<1>4. \A v \in Workers : v # w /\ Sending(v)' =>
         /\ msg'[KeyOf(v)'].status = "claimed"
         /\ wire'[KeyOf(v)'] = IF worker'[v].pc = "delivered" THEN 1 ELSE 0
         /\ KeyOf(v)' # KeyOf(w)
         /\ Sending(v) /\ KeyOf(v)' = KeyOf(v)
  BY <1>1, <1>2, <1>3, OwnerFrame
<1>5. msg'[KeyOf(w)'].status = "claimed" /\ wire'[KeyOf(w)'] = 1
  BY <1>2, <1>3
<1>6. \A v, u \in Workers : Sending(v)' /\ Sending(u)' /\ KeyOf(v)' = KeyOf(u)' => v = u
  BY <1>2, <1>4 DEF ClaimsOwned
<1>7. \A k \in Keys :
         /\ wire'[k] \in 0..1
         /\ msg'[k].status = "none" => wire'[k] = 0
         /\ msg'[k].status = "sent" => wire'[k] = 1
  BY <1>3 DEF ClaimsOwned
<1>8. \A v \in Workers : Sending(v)' =>
         /\ msg'[KeyOf(v)'].status = "claimed"
         /\ wire'[KeyOf(v)'] = IF worker'[v].pc = "delivered" THEN 1 ELSE 0
  BY <1>2, <1>4, <1>5
<1> QED
  BY <1>6, <1>7, <1>8 DEF ClaimsOwned

(* The owner stops: it leaves the row free and empty, or sent.             *)
LEMMA EndOwns ==
    ASSUME TypeOK, ClaimsOwned, NEW w \in Workers, DeliverFailed(w) \/ Finalize(w)
    PROVE  ClaimsOwned'
<1>1. worker[w] \in Busy /\ KeyOf(w) \in Keys /\ Sending(w)
  BY BusyWorker, KeyType DEF DeliverFailed, Finalize, TypeOK, Sending
<1>2. /\ ~Sending(w)'
      /\ \A v \in Workers : v # w => worker'[v] = worker[v]
  <2>1. Stop(w)
    BY DEF DeliverFailed, Finalize
  <2> QED
    BY <2>1 DEF Stop, Sending, IdleWorker, TypeOK, SequencerTypeOK
<1>3. /\ \A k \in Keys : k # KeyOf(w) => msg'[k] = msg[k] /\ wire'[k] = wire[k]
      /\ \/ msg'[KeyOf(w)].status = "none" /\ wire'[KeyOf(w)] = 0
         \/ msg'[KeyOf(w)].status = "sent" /\ wire'[KeyOf(w)] = 1
  <2>1. CASE DeliverFailed(w)
    <3>1. /\ msg' = [msg EXCEPT ![KeyOf(w)] = NoMessage]
          /\ wire' = [wire EXCEPT ![KeyOf(w)] = 0]
      BY <2>1 DEF DeliverFailed
    <3> QED
      BY <1>1, <3>1 DEF NoMessage, TypeOK, SendTypeOK
  <2>2. CASE Finalize(w)
    <3>1. wire[KeyOf(w)] = 1
      BY <1>1, <2>2 DEF Finalize, ClaimsOwned
    <3>2. msg[KeyOf(w)] \in Message
      BY <1>1 DEF TypeOK, SendTypeOK
    <3>3. [msg[KeyOf(w)] EXCEPT !.status = "sent"].status = "sent"
      BY <3>2 DEF Message
    <3>4. msg'[KeyOf(w)] = [msg[KeyOf(w)] EXCEPT !.status = "sent"]
      BY <1>1, <2>2 DEF Finalize, TypeOK, SendTypeOK
    <3> QED
      BY <1>1, <2>2, <3>1, <3>3, <3>4 DEF Finalize, histVars, TypeOK, SendTypeOK
  <2> QED
    BY <2>1, <2>2
<1>4. \A v \in Workers : v # w /\ Sending(v)' =>
         /\ msg'[KeyOf(v)'].status = "claimed"
         /\ wire'[KeyOf(v)'] = IF worker'[v].pc = "delivered" THEN 1 ELSE 0
         /\ KeyOf(v)' # KeyOf(w)
         /\ Sending(v) /\ KeyOf(v)' = KeyOf(v)
  BY <1>1, <1>2, <1>3, OwnerFrame
<1>5. \A k \in Keys :
         /\ wire'[k] \in 0..1
         /\ msg'[k].status = "none" => wire'[k] = 0
         /\ msg'[k].status = "sent" => wire'[k] = 1
  BY <1>1, <1>3 DEF ClaimsOwned
<1>6. \A v, u \in Workers : Sending(v)' /\ Sending(u)' /\ KeyOf(v)' = KeyOf(u)' => v = u
  BY <1>2, <1>4 DEF ClaimsOwned
<1> QED
  BY <1>2, <1>4, <1>5, <1>6 DEF ClaimsOwned

(* The sweep frees a row no task owns.                                     *)
LEMMA SweepOwns ==
    ASSUME TypeOK, ClaimsOwned, NEW k \in Keys, SweepUnsent(k)
    PROVE  ClaimsOwned'
<1>1. /\ msg' = [msg EXCEPT ![k] = NoMessage]
      /\ wire' = [wire EXCEPT ![k] = 0]
      /\ worker' = worker
      /\ \A w \in Workers : Sending(w) => KeyOf(w) # k
  BY DEF SweepUnsent, InFlight
<1>2. /\ msg'[k].status = "none" /\ wire'[k] = 0
      /\ \A i \in Keys : i # k => msg'[i] = msg[i] /\ wire'[i] = wire[i]
  BY <1>1 DEF NoMessage, TypeOK, SendTypeOK
<1>3. \A w \in Workers : Sending(w)' = Sending(w) /\ KeyOf(w)' = KeyOf(w)
  BY <1>1 DEF Sending, KeyOf
<1>4. \A w \in Workers : Sending(w) => KeyOf(w) \in Keys
  BY BusyWorker, KeyType DEF Sending, TypeOK
<1>5. \A w \in Workers : Sending(w)' =>
         /\ msg'[KeyOf(w)'].status = "claimed"
         /\ wire'[KeyOf(w)'] = IF worker'[w].pc = "delivered" THEN 1 ELSE 0
  BY <1>1, <1>2, <1>3, <1>4 DEF ClaimsOwned
<1>6. \A v, u \in Workers : Sending(v)' /\ Sending(u)' /\ KeyOf(v)' = KeyOf(u)' => v = u
  BY <1>3 DEF ClaimsOwned
<1>7. \A i \in Keys :
         /\ wire'[i] \in 0..1
         /\ msg'[i].status = "none" => wire'[i] = 0
         /\ msg'[i].status = "sent" => wire'[i] = 1
  BY <1>2 DEF ClaimsOwned
<1> QED
  BY <1>5, <1>6, <1>7 DEF ClaimsOwned

LEMMA InitOwns == Init => ClaimsOwned
BY DEF Init, SequencerInit, ClaimsOwned, Sending, IdleWorker, NoMessage

LEMMA NextOwns == TypeOK /\ ClaimsOwned /\ [Next]_vars => ClaimsOwned'
<1> SUFFICES ASSUME TypeOK, ClaimsOwned, [Next]_vars
             PROVE  ClaimsOwned'
  OBVIOUS
<1>1. CASE Quiet
  BY <1>1, ClaimsOwnedFrame DEF Quiet
<1>2. CASE UNCHANGED vars
  BY <1>2, ClaimsOwnedFrame DEF vars, seqVars, sendVars, histVars
<1>3. ASSUME NEW w \in Workers, WorkerStep(w)
      PROVE  ClaimsOwned'
  BY <1>1, <1>3, QuietSteps, ClaimOwns, DeliverOwns, EndOwns DEF WorkerStep
<1>4. ASSUME NEW k \in Keys, SweepUnsent(k)
      PROVE  ClaimsOwned'
  BY <1>4, SweepOwns
<1> QED
  BY <1>1, <1>2, <1>3, <1>4, QuietSteps DEF Next

(* A row claimed for an e-mail is its task's own until the task ends: the  *)
(* inductive invariant behind the two theorems that follow.                *)
THEOREM ClaimsAreOwned == Spec => []ClaimsOwned
<1>1. Init => ClaimsOwned
  BY InitOwns
<1>2. TypeOK /\ ClaimsOwned /\ [Next]_vars => ClaimsOwned'
  BY NextOwns
<1> QED
  BY <1>1, <1>2, TypeCorrect, PTL DEF Spec

(* However many workers, retries, redeliveries, crashes and sweeps there   *)
(* are, one claim row never carries two e-mails.                           *)
THEOREM OneDelivery == Spec => []OneDeliveryPerClaim
<1>1. ClaimsOwned => OneDeliveryPerClaim
  BY DEF ClaimsOwned, OneDeliveryPerClaim
<1> QED
  BY <1>1, ClaimsAreOwned, PTL

(* No failure path leaves a row marked sent for an e-mail that never left. *)
THEOREM SentMeansDelivered == Spec => []SentWasDelivered
<1>1. ClaimsOwned => SentWasDelivered
  BY DEF ClaimsOwned, SentWasDelivered
<1> QED
  BY <1>1, ClaimsAreOwned, PTL

-----------------------------------------------------------------------------
(* SendPath implements Outbox: a quiet step is a stutter, each loud step   *)
(* is the step of Outbox for the row it writes.                            *)

LEMMA RowOf ==
    ASSUME TypeOK, NEW k \in Keys, NEW m \in Message, msg' = [msg EXCEPT ![k] = m]
    PROVE  [i \in Keys |-> msg'[i].status] =
               [[i \in Keys |-> msg[i].status] EXCEPT ![k] = m.status]
BY DEF TypeOK, SendTypeOK

LEMMA OutboxStep ==
    ASSUME NEW k \in Keys,
           Outbox!Open(k) \/ Outbox!Mail(k) \/ Outbox!Done(k) \/ Outbox!Cancel(k)
    PROVE  Outbox!Next
BY DEF Outbox!Next

LEMMA LoudStep ==
    ASSUME TypeOK, ClaimsOwned, NEW w \in Workers,
           Claim(w) \/ Deliver(w) \/ DeliverFailed(w) \/ Finalize(w)
    PROVE  Outbox!Next
<1>1. worker[w] \in Busy /\ KeyOf(w) \in Keys /\ worker[w].day \in Nat
  BY BusyWorker, KeyType DEF Claim, Deliver, DeliverFailed, Finalize, TypeOK
<1> PICK k \in Keys : k = KeyOf(w)
  BY <1>1
<1>2. CASE Claim(w)
  <2>1. [status |-> "claimed", day |-> worker[w].day] \in Message
    BY <1>1 DEF Message
  <2>2. Outbox!Open(k)
    BY <1>1, <1>2, <2>1, RowOf DEF Claim, histVars, Outbox!Open
  <2> QED
    BY <1>1, <2>2, OutboxStep
<1>3. CASE Deliver(w)
  <2>1. msg[k].status = "claimed" /\ wire[k] = 0 /\ msg' = msg
    BY <1>1, <1>3 DEF Deliver, ClaimsOwned, Sending, sendVars
  <2>2. wire' = [wire EXCEPT ![k] = 1]
    BY <1>1, <1>3, <2>1 DEF Deliver, TypeOK, SendTypeOK
  <2>3. Outbox!Mail(k)
    BY <1>1, <2>1, <2>2 DEF Outbox!Mail
  <2> QED
    BY <1>1, <2>3, OutboxStep
<1>4. CASE DeliverFailed(w)
  <2>1. /\ msg' = [msg EXCEPT ![k] = NoMessage]
        /\ wire' = [wire EXCEPT ![k] = 0]
        /\ msg[k].status = "claimed"
    BY <1>1, <1>4 DEF DeliverFailed, ClaimsOwned, Sending
  <2>2. NoMessage \in Message /\ NoMessage.status = "none"
    BY DEF Message, NoMessage
  <2>3. Outbox!Cancel(k)
    BY <1>1, <2>1, <2>2, RowOf DEF Outbox!Cancel
  <2> QED
    BY <1>1, <2>3, OutboxStep
<1>5. CASE Finalize(w)
  <2>1. msg[k].status = "claimed" /\ wire[k] = 1 /\ wire' = wire
    BY <1>1, <1>5 DEF Finalize, ClaimsOwned, Sending, histVars
  <2>2. msg[k] \in Message
    BY <1>1 DEF TypeOK, SendTypeOK
  <2>3. /\ [msg[k] EXCEPT !.status = "sent"] \in Message
        /\ [msg[k] EXCEPT !.status = "sent"].status = "sent"
    BY <2>2 DEF Message
  <2>4. msg' = [msg EXCEPT ![k] = [msg[k] EXCEPT !.status = "sent"]]
    BY <1>1, <1>5 DEF Finalize, TypeOK, SendTypeOK
  <2>5. Outbox!Done(k)
    BY <1>1, <2>1, <2>3, <2>4, RowOf DEF Outbox!Done
  <2> QED
    BY <1>1, <2>5, OutboxStep
<1> QED
  BY <1>2, <1>3, <1>4, <1>5

LEMMA SweepStep ==
    ASSUME TypeOK, NEW k \in Keys, SweepUnsent(k)
    PROVE  Outbox!Next
<1>1. /\ msg[k].status = "claimed"
      /\ msg' = [msg EXCEPT ![k] = NoMessage]
      /\ wire' = [wire EXCEPT ![k] = 0]
  BY DEF SweepUnsent
<1>2. NoMessage \in Message /\ NoMessage.status = "none"
  BY DEF Message, NoMessage
<1>3. Outbox!Cancel(k)
  BY <1>1, <1>2, RowOf DEF Outbox!Cancel
<1> QED
  BY <1>3, OutboxStep

(* The whole send path, with its workers, retries, crashes and sweeps,     *)
(* keeps the promise Outbox states without them.                           *)
THEOREM ImplementsOutbox == Spec => OutboxPromise
<1>1. Init => Outbox!Init
  BY DEF Init, NoMessage, Outbox!Init
<1>2. TypeOK /\ ClaimsOwned /\ [Next]_vars => [Outbox!Next]_(Outbox!vars)
  <2> SUFFICES ASSUME TypeOK, ClaimsOwned, [Next]_vars
               PROVE  [Outbox!Next]_(Outbox!vars)
    OBVIOUS
  <2>1. CASE Quiet
    BY <2>1 DEF Quiet, Outbox!vars
  <2>2. CASE UNCHANGED vars
    BY <2>2 DEF vars, sendVars, histVars, Outbox!vars
  <2>3. ASSUME NEW w \in Workers, WorkerStep(w)
        PROVE  [Outbox!Next]_(Outbox!vars)
    BY <2>1, <2>3, QuietSteps, LoudStep DEF WorkerStep
  <2>4. ASSUME NEW k \in Keys, SweepUnsent(k)
        PROVE  [Outbox!Next]_(Outbox!vars)
    BY <2>4, SweepStep
  <2> QED
    BY <2>1, <2>2, <2>3, <2>4, QuietSteps DEF Next
<1> QED
  BY <1>1, <1>2, TypeCorrect, ClaimsAreOwned, PTL DEF Spec, OutboxPromise, Outbox!Spec

-----------------------------------------------------------------------------
(* Suppression.  Tasks of a lead past their last check, each of which may  *)
(* still send once, and what went out late are paid for by `past`.         *)

Owing(e) == {w \in Workers : worker[w].pc \in {"reserved", "claimed"} /\ worker[w].e = e}

LateInv ==
    \A e \in Enrollments :
       IF e \in suppressed THEN late[e] + Cardinality(Owing(e)) <= past[e] ELSE late[e] = 0

LEMMA OwingFinite ==
    ASSUME NEW e
    PROVE  IsFiniteSet(Owing(e)) /\ Cardinality(Owing(e)) \in Nat
<1>1. Owing(e) \subseteq Workers
  BY DEF Owing
<1> QED
  BY <1>1, FS_Subset, FS_CardinalityType

(* A step that lets no task of a suppressed lead past the check.           *)
Unpassed ==
    /\ UNCHANGED <<suppressed, late, past>>
    /\ \A v \in Workers : worker'[v].pc \in {"reserved", "claimed"} =>
          \/ worker[v].pc \in {"reserved", "claimed"} /\ worker'[v].e = worker[v].e
          \/ worker'[v].e \notin suppressed

LEMMA LateFrame ==
    ASSUME TypeOK, TypeOK', LateInv, Unpassed
    PROVE  LateInv'
<1> SUFFICES ASSUME NEW e \in Enrollments
             PROVE  IF e \in suppressed' THEN late'[e] + Cardinality(Owing(e)') <= past'[e]
                                         ELSE late'[e] = 0
  BY DEF LateInv
<1>1. CASE e \notin suppressed
  BY <1>1 DEF LateInv, Unpassed
<1>2. CASE e \in suppressed
  <2>1. Owing(e)' \subseteq Owing(e)
    BY <1>2 DEF Owing, Unpassed
  <2>2. Cardinality(Owing(e)') <= Cardinality(Owing(e)) /\ Cardinality(Owing(e)') \in Nat
    BY <2>1, OwingFinite, FS_Subset, FS_CardinalityType
  <2>3. late[e] \in Nat /\ past[e] \in Nat /\ Cardinality(Owing(e)) \in Nat
    BY OwingFinite DEF TypeOK, SendTypeOK
  <2> QED
    BY <1>2, <2>2, <2>3 DEF LateInv, Unpassed
<1> QED
  BY <1>1, <1>2

LEMMA UnpassedSteps ==
    ASSUME TypeOK,
           \/ \E e \in Enrollments : TickStep(e)
           \/ \E e \in Enrollments, action \in {"retry", "skip", "kill"} : Alone(Redrive(e, action))
           \/ Alone(TickCommit)
           \/ \E w \in Workers, e \in Enrollments, n \in 0..MaxRetries : TakeJob(w, e, n)
           \/ \E w \in Workers :
                 \/ Alone(FinishResearch(w)) \/ Alone(TaskException(w))
                 \/ CopyRejected(w) \/ PresendSuppressed(w) \/ PresendBlocked(w)
                 \/ Reserve(w) \/ Claim(w) \/ DuplicateClaim(w) \/ Finalize(w)
           \/ \E k \in Keys : SweepUnsent(k)
           \/ DailyReset
           \/ Failure
           \/ UNCHANGED vars
    PROVE  Unpassed
<1>1. ASSUME UNCHANGED <<worker, suppressed, late, past>>
      PROVE  Unpassed
  BY <1>1 DEF Unpassed
<1>2. ASSUME NEW e \in Enrollments, TickStep(e)
      PROVE  Unpassed
  BY <1>1, <1>2 DEF TickStep, Alone, TickQueued, TickFinished, TickTimer, TickReady,
              sendVars, histVars
<1>3. ASSUME NEW e \in Enrollments, NEW action \in {"retry", "skip", "kill"},
             Alone(Redrive(e, action))
      PROVE  Unpassed
  BY <1>1, <1>3 DEF Alone, Redrive, sendVars, histVars
<1>4. CASE Alone(TickCommit)
  BY <1>1, <1>4 DEF Alone, TickCommit, sendVars, histVars
<1>5. ASSUME NEW w \in Workers, Stop(w), UNCHANGED <<suppressed, late, past>>
      PROVE  Unpassed
  BY <1>5 DEF Stop, Unpassed, IdleWorker, TypeOK, SequencerTypeOK
<1>6. ASSUME NEW w \in Workers, NEW e \in Enrollments, NEW n \in 0..MaxRetries,
             TakeJob(w, e, n)
      PROVE  Unpassed
  <2>1. CASE Alone(StartResearch(w, e, n)) \/ StartSend(w, e, n)
    <3>1. UNCHANGED <<suppressed, late, past>>
      BY <2>1 DEF Alone, StartResearch, StartSend, sendVars, histVars
    <3>2. \A v \in Workers : worker'[v].pc \in {"reserved", "claimed"} => worker'[v] = worker[v]
      BY <2>1 DEF Alone, StartResearch, StartSend, Run, TypeOK, SequencerTypeOK
    <3> QED
      BY <3>1, <3>2 DEF Unpassed
  <2>2. CASE \/ Alone(Discard(w, "research", "researching", e, n))
             \/ Alone(Discard(w, "send", "ready", e, n))
             \/ StartRefused(w, e, n) \/ Reroute(w, e, n)
    BY <1>1, <2>2 DEF Alone, Discard, StartRefused, Reroute, sendVars, histVars
  <2> QED
    BY <1>6, <2>1, <2>2 DEF TakeJob
<1>7. ASSUME NEW w \in Workers,
             \/ Alone(FinishResearch(w)) \/ Alone(TaskException(w))
             \/ CopyRejected(w) \/ PresendSuppressed(w) \/ PresendBlocked(w)
             \/ DuplicateClaim(w) \/ Finalize(w)
      PROVE  Unpassed
  BY <1>5, <1>7 DEF Alone, FinishResearch, TaskException, CopyRejected, PresendSuppressed,
                PresendBlocked, DuplicateClaim, Finalize, sendVars, histVars
<1>8. ASSUME NEW w \in Workers, Reserve(w) \/ Claim(w)
      PROVE  Unpassed
  <2>1. worker[w] \in Busy
    BY <1>8, BusyWorker DEF Reserve, Claim, TypeOK
  <2>2. /\ worker'[w].e = worker[w].e
        /\ \A v \in Workers : v # w => worker'[v] = worker[v]
    BY <1>8, <2>1 DEF Reserve, Claim, Busy, TypeOK, SequencerTypeOK
  <2>3. worker[w].pc = "reserved" \/ worker[w].e \notin suppressed
    BY <1>8 DEF Reserve, Claim
  <2>4. UNCHANGED <<suppressed, late, past>>
    BY <1>8 DEF Reserve, Claim, histVars
  <2> QED
    BY <2>2, <2>3, <2>4 DEF Unpassed
<1>9. ASSUME NEW k \in Keys, SweepUnsent(k)
      PROVE  Unpassed
  BY <1>1, <1>9 DEF SweepUnsent
<1>10. CASE DailyReset
  BY <1>1, <1>10 DEF DailyReset, seqVars
<1>11. CASE Failure
  <2>1. CASE Alone(TickCrash) \/ Alone(RedisLost) \/ Alone(Redeliver)
    BY <1>1, <2>1 DEF Alone, TickCrash, RedisLost, Redeliver, sendVars, histVars
  <2>2. ASSUME NEW w \in Workers, Alone(Crash(w))
        PROVE  Unpassed
    BY <1>5, <2>2 DEF Alone, Crash, sendVars, histVars
  <2> QED
    BY <1>11, <2>1, <2>2 DEF Failure
<1>12. CASE UNCHANGED vars
  BY <1>1, <1>12 DEF vars, seqVars, sendVars, histVars
<1> QED
  BY <1>2, <1>3, <1>4, <1>6, <1>7, <1>8, <1>9, <1>10, <1>11, <1>12

(* The lead of a task that sends or gives up owes one task less.           *)
LEMMA LateSend ==
    ASSUME TypeOK, TypeOK', LateInv, NEW w \in Workers, Deliver(w) \/ DeliverFailed(w)
    PROVE  LateInv'
<1>1. worker[w] \in Busy /\ worker[w].e \in Enrollments /\ worker[w].pc = "claimed"
  BY BusyWorker, KeyType DEF Deliver, DeliverFailed, TypeOK
<1> PICK x \in Enrollments : x = worker[w].e
  BY <1>1
<1>2. /\ suppressed' = suppressed /\ past' = past
      /\ \/ late' = late
         \/ x \in suppressed /\ late' = [late EXCEPT ![x] = @ + 1]
  BY DEF Deliver, DeliverFailed, Accepted, sendVars
<1>3. /\ worker'[w].pc \notin {"reserved", "claimed"}
      /\ \A v \in Workers : v # w => worker'[v] = worker[v]
  <2>1. CASE Deliver(w)
    BY <1>1, <2>1 DEF Deliver, Busy, TypeOK, SequencerTypeOK
  <2>2. CASE DeliverFailed(w)
    BY <2>2 DEF DeliverFailed, Stop, IdleWorker, TypeOK, SequencerTypeOK
  <2> QED
    BY <2>1, <2>2
<1>4. Owing(x)' = Owing(x) \ {w} /\ w \in Owing(x)
  BY <1>1, <1>3 DEF Owing
<1>5. Cardinality(Owing(x)') = Cardinality(Owing(x)) - 1
  BY <1>4, OwingFinite, FS_RemoveElement
<1>6. \A e \in Enrollments : e # x => Owing(e)' = Owing(e) /\ late'[e] = late[e]
  BY <1>1, <1>2, <1>3 DEF Owing, TypeOK, SendTypeOK
<1>7. late'[x] <= late[x] + 1 /\ late[x] \in Nat /\ late'[x] \in Nat /\ past[x] \in Nat
      /\ Cardinality(Owing(x)) \in Nat
      /\ (x \notin suppressed => late'[x] = late[x])
  BY <1>2, OwingFinite DEF TypeOK, SendTypeOK
<1>8. IF x \in suppressed' THEN late'[x] + Cardinality(Owing(x)') <= past'[x]
                           ELSE late'[x] = 0
  BY <1>2, <1>5, <1>7 DEF LateInv
<1> QED
  BY <1>2, <1>6, <1>8 DEF LateInv

LEMMA LateSuppress ==
    ASSUME TypeOK, LateInv, NEW x \in Enrollments, Suppress(x)
    PROVE  LateInv'
<1>1. \A e \in Enrollments : Owing(e)' = Owing(e) /\ late'[e] = late[e]
  BY DEF Suppress, Owing, seqVars
<1>2. late[x] = 0 /\ past'[x] = Cardinality(Owing(x)) /\ Cardinality(Owing(x)) \in Nat
  BY OwingFinite DEF Suppress, Owing, LateInv, TypeOK, SendTypeOK
<1>3. \A e \in Enrollments : e # x =>
         past'[e] = past[e] /\ (e \in suppressed' <=> e \in suppressed)
  BY DEF Suppress, TypeOK, SendTypeOK
<1>4. late'[x] + Cardinality(Owing(x)') <= past'[x] /\ x \in suppressed'
  BY <1>1, <1>2 DEF Suppress
<1> QED
  BY <1>1, <1>3, <1>4 DEF LateInv

LEMMA NextLate == TypeOK /\ LateInv /\ [Next]_vars => LateInv'
<1> SUFFICES ASSUME TypeOK, LateInv, [Next]_vars
             PROVE  LateInv'
  OBVIOUS
<1>0. TypeOK'
  BY NextType
<1>1. ASSUME Unpassed
      PROVE  LateInv'
  BY <1>0, <1>1, LateFrame
<1>2. ASSUME NEW e \in Enrollments, PersonStep(e)
      PROVE  LateInv'
  BY <1>1, <1>2, UnpassedSteps, LateSuppress DEF PersonStep
<1>3. ASSUME NEW w \in Workers, WorkerStep(w)
      PROVE  LateInv'
  BY <1>0, <1>1, <1>3, UnpassedSteps, LateSend DEF WorkerStep
<1> QED
  BY <1>1, <1>2, <1>3, UnpassedSteps DEF Next

(* Whoever suppresses a lead stops all sending to it but that of the tasks *)
(* past their last check at that moment, once each.                        *)
THEOREM SuppressionHolds == Spec => []SuppressionStops
<1>1. Init => LateInv
  BY DEF Init, LateInv
<1>2. TypeOK /\ LateInv /\ [Next]_vars => LateInv'
  BY NextLate
<1>3. TypeOK /\ LateInv => SuppressionStops
  <2> SUFFICES ASSUME TypeOK, LateInv, NEW e \in Enrollments
               PROVE  late[e] <= past[e]
    BY DEF SuppressionStops
  <2>1. late[e] \in Nat /\ past[e] \in Nat /\ Cardinality(Owing(e)) \in Nat
    BY OwingFinite DEF TypeOK, SendTypeOK
  <2> QED
    BY <2>1 DEF LateInv
<1> QED
  BY <1>1, <1>2, <1>3, TypeCorrect, PTL DEF Spec

-----------------------------------------------------------------------------
(* The caps.  A slot reserved today is with a task that has not claimed a  *)
(* row (Holding), under a claimed row whose e-mail has not gone (Unmailed) *)
(* or among `todays`; the counter covers them all but for `misfreed`.      *)

Holding == {w \in Workers : worker[w].pc = "reserved" /\ worker[w].day = day}
Unmailed == {k \in Keys : msg[k].status = "claimed" /\ msg[k].day = day /\ wire[k] = 0}

(* No slot is of a day to come, and a row is of the day of its task's slot.*)
DaysFit ==
    /\ \A w \in Workers : worker[w].pc # "idle" => worker[w].day <= day
    /\ \A k \in Keys : msg[k].day <= day
    /\ \A w \in Workers : Sending(w) => msg[KeyOf(w)].day = worker[w].day

Covered(n) == \A q \in Quotas :
    sentToday[q] <= Cap[q] /\ todays + n <= sentToday[q] + misfreed

SlotInv ==
    /\ DaysFit
    /\ IsFiniteSet(Unmailed)
    /\ Covered(Cardinality(Holding) + Cardinality(Unmailed))

LEMMA HoldingFinite == IsFiniteSet(Holding) /\ Cardinality(Holding) \in Nat
<1>1. Holding \subseteq Workers
  BY DEF Holding
<1> QED
  BY <1>1, FS_Subset, FS_CardinalityType

LEMMA DaysAre ==
    ASSUME TypeOK
    PROVE  /\ \A w \in Workers : worker[w].pc # "idle" =>
                 worker[w].day \in Nat /\ KeyOf(w) \in Keys
           /\ \A k \in Keys : msg[k].day \in Nat
           /\ day \in Nat
BY BusyWorker, KeyType DEF TypeOK, SendTypeOK, Message

(* A step that moves no task into, within or beyond the reserved part.     *)
SlotQuiet ==
    /\ UNCHANGED <<msg, wire, sentToday, todays, misfreed, day>>
    /\ \A v \in Workers : worker'[v].pc # "idle" =>
          \/ worker'[v] = worker[v]
          \/ worker'[v].pc \in {"research", "generate"} /\ worker'[v].day = 0

LEMMA SlotFrame ==
    ASSUME TypeOK, TypeOK', SlotInv, SlotQuiet
    PROVE  SlotInv'
<1>1. Unmailed' = Unmailed
  BY DEF Unmailed, SlotQuiet
<1>2. Holding' \subseteq Holding
  BY DEF Holding, SlotQuiet
<1>3. Cardinality(Holding') <= Cardinality(Holding) /\ Cardinality(Holding') \in Nat
  BY <1>2, HoldingFinite, FS_Subset, FS_CardinalityType
<1>4. Cardinality(Unmailed) \in Nat /\ Cardinality(Holding) \in Nat
  BY HoldingFinite, FS_CardinalityType DEF SlotInv
<1>5. Covered(Cardinality(Holding) + Cardinality(Unmailed))
  BY DEF SlotInv
<1>6. Covered(Cardinality(Holding) + Cardinality(Unmailed))'
  BY <1>1, <1>3, <1>4, <1>5 DEF Covered, SlotQuiet, TypeOK, SendTypeOK
<1>7. \A w \in Workers : worker'[w].pc # "idle" => worker'[w].day <= day
  BY DaysAre DEF SlotInv, DaysFit, SlotQuiet
<1>8. \A w \in Workers : Sending(w)' => msg'[KeyOf(w)'].day = worker'[w].day
  <2> SUFFICES ASSUME NEW w \in Workers, Sending(w)'
               PROVE  msg'[KeyOf(w)'].day = worker'[w].day
    OBVIOUS
  <2>1. worker'[w] = worker[w]
    BY DEF Sending, SlotQuiet
  <2>2. Sending(w) /\ KeyOf(w)' = KeyOf(w)
    BY <2>1 DEF Sending, KeyOf
  <2> QED
    BY <2>1, <2>2 DEF SlotInv, DaysFit, SlotQuiet
<1>9. DaysFit'
  BY <1>7, <1>8 DEF SlotInv, DaysFit, SlotQuiet
<1> QED
  BY <1>1, <1>6, <1>9 DEF SlotInv

LEMMA SlotQuietSteps ==
    ASSUME TypeOK,
           \/ \E e \in Enrollments : TickStep(e) \/ PersonStep(e)
           \/ Alone(TickCommit)
           \/ \E w \in Workers, e \in Enrollments, n \in 0..MaxRetries : TakeJob(w, e, n)
           \/ \E w \in Workers :
                 \/ Alone(FinishResearch(w)) \/ Alone(TaskException(w))
                 \/ CopyRejected(w) \/ PresendSuppressed(w) \/ PresendBlocked(w)
           \/ Failure
           \/ UNCHANGED vars
    PROVE  SlotQuiet
<1>1. ASSUME UNCHANGED <<worker, msg, wire, sentToday, todays, misfreed, day>>
      PROVE  SlotQuiet
  BY <1>1 DEF SlotQuiet
<1>2. ASSUME NEW w \in Workers, Stop(w),
             UNCHANGED <<msg, wire, sentToday, todays, misfreed, day>>
      PROVE  SlotQuiet
  BY <1>2 DEF Stop, SlotQuiet, IdleWorker, TypeOK, SequencerTypeOK
<1>3. ASSUME NEW e \in Enrollments, TickStep(e)
      PROVE  SlotQuiet
  BY <1>1, <1>3 DEF TickStep, Alone, TickQueued, TickFinished, TickTimer, TickReady,
              sendVars, histVars
<1>4. ASSUME NEW e \in Enrollments, PersonStep(e)
      PROVE  SlotQuiet
  BY <1>1, <1>4 DEF PersonStep, Suppress, Alone, Redrive, seqVars, sendVars, histVars
<1>5. CASE Alone(TickCommit)
  BY <1>1, <1>5 DEF Alone, TickCommit, sendVars, histVars
<1>6. ASSUME NEW w \in Workers, NEW e \in Enrollments, NEW n \in 0..MaxRetries,
             TakeJob(w, e, n)
      PROVE  SlotQuiet
  <2>1. CASE Alone(StartResearch(w, e, n)) \/ StartSend(w, e, n)
    <3>1. UNCHANGED <<msg, wire, sentToday, todays, misfreed, day>>
      BY <2>1 DEF Alone, StartResearch, StartSend, sendVars, histVars
    <3>2. \A v \in Workers : \/ worker'[v] = worker[v]
                             \/ worker'[v].pc \in {"research", "generate"} /\ worker'[v].day = 0
      BY <2>1 DEF Alone, StartResearch, StartSend, Run, TypeOK, SequencerTypeOK
    <3> QED
      BY <3>1, <3>2 DEF SlotQuiet
  <2>2. CASE \/ Alone(Discard(w, "research", "researching", e, n))
             \/ Alone(Discard(w, "send", "ready", e, n))
             \/ StartRefused(w, e, n) \/ Reroute(w, e, n)
    BY <1>1, <2>2 DEF Alone, Discard, StartRefused, Reroute, sendVars, histVars
  <2> QED
    BY <1>6, <2>1, <2>2 DEF TakeJob
<1>7. ASSUME NEW w \in Workers,
             \/ Alone(FinishResearch(w)) \/ Alone(TaskException(w))
             \/ CopyRejected(w) \/ PresendSuppressed(w) \/ PresendBlocked(w)
      PROVE  SlotQuiet
  BY <1>2, <1>7 DEF Alone, FinishResearch, TaskException, CopyRejected, PresendSuppressed,
                PresendBlocked, sendVars, histVars
<1>8. CASE Failure
  <2>1. CASE Alone(TickCrash) \/ Alone(RedisLost) \/ Alone(Redeliver)
    BY <1>1, <2>1 DEF Alone, TickCrash, RedisLost, Redeliver, sendVars, histVars
  <2>2. ASSUME NEW w \in Workers, Alone(Crash(w))
        PROVE  SlotQuiet
    BY <1>2, <2>2 DEF Alone, Crash, sendVars, histVars
  <2> QED
    BY <1>8, <2>1, <2>2 DEF Failure
<1>9. CASE UNCHANGED vars
  BY <1>1, <1>9 DEF vars, seqVars, sendVars, histVars
<1> QED
  BY <1>3, <1>4, <1>5, <1>6, <1>7, <1>8, <1>9

(* The counter gives back today's slot, or what it gives back is on record.*)
LEMMA Released ==
    ASSUME TypeOK, NEW reservedOn, NEW gone, ReleaseSlots(reservedOn, gone),
           NEW q \in Quotas
    PROVE  /\ sentToday'[q] <= sentToday[q]
           /\ sentToday'[q] + misfreed' + (IF reservedOn = day /\ ~gone THEN 1 ELSE 0)
                 >= sentToday[q] + misfreed
           /\ sentToday'[q] \in Nat /\ misfreed' \in Nat
<1>1. sentToday[q] \in Nat /\ misfreed \in Nat
  BY DEF TypeOK, SendTypeOK
<1>2. sentToday'[q] = IF sentToday[q] > 0 THEN sentToday[q] - 1 ELSE 0
  BY DEF ReleaseSlots
<1>3. misfreed' = IF reservedOn # day \/ gone THEN misfreed + 1 ELSE misfreed
  BY DEF ReleaseSlots
<1> QED
  BY <1>1, <1>2, <1>3

(* The days after a step of one task, or one row emptied.                  *)
LEMMA DaysMove ==
    ASSUME TypeOK, DaysFit, day' = day,
           NEW w \in Workers, \A v \in Workers : v # w => worker'[v] = worker[v],
           worker'[w].pc # "idle" => worker'[w].day <= day,
           \A k \in Keys : msg'[k].day <= day,
           \A v \in Workers : v # w /\ Sending(v) => msg'[KeyOf(v)].day = msg[KeyOf(v)].day,
           Sending(w)' => msg'[KeyOf(w)'].day = worker'[w].day
    PROVE  DaysFit'
<1>1. \A v \in Workers : worker'[v].pc # "idle" => worker'[v].day <= day'
  BY DEF DaysFit
<1>2. \A v \in Workers : Sending(v)' => msg'[KeyOf(v)'].day = worker'[v].day
  <2> SUFFICES ASSUME NEW v \in Workers, Sending(v)', v # w
               PROVE  msg'[KeyOf(v)'].day = worker'[v].day
    OBVIOUS
  <2>1. worker'[v] = worker[v]
    OBVIOUS
  <2>2. Sending(v) /\ KeyOf(v)' = KeyOf(v)
    BY <2>1 DEF Sending, KeyOf
  <2> QED
    BY <2>1, <2>2 DEF DaysFit
<1> QED
  BY <1>1, <1>2 DEF DaysFit

(* What a step of a task past its check leaves of the others' tasks.       *)
LEMMA TaskMoves ==
    ASSUME TypeOK, NEW w \in Workers,
           \/ Reserve(w) \/ Claim(w) \/ DuplicateClaim(w) \/ Deliver(w)
           \/ DeliverFailed(w) \/ Finalize(w)
    PROVE  /\ worker[w] \in Busy /\ KeyOf(w) \in Keys
           /\ \A v \in Workers : v # w => worker'[v] = worker[v]
           /\ Reserve(w) => worker'[w] = [worker[w] EXCEPT !.pc = "reserved", !.day = day]
           /\ Claim(w) => worker'[w] = [worker[w] EXCEPT !.pc = "claimed"]
           /\ Deliver(w) => worker'[w] = [worker[w] EXCEPT !.pc = "delivered"]
           /\ DuplicateClaim(w) \/ DeliverFailed(w) \/ Finalize(w) => worker'[w].pc = "idle"
<1>1. worker[w] \in Busy /\ KeyOf(w) \in Keys
  BY BusyWorker, KeyType
  DEF Reserve, Claim, DuplicateClaim, Deliver, DeliverFailed, Finalize, TypeOK
<1>2. DuplicateClaim(w) \/ DeliverFailed(w) \/ Finalize(w) => Stop(w)
  BY DEF DuplicateClaim, DeliverFailed, Finalize
<1>3. Stop(w) => worker'[w].pc = "idle" /\ \A v \in Workers : v # w => worker'[v] = worker[v]
  BY DEF Stop, IdleWorker, TypeOK, SequencerTypeOK
<1>4. Reserve(w) => /\ worker'[w] = [worker[w] EXCEPT !.pc = "reserved", !.day = day]
                    /\ \A v \in Workers : v # w => worker'[v] = worker[v]
  BY DEF Reserve, TypeOK, SequencerTypeOK
<1>5. Claim(w) => /\ worker'[w] = [worker[w] EXCEPT !.pc = "claimed"]
                  /\ \A v \in Workers : v # w => worker'[v] = worker[v]
  BY DEF Claim, TypeOK, SequencerTypeOK
<1>6. Deliver(w) => /\ worker'[w] = [worker[w] EXCEPT !.pc = "delivered"]
                    /\ \A v \in Workers : v # w => worker'[v] = worker[v]
  BY DEF Deliver, TypeOK, SequencerTypeOK
<1> QED
  BY <1>1, <1>2, <1>3, <1>4, <1>5, <1>6

LEMMA Fields ==
    ASSUME NEW r \in Busy, NEW pc \in BusyPC, NEW d \in Nat
    PROVE  /\ [r EXCEPT !.pc = pc].pc = pc /\ [r EXCEPT !.pc = pc].day = r.day
           /\ [r EXCEPT !.pc = pc].e = r.e /\ [r EXCEPT !.pc = pc].step = r.step
           /\ [r EXCEPT !.pc = pc, !.day = d].pc = pc /\ [r EXCEPT !.pc = pc, !.day = d].day = d
BY DEF Busy

LEMMA SlotReserve ==
    ASSUME TypeOK, SlotInv, NEW w \in Workers, Reserve(w)
    PROVE  SlotInv'
<1>1. /\ worker[w] \in Busy
      /\ \A v \in Workers : v # w => worker'[v] = worker[v]
      /\ worker'[w] = [worker[w] EXCEPT !.pc = "reserved", !.day = day]
  BY TaskMoves
<1>2. /\ UNCHANGED <<msg, wire, day, todays, misfreed>>
      /\ worker[w].pc = "generate"
      /\ \A q \in Quotas : sentToday[q] < Cap[q] /\ sentToday'[q] = sentToday[q] + 1
  BY DEF Reserve, ReserveSlots, SlotFree, histVars
<1>3. worker'[w].pc = "reserved" /\ worker'[w].day = day
  BY <1>1, Fields DEF BusyPC, TypeOK, SendTypeOK
<1>4. Holding' = Holding \cup {w} /\ w \notin Holding
  <2>1. /\ day' = day /\ w \in Workers /\ worker[w].pc # "reserved"
        /\ \A v \in Workers : v # w => worker'[v] = worker[v]
        /\ worker'[w].pc = "reserved" /\ worker'[w].day = day
    BY <1>1, <1>2, <1>3
  <2> QED
    BY <2>1 DEF Holding
<1>5. Cardinality(Holding') = Cardinality(Holding) + 1 /\ Cardinality(Holding) \in Nat
  BY <1>4, HoldingFinite, FS_AddElement
<1>6. Unmailed' = Unmailed /\ Cardinality(Unmailed) \in Nat
  BY <1>2, FS_CardinalityType DEF Unmailed, SlotInv
<1>7. Covered(Cardinality(Holding) + Cardinality(Unmailed))
  BY DEF SlotInv
<1>8. Covered(Cardinality(Holding) + Cardinality(Unmailed))'
  BY <1>2, <1>5, <1>6, <1>7 DEF Covered, TypeOK, SendTypeOK, Quotas
<1>9. DaysFit'
  <2>1. DaysFit /\ day \in Nat
    BY DEF SlotInv, TypeOK, SendTypeOK
  <2>2. ~Sending(w)'
    BY <1>3 DEF Sending
  <2>3. \A k \in Keys : msg'[k].day <= day
    BY <1>2, <2>1 DEF DaysFit
  <2>4. /\ day' = day /\ worker'[w].day <= day /\ msg' = msg
        /\ \A v \in Workers : v # w => worker'[v] = worker[v]
    BY <1>1, <1>2, <1>3, <2>1
  <2> QED
    BY <2>1, <2>2, <2>3, <2>4, DaysMove
<1> QED
  BY <1>6, <1>8, <1>9 DEF SlotInv

LEMMA SlotClaim ==
    ASSUME TypeOK, SlotInv, ClaimsOwned, NEW w \in Workers, Claim(w)
    PROVE  SlotInv'
<1>1. /\ worker[w] \in Busy /\ KeyOf(w) \in Keys
      /\ \A v \in Workers : v # w => worker'[v] = worker[v]
      /\ worker'[w] = [worker[w] EXCEPT !.pc = "claimed"]
  BY TaskMoves
<1> PICK k \in Keys : k = KeyOf(w)
  BY <1>1
<1>2. /\ UNCHANGED <<wire, day, todays, misfreed, sentToday>>
      /\ worker[w].pc = "reserved"
      /\ msg[k].status = "none" /\ wire[k] = 0
      /\ msg'[k].status = "claimed" /\ msg'[k].day = worker[w].day
      /\ \A i \in Keys : i # k => msg'[i] = msg[i]
  BY DEF Claim, ClaimsOwned, TypeOK, SendTypeOK, histVars
<1>3. worker'[w].pc = "claimed" /\ worker'[w].day = worker[w].day /\ KeyOf(w)' = k
  BY <1>1, Fields DEF BusyPC, KeyOf
<1>4. /\ Holding' = Holding \ {w}
      /\ w \in Holding <=> worker[w].day = day
  BY <1>1, <1>2, <1>3 DEF Holding
<1>5. /\ Unmailed' = IF worker[w].day = day THEN Unmailed \cup {k} ELSE Unmailed
      /\ k \notin Unmailed
  BY <1>2 DEF Unmailed
<1>6. Cardinality(Holding') = IF worker[w].day = day THEN Cardinality(Holding) - 1
                                                     ELSE Cardinality(Holding)
  BY <1>4, HoldingFinite, FS_RemoveElement
<1>7. /\ IsFiniteSet(Unmailed')
      /\ Cardinality(Unmailed') = IF worker[w].day = day THEN Cardinality(Unmailed) + 1
                                                         ELSE Cardinality(Unmailed)
  BY <1>5, FS_AddElement DEF SlotInv
<1>8. Cardinality(Holding) \in Nat /\ Cardinality(Unmailed) \in Nat
  BY HoldingFinite, FS_CardinalityType DEF SlotInv
<1>9. Cardinality(Holding') + Cardinality(Unmailed') = Cardinality(Holding) + Cardinality(Unmailed)
  BY <1>6, <1>7, <1>8
<1>10. Covered(Cardinality(Holding) + Cardinality(Unmailed))
  BY DEF SlotInv
<1>11. Covered(Cardinality(Holding) + Cardinality(Unmailed))'
  BY <1>2, <1>9, <1>10 DEF Covered
<1>12. DaysFit'
  <2>1. DaysFit /\ worker[w].day <= day
    BY <1>2 DEF SlotInv, DaysFit
  <2>2. \A v \in Workers : Sending(v) => KeyOf(v) # k
    BY <1>2 DEF ClaimsOwned
  <2>3. \A v \in Workers : Sending(v) => KeyOf(v) \in Keys
    BY DaysAre DEF Sending
  <2>4. \A i \in Keys : msg'[i].day <= day
    BY <1>2, <2>1 DEF DaysFit
  <2>5. \A v \in Workers : v # w /\ Sending(v) => msg'[KeyOf(v)].day = msg[KeyOf(v)].day
    BY <1>2, <2>2, <2>3
  <2> QED
    BY <1>1, <1>2, <1>3, <2>1, <2>4, <2>5, DaysMove
<1> QED
  BY <1>7, <1>11, <1>12 DEF SlotInv

LEMMA SlotDuplicate ==
    ASSUME TypeOK, SlotInv, NEW w \in Workers, DuplicateClaim(w)
    PROVE  SlotInv'
<1>1. /\ worker[w] \in Busy
      /\ \A v \in Workers : v # w => worker'[v] = worker[v]
      /\ worker'[w].pc = "idle"
  BY TaskMoves
<1>2. /\ UNCHANGED <<msg, wire, day, todays>>
      /\ worker[w].pc = "reserved"
      /\ ReleaseSlots(worker[w].day, FALSE)
  BY DEF DuplicateClaim
<1>3. /\ Holding' = Holding \ {w}
      /\ w \in Holding <=> worker[w].day = day
  BY <1>1, <1>2 DEF Holding
<1>4. Cardinality(Holding') = IF worker[w].day = day THEN Cardinality(Holding) - 1
                                                     ELSE Cardinality(Holding)
  BY <1>3, HoldingFinite, FS_RemoveElement
<1>5. /\ Unmailed' = Unmailed /\ Cardinality(Unmailed) \in Nat
      /\ Cardinality(Holding) \in Nat
  BY <1>2, HoldingFinite, FS_CardinalityType DEF Unmailed, SlotInv
<1>6. Covered(Cardinality(Holding) + Cardinality(Unmailed))
  BY DEF SlotInv
<1>7. \A q \in Quotas :
         /\ sentToday'[q] <= sentToday[q]
         /\ sentToday'[q] + misfreed' + (IF worker[w].day = day /\ ~FALSE THEN 1 ELSE 0)
               >= sentToday[q] + misfreed
         /\ sentToday'[q] \in Nat /\ misfreed' \in Nat
  BY <1>2, Released
<1>8. Covered(Cardinality(Holding) + Cardinality(Unmailed))'
  BY <1>2, <1>4, <1>5, <1>6, <1>7 DEF Covered, TypeOK, SendTypeOK
<1>9. DaysFit'
  <2>1. DaysFit /\ ~Sending(w)'
    BY <1>1 DEF SlotInv, Sending
  <2> QED
    BY <1>1, <1>2, <2>1, DaysMove DEF DaysFit
<1> QED
  BY <1>5, <1>8, <1>9 DEF SlotInv
(* A step that empties, mails or sends row k: the count of unmailed rows   *)
(* falls by one if the row was of today and not mailed.                    *)
LEMMA UnmailedFalls ==
    ASSUME TypeOK, IsFiniteSet(Unmailed), NEW k \in Keys, day' = day,
           \A i \in Keys : i # k => msg'[i] = msg[i] /\ wire'[i] = wire[i],
           msg'[k].status # "claimed" \/ wire'[k] # 0
    PROVE  /\ IsFiniteSet(Unmailed')
           /\ Cardinality(Unmailed) \in Nat
           /\ Cardinality(Unmailed') =
                 IF k \in Unmailed THEN Cardinality(Unmailed) - 1 ELSE Cardinality(Unmailed)
<1>1. Unmailed' = Unmailed \ {k}
  BY DEF Unmailed
<1> QED
  BY <1>1, FS_RemoveElement, FS_CardinalityType

LEMMA HoldingStays ==
    ASSUME TypeOK, NEW w \in Workers, worker[w].pc # "reserved", worker'[w].pc # "reserved",
           \A v \in Workers : v # w => worker'[v] = worker[v], day' = day
    PROVE  Holding' = Holding
BY DEF Holding

LEMMA SlotDeliver ==
    ASSUME TypeOK, SlotInv, ClaimsOwned, NEW w \in Workers, Deliver(w)
    PROVE  SlotInv'
<1>1. /\ worker[w] \in Busy /\ KeyOf(w) \in Keys
      /\ \A v \in Workers : v # w => worker'[v] = worker[v]
      /\ worker'[w] = [worker[w] EXCEPT !.pc = "delivered"]
  BY TaskMoves
<1> PICK k \in Keys : k = KeyOf(w)
  BY <1>1
<1>2. /\ worker'[w].pc = "delivered" /\ worker'[w].day = worker[w].day /\ KeyOf(w)' = k
      /\ worker[w].pc = "claimed" /\ Sending(w)
  <2>1. worker'[w].pc = "delivered" /\ worker'[w].day = worker[w].day /\ KeyOf(w)' = k
    BY <1>1, Fields DEF BusyPC, KeyOf
  <2> QED
    BY <2>1 DEF Deliver, Sending
<1>3. /\ msg[k].status = "claimed" /\ wire[k] = 0 /\ msg[k].day = worker[w].day
  BY <1>2 DEF ClaimsOwned, SlotInv, DaysFit
<1>4. /\ UNCHANGED <<msg, day, sentToday, misfreed>>
      /\ todays' = IF worker[w].day = day THEN todays + 1 ELSE todays
      /\ wire'[k] = wire[k] + 1
      /\ \A i \in Keys : i # k => wire'[i] = wire[i]
  BY DEF Deliver, Accepted, sendVars, TypeOK, SendTypeOK
<1>5. /\ IsFiniteSet(Unmailed')
      /\ Cardinality(Unmailed) \in Nat
      /\ Cardinality(Unmailed') =
            IF k \in Unmailed THEN Cardinality(Unmailed) - 1 ELSE Cardinality(Unmailed)
  <2>1. wire'[k] # 0 /\ IsFiniteSet(Unmailed)
    BY <1>3, <1>4 DEF SlotInv
  <2> QED
    BY <1>4, <2>1, UnmailedFalls
<1>6. k \in Unmailed <=> worker[w].day = day
  BY <1>3 DEF Unmailed
<1>7. Holding' = Holding /\ Cardinality(Holding) \in Nat
  BY <1>1, <1>2, <1>4, HoldingStays, HoldingFinite
<1>8. Covered(Cardinality(Holding) + Cardinality(Unmailed))
  BY DEF SlotInv
<1>9. Covered(Cardinality(Holding) + Cardinality(Unmailed))'
  BY <1>4, <1>5, <1>6, <1>7, <1>8 DEF Covered, TypeOK, SendTypeOK
<1>10. DaysFit'
  <2>1. DaysFit /\ worker[w].day <= day
    BY <1>2 DEF SlotInv, DaysFit
  <2>2. \A i \in Keys : msg'[i].day <= day
    BY <1>4, <2>1 DEF DaysFit
  <2>3. msg'[KeyOf(w)'].day = worker'[w].day
    BY <1>2, <1>3, <1>4
  <2> QED
    BY <1>1, <1>2, <1>4, <2>1, <2>2, <2>3, DaysMove
<1> QED
  BY <1>5, <1>9, <1>10 DEF SlotInv

LEMMA SlotFailed ==
    ASSUME TypeOK, SlotInv, ClaimsOwned, NEW w \in Workers, DeliverFailed(w)
    PROVE  SlotInv'
<1>1. /\ worker[w] \in Busy /\ KeyOf(w) \in Keys
      /\ \A v \in Workers : v # w => worker'[v] = worker[v]
      /\ worker'[w].pc = "idle"
  BY TaskMoves
<1> PICK k \in Keys : k = KeyOf(w)
  BY <1>1
<1>2. worker[w].pc = "claimed" /\ Sending(w) /\ ~Sending(w)'
  BY <1>1 DEF DeliverFailed, Sending
<1>3. msg[k].status = "claimed" /\ wire[k] = 0 /\ msg[k].day = worker[w].day
  BY <1>2 DEF ClaimsOwned, SlotInv, DaysFit
<1>4. /\ day' = day
      /\ msg'[k] = NoMessage
      /\ \A i \in Keys : i # k => msg'[i] = msg[i] /\ wire'[i] = wire[i]
  BY DEF DeliverFailed, TypeOK, SendTypeOK
<1>5. /\ IsFiniteSet(Unmailed')
      /\ Cardinality(Unmailed) \in Nat
      /\ Cardinality(Unmailed') =
            IF k \in Unmailed THEN Cardinality(Unmailed) - 1 ELSE Cardinality(Unmailed)
  <2>1. msg'[k].status # "claimed" /\ IsFiniteSet(Unmailed)
    BY <1>4 DEF SlotInv, NoMessage
  <2> QED
    BY <1>4, <2>1, UnmailedFalls
<1>6. k \in Unmailed <=> worker[w].day = day
  BY <1>3 DEF Unmailed
<1>7. Holding' = Holding /\ Cardinality(Holding) \in Nat
  BY <1>1, <1>2, <1>4, HoldingStays, HoldingFinite
<1>8. Covered(Cardinality(Holding) + Cardinality(Unmailed))
  BY DEF SlotInv
<1>9. todays \in Nat /\ misfreed \in Nat
      /\ \A q \in Quotas : sentToday[q] \in Nat /\ Cap[q] \in Nat
  BY DEF TypeOK, SendTypeOK
<1>10. Covered(Cardinality(Holding) + Cardinality(Unmailed))'
  <2>1. CASE ReleaseSlots(worker[w].day, FALSE) /\ todays' = todays
    <3>1. \A q \in Quotas :
             /\ sentToday'[q] <= sentToday[q]
             /\ sentToday'[q] + misfreed' + (IF worker[w].day = day /\ ~FALSE THEN 1 ELSE 0)
                   >= sentToday[q] + misfreed
             /\ sentToday'[q] \in Nat /\ misfreed' \in Nat
      BY <2>1, Released
    <3> QED
      BY <1>5, <1>6, <1>7, <1>8, <1>9, <2>1, <3>1 DEF Covered
  <2>2. CASE ReleaseSlots(worker[w].day, TRUE)
             /\ todays' = IF worker[w].day = day THEN todays + 1 ELSE todays
    <3>1. \A q \in Quotas :
             /\ sentToday'[q] <= sentToday[q]
             /\ sentToday'[q] + misfreed' + (IF worker[w].day = day /\ ~TRUE THEN 1 ELSE 0)
                   >= sentToday[q] + misfreed
             /\ sentToday'[q] \in Nat /\ misfreed' \in Nat
      BY <2>2, Released
    <3> QED
      BY <1>5, <1>6, <1>7, <1>8, <1>9, <2>2, <3>1 DEF Covered
  <2> QED
    BY <2>1, <2>2 DEF DeliverFailed, Accepted
<1>11. DaysFit'
  <2>1. DaysFit /\ day \in Nat
    BY DEF SlotInv, TypeOK, SendTypeOK
  <2>2. \A i \in Keys : msg'[i].day <= day
    BY <1>4, <2>1 DEF DaysFit, NoMessage
  <2>3. \A v \in Workers : v # w /\ Sending(v) => KeyOf(v) # k /\ KeyOf(v) \in Keys
    BY <1>2, DaysAre DEF ClaimsOwned, Sending
  <2>4. \A v \in Workers : v # w /\ Sending(v) => msg'[KeyOf(v)].day = msg[KeyOf(v)].day
    BY <1>4, <2>3
  <2> QED
    BY <1>1, <1>2, <1>4, <2>1, <2>2, <2>4, DaysMove
<1> QED
  BY <1>5, <1>10, <1>11 DEF SlotInv

LEMMA SlotFinalize ==
    ASSUME TypeOK, SlotInv, ClaimsOwned, NEW w \in Workers, Finalize(w)
    PROVE  SlotInv'
<1>1. /\ worker[w] \in Busy /\ KeyOf(w) \in Keys
      /\ \A v \in Workers : v # w => worker'[v] = worker[v]
      /\ worker'[w].pc = "idle"
  BY TaskMoves
<1> PICK k \in Keys : k = KeyOf(w)
  BY <1>1
<1>2. worker[w].pc = "delivered" /\ Sending(w) /\ ~Sending(w)'
  BY <1>1 DEF Finalize, Sending
<1>3. wire[k] = 1
  BY <1>2 DEF ClaimsOwned
<1>4. /\ UNCHANGED <<day, todays, misfreed, sentToday, wire>>
      /\ msg' = [msg EXCEPT ![k].status = "sent"]
  BY DEF Finalize, histVars
<1>5. /\ \A i \in Keys : i # k => msg'[i] = msg[i]
      /\ msg'[k].day = msg[k].day
  <2>1. msg[k] \in Message
    BY DEF TypeOK, SendTypeOK
  <2>2. [msg[k] EXCEPT !.status = "sent"].day = msg[k].day
    BY <2>1 DEF Message
  <2>3. msg'[k] = [msg[k] EXCEPT !.status = "sent"] /\ \A i \in Keys : i # k => msg'[i] = msg[i]
    BY <1>4 DEF TypeOK, SendTypeOK
  <2> QED
    BY <2>2, <2>3
<1>6. Unmailed' = Unmailed
  BY <1>3, <1>4, <1>5 DEF Unmailed
<1>7. Holding' = Holding
  BY <1>1, <1>2, <1>4, HoldingStays
<1>8. IsFiniteSet(Unmailed) /\ Covered(Cardinality(Holding) + Cardinality(Unmailed))
  BY DEF SlotInv
<1>9. Covered(Cardinality(Holding) + Cardinality(Unmailed))'
  BY <1>4, <1>6, <1>7, <1>8 DEF Covered
<1>10. DaysFit'
  <2>1. DaysFit
    BY DEF SlotInv
  <2>2. \A i \in Keys : msg'[i].day = msg[i].day
    BY <1>5
  <2>3. \A i \in Keys : msg'[i].day <= day
    BY <2>1, <2>2 DEF DaysFit
  <2>4. \A v \in Workers : Sending(v) => KeyOf(v) \in Keys
    BY DaysAre DEF Sending
  <2> QED
    BY <1>1, <1>2, <1>4, <2>1, <2>2, <2>3, <2>4, DaysMove
<1> QED
  BY <1>6, <1>8, <1>9, <1>10 DEF SlotInv

LEMMA SlotSweep ==
    ASSUME TypeOK, SlotInv, ClaimsOwned, NEW k \in Keys, SweepUnsent(k)
    PROVE  SlotInv'
<1>1. /\ msg[k].status = "claimed" /\ ~InFlight(k)
      /\ UNCHANGED <<worker, day, todays>>
      /\ msg'[k] = NoMessage
      /\ \A i \in Keys : i # k => msg'[i] = msg[i] /\ wire'[i] = wire[i]
      /\ ReleaseSlots(msg[k].day, wire[k] > 0)
  BY DEF SweepUnsent, TypeOK, SendTypeOK
<1>2. /\ IsFiniteSet(Unmailed')
      /\ Cardinality(Unmailed) \in Nat
      /\ Cardinality(Unmailed') =
            IF k \in Unmailed THEN Cardinality(Unmailed) - 1 ELSE Cardinality(Unmailed)
  <2>1. msg'[k].status # "claimed" /\ IsFiniteSet(Unmailed)
    BY <1>1 DEF SlotInv, NoMessage
  <2> QED
    BY <1>1, <2>1, UnmailedFalls
<1>3. k \in Unmailed <=> (msg[k].day = day /\ ~(wire[k] > 0))
  <2>1. wire[k] \in Nat
    BY DEF TypeOK, SendTypeOK
  <2> QED
    BY <1>1, <2>1 DEF Unmailed
<1>4. Holding' = Holding /\ Cardinality(Holding) \in Nat
  BY <1>1, HoldingFinite DEF Holding
<1>5. Covered(Cardinality(Holding) + Cardinality(Unmailed))
  BY DEF SlotInv
<1>6. \A q \in Quotas :
         /\ sentToday'[q] <= sentToday[q]
         /\ sentToday'[q] + misfreed' + (IF msg[k].day = day /\ ~(wire[k] > 0) THEN 1 ELSE 0)
               >= sentToday[q] + misfreed
         /\ sentToday'[q] \in Nat /\ misfreed' \in Nat
  BY <1>1, Released
<1>7. Covered(Cardinality(Holding) + Cardinality(Unmailed))'
  BY <1>1, <1>2, <1>3, <1>4, <1>5, <1>6 DEF Covered, TypeOK, SendTypeOK
<1>8. DaysFit'
  <2>1. \A v \in Workers : Sending(v) => KeyOf(v) # k /\ KeyOf(v) \in Keys
    BY <1>1, DaysAre DEF Sending, InFlight
  <2>2. \A v \in Workers : Sending(v)' = Sending(v) /\ KeyOf(v)' = KeyOf(v)
    BY <1>1 DEF Sending, KeyOf
  <2>3. day \in Nat /\ DaysFit
    BY DEF SlotInv, TypeOK, SendTypeOK
  <2> QED
    BY <1>1, <2>1, <2>2, <2>3 DEF DaysFit, NoMessage
<1> QED
  BY <1>2, <1>7, <1>8 DEF SlotInv

(* At midnight no slot of the new day is held by anyone.                   *)
LEMMA SlotReset ==
    ASSUME TypeOK, SlotInv, DailyReset
    PROVE  SlotInv'
<1>1. /\ UNCHANGED <<worker, msg, wire>>
      /\ day' = day + 1 /\ day \in Nat
      /\ todays' = 0 /\ misfreed' = 0
      /\ \A q \in Quotas : sentToday'[q] = 0
  BY DEF DailyReset, seqVars, TypeOK, SendTypeOK
<1>2. Holding' = {} /\ Unmailed' = {}
  BY <1>1, DaysAre DEF Holding, Unmailed, SlotInv, DaysFit
<1>3. Cardinality(Holding') = 0 /\ Cardinality(Unmailed') = 0 /\ IsFiniteSet(Unmailed')
  BY <1>2, FS_EmptySet
<1>4. Covered(Cardinality(Holding) + Cardinality(Unmailed))'
  BY <1>1, <1>3 DEF Covered
<1>5. DaysFit'
  <2>1. \A w \in Workers : Sending(w)' = Sending(w) /\ KeyOf(w)' = KeyOf(w)
    BY <1>1 DEF Sending, KeyOf
  <2>2. \A w \in Workers : worker[w].pc # "idle" => worker[w].day <= day + 1
    BY <1>1, DaysAre DEF SlotInv, DaysFit
  <2>3. \A k \in Keys : msg[k].day <= day + 1
    BY <1>1, DaysAre DEF SlotInv, DaysFit
  <2> QED
    BY <1>1, <2>1, <2>2, <2>3 DEF SlotInv, DaysFit
<1> QED
  BY <1>3, <1>4, <1>5 DEF SlotInv

LEMMA InitSlot == Init => SlotInv
<1> SUFFICES ASSUME Init PROVE SlotInv
  OBVIOUS
<1>1. Holding = {} /\ Unmailed = {}
  BY DEF Init, SequencerInit, Holding, Unmailed, NoMessage, IdleWorker
<1>2. Cardinality(Holding) = 0 /\ Cardinality(Unmailed) = 0 /\ IsFiniteSet(Unmailed)
  BY <1>1, FS_EmptySet
<1>3. Covered(Cardinality(Holding) + Cardinality(Unmailed))
  BY <1>2 DEF Init, Covered
<1>4. DaysFit
  BY DEF Init, SequencerInit, DaysFit, NoMessage, IdleWorker, Sending
<1> QED
  BY <1>2, <1>3, <1>4 DEF SlotInv

LEMMA NextSlot == TypeOK /\ ClaimsOwned /\ SlotInv /\ [Next]_vars => SlotInv'
<1> SUFFICES ASSUME TypeOK, ClaimsOwned, SlotInv, [Next]_vars
             PROVE  SlotInv'
  OBVIOUS
<1>0. TypeOK'
  BY NextType
<1>1. ASSUME SlotQuiet
      PROVE  SlotInv'
  BY <1>0, <1>1, SlotFrame
<1>2. ASSUME NEW w \in Workers, WorkerStep(w)
      PROVE  SlotInv'
  BY <1>1, <1>2, SlotQuietSteps, SlotReserve, SlotClaim, SlotDuplicate, SlotDeliver,
     SlotFailed, SlotFinalize DEF WorkerStep
<1>3. ASSUME NEW k \in Keys, SweepUnsent(k)
      PROVE  SlotInv'
  BY <1>3, SlotSweep
<1> QED
  BY <1>1, <1>2, <1>3, SlotReset, SlotQuietSteps DEF Next

(* The e-mails that went out today on today's slots are within each daily  *)
(* cap, but for the slots given back that should not have been.            *)
THEOREM CapsHold == Spec => []CapLedger
<1>1. Init => SlotInv
  BY InitSlot
<1>2. TypeOK /\ ClaimsOwned /\ SlotInv /\ [Next]_vars => SlotInv'
  BY NextSlot
<1>3. TypeOK /\ SlotInv => CapLedger
  <2> SUFFICES ASSUME TypeOK, SlotInv, NEW q \in Quotas
               PROVE  todays <= Cap[q] + misfreed
    BY DEF CapLedger
  <2>1. Cardinality(Holding) \in Nat /\ Cardinality(Unmailed) \in Nat
    BY HoldingFinite, FS_CardinalityType DEF SlotInv
  <2>2. sentToday[q] <= Cap[q]
        /\ todays + (Cardinality(Holding) + Cardinality(Unmailed)) <= sentToday[q] + misfreed
    BY DEF SlotInv, Covered
  <2>3. todays \in Nat /\ misfreed \in Nat /\ sentToday[q] \in Nat /\ Cap[q] \in Nat
    BY DEF TypeOK, SendTypeOK
  <2> QED
    BY <2>1, <2>2, <2>3
<1> QED
  BY <1>1, <1>2, <1>3, TypeCorrect, ClaimsAreOwned, PTL DEF Spec

-----------------------------------------------------------------------------
(* The schedule.  A row handed to a task has a task, running or queued,    *)
(* unless a job of it came to nothing; so has a row a tick is handing out. *)

HasTask(e) ==
    \/ \E w \in Workers : worker[w] # IdleWorker /\ worker[w].e = e
    \/ \E j \in Job : j.e = e /\ queue[j] > 0

Handed(row) ==
    \/ row.state = "researching"
    \/ row.state = "ready" /\ ~row.due

Armed(row) == row.state \in {"queued", "waiting"} => row.due

(* What a tick makes of a row it locks; nobody else writes it meanwhile.   *)
Advanced(old, new) ==
    /\ old.due
    /\ \/ /\ old.state = "queued"
          /\ new.state = "researching" /\ new.step = old.step
       \/ /\ old.state \in {"waiting", "ooo_rescheduled"} /\ ~new.due
          /\ \/ new.state = "finished_no_reply" /\ new.step = old.step
             \/ new.state = "ready" /\ new.step = old.step + 1
       \/ /\ old.state = "ready" /\ ~new.due
          /\ new.state = "ready" /\ new.step = old.step

LockedRows == \A e \in Enrollments : Locked(e) => Advanced(enr[e], tick[e])

TasksFollow ==
    \A e \in Enrollments \ dropped :
       \/ Handed(enr[e])
       \/ Locked(e) /\ tick[e].state \in {"researching", "ready"}
       => HasTask(e)

ScheduleInv == LockedRows /\ WaitingIsArmed /\ TasksFollow

-----------------------------------------------------------------------------
(* Rows *)

LEMMA Written ==
    ASSUME TypeOK, NEW e \in Enrollments, NEW row, Write(e, row)
    PROVE  /\ enr'[e] = row /\ ~Locked(e)
           /\ \A i \in Enrollments : i # e => enr'[i] = enr[i]
BY DEF Write, TypeOK, SequencerTypeOK

(* What a step may do to a row: nothing, write it where no tick holds it,  *)
(* end the tick that holds it, or lock it.                                 *)
Settled(row) == ~Handed(row) /\ Armed(row)

RowMoves(e) ==
    \/ enr'[e] = enr[e] /\ tick'[e] = tick[e]
    \/ ~Locked(e) /\ tick'[e] = tick[e] /\ Settled(enr'[e])
    \/ Locked(e) /\ tick'[e] = NoRow /\ enr'[e] \in {enr[e], tick[e]}
    \/ ~Locked(e) /\ enr'[e] = enr[e] /\ Advanced(enr[e], tick'[e])

LEMMA SettledRows ==
    ASSUME NEW r \in Row
    PROVE  /\ Settled([r EXCEPT !.state = "error"])
           /\ Settled([r EXCEPT !.state = "unsubscribed"])
           /\ Settled([r EXCEPT !.state = "error", !.due = FALSE])
           /\ Settled([r EXCEPT !.state = "finished_no_reply", !.due = FALSE])
           /\ Settled([r EXCEPT !.state = "ready", !.due = TRUE])
           /\ r.state = "ready" => Settled([r EXCEPT !.due = TRUE])
           /\ \A n \in Nat :
                 /\ Settled([r EXCEPT !.state = "waiting", !.due = TRUE, !.step = n])
                 /\ Settled([r EXCEPT !.state = "ready", !.step = n, !.due = TRUE])
                 /\ Settled([state |-> "ready", step |-> n, due |-> TRUE])
                 /\ Settled([state |-> "queued", step |-> n, due |-> TRUE])
BY DEF Row, Settled, Handed, Armed

LEMMA MachineSteps ==
    /\ NextState("researching", "research_done") = "ready"
    /\ NextState("researching", "research_failed") = "error"
    /\ NextState("ready", "send_ok") = "waiting"
    /\ \A s : /\ NextState(s, "unsubscribe") = "unsubscribed"
              /\ NextState(s, "send_failed") = "error"
              /\ NextState(s, "timer") = "ready"
    /\ {"ready", "error", "unsubscribed", "waiting", "queued", "researching",
        "finished_no_reply"} \subseteq States
BY DEF NextState, Target, States, Live, Terminal

(* A row written by a task, a person or the sweep is settled.              *)
LEMMA WriteMoves ==
    ASSUME TypeOK, NEW e \in Enrollments, NEW row, Write(e, row), Settled(row), tick' = tick
    PROVE  \A i \in Enrollments : RowMoves(i)
BY Written DEF RowMoves

LEMMA JobIs ==
    ASSUME NEW kind \in {"research", "send", "touch"}, NEW e \in Enrollments,
           NEW n \in 0..MaxRetries
    PROVE  \E j \in Job : j = [kind |-> kind, e |-> e, n |-> n] /\ j.e = e
<1>1. [kind |-> kind, e |-> e, n |-> n] \in Job
  BY DEF Job
<1> QED
  BY <1>1

LEMMA TickMoves ==
    ASSUME TypeOK, NEW e \in Enrollments, TickStep(e)
    PROVE  /\ enr' = enr /\ ~Locked(e) /\ Advanced(enr[e], tick'[e])
           /\ \A i \in Enrollments : i # e => tick'[i] = tick[i]
           /\ UNCHANGED <<worker, dropped>>
           /\ \A j \in Job : queue[j] > 0 => queue'[j] > 0
           /\ tick'[e].state \in {"researching", "ready"} =>
                 \E j \in Job : j.e = e /\ queue'[j] > 0
<1>0. enr[e] \in Row /\ queue \in [Job -> Nat]
  BY DEF TypeOK, SequencerTypeOK
<1>1. ASSUME NEW kind \in {"research", "send", "touch"}, Publish(kind, e)
      PROVE  /\ \A j \in Job : queue[j] > 0 => queue'[j] > 0
             /\ \E j \in Job : j.e = e /\ queue'[j] > 0
  <2>1. PICK i \in Job : i = [kind |-> kind, e |-> e, n |-> 0] /\ i.e = e
    BY JobIs
  <2>2. queue' = [queue EXCEPT ![i] = @ + 1]
    BY <1>1, <2>1 DEF Publish
  <2> QED
    BY <1>0, <2>1, <2>2
<1>2. ASSUME NEW row, Hold(e, row)
      PROVE  tick'[e] = row /\ \A i \in Enrollments : i # e => tick'[i] = tick[i]
  BY <1>2 DEF Hold, TypeOK, SequencerTypeOK
<1>3. CASE Alone(TickQueued(e))
  <2>1. Hold(e, [enr[e] EXCEPT !.state = "researching"]) /\ Publish("research", e)
    BY <1>3 DEF Alone, TickQueued
  <2>2. ~Locked(e) /\ enr[e].due /\ enr[e].state = "queued" /\ UNCHANGED <<enr, worker, dropped>>
    BY <1>3 DEF Alone, TickQueued, Due
  <2>3. Advanced(enr[e], [enr[e] EXCEPT !.state = "researching"])
    BY <1>0, <2>2 DEF Advanced, Row
  <2> QED
    BY <1>1, <1>2, <2>1, <2>2, <2>3
<1>4. CASE Alone(TickFinished(e))
  <2>1. Hold(e, [enr[e] EXCEPT !.state = "finished_no_reply", !.due = FALSE])
    BY <1>4 DEF Alone, TickFinished
  <2>2. /\ ~Locked(e) /\ enr[e].due /\ enr[e].state \in {"waiting", "ooo_rescheduled"}
        /\ UNCHANGED <<enr, worker, dropped, queue>>
    BY <1>4 DEF Alone, TickFinished, Due
  <2>3. /\ Advanced(enr[e], [enr[e] EXCEPT !.state = "finished_no_reply", !.due = FALSE])
        /\ [enr[e] EXCEPT !.state = "finished_no_reply", !.due = FALSE].state = "finished_no_reply"
    BY <1>0, <2>2 DEF Advanced, Row
  <2> QED
    BY <1>2, <2>1, <2>2, <2>3
<1>5. ASSUME NEW row \in Row, Dispatch(e, row)
      PROVE  /\ Hold(e, [row EXCEPT !.due = FALSE])
             /\ \A j \in Job : queue[j] > 0 => queue'[j] > 0
             /\ \E j \in Job : j.e = e /\ queue'[j] > 0
  BY <1>1, <1>5 DEF Dispatch
<1>6. CASE Alone(TickTimer(e))
  <2> DEFINE row == [After(e, "timer") EXCEPT !.step = @ + 1]
  <2>1. Dispatch(e, row)
    BY <1>6 DEF Alone, TickTimer
  <2>2. /\ ~Locked(e) /\ enr[e].due /\ enr[e].state \in {"waiting", "ooo_rescheduled"}
        /\ enr[e].step < LastStep /\ UNCHANGED <<enr, worker, dropped>>
    BY <1>6 DEF Alone, TickTimer, Due
  <2>3. /\ row \in Row /\ row.state = "ready" /\ row.step = enr[e].step + 1
    <3>1. After(e, "timer") = [enr[e] EXCEPT !.state = "ready"]
      BY MachineSteps DEF After
    <3>2. PICK q \in Row : q = After(e, "timer") /\ q.state = "ready" /\ q.step = enr[e].step
      BY <1>0, <3>1, MachineSteps DEF Row
    <3>3. row = [q EXCEPT !.step = @ + 1]
      BY <3>2
    <3> HIDE DEF row
    <3> QED
      BY <2>2, <3>2, <3>3 DEF Row
  <2> HIDE DEF row
  <2>4. Advanced(enr[e], [row EXCEPT !.due = FALSE])
    BY <2>2, <2>3 DEF Advanced, Row
  <2> QED
    BY <1>2, <1>5, <2>1, <2>2, <2>3, <2>4
<1>7. CASE Alone(TickReady(e))
  <2>1. Dispatch(e, enr[e])
    BY <1>7 DEF Alone, TickReady
  <2>2. /\ ~Locked(e) /\ enr[e].due /\ enr[e].state = "ready" /\ UNCHANGED <<enr, worker, dropped>>
    BY <1>7 DEF Alone, TickReady, Due
  <2>3. Advanced(enr[e], [enr[e] EXCEPT !.due = FALSE])
    BY <1>0, <2>2 DEF Advanced, Row
  <2> QED
    BY <1>0, <1>2, <1>5, <2>1, <2>2, <2>3
<1> QED
  BY <1>3, <1>4, <1>6, <1>7 DEF TickStep

(* What a step may do to a lead's task: keep it, drop it, or settle its row.*)
KeepsTask(e) ==
    HasTask(e) => \/ HasTask(e)' \/ e \in dropped'
                  \/ ~Locked(e) /\ tick'[e] = tick[e] /\ ~Handed(enr'[e])

ScheduleMoves ==
    /\ dropped \subseteq dropped'
    /\ \A e \in Enrollments :
          /\ RowMoves(e) /\ KeepsTask(e)
          /\ tick'[e] # tick[e] /\ tick'[e].state \in {"researching", "ready"} => HasTask(e)'

LEMMA ScheduleStep ==
    ASSUME ScheduleInv, ScheduleMoves
    PROVE  ScheduleInv'
<1> SUFFICES ASSUME NEW e \in Enrollments
             PROVE  /\ Locked(e)' => Advanced(enr[e], tick[e])'
                    /\ Armed(enr[e])'
                    /\ \/ e \in dropped'
                       \/ HasTask(e)'
                       \/ /\ ~Handed(enr[e])'
                          /\ Locked(e)' => tick'[e].state \notin {"researching", "ready"}
  BY DEF ScheduleInv, LockedRows, WaitingIsArmed, Armed, TasksFollow
<1>1. /\ Locked(e) => Advanced(enr[e], tick[e])
      /\ Armed(enr[e])
      /\ \/ e \in dropped
         \/ HasTask(e)
         \/ ~Handed(enr[e]) /\ (Locked(e) => tick[e].state \notin {"researching", "ready"})
  BY DEF ScheduleInv, LockedRows, WaitingIsArmed, Armed, TasksFollow
<1>2. RowMoves(e) /\ KeepsTask(e) /\ dropped \subseteq dropped'
      /\ (tick'[e] # tick[e] /\ tick'[e].state \in {"researching", "ready"} => HasTask(e)')
  BY DEF ScheduleMoves
<1>3. Locked(e)' <=> tick'[e] # NoRow
  BY DEF Locked
<1>4. Locked(e) <=> tick[e] # NoRow
  BY DEF Locked
<1>5. CASE enr'[e] = enr[e] /\ tick'[e] = tick[e]
  <2>1. KeepsTask(e) /\ dropped \subseteq dropped'
    BY <1>2
  <2> QED
    BY <1>1, <1>3, <1>4, <1>5, <2>1 DEF KeepsTask
<1>6. CASE ~Locked(e) /\ tick'[e] = tick[e] /\ Settled(enr'[e])
  BY <1>3, <1>4, <1>6 DEF Settled
<1>7. CASE Locked(e) /\ tick'[e] = NoRow /\ enr'[e] \in {enr[e], tick[e]}
  <2>1. ~Locked(e)' /\ Advanced(enr[e], tick[e])
    BY <1>1, <1>3, <1>7
  <2>2. Armed(enr'[e])
    BY <1>1, <1>7, <2>1 DEF Armed, Advanced
  <2>3. Handed(enr'[e]) => e \in dropped \/ HasTask(e)
    BY <1>1, <1>7, <2>1 DEF Handed, Advanced
  <2>4. HasTask(e) => HasTask(e)' \/ e \in dropped'
    BY <1>2, <1>7 DEF KeepsTask
  <2> QED
    BY <1>2, <2>1, <2>2, <2>3, <2>4
<1>8. CASE ~Locked(e) /\ enr'[e] = enr[e] /\ Advanced(enr[e], tick'[e])
  <2>1. tick'[e] = tick[e] => ~Locked(e)'
    BY <1>3, <1>4, <1>8
  <2>2. Handed(enr[e]) => FALSE
    BY <1>8 DEF Advanced, Handed
  <2> QED
    BY <1>1, <1>2, <1>3, <1>8, <2>1, <2>2
<1> QED
  BY <1>2, <1>5, <1>6, <1>7, <1>8 DEF RowMoves

-----------------------------------------------------------------------------
(* Tasks *)

QueueGrows == \A j \in Job : queue[j] > 0 => queue'[j] > 0

LEMMA TaskStays ==
    ASSUME NEW e,
           \A v \in Workers : worker[v] # IdleWorker /\ worker[v].e = e =>
              worker'[v] # IdleWorker /\ worker'[v].e = e,
           \A j \in Job : j.e = e /\ queue[j] > 0 => queue'[j] > 0
    PROVE  HasTask(e) => HasTask(e)'
BY DEF HasTask

LEMMA StopKeeps ==
    ASSUME TypeOK, NEW w \in Workers, Stop(w), QueueGrows
    PROVE  \A e \in Enrollments : HasTask(e) => HasTask(e)' \/ e = worker[w].e
<1>1. \A v \in Workers : v # w => worker'[v] = worker[v]
  BY DEF Stop, TypeOK, SequencerTypeOK
<1> QED
  BY <1>1 DEF HasTask, QueueGrows

(* A task that gives up or publishes its job again is not forgotten.       *)
LEMMA RetryKeeps ==
    ASSUME TypeOK, NEW w \in Workers, worker[w] \in Busy, Retry(w)
    PROVE  /\ QueueGrows /\ dropped \subseteq dropped'
           /\ \/ worker[w].e \in dropped'
              \/ \E j \in Job : j.e = worker[w].e /\ queue'[j] > 0
<1>1. worker[w].e \in Enrollments /\ worker[w].n \in 0..MaxRetries /\ queue \in [Job -> Nat]
  BY DEF Busy, TypeOK, SequencerTypeOK
<1>2. KindOf(worker[w].pc) \in {"research", "send", "touch"}
  BY DEF KindOf
<1>3. CASE worker[w].n < MaxRetries
  <2>1. worker[w].n + 1 \in 0..MaxRetries
    BY <1>1, <1>3
  <2>2. PICK j \in Job :
           /\ j = [kind |-> KindOf(worker[w].pc), e |-> worker[w].e, n |-> worker[w].n + 1]
           /\ j.e = worker[w].e
    BY <1>1, <1>2, <2>1, JobIs
  <2>3. [JobOf(w) EXCEPT !.n = worker[w].n + 1] = j
    BY <2>2 DEF JobOf
  <2>4. queue' = [queue EXCEPT ![j] = @ + 1] /\ UNCHANGED dropped
    BY <1>3, <2>3 DEF Retry
  <2>5. queue'[j] > 0
    BY <1>1, <2>4
  <2> QED
    BY <1>1, <2>2, <2>4, <2>5 DEF QueueGrows
<1>4. CASE ~(worker[w].n < MaxRetries)
  BY <1>4 DEF Retry, Drop, QueueGrows
<1> QED
  BY <1>3, <1>4

LEMMA RunKeeps ==
    ASSUME TypeOK, NEW w \in Workers, NEW pc \in BusyPC, NEW kind \in {"research", "send"},
           NEW e \in Enrollments, NEW n \in 0..MaxRetries, Take(w, kind, e, n), Run(w, pc, e, n)
    PROVE  \A i \in Enrollments : HasTask(i) => HasTask(i)'
<1>1. PICK j \in Job : j = [kind |-> kind, e |-> e, n |-> n] /\ j.e = e
  BY JobIs
<1>2. queue' = [queue EXCEPT ![j] = @ - 1] /\ worker[w] = IdleWorker
  BY <1>1 DEF Take, Consume
<1>3. \A i \in Job : i # j => queue'[i] = queue[i]
  BY <1>2 DEF TypeOK, SequencerTypeOK
<1>4. worker'[w] # IdleWorker /\ worker'[w].e = e
      /\ \A v \in Workers : v # w => worker'[v] = worker[v]
  BY DEF Run, IdleWorker, TypeOK, SequencerTypeOK, BusyPC
<1> QED
  BY <1>1, <1>2, <1>3, <1>4 DEF HasTask

LEMMA ConsumeKeeps ==
    ASSUME TypeOK, NEW w \in Workers, NEW kind \in {"research", "send"},
           NEW e \in Enrollments, NEW n \in 0..MaxRetries, Take(w, kind, e, n), worker' = worker
    PROVE  \A i \in Enrollments : HasTask(i) => HasTask(i)' \/ i = e
<1>1. PICK j \in Job : j = [kind |-> kind, e |-> e, n |-> n] /\ j.e = e
  BY JobIs
<1>2. queue' = [queue EXCEPT ![j] = @ - 1]
  BY <1>1 DEF Take, Consume
<1>3. \A i \in Job : i # j => queue'[i] = queue[i]
  BY <1>2 DEF TypeOK, SequencerTypeOK
<1> QED
  BY <1>1, <1>3 DEF HasTask

-----------------------------------------------------------------------------
(* Steps *)

LEMMA QuietMoves ==
    ASSUME UNCHANGED <<enr, tick>>, dropped \subseteq dropped',
           \A e \in Enrollments : HasTask(e) => HasTask(e)' \/ e \in dropped'
    PROVE  ScheduleMoves
BY DEF ScheduleMoves, RowMoves, KeepsTask

LEMMA WrittenMoves ==
    ASSUME TypeOK, NEW e \in Enrollments, NEW row, Write(e, row), Settled(row), tick' = tick,
           dropped \subseteq dropped',
           \A i \in Enrollments : HasTask(i) => HasTask(i)' \/ i = e
    PROVE  ScheduleMoves
<1>1. enr'[e] = row /\ ~Locked(e)
  BY Written
<1>2. \A i \in Enrollments : RowMoves(i)
  BY WriteMoves
<1>3. \A i \in Enrollments : KeepsTask(i)
  BY <1>1 DEF KeepsTask, Settled
<1> QED
  BY <1>2, <1>3 DEF ScheduleMoves

LEMMA TickScheduled ==
    ASSUME TypeOK, NEW e \in Enrollments, TickStep(e)
    PROVE  ScheduleMoves
<1>1. /\ enr' = enr /\ ~Locked(e) /\ Advanced(enr[e], tick'[e])
      /\ \A i \in Enrollments : i # e => tick'[i] = tick[i]
      /\ UNCHANGED <<worker, dropped>>
      /\ \A j \in Job : queue[j] > 0 => queue'[j] > 0
      /\ tick'[e].state \in {"researching", "ready"} =>
            \E j \in Job : j.e = e /\ queue'[j] > 0
  BY TickMoves
<1>2. \A i \in Enrollments : RowMoves(i)
  BY <1>1 DEF RowMoves
<1>3. \A i \in Enrollments : HasTask(i) => HasTask(i)'
  BY <1>1 DEF HasTask
<1>4. tick'[e].state \in {"researching", "ready"} => HasTask(e)'
  BY <1>1 DEF HasTask
<1> QED
  BY <1>1, <1>2, <1>3, <1>4 DEF ScheduleMoves, KeepsTask

LEMMA TickEndScheduled ==
    ASSUME TypeOK, Alone(TickCommit) \/ Alone(TickCrash)
    PROVE  ScheduleMoves
<1>1. UNCHANGED <<queue, worker, dropped>>
  BY DEF Alone, TickCommit, TickCrash
<1>2. \A e \in Enrollments : RowMoves(e) /\ (tick'[e] # tick[e] => tick'[e] = NoRow)
  <2>1. CASE Alone(TickCommit)
    <3>1. PICK S \in SUBSET {e \in Enrollments : Locked(e)} :
             /\ enr' = [e \in Enrollments |-> IF e \in S THEN tick[e] ELSE enr[e]]
             /\ tick' = [e \in Enrollments |-> IF e \in S THEN NoRow ELSE tick[e]]
      BY <2>1 DEF Alone, TickCommit
    <3> QED
      BY <3>1 DEF RowMoves
  <2>2. CASE Alone(TickCrash)
    <3>1. PICK S \in SUBSET {e \in Enrollments : Locked(e)} :
             tick' = [e \in Enrollments |-> IF e \in S THEN NoRow ELSE tick[e]]
      BY <2>2 DEF Alone, TickCrash
    <3>2. enr' = enr
      BY <2>2 DEF Alone, TickCrash
    <3> QED
      BY <3>1, <3>2 DEF RowMoves
  <2> QED
    BY <2>1, <2>2
<1>3. \A e \in Enrollments : HasTask(e) => HasTask(e)'
  BY <1>1 DEF HasTask
<1>4. NoRow.state \notin {"researching", "ready"}
  BY DEF NoRow
<1> QED
  BY <1>1, <1>2, <1>3, <1>4 DEF ScheduleMoves, KeepsTask

LEMMA TakeScheduled ==
    ASSUME TypeOK, NEW w \in Workers, NEW e \in Enrollments, NEW n \in 0..MaxRetries,
           TakeJob(w, e, n)
    PROVE  ScheduleMoves
<1>1. CASE Alone(StartResearch(w, e, n))
  <2>1. /\ Take(w, "research", e, n) /\ Run(w, "research", e, n)
        /\ UNCHANGED <<enr, tick, dropped>>
    BY <1>1 DEF Alone, StartResearch
  <2> QED
    BY <2>1, RunKeeps, QuietMoves DEF BusyPC
<1>2. CASE StartSend(w, e, n)
  <2>1. /\ Take(w, "send", e, n) /\ Run(w, "generate", e, n)
        /\ UNCHANGED <<enr, tick, dropped>>
    BY <1>2 DEF StartSend
  <2> QED
    BY <2>1, RunKeeps, QuietMoves DEF BusyPC
<1>3. CASE \/ Alone(Discard(w, "research", "researching", e, n))
           \/ Alone(Discard(w, "send", "ready", e, n))
  <2>1. /\ Take(w, "research", e, n) \/ Take(w, "send", e, n)
        /\ UNCHANGED <<enr, tick, worker>> /\ dropped' = dropped \cup {e}
    BY <1>3 DEF Alone, Discard, Drop
  <2>2. \A i \in Enrollments : HasTask(i) => HasTask(i)' \/ i = e
    BY <2>1, ConsumeKeeps
  <2> QED
    BY <2>1, <2>2, QuietMoves
<1>4. CASE StartRefused(w, e, n)
  <2>1. /\ After(e, "unsubscribe") = [enr[e] EXCEPT !.state = "unsubscribed"]
        /\ After(e, "send_failed") = [enr[e] EXCEPT !.state = "error"]
    BY MachineSteps DEF After
  <2>2. PICK row \in {[enr[e] EXCEPT !.state = "unsubscribed"],
                       [enr[e] EXCEPT !.state = "error"]} : Write(e, row)
    BY <1>4, <2>1 DEF StartRefused
  <2>3. Take(w, "send", e, n) /\ UNCHANGED <<tick, worker, dropped>>
    BY <1>4 DEF StartRefused
  <2>4. Settled(row)
    <3>1. enr[e] \in Row
      BY DEF TypeOK, SequencerTypeOK
    <3> QED
      BY <2>2, <3>1, SettledRows
  <2>5. \A i \in Enrollments : HasTask(i) => HasTask(i)' \/ i = e
    BY <2>3, ConsumeKeeps
  <2> QED
    BY <2>2, <2>3, <2>4, <2>5, WrittenMoves
<1>5. CASE Reroute(w, e, n)
  <2>1. PICK j \in Job : j = [kind |-> "send", e |-> e, n |-> n] /\ j.e = e
    BY JobIs
  <2>2. PICK t \in Job : t = [kind |-> "touch", e |-> e, n |-> 0] /\ t.e = e
    BY JobIs
  <2>3. /\ queue' = [queue EXCEPT ![j] = @ - 1, ![t] = @ + 1]
        /\ UNCHANGED <<enr, tick, worker, dropped>>
    BY <1>5, <2>1, <2>2 DEF Reroute
  <2>4. t # j
    BY <2>1, <2>2
  <2>5. queue'[t] > 0 /\ \A i \in Job : i # j /\ queue[i] > 0 => queue'[i] > 0
    BY <2>3, <2>4 DEF TypeOK, SequencerTypeOK
  <2>6. \A i \in Enrollments : HasTask(i) => HasTask(i)'
    BY <2>1, <2>2, <2>3, <2>5 DEF HasTask
  <2> QED
    BY <2>3, <2>6, QuietMoves
<1> QED
  BY <1>1, <1>2, <1>3, <1>4, <1>5 DEF TakeJob

(* The end of a task, however it ends.                                     *)
LEMMA EndScheduled ==
    ASSUME TypeOK, NEW w \in Workers,
           \/ Alone(FinishResearch(w)) \/ Alone(TaskException(w)) \/ CopyRejected(w)
           \/ PresendSuppressed(w) \/ PresendBlocked(w) \/ DuplicateClaim(w)
           \/ DeliverFailed(w) \/ Finalize(w) \/ Alone(Crash(w))
    PROVE  ScheduleMoves
<1>1. worker[w] \in Busy /\ Stop(w)
  BY BusyWorker DEF Alone, FinishResearch, TaskException, CopyRejected, PresendSuppressed,
     PresendBlocked, DuplicateClaim, DeliverFailed, Finalize, Crash, TypeOK, SequencerTypeOK
<1>2. worker[w].e \in Enrollments /\ JobOf(w) \in Job /\ JobOf(w).e = worker[w].e
      /\ worker[w].step \in Nat
  BY <1>1, JobOfType DEF Busy, TypeOK, JobOf, Steps
<1> PICK e \in Enrollments : e = worker[w].e
  BY <1>2
<1>3. enr[e] \in Row /\ enr[e].step \in Nat
  BY DEF TypeOK, SequencerTypeOK, Row
<1>4. ASSUME QueueGrows, dropped \subseteq dropped', tick' = tick,
             NEW row, Write(e, row), Settled(row)
      PROVE  ScheduleMoves
  BY <1>1, <1>4, StopKeeps, WrittenMoves
<1>5. ASSUME QueueGrows, dropped \subseteq dropped', UNCHANGED <<enr, tick>>,
             \/ e \in dropped'
             \/ \E j \in Job : j.e = e /\ queue'[j] > 0
      PROVE  ScheduleMoves
  <2>1. \A i \in Enrollments : HasTask(i) => HasTask(i)' \/ i \in dropped'
    <3>1. \A i \in Enrollments : HasTask(i) => HasTask(i)' \/ i = e
      BY <1>1, <1>5, StopKeeps
    <3>2. HasTask(e)' \/ e \in dropped'
      BY <1>5 DEF HasTask
    <3> QED
      BY <3>1, <3>2
  <2> QED
    BY <1>5, <2>1, QuietMoves
<1>6. CASE Alone(FinishResearch(w))
  <2>1. PICK row \in {[enr[e] EXCEPT !.state = "ready", !.due = TRUE],
                       [enr[e] EXCEPT !.state = "error"]} : Write(e, row)
    BY <1>6, MachineSteps DEF Alone, FinishResearch
  <2>2. UNCHANGED <<queue, tick, dropped>>
    BY <1>6 DEF Alone, FinishResearch
  <2>3. Settled(row)
    BY <1>3, <2>1, SettledRows
  <2> QED
    BY <1>4, <2>1, <2>2, <2>3 DEF QueueGrows
<1>7. CASE Alone(TaskException(w)) \/ DuplicateClaim(w)
  BY <1>5, <1>7 DEF Alone, TaskException, DuplicateClaim, Drop, QueueGrows
<1>8. CASE CopyRejected(w) \/ PresendSuppressed(w)
  <2>1. PICK row \in {[enr[e] EXCEPT !.state = "error"],
                       [enr[e] EXCEPT !.state = "unsubscribed"]} : Write(e, row)
    BY <1>8, MachineSteps DEF CopyRejected, PresendSuppressed
  <2>2. UNCHANGED <<queue, tick, dropped>>
    BY <1>8 DEF CopyRejected, PresendSuppressed
  <2>3. Settled(row)
    BY <1>3, <2>1, SettledRows
  <2> QED
    BY <1>4, <2>1, <2>2, <2>3 DEF QueueGrows
<1>9. CASE PresendBlocked(w) \/ DeliverFailed(w)
  <2>1. Retry(w) /\ UNCHANGED <<enr, tick>>
    BY <1>9 DEF PresendBlocked, DeliverFailed
  <2> QED
    BY <1>1, <1>5, <2>1, RetryKeeps
<1>10. CASE Finalize(w)
  <2>1. /\ Write(e, [enr[e] EXCEPT !.state = "waiting", !.due = TRUE,
                        !.step = IF worker[w].first THEN worker[w].step ELSE @])
        /\ UNCHANGED <<queue, tick, dropped>>
    BY <1>10, MachineSteps DEF Finalize
  <2>2. PICK n \in Nat : n = IF worker[w].first THEN worker[w].step ELSE enr[e].step
    BY <1>2, <1>3
  <2>3. Write(e, [enr[e] EXCEPT !.state = "waiting", !.due = TRUE, !.step = n])
    BY <2>1, <2>2
  <2> QED
    <3>1. Settled([enr[e] EXCEPT !.state = "waiting", !.due = TRUE, !.step = n])
      BY <1>3, SettledRows
    <3> QED
      BY <1>4, <2>1, <2>3, <3>1 DEF QueueGrows
<1>11. CASE Alone(Crash(w))
  <2>1. UNCHANGED <<enr, tick>>
    BY <1>11 DEF Alone, Crash
  <2>2. CASE queue' = [queue EXCEPT ![JobOf(w)] = @ + 1] /\ UNCHANGED dropped
    <3>1. QueueGrows /\ queue'[JobOf(w)] > 0
      BY <1>2, <2>2 DEF QueueGrows, TypeOK, SequencerTypeOK
    <3> QED
      BY <1>2, <1>5, <2>1, <2>2, <3>1
  <2>3. CASE Drop(worker[w].e) /\ UNCHANGED queue
    BY <1>5, <2>1, <2>3 DEF Drop, QueueGrows
  <2> QED
    BY <1>11, <2>2, <2>3 DEF Alone, Crash
<1> QED
  BY <1>6, <1>7, <1>8, <1>9, <1>10, <1>11

LEMMA PassScheduled ==
    ASSUME TypeOK, NEW w \in Workers, Reserve(w) \/ Claim(w) \/ Deliver(w)
    PROVE  ScheduleMoves
<1>1. worker[w] \in Busy
  BY BusyWorker DEF Reserve, Claim, Deliver, TypeOK
<1>2. UNCHANGED <<enr, tick, queue, dropped>>
  BY DEF Reserve, Claim, Deliver
<1>3. /\ worker'[w].e = worker[w].e /\ worker'[w].pc # "idle"
      /\ \A v \in Workers : v # w => worker'[v] = worker[v]
  BY <1>1 DEF Reserve, Claim, Deliver, TypeOK, SequencerTypeOK, Busy
<1>4. worker'[w] # IdleWorker
  BY <1>3 DEF IdleWorker
<1>5. \A e \in Enrollments : HasTask(e) => HasTask(e)'
  BY <1>2, <1>3, <1>4 DEF HasTask
<1> QED
  BY <1>2, <1>5, QuietMoves

LEMMA OtherScheduled ==
    ASSUME TypeOK,
           \/ \E k \in Keys : SweepUnsent(k)
           \/ DailyReset
           \/ \E e \in Enrollments : PersonStep(e)
           \/ Alone(RedisLost) \/ Alone(Redeliver) \/ UNCHANGED vars
    PROVE  ScheduleMoves
<1>1. ASSUME UNCHANGED <<queue, worker>>
      PROVE  \A e \in Enrollments : HasTask(e) => HasTask(e)'
  BY <1>1 DEF HasTask
<1>2. ASSUME NEW k \in Keys, SweepUnsent(k)
      PROVE  ScheduleMoves
  <2>1. UNCHANGED <<queue, worker, tick, dropped>>
    BY <1>2 DEF SweepUnsent
  <2>2. PICK e \in Enrollments : e = k[1]
    BY DEF Keys
  <2>3. CASE enr' = enr
    BY <1>1, <2>1, <2>3, QuietMoves
  <2>4. CASE enr' # enr
    <3>1. Write(e, [enr[e] EXCEPT !.due = TRUE]) /\ enr[e].state = "ready"
      BY <1>2, <2>2, <2>4 DEF SweepUnsent
    <3>2. Settled([enr[e] EXCEPT !.due = TRUE])
      BY <3>1, SettledRows DEF TypeOK, SequencerTypeOK
    <3> QED
      BY <1>1, <2>1, <3>1, <3>2, WrittenMoves
  <2> QED
    BY <2>3, <2>4
<1>3. ASSUME NEW e \in Enrollments, NEW action, Redrive(e, action)
      PROVE  ScheduleMoves
  <2>1. UNCHANGED <<queue, worker, tick, dropped>>
    BY <1>3 DEF Redrive
  <2>2. enr[e] \in Row /\ enr[e].step \in Nat
    BY DEF TypeOK, SequencerTypeOK, Row
  <2>3. ASSUME NEW row, Write(e, row), Settled(row)
        PROVE  ScheduleMoves
    BY <1>1, <2>1, <2>3, WrittenMoves
  <2>4. CASE Write(e, [enr[e] EXCEPT !.state = "ready", !.step = AtLeastOne(@), !.due = TRUE])
    <3>1. PICK n \in Nat : n = AtLeastOne(enr[e].step)
      BY <2>2 DEF AtLeastOne
    <3>2. Write(e, [enr[e] EXCEPT !.state = "ready", !.step = n, !.due = TRUE])
      BY <2>4, <3>1
    <3>3. Settled([enr[e] EXCEPT !.state = "ready", !.step = n, !.due = TRUE])
      BY <2>2, <3>1, SettledRows
    <3> QED
      BY <2>3, <3>2, <3>3
  <2>5. CASE Write(e, [state |-> "ready", step |-> enr[e].step + 1, due |-> TRUE])
    <3>1. PICK n \in Nat : n = enr[e].step + 1
      BY <2>2
    <3>2. Settled([state |-> "ready", step |-> n, due |-> TRUE])
      BY <2>2, <3>1, SettledRows
    <3> QED
      BY <2>3, <2>5, <3>1, <3>2
  <2>6. CASE Write(e, [state |-> "queued", step |-> 0, due |-> TRUE])
    BY <2>2, <2>3, <2>6, SettledRows
  <2>7. CASE \/ Write(e, [enr[e] EXCEPT !.state = "error", !.due = FALSE])
             \/ Write(e, [enr[e] EXCEPT !.state = "finished_no_reply", !.due = FALSE])
    BY <2>2, <2>3, <2>7, SettledRows
  <2> QED
    BY <1>3, <2>4, <2>5, <2>6, <2>7 DEF Redrive
<1>4. ASSUME UNCHANGED <<enr, tick, worker, queue, dropped>>
      PROVE  ScheduleMoves
  BY <1>1, <1>4, QuietMoves
<1>5. CASE DailyReset \/ UNCHANGED vars \/ \E e \in Enrollments : Suppress(e)
  BY <1>4, <1>5 DEF DailyReset, vars, seqVars, Suppress
<1>6. CASE Alone(RedisLost)
  <2>1. /\ UNCHANGED <<enr, tick, worker>>
        /\ dropped' = dropped \cup {e \in Enrollments : \E j \in Job : j.e = e /\ queue[j] > 0}
    BY <1>6 DEF Alone, RedisLost
  <2>2. \A e \in Enrollments : HasTask(e) => HasTask(e)' \/ e \in dropped'
    BY <2>1 DEF HasTask
  <2> QED
    BY <2>1, <2>2, QuietMoves
<1>7. CASE Alone(Redeliver)
  <2>1. /\ UNCHANGED <<enr, tick, worker, dropped>>
        /\ \E j \in Job : queue[j] > 0 /\ queue' = [queue EXCEPT ![j] = @ + 1]
    BY <1>7 DEF Alone, Redeliver
  <2>2. QueueGrows
    BY <2>1 DEF QueueGrows, TypeOK, SequencerTypeOK
  <2>3. \A e \in Enrollments : HasTask(e) => HasTask(e)'
    BY <2>1, <2>2 DEF HasTask, QueueGrows
  <2> QED
    BY <2>1, <2>3, QuietMoves
<1> QED
  BY <1>2, <1>3, <1>5, <1>6, <1>7 DEF PersonStep, Alone

LEMMA ScheduleHeld == TypeOK /\ ScheduleInv /\ [Next]_vars => ScheduleInv'
<1> SUFFICES ASSUME TypeOK, ScheduleInv, [Next]_vars
             PROVE  ScheduleMoves
  BY ScheduleStep
<1>1. ASSUME NEW e \in Enrollments, TickStep(e) \/ PersonStep(e)
      PROVE  ScheduleMoves
  BY <1>1, TickScheduled, OtherScheduled
<1>2. CASE Alone(TickCommit)
  BY <1>2, TickEndScheduled
<1>3. ASSUME NEW w \in Workers, WorkerStep(w)
      PROVE  ScheduleMoves
  BY <1>3, EndScheduled, PassScheduled DEF WorkerStep
<1>4. ASSUME NEW w \in Workers, NEW e \in Enrollments, NEW n \in 0..MaxRetries,
             TakeJob(w, e, n)
      PROVE  ScheduleMoves
  BY <1>4, TakeScheduled
<1>5. CASE Failure
  BY <1>5, TickEndScheduled, OtherScheduled, EndScheduled DEF Failure
<1>6. CASE (\E k \in Keys : SweepUnsent(k)) \/ DailyReset \/ UNCHANGED vars
  BY <1>6, OtherScheduled
<1> QED
  BY <1>1, <1>2, <1>3, <1>4, <1>5, <1>6 DEF Next

(* What a tick has locked it alone moves on, and whoever was handed out    *)
(* has a task: the inductive invariant of the schedule.                    *)
THEOREM ScheduleStands == Spec => []ScheduleInv
<1>1. Init => ScheduleInv
  BY DEF Init, SequencerInit, ScheduleInv, LockedRows, Locked, WaitingIsArmed, TasksFollow,
     Handed
<1>2. TypeOK /\ ScheduleInv /\ [Next]_vars => ScheduleInv'
  BY ScheduleHeld
<1> QED
  BY <1>1, <1>2, TypeCorrect, PTL DEF Spec

(* The scheduler loses nobody: a lead that waits has its timer, and one    *)
(* that was handed out and has nothing left to move it had a job that came *)
(* to nothing for one of the reasons the model names.                      *)
THEOREM ScheduleHolds == Spec => []ScheduleKept
<1>1. ScheduleInv => ScheduleKept
  BY DEF ScheduleInv, ScheduleKept, StrandedHasCause, Stranded, TasksFollow, Handed, HasTask,
     Pending
<1> QED
  BY <1>1, ScheduleStands, PTL

-----------------------------------------------------------------------------
(* The order of the steps.  What lies behind a row's current step was      *)
(* sent, between two steps the current one too; a task works on no step    *)
(* its lead has not reached, or on the first of a lead that had begun none.*)

Sent(e, s) == msg[<<e, s>>].status = "sent"

Between(row) == row.state \in {"waiting", "ooo_rescheduled"}

BehindIsSent(e) ==
    \A s \in Steps :
       s < enr[e].step \/ (s <= enr[e].step /\ Between(enr[e])) => Sent(e, s)

StepReached(w) ==
    worker[w].pc # "idle" =>
       IF worker[w].first THEN worker[w].step = 1
                          ELSE worker[w].step <= enr[worker[w].e].step

OrderInv ==
    redrives = 0 =>
       /\ \A e \in Enrollments : BehindIsSent(e)
       /\ \A w \in Workers : StepReached(w)

(* A step that sends nothing.  A row keeps its step, or a tick commits it; *)
(* a task goes on with the step it loaded, or loads its row.               *)
SentStays == \A k \in Keys : msg[k].status = "sent" => msg'[k].status = "sent"

RowKeepsStep(e) ==
    \/ enr'[e].step = enr[e].step /\ (Between(enr'[e]) => Between(enr[e]))
    \/ Locked(e) /\ enr'[e] = tick[e]

TaskKeepsStep(w) ==
    worker'[w].pc # "idle" =>
       \/ /\ worker[w].pc # "idle"
          /\ worker'[w].e = worker[w].e
          /\ worker'[w].step = worker[w].step /\ worker'[w].first = worker[w].first
       \/ /\ enr' = enr
          /\ worker'[w].step = AtLeastOne(enr[worker'[w].e].step)
          /\ worker'[w].first = (enr[worker'[w].e].step = 0)

OrderMoves ==
    /\ redrives' = redrives /\ SentStays
    /\ \A e \in Enrollments : RowKeepsStep(e)
    /\ \A w \in Workers : TaskKeepsStep(w)

LEMMA OrderStep ==
    ASSUME TypeOK, TypeOK', LockedRows, OrderInv, OrderMoves
    PROVE  OrderInv'
<1> SUFFICES ASSUME redrives = 0
             PROVE  /\ \A e \in Enrollments : BehindIsSent(e)'
                    /\ \A w \in Workers : StepReached(w)'
  BY DEF OrderInv, OrderMoves
<1>1. /\ \A e \in Enrollments : BehindIsSent(e) /\ RowKeepsStep(e)
      /\ \A w \in Workers : StepReached(w) /\ TaskKeepsStep(w)
      /\ SentStays
  BY DEF OrderInv, OrderMoves
<1>2. \A e \in Enrollments : enr[e].step \in Nat /\ enr'[e].step \in Nat
  BY DEF TypeOK, SequencerTypeOK, Row
<1>3. ASSUME NEW e \in Enrollments, Locked(e), enr'[e] = tick[e]
      PROVE  /\ ~Between(enr'[e])
             /\ \/ enr'[e].step = enr[e].step
                \/ Between(enr[e]) /\ enr'[e].step = enr[e].step + 1
  BY <1>3 DEF LockedRows, Advanced, Between
<1>4. ASSUME NEW e \in Enrollments
      PROVE  BehindIsSent(e)'
  <2> SUFFICES ASSUME NEW s \in Steps,
                      s < enr'[e].step \/ (s <= enr'[e].step /\ Between(enr'[e]))
               PROVE  Sent(e, s)'
    BY DEF BehindIsSent
  <2>1. s < enr[e].step \/ (s <= enr[e].step /\ Between(enr[e]))
    BY <1>1, <1>2, <1>3 DEF RowKeepsStep, Steps
  <2>2. Sent(e, s)
    BY <1>1, <2>1 DEF BehindIsSent
  <2> QED
    BY <1>1, <2>2 DEF Sent, SentStays, Keys
<1>5. \A e \in Enrollments : enr[e].step <= enr'[e].step
  BY <1>1, <1>2, <1>3 DEF RowKeepsStep
<1>6. ASSUME NEW w \in Workers, worker'[w].pc # "idle"
      PROVE  IF worker'[w].first THEN worker'[w].step = 1
                                 ELSE worker'[w].step <= enr'[worker'[w].e].step
  <2>1. worker'[w] \in Busy
    BY <1>6 DEF TypeOK, SequencerTypeOK, IdleWorker
  <2>2. PICK e \in Enrollments : e = worker'[w].e
    BY <2>1 DEF Busy
  <2>3. enr[e].step \in Nat /\ enr'[e].step \in Nat /\ enr[e].step <= enr'[e].step
        /\ worker'[w].step \in Nat
    BY <1>2, <1>5, <2>1 DEF Busy, Steps
  <2>4. TaskKeepsStep(w) /\ StepReached(w)
    BY <1>1
  <2>5. CASE /\ worker[w].pc # "idle"
             /\ worker'[w].e = worker[w].e
             /\ worker'[w].step = worker[w].step /\ worker'[w].first = worker[w].first
    BY <2>2, <2>3, <2>4, <2>5 DEF StepReached
  <2>6. CASE /\ enr' = enr
             /\ worker'[w].step = AtLeastOne(enr[worker'[w].e].step)
             /\ worker'[w].first = (enr[worker'[w].e].step = 0)
    <3>1. /\ worker'[w].first <=> enr[e].step = 0
          /\ worker'[w].step = AtLeastOne(enr[e].step)
      BY <2>2, <2>6
    <3> QED
      BY <2>2, <2>3, <2>6, <3>1 DEF AtLeastOne
  <2> QED
    BY <1>6, <2>4, <2>5, <2>6 DEF TaskKeepsStep
<1> QED
  BY <1>4, <1>6 DEF StepReached

-----------------------------------------------------------------------------
(* Rows and tasks keep their steps *)

LEMMA StopStep ==
    ASSUME TypeOK, NEW w \in Workers, Stop(w)
    PROVE  \A v \in Workers : TaskKeepsStep(v)
BY DEF Stop, TaskKeepsStep, IdleWorker, TypeOK, SequencerTypeOK

LEMMA SameTasks ==
    ASSUME worker' = worker
    PROVE  \A v \in Workers : TaskKeepsStep(v)
BY DEF TaskKeepsStep

LEMMA LoadStep ==
    ASSUME TypeOK, NEW w \in Workers, NEW pc \in BusyPC, NEW e \in Enrollments,
           NEW n \in 0..MaxRetries, Run(w, pc, e, n), enr' = enr
    PROVE  \A v \in Workers : TaskKeepsStep(v)
<1>1. /\ worker'[w].e = e /\ worker'[w].step = AtLeastOne(enr[e].step)
      /\ worker'[w].first = (enr[e].step = 0)
      /\ \A v \in Workers : v # w => worker'[v] = worker[v]
  BY DEF Run, TypeOK, SequencerTypeOK
<1> QED
  BY <1>1 DEF TaskKeepsStep

LEMMA SameRows ==
    ASSUME enr' = enr
    PROVE  \A e \in Enrollments : RowKeepsStep(e)
BY DEF RowKeepsStep

LEMMA WrittenStep ==
    ASSUME TypeOK, NEW e \in Enrollments, NEW row, Write(e, row),
           row.step = enr[e].step, ~Between(row)
    PROVE  \A i \in Enrollments : RowKeepsStep(i)
BY Written DEF RowKeepsStep

LEMMA RowFields ==
    ASSUME NEW r \in Row
    PROVE  /\ \A s \in {"ready", "error", "unsubscribed"} :
                 /\ [r EXCEPT !.state = s].step = r.step /\ ~Between([r EXCEPT !.state = s])
                 /\ [r EXCEPT !.state = s, !.due = TRUE].step = r.step
                 /\ ~Between([r EXCEPT !.state = s, !.due = TRUE])
           /\ [r EXCEPT !.due = TRUE].step = r.step
           /\ [r EXCEPT !.due = TRUE].state = r.state
BY DEF Row, Between

(* A claim is given up only by whoever holds it, and nobody holds a row    *)
(* that says sent.                                                         *)
LEMMA SentRowsStay ==
    ASSUME TypeOK, ClaimsOwned,
           \/ msg' = msg
           \/ \E k \in Keys : SweepUnsent(k)
           \/ \E w \in Workers : Claim(w) \/ DeliverFailed(w) \/ Finalize(w)
    PROVE  SentStays
<1>1. CASE msg' = msg
  BY <1>1 DEF SentStays
<1>2. ASSUME NEW k \in Keys, SweepUnsent(k)
      PROVE  SentStays
  BY <1>2 DEF SweepUnsent, SentStays, TypeOK, SendTypeOK
<1>3. ASSUME NEW w \in Workers, Claim(w) \/ DeliverFailed(w) \/ Finalize(w)
      PROVE  SentStays
  <2>1. worker[w] \in Busy /\ KeyOf(w) \in Keys
    BY <1>3, TaskMoves
  <2>2. PICK k \in Keys : k = KeyOf(w)
    BY <2>1
  <2>3. \A i \in Keys : i # k => msg'[i] = msg[i]
    BY <1>3, <2>2 DEF Claim, DeliverFailed, Finalize, TypeOK, SendTypeOK
  <2>4. msg[k].status # "sent" \/ msg'[k].status = "sent"
    <3>1. CASE Claim(w)
      BY <2>2, <3>1 DEF Claim
    <3>2. CASE DeliverFailed(w)
      BY <2>2, <3>2 DEF DeliverFailed, ClaimsOwned, Sending
    <3>3. CASE Finalize(w)
      <4>1. msg[k] \in Message /\ msg'[k] = [msg[k] EXCEPT !.status = "sent"]
        BY <2>2, <3>3 DEF Finalize, TypeOK, SendTypeOK
      <4> QED
        BY <4>1 DEF Message
    <3> QED
      BY <1>3, <3>1, <3>2, <3>3
  <2> QED
    BY <2>3, <2>4 DEF SentStays
<1> QED
  BY <1>1, <1>2, <1>3

(* Every step but the end of a delivery and a person's redrive.            *)
LEMMA OrderSteps ==
    ASSUME TypeOK, ClaimsOwned,
           \/ \E e \in Enrollments : TickStep(e) \/ Suppress(e)
           \/ Alone(TickCommit)
           \/ \E w \in Workers, e \in Enrollments, n \in 0..MaxRetries : TakeJob(w, e, n)
           \/ \E w \in Workers : WorkerStep(w) /\ ~Finalize(w)
           \/ \E k \in Keys : SweepUnsent(k)
           \/ DailyReset \/ Failure \/ UNCHANGED vars
    PROVE  OrderMoves
<1>0. \A e \in Enrollments : enr[e] \in Row
  BY DEF TypeOK, SequencerTypeOK
<1>1. ASSUME UNCHANGED <<redrives, enr, worker, msg>>
      PROVE  OrderMoves
  BY <1>1, SameTasks, SameRows, SentRowsStay DEF OrderMoves
<1>2. ASSUME NEW w \in Workers, Stop(w), UNCHANGED <<redrives, enr>>, SentStays
      PROVE  OrderMoves
  BY <1>2, StopStep, SameRows DEF OrderMoves
<1>3. ASSUME NEW w \in Workers, Stop(w), UNCHANGED <<redrives, msg>>,
             NEW e \in Enrollments, NEW s \in {"ready", "error", "unsubscribed"},
             \/ Write(e, [enr[e] EXCEPT !.state = s])
             \/ Write(e, [enr[e] EXCEPT !.state = s, !.due = TRUE])
      PROVE  OrderMoves
  <2>1. \A i \in Enrollments : RowKeepsStep(i)
    BY <1>0, <1>3, RowFields, WrittenStep
  <2> QED
    BY <1>3, <2>1, StopStep, SentRowsStay DEF OrderMoves
<1>4. ASSUME NEW e \in Enrollments, TickStep(e) \/ Suppress(e)
      PROVE  OrderMoves
  BY <1>1, <1>4 DEF TickStep, Suppress, Alone, TickQueued, TickFinished, TickTimer, TickReady,
     seqVars, sendVars, histVars
<1>5. CASE Alone(TickCommit)
  <2>1. UNCHANGED <<redrives, worker, msg>>
    BY <1>5 DEF Alone, TickCommit, sendVars
  <2>2. \A e \in Enrollments : RowKeepsStep(e)
    <3>1. PICK S \in SUBSET {e \in Enrollments : Locked(e)} :
             enr' = [e \in Enrollments |-> IF e \in S THEN tick[e] ELSE enr[e]]
      BY <1>5 DEF Alone, TickCommit
    <3> QED
      BY <3>1 DEF RowKeepsStep
  <2> QED
    BY <2>1, <2>2, SameTasks, SentRowsStay DEF OrderMoves
<1>6. ASSUME NEW w \in Workers, NEW e \in Enrollments, NEW n \in 0..MaxRetries,
             TakeJob(w, e, n)
      PROVE  OrderMoves
  <2>1. CASE Alone(StartResearch(w, e, n)) \/ StartSend(w, e, n)
    <3>1. UNCHANGED <<redrives, enr, msg>>
      BY <2>1 DEF Alone, StartResearch, StartSend, sendVars
    <3>2. PICK pc \in BusyPC : Run(w, pc, e, n)
      BY <2>1 DEF Alone, StartResearch, StartSend, BusyPC
    <3> QED
      BY <3>1, <3>2, LoadStep, SameRows, SentRowsStay DEF OrderMoves
  <2>2. CASE \/ Alone(Discard(w, "research", "researching", e, n))
             \/ Alone(Discard(w, "send", "ready", e, n)) \/ Reroute(w, e, n)
    BY <1>1, <2>2 DEF Alone, Discard, Reroute, sendVars
  <2>3. CASE StartRefused(w, e, n)
    <3>1. UNCHANGED <<redrives, worker, msg>>
      BY <2>3 DEF StartRefused, sendVars
    <3>2. PICK s \in {"ready", "error", "unsubscribed"} : Write(e, [enr[e] EXCEPT !.state = s])
      BY <2>3, MachineSteps DEF StartRefused, After
    <3>3. \A i \in Enrollments : RowKeepsStep(i)
      BY <1>0, <3>2, RowFields, WrittenStep
    <3> QED
      BY <3>1, <3>3, SameTasks, SentRowsStay DEF OrderMoves
  <2> QED
    BY <1>6, <2>1, <2>2, <2>3 DEF TakeJob
<1>7. ASSUME NEW w \in Workers, WorkerStep(w), ~Finalize(w)
      PROVE  OrderMoves
  <2>1. CASE Alone(FinishResearch(w)) \/ CopyRejected(w) \/ PresendSuppressed(w)
    <3>1. worker[w] \in Busy /\ Stop(w) /\ UNCHANGED <<redrives, msg>>
      BY <2>1, BusyWorker DEF Alone, FinishResearch, CopyRejected, PresendSuppressed, TypeOK, sendVars
    <3>2. PICK e \in Enrollments : e = worker[w].e
      BY <3>1 DEF Busy
    <3>3. \E s \in {"ready", "error", "unsubscribed"} :
             \/ Write(e, [enr[e] EXCEPT !.state = s])
             \/ Write(e, [enr[e] EXCEPT !.state = s, !.due = TRUE])
      BY <2>1, <3>2, MachineSteps DEF Alone, FinishResearch, CopyRejected, PresendSuppressed
    <3> QED
      BY <1>3, <3>1, <3>3
  <2>2. CASE Alone(TaskException(w)) \/ PresendBlocked(w) \/ DuplicateClaim(w)
    <3>1. Stop(w) /\ UNCHANGED <<redrives, enr, msg>>
      BY <2>2 DEF Alone, TaskException, PresendBlocked, DuplicateClaim, sendVars
    <3> QED
      BY <1>2, <3>1, SentRowsStay
  <2>3. CASE DeliverFailed(w)
    <3>1. Stop(w) /\ UNCHANGED <<redrives, enr>>
      BY <2>3 DEF DeliverFailed
    <3> QED
      BY <1>2, <2>3, <3>1, SentRowsStay
  <2>4. CASE Reserve(w) \/ Claim(w) \/ Deliver(w)
    <3>1. UNCHANGED <<redrives, enr>> /\ SentStays
      BY <2>4, SentRowsStay DEF Reserve, Claim, Deliver, sendVars
    <3>2. worker[w] \in Busy /\ worker[w].pc # "idle"
      BY <2>4, BusyWorker DEF Reserve, Claim, Deliver, TypeOK
    <3>3. /\ worker'[w].e = worker[w].e /\ worker'[w].step = worker[w].step
          /\ worker'[w].first = worker[w].first
          /\ \A v \in Workers : v # w => worker'[v] = worker[v]
      BY <2>4, <3>2 DEF Reserve, Claim, Deliver, TypeOK, SequencerTypeOK, Busy
    <3>4. \A v \in Workers : TaskKeepsStep(v)
      BY <3>2, <3>3 DEF TaskKeepsStep
    <3> QED
      BY <3>1, <3>4, SameRows DEF OrderMoves
  <2> QED
    BY <1>7, <2>1, <2>2, <2>3, <2>4 DEF WorkerStep
<1>8. ASSUME NEW k \in Keys, SweepUnsent(k)
      PROVE  OrderMoves
  <2>1. UNCHANGED <<redrives, worker>> /\ SentStays
    BY <1>8, SentRowsStay DEF SweepUnsent
  <2>2. \A e \in Enrollments : RowKeepsStep(e)
    <3>1. PICK e \in Enrollments : e = k[1]
      BY DEF Keys
    <3>2. CASE enr' = enr
      BY <3>2, SameRows
    <3>3. CASE Write(e, [enr[e] EXCEPT !.due = TRUE]) /\ enr[e].state = "ready"
      <4>1. /\ [enr[e] EXCEPT !.due = TRUE].step = enr[e].step
            /\ ~Between([enr[e] EXCEPT !.due = TRUE])
        BY <1>0, <3>3, RowFields DEF Between
      <4> QED
        BY <3>3, <4>1, WrittenStep
    <3> QED
      BY <1>8, <3>1, <3>2, <3>3 DEF SweepUnsent
  <2> QED
    BY <2>1, <2>2, SameTasks DEF OrderMoves
<1>9. CASE DailyReset \/ UNCHANGED vars
  BY <1>1, <1>9 DEF DailyReset, vars, seqVars, sendVars
<1>10. CASE Failure
  <2>1. CASE Alone(TickCrash) \/ Alone(RedisLost) \/ Alone(Redeliver)
    BY <1>1, <2>1 DEF Alone, TickCrash, RedisLost, Redeliver, sendVars
  <2>2. ASSUME NEW w \in Workers, Alone(Crash(w))
        PROVE  OrderMoves
    <3>1. Stop(w) /\ UNCHANGED <<redrives, enr, msg>>
      BY <2>2 DEF Alone, Crash, sendVars
    <3> QED
      BY <1>2, <3>1, SentRowsStay
  <2> QED
    BY <1>10, <2>1, <2>2 DEF Failure
<1> QED
  BY <1>4, <1>5, <1>6, <1>7, <1>8, <1>9, <1>10

(* The e-mail a task has just delivered is of its lead's current step, or  *)
(* the first of a lead still at step 0.                                    *)
LEMMA OrderFinalize ==
    ASSUME TypeOK, ClaimsOwned, OrderInv, NEW w \in Workers, Finalize(w)
    PROVE  OrderInv'
<1> SUFFICES ASSUME redrives = 0
             PROVE  /\ \A e \in Enrollments : BehindIsSent(e)'
                    /\ \A v \in Workers : StepReached(v)'
  BY DEF OrderInv, Finalize
<1>1. /\ \A i \in Enrollments : BehindIsSent(i)
      /\ \A v \in Workers : StepReached(v)
  BY DEF OrderInv
<1>2. /\ worker[w] \in Busy /\ KeyOf(w) \in Keys /\ worker[w].step \in Steps
      /\ \A v \in Workers : v # w => worker'[v] = worker[v]
      /\ worker'[w].pc = "idle"
  BY TaskMoves DEF Busy
<1> PICK e \in Enrollments : e = worker[w].e
  BY <1>2 DEF Busy
<1> PICK s \in Steps : s = worker[w].step
  BY <1>2
<1>3. SentStays
  BY SentRowsStay
<1>4. Sent(e, s)' /\ ~Sent(e, s)
  <2>1. msg[<<e, s>>] \in Message /\ msg'[<<e, s>>] = [msg[<<e, s>>] EXCEPT !.status = "sent"]
    BY DEF Finalize, KeyOf, Keys, TypeOK, SendTypeOK
  <2>2. msg[<<e, s>>].status = "claimed"
    BY DEF Finalize, ClaimsOwned, Sending, KeyOf
  <2> QED
    BY <2>1, <2>2 DEF Sent, Message
<1>5. /\ \A i \in Enrollments : i # e => enr'[i] = enr[i]
      /\ enr'[e].step = IF worker[w].first THEN s ELSE enr[e].step
  <2> DEFINE n == IF worker[w].first THEN worker[w].step ELSE enr[e].step
  <2>1. Write(e, [enr[e] EXCEPT !.state = NextState("ready", "send_ok"), !.due = TRUE, !.step = n])
    BY DEF Finalize
  <2>2. enr[e] \in Row
    BY DEF TypeOK, SequencerTypeOK
  <2>3. [enr[e] EXCEPT !.state = NextState("ready", "send_ok"), !.due = TRUE, !.step = n].step = n
    BY <2>2 DEF Row
  <2> QED
    BY <2>1, <2>3, Written
<1>6. s \in Nat /\ s >= 1 /\ enr[e].step \in Nat /\ enr[e].step <= s
  <2>1. s \in Nat /\ s >= 1 /\ enr[e].step \in Nat
    BY DEF TypeOK, SequencerTypeOK, Row, Steps
  <2>2. ~(s < enr[e].step)
    BY <1>1, <1>4 DEF BehindIsSent
  <2> QED
    BY <2>1, <2>2
<1>7. IF worker[w].first THEN s = 1 ELSE s = enr[e].step
  <2>1. worker[w].pc # "idle"
    BY DEF Finalize
  <2> QED
    BY <1>1, <1>6, <2>1 DEF StepReached
<1>8. enr'[e].step = s
  BY <1>5, <1>7
<1>9. ASSUME NEW i \in Enrollments
      PROVE  BehindIsSent(i)'
  <2> SUFFICES ASSUME NEW t \in Steps,
                      t < enr'[i].step \/ (t <= enr'[i].step /\ Between(enr'[i]))
               PROVE  Sent(i, t)'
    BY DEF BehindIsSent
  <2>1. CASE i # e
    <3>1. Sent(i, t)
      BY <1>1, <1>5, <2>1 DEF BehindIsSent
    <3> QED
      BY <1>3, <3>1 DEF Sent, SentStays, Keys
  <2>2. CASE i = e /\ t # s
    <3>1. t < s /\ t \in Nat /\ t >= 1
      BY <1>6, <1>8, <2>2 DEF Steps
    <3>2. Sent(e, t)
      BY <1>1, <1>6, <1>7, <3>1 DEF BehindIsSent
    <3> QED
      BY <1>3, <2>2, <3>2 DEF Sent, SentStays, Keys
  <2>3. CASE i = e /\ t = s
    BY <1>4, <2>3
  <2> QED
    BY <2>1, <2>2, <2>3
<1>10. ASSUME NEW v \in Workers
       PROVE  StepReached(v)'
  <2>1. CASE v = w
    BY <1>2, <2>1 DEF StepReached
  <2>2. CASE v # w
    <3>1. worker'[v] = worker[v] /\ StepReached(v)
      BY <1>1, <1>2, <2>2
    <3>2. CASE worker[v].e = e
      BY <1>6, <1>8, <3>1, <3>2 DEF StepReached, Steps, TypeOK, SequencerTypeOK, Busy, IdleWorker
    <3>3. CASE worker[v].pc # "idle" /\ worker[v].e # e
      <4>1. worker[v].e \in Enrollments
        BY <3>3, BusyWorker DEF TypeOK, Busy
      <4> QED
        BY <1>5, <3>1, <3>3, <4>1 DEF StepReached
    <3>4. CASE worker[v].pc = "idle"
      BY <3>1, <3>4 DEF StepReached
    <3> QED
      BY <3>2, <3>3, <3>4
  <2> QED
    BY <2>1, <2>2
<1> QED
  BY <1>9, <1>10

(* Unless a person redrives it, a lead reaches a step only after the       *)
(* e-mail of the step before was sent and recorded, whatever retries,      *)
(* sweeps, redeliveries and deaths lie in between.                         *)
THEOREM OrderHolds == Spec => []StepsInOrder
<1>1. Init => OrderInv
  BY DEF Init, SequencerInit, OrderInv, BehindIsSent, StepReached, Between, IdleWorker, Steps
<1>2. OrderInv => StepsInOrder
  BY DEF OrderInv, StepsInOrder, BehindIsSent, Sent
<1>3. TypeOK /\ TypeOK' /\ ClaimsOwned /\ ScheduleInv /\ OrderInv /\ [Next]_vars => OrderInv'
  <2> SUFFICES ASSUME TypeOK, TypeOK', ClaimsOwned, ScheduleInv, OrderInv, [Next]_vars
               PROVE  OrderInv'
    OBVIOUS
  <2>1. LockedRows
    BY DEF ScheduleInv
  <2>2. OrderMoves => OrderInv'
    BY <2>1, OrderStep
  <2>3. ASSUME NEW e \in Enrollments, PersonStep(e)
        PROVE  OrderInv'
    <3>1. CASE Suppress(e)
      BY <2>2, <3>1, OrderSteps
    <3>2. ASSUME NEW action, Alone(Redrive(e, action))
          PROVE  OrderInv'
      BY <3>2 DEF Alone, Redrive, OrderInv, TypeOK, SequencerTypeOK
    <3> QED
      BY <2>3, <3>1, <3>2 DEF PersonStep
  <2>4. ASSUME NEW w \in Workers, WorkerStep(w)
        PROVE  OrderInv'
    BY <2>2, <2>4, OrderSteps, OrderFinalize
  <2> QED
    BY <2>2, <2>3, <2>4, OrderSteps DEF Next
<1> QED
  BY <1>1, <1>2, <1>3, TypeCorrect, ClaimsAreOwned, ScheduleStands, PTL DEF Spec

-----------------------------------------------------------------------------
(* One task at a time.  As long as nothing dies, is lost, delivered again  *)
(* or redriven, a lead has no job and no task, one job, or one task.       *)

Queued(e) == {j \in Job : j.e = e /\ queue[j] > 0}
Running(e) == {w \in Workers : worker[w].pc # "idle" /\ worker[w].e = e}

Nothing(e) == Queued(e) = {} /\ Running(e) = {}
OneJob(e) == \E j \in Job : Queued(e) = {j} /\ queue[j] = 1 /\ Running(e) = {}
OneTask(e) == \E w \in Workers : Queued(e) = {} /\ Running(e) = {w}
AtMostOne(e) == Nothing(e) \/ OneJob(e) \/ OneTask(e)

(* A lead with a job or a task is one the tick passes over.                *)
PassedOver(row) == row.state = "researching" \/ ~row.due

TasksFit(e) ==
    \A w \in Running(e) :
       enr[e].state = IF worker[w].pc = "research" THEN "researching" ELSE "ready"

LeadHasOne(e) ==
    /\ AtMostOne(e)
    /\ ~Locked(e) => Nothing(e) \/ PassedOver(enr[e])
    /\ TasksFit(e)

OneInv ==
    /\ \A e \in Enrollments : LeadHasOne(e)
    /\ \A k \in Keys : msg[k].status = "claimed" => InFlight(k)

-----------------------------------------------------------------------------
(* What a step does to the jobs and tasks of each lead *)

(* No job of the lead moves, and its tasks stay where they are.            *)
Untouched(e) ==
    /\ \A j \in Job : j.e = e => queue'[j] = queue[j]
    /\ \A w \in Workers : w \in Running(e)' <=> w \in Running(e)

LEMMA UntouchedKeeps ==
    ASSUME NEW e, Untouched(e)
    PROVE  /\ Nothing(e)' <=> Nothing(e)
           /\ AtMostOne(e) => AtMostOne(e)'
<1>1. Queued(e)' = Queued(e)
  BY DEF Untouched, Queued
<1>2. Running(e)' = Running(e)
  BY DEF Untouched, Running
<1>3. \A j \in Job : Queued(e) = {j} => queue'[j] = queue[j]
  BY DEF Untouched, Queued
<1> QED
  BY <1>1, <1>2, <1>3 DEF Nothing, AtMostOne, OneJob, OneTask

LEMMA JobAdded ==
    ASSUME TypeOK, NEW j \in Job, queue' = [queue EXCEPT ![j] = @ + 1],
           Nothing(j.e), Running(j.e)' = {}
    PROVE  OneJob(j.e)'
<1>1. queue[j] = 0
  BY DEF Nothing, Queued, TypeOK, SequencerTypeOK
<1>2. queue'[j] = 1 /\ \A i \in Job : i # j => queue'[i] = queue[i]
  BY <1>1 DEF TypeOK, SequencerTypeOK
<1>3. Queued(j.e)' = {j}
  BY <1>2 DEF Nothing, Queued
<1> QED
  BY <1>2, <1>3 DEF OneJob

LEMMA JobRemoved ==
    ASSUME TypeOK, NEW j \in Job, queue[j] > 0, queue' = [queue EXCEPT ![j] = @ - 1],
           AtMostOne(j.e)
    PROVE  Queued(j.e)' = {} /\ Running(j.e) = {}
<1>1. j \in Queued(j.e)
  BY DEF Queued
<1>2. Queued(j.e) = {j} /\ queue[j] = 1 /\ Running(j.e) = {}
  BY <1>1 DEF AtMostOne, Nothing, OneJob, OneTask
<1>3. queue'[j] = 0 /\ \A i \in Job : i # j => queue'[i] = queue[i]
  BY <1>2 DEF TypeOK, SequencerTypeOK
<1> QED
  BY <1>2, <1>3 DEF Queued

LEMMA OthersJobs ==
    ASSUME TypeOK, NEW j \in Job,
           \/ queue' = [queue EXCEPT ![j] = @ - 1] \/ queue' = [queue EXCEPT ![j] = @ + 1]
    PROVE  \A i \in Job : i.e # j.e => queue'[i] = queue[i]
BY DEF TypeOK, SequencerTypeOK

(* The task of a lead is all it has.                                       *)
LEMMA TaskAlone ==
    ASSUME NEW e, AtMostOne(e), NEW w \in Running(e)
    PROVE  Queued(e) = {} /\ Running(e) = {w}
BY DEF AtMostOne, Nothing, OneJob, OneTask

LEMMA TaskEnds ==
    ASSUME TypeOK, NEW w \in Workers, worker[w] \in Busy, Stop(w)
    PROVE  /\ \A e \in Enrollments : Running(e)' = Running(e) \ {w}
           /\ \A e \in Enrollments : e # worker[w].e => Running(e)' = Running(e)
           /\ w \in Running(worker[w].e)
<1>1. worker'[w] = IdleWorker /\ \A v \in Workers : v # w => worker'[v] = worker[v]
  BY DEF Stop, TypeOK, SequencerTypeOK
<1>2. worker[w].pc # "idle"
  BY DEF Busy, BusyPC
<1> QED
  BY <1>1, <1>2 DEF Running, IdleWorker

-----------------------------------------------------------------------------
(* Steps *)

(* A step that has nothing to do with a lead.                              *)
Still(e) ==
    /\ Untouched(e)
    /\ enr'[e] = enr[e] /\ tick'[e] = tick[e]
    /\ \A w \in Running(e) : worker'[w].pc = "research" <=> worker[w].pc = "research"

LEMMA StillHasOne ==
    ASSUME NEW e, Still(e), LeadHasOne(e)
    PROVE  LeadHasOne(e)'
<1>1. /\ Nothing(e)' <=> Nothing(e)
      /\ AtMostOne(e)'
  BY UntouchedKeeps DEF Still, LeadHasOne
<1>2. Locked(e)' <=> Locked(e)
  BY DEF Still, Locked
<1>3. Running(e)' = Running(e)
  BY DEF Still, Untouched, Running
<1>4. TasksFit(e)'
  BY <1>3 DEF TasksFit, Still, LeadHasOne
<1> QED
  BY <1>1, <1>2, <1>4 DEF LeadHasOne, Still

LEMMA NothingLeft ==
    ASSUME NEW e, Queued(e)' = {}, Running(e)' = {}
    PROVE  LeadHasOne(e)'
BY DEF LeadHasOne, AtMostOne, Nothing, TasksFit

LEMMA TickPublishes ==
    ASSUME TypeOK, NEW e \in Enrollments, TickStep(e)
    PROVE  \/ queue' = queue
           \/ \E j \in Job : j.e = e /\ queue' = [queue EXCEPT ![j] = @ + 1]
<1>1. ASSUME NEW kind \in {"research", "send", "touch"}, Publish(kind, e)
      PROVE  \E j \in Job : j.e = e /\ queue' = [queue EXCEPT ![j] = @ + 1]
  <2>1. PICK j \in Job : j = [kind |-> kind, e |-> e, n |-> 0] /\ j.e = e
    BY JobIs
  <2> QED
    BY <1>1, <2>1 DEF Publish
<1>2. \/ queue' = queue
      \/ Publish("research", e) \/ Publish("send", e) \/ Publish("touch", e)
  BY DEF TickStep, Alone, TickQueued, TickFinished, TickTimer, TickReady, Dispatch
<1> QED
  BY <1>1, <1>2

LEMMA OneTick ==
    ASSUME TypeOK, NEW e \in Enrollments, TickStep(e), \A i \in Enrollments : LeadHasOne(i)
    PROVE  \A i \in Enrollments : LeadHasOne(i)'
<1>1. /\ enr' = enr /\ ~Locked(e) /\ Advanced(enr[e], tick'[e])
      /\ \A i \in Enrollments : i # e => tick'[i] = tick[i]
      /\ UNCHANGED worker
  BY TickMoves
<1>2. Nothing(e)
  BY <1>1 DEF LeadHasOne, PassedOver, Advanced
<1>3. Locked(e)'
  BY <1>1 DEF Locked, NoRow, Advanced
<1>4. \A i \in Enrollments : Running(i)' = Running(i)
  BY <1>1 DEF Running
<1>5. CASE queue' = queue
  <2>1. \A i \in Enrollments : i # e => Still(i)
    BY <1>1, <1>4, <1>5 DEF Still, Untouched
  <2>2. Queued(e)' = {} /\ Running(e)' = {}
    BY <1>2, <1>4, <1>5 DEF Nothing, Queued
  <2> QED
    BY <2>1, <2>2, StillHasOne, NothingLeft
<1>6. ASSUME NEW j \in Job, j.e = e, queue' = [queue EXCEPT ![j] = @ + 1]
      PROVE  \A i \in Enrollments : LeadHasOne(i)'
  <2>1. \A i \in Enrollments : i # e => Still(i)
    BY <1>1, <1>4, <1>6, OthersJobs DEF Still, Untouched
  <2>2. Running(e)' = {} /\ OneJob(e)'
    BY <1>2, <1>4, <1>6, JobAdded DEF Nothing
  <2>3. LeadHasOne(e)'
    BY <1>3, <2>2 DEF LeadHasOne, AtMostOne, TasksFit
  <2> QED
    BY <2>1, <2>3, StillHasOne
<1> QED
  BY <1>5, <1>6, TickPublishes

LEMMA OneCommit ==
    ASSUME TypeOK, LockedRows, Alone(TickCommit), \A i \in Enrollments : LeadHasOne(i)
    PROVE  \A i \in Enrollments : LeadHasOne(i)'
<1> PICK S \in SUBSET {e \in Enrollments : Locked(e)} :
       /\ enr' = [e \in Enrollments |-> IF e \in S THEN tick[e] ELSE enr[e]]
       /\ tick' = [e \in Enrollments |-> IF e \in S THEN NoRow ELSE tick[e]]
  BY DEF Alone, TickCommit
<1>1. UNCHANGED <<queue, worker>>
  BY DEF Alone, TickCommit
<1> SUFFICES ASSUME NEW e \in Enrollments
             PROVE  LeadHasOne(e)'
  OBVIOUS
<1>2. Untouched(e)
  BY <1>1 DEF Untouched, Running
<1>3. CASE e \notin S
  <2>1. Still(e)
    BY <1>1, <1>2, <1>3 DEF Still
  <2> QED
    BY <2>1, StillHasOne
<1>4. CASE e \in S
  <2>1. Advanced(enr[e], tick[e]) /\ enr'[e] = tick[e]
    BY <1>4 DEF LockedRows
  <2>2. LeadHasOne(e)
    OBVIOUS
  <2>3. AtMostOne(e)' /\ PassedOver(enr'[e])
    BY <1>2, <2>1, <2>2, UntouchedKeeps DEF LeadHasOne, PassedOver, Advanced
  <2>4. TasksFit(e)'
    <3>1. Running(e)' = Running(e)
      BY <1>1 DEF Running
    <3>2. ASSUME NEW w \in Running(e)
          PROVE  enr'[e].state = IF worker[w].pc = "research" THEN "researching" ELSE "ready"
      <4>1. enr[e].state = IF worker[w].pc = "research" THEN "researching" ELSE "ready"
        BY <2>2 DEF LeadHasOne, TasksFit
      <4> QED
        BY <2>1, <4>1 DEF Advanced
    <3> QED
      BY <1>1, <3>1, <3>2 DEF TasksFit
  <2> QED
    BY <2>3, <2>4 DEF LeadHasOne
<1> QED
  BY <1>3, <1>4

LEMMA OneTake ==
    ASSUME TypeOK, NEW w \in Workers, NEW e \in Enrollments, NEW n \in 0..MaxRetries,
           TakeJob(w, e, n), \A i \in Enrollments : LeadHasOne(i)
    PROVE  \A i \in Enrollments : LeadHasOne(i)'
<1>0. LeadHasOne(e)
  OBVIOUS
<1>1. ASSUME NEW kind \in {"research", "send"}, Take(w, kind, e, n)
      PROVE  /\ worker[w] = IdleWorker
             /\ \A i \in Job : i.e # e => queue'[i] = queue[i]
             /\ Queued(e)' = {} /\ Running(e) = {} /\ ~Nothing(e)
  <2>1. PICK j \in Job : j = [kind |-> kind, e |-> e, n |-> n] /\ j.e = e
    BY JobIs
  <2>2. worker[w] = IdleWorker /\ queue[j] > 0 /\ queue' = [queue EXCEPT ![j] = @ - 1]
    BY <1>1, <2>1 DEF Take, Consume
  <2>3. AtMostOne(j.e) /\ j \in Queued(e)
    BY <1>0, <2>1, <2>2 DEF LeadHasOne, Queued
  <2> QED
    BY <2>1, <2>2, <2>3, JobRemoved, OthersJobs DEF Nothing
<1>2. ASSUME NEW kind \in {"research", "send"}, Take(w, kind, e, n),
             NEW pc \in {"research", "generate"}, Run(w, pc, e, n), UNCHANGED <<enr, tick>>,
             enr[e].state = IF pc = "research" THEN "researching" ELSE "ready"
      PROVE  \A i \in Enrollments : LeadHasOne(i)'
  <2>1. /\ worker'[w].pc = pc /\ worker'[w].e = e /\ worker[w] = IdleWorker
        /\ \A v \in Workers : v # w => worker'[v] = worker[v]
    BY <1>1, <1>2 DEF Run, TypeOK, SequencerTypeOK
  <2>2. /\ \A i \in Enrollments : i # e => Running(i)' = Running(i)
        /\ Running(e) = {} => Running(e)' = {w}
        /\ \A i \in Enrollments : w \notin Running(i)
    BY <2>1 DEF Running, IdleWorker
  <2>3. \A i \in Enrollments : i # e => Still(i)
    <3>1. \A i \in Enrollments : \A v \in Running(i) : worker'[v] = worker[v]
      BY <2>1, <2>2 DEF Running
    <3> QED
      BY <1>1, <1>2, <2>2, <3>1 DEF Still, Untouched
  <2>4. OneTask(e)' /\ Running(e)' = {w}
    BY <1>1, <1>2, <2>2 DEF OneTask
  <2>5. TasksFit(e)'
    BY <1>2, <2>1, <2>4 DEF TasksFit
  <2>6. ~Locked(e)' => PassedOver(enr'[e])
    BY <1>0, <1>1, <1>2 DEF LeadHasOne, Locked
  <2>7. LeadHasOne(e)'
    BY <2>4, <2>5, <2>6 DEF LeadHasOne, AtMostOne
  <2> QED
    BY <2>3, <2>7, StillHasOne
<1>3. ASSUME NEW kind \in {"research", "send"}, Take(w, kind, e, n),
             worker' = worker, tick' = tick, \A i \in Enrollments : i # e => enr'[i] = enr[i]
      PROVE  \A i \in Enrollments : LeadHasOne(i)'
  <2>1. \A i \in Enrollments : Running(i)' = Running(i)
    BY <1>3 DEF Running
  <2>2. \A i \in Enrollments : i # e => Still(i)
    BY <1>1, <1>3, <2>1 DEF Still, Untouched
  <2>3. LeadHasOne(e)'
    BY <1>1, <1>3, <2>1, NothingLeft
  <2> QED
    BY <2>2, <2>3, StillHasOne
<1>4. CASE Alone(StartResearch(w, e, n))
  BY <1>2, <1>4 DEF Alone, StartResearch
<1>5. CASE StartSend(w, e, n)
  BY <1>2, <1>5 DEF StartSend
<1>6. CASE \/ Alone(Discard(w, "research", "researching", e, n))
           \/ Alone(Discard(w, "send", "ready", e, n))
  BY <1>3, <1>6 DEF Alone, Discard
<1>7. CASE StartRefused(w, e, n)
  <2>1. \E row : Write(e, row)
    BY <1>7 DEF StartRefused
  <2>2. \A i \in Enrollments : i # e => enr'[i] = enr[i]
    BY <2>1, Written
  <2> QED
    BY <1>3, <1>7, <2>2 DEF StartRefused
<1>8. CASE Reroute(w, e, n)
  <2>1. PICK j \in Job : j = [kind |-> "send", e |-> e, n |-> n] /\ j.e = e
    BY JobIs
  <2>2. PICK t \in Job : t = [kind |-> "touch", e |-> e, n |-> 0] /\ t.e = e
    BY JobIs
  <2>3. /\ queue' = [queue EXCEPT ![j] = @ - 1, ![t] = @ + 1]
        /\ queue[j] > 0 /\ UNCHANGED <<enr, tick, worker>>
    BY <1>8, <2>1, <2>2 DEF Reroute
  <2>4. t # j
    BY <2>1, <2>2
  <2>5. /\ queue'[t] = queue[t] + 1 /\ queue'[j] = queue[j] - 1
        /\ \A i \in Job \ {t, j} : queue'[i] = queue[i]
    BY <2>3, <2>4 DEF TypeOK, SequencerTypeOK
  <2>6. \A i \in Enrollments : Running(i)' = Running(i)
    BY <2>3 DEF Running
  <2>7. \A i \in Enrollments : i # e => Still(i)
    BY <2>1, <2>2, <2>3, <2>5, <2>6 DEF Still, Untouched
  <2>8. j \in Queued(e)
    BY <2>1, <2>3 DEF Queued
  <2>9. Queued(e) = {j} /\ queue[j] = 1 /\ Running(e) = {} /\ ~Nothing(e)
    BY <1>0, <2>8 DEF LeadHasOne, AtMostOne, Nothing, OneJob, OneTask
  <2>10. queue[t] = 0
    BY <2>2, <2>4, <2>9 DEF Queued, TypeOK, SequencerTypeOK
  <2>11. Queued(e)' = {t} /\ queue'[t] = 1
    BY <2>2, <2>4, <2>5, <2>9, <2>10 DEF Queued
  <2>12. OneJob(e)' /\ TasksFit(e)'
    BY <2>6, <2>9, <2>11 DEF OneJob, TasksFit
  <2>13. ~Locked(e)' => PassedOver(enr'[e])
    BY <1>0, <2>3, <2>9 DEF LeadHasOne, Locked
  <2>14. LeadHasOne(e)'
    BY <2>12, <2>13 DEF LeadHasOne, AtMostOne
  <2> QED
    BY <2>7, <2>14, StillHasOne
<1> QED
  BY <1>4, <1>5, <1>6, <1>7, <1>8 DEF TakeJob

(* A task ends for good, or publishes its job once more.                   *)
LEMMA OneEnd ==
    ASSUME TypeOK, NEW w \in Workers, \A i \in Enrollments : LeadHasOne(i),
           \/ Alone(FinishResearch(w)) \/ CopyRejected(w) \/ PresendSuppressed(w)
           \/ PresendBlocked(w) \/ DuplicateClaim(w) \/ DeliverFailed(w) \/ Finalize(w)
    PROVE  \A i \in Enrollments : LeadHasOne(i)'
<1>1. worker[w] \in Busy /\ Stop(w) /\ tick' = tick
  BY BusyWorker DEF Alone, FinishResearch, CopyRejected, PresendSuppressed, PresendBlocked,
     DuplicateClaim, DeliverFailed, Finalize, TypeOK
<1> PICK e \in Enrollments : e = worker[w].e
  BY <1>1 DEF Busy
<1>2. /\ \A i \in Enrollments : i # e => Running(i)' = Running(i)
      /\ Running(e)' = Running(e) \ {w} /\ w \in Running(e)
  BY <1>1, TaskEnds
<1>3. Queued(e) = {} /\ Running(e) = {w} /\ ~Nothing(e)
  <2>1. AtMostOne(e)
    BY DEF LeadHasOne
  <2> QED
    BY <1>2, <2>1, TaskAlone DEF Nothing
<1>4. Running(e)' = {}
  BY <1>2, <1>3
<1>5. \A i \in Enrollments : i # e => \A v \in Running(i) : worker'[v] = worker[v]
  <2>1. \A v \in Workers : v # w => worker'[v] = worker[v]
    BY <1>1 DEF Stop, TypeOK, SequencerTypeOK
  <2> QED
    BY <2>1 DEF Running
<1>6. ASSUME queue' = queue, \A i \in Enrollments : i # e => enr'[i] = enr[i]
      PROVE  \A i \in Enrollments : LeadHasOne(i)'
  <2>1. \A i \in Enrollments : i # e => Still(i)
    BY <1>1, <1>2, <1>5, <1>6 DEF Still, Untouched
  <2>2. Queued(e)' = {}
    BY <1>3, <1>6 DEF Queued
  <2> QED
    BY <1>4, <2>1, <2>2, StillHasOne, NothingLeft
<1>7. ASSUME NEW j \in Job, j.e = e, queue' = [queue EXCEPT ![j] = @ + 1], enr' = enr
      PROVE  \A i \in Enrollments : LeadHasOne(i)'
  <2>1. \A i \in Enrollments : i # e => Still(i)
    BY <1>1, <1>2, <1>5, <1>7, OthersJobs DEF Still, Untouched
  <2>2. queue[j] = 0
    BY <1>3, <1>7 DEF Queued, TypeOK, SequencerTypeOK
  <2>3. queue'[j] = 1 /\ \A i \in Job : i # j => queue'[i] = queue[i]
    BY <1>7, <2>2 DEF TypeOK, SequencerTypeOK
  <2>4. Queued(e)' = {j}
    BY <1>3, <1>7, <2>3 DEF Queued
  <2>5. OneJob(e)' /\ TasksFit(e)'
    BY <1>4, <2>3, <2>4 DEF OneJob, TasksFit
  <2>6. ~Locked(e)' => PassedOver(enr'[e])
    BY <1>1, <1>3, <1>7 DEF LeadHasOne, Locked
  <2>7. LeadHasOne(e)'
    BY <2>5, <2>6 DEF LeadHasOne, AtMostOne
  <2> QED
    BY <2>1, <2>7, StillHasOne
<1>8. CASE Alone(FinishResearch(w)) \/ CopyRejected(w) \/ PresendSuppressed(w) \/ Finalize(w)
  <2>1. queue' = queue /\ \E row : Write(e, row)
    BY <1>8 DEF Alone, FinishResearch, CopyRejected, PresendSuppressed, Finalize
  <2> QED
    BY <1>6, <2>1, Written
<1>9. CASE DuplicateClaim(w)
  BY <1>6, <1>9 DEF DuplicateClaim
<1>10. CASE PresendBlocked(w) \/ DeliverFailed(w)
  <2>1. Retry(w) /\ enr' = enr
    BY <1>10 DEF PresendBlocked, DeliverFailed
  <2>2. CASE worker[w].n < MaxRetries
    <3>1. /\ worker[w].n + 1 \in 0..MaxRetries
          /\ KindOf(worker[w].pc) \in {"research", "send", "touch"}
      BY <1>1, <2>2 DEF Busy, KindOf
    <3>2. PICK j \in Job :
             /\ j = [kind |-> KindOf(worker[w].pc), e |-> e, n |-> worker[w].n + 1]
             /\ j.e = e
      BY <3>1, JobIs
    <3>3. [JobOf(w) EXCEPT !.n = worker[w].n + 1] = j
      BY <3>2 DEF JobOf
    <3>4. queue' = [queue EXCEPT ![j] = @ + 1]
      BY <2>1, <2>2, <3>3 DEF Retry
    <3> QED
      BY <1>7, <2>1, <3>2, <3>4
  <2>3. CASE ~(worker[w].n < MaxRetries)
    <3>1. queue' = queue
      BY <2>1, <2>3 DEF Retry
    <3> QED
      BY <1>6, <2>1, <3>1
  <2> QED
    BY <2>2, <2>3
<1> QED
  BY <1>8, <1>9, <1>10

LEMMA OneStill ==
    ASSUME TypeOK,
           \/ \E w \in Workers : Reserve(w) \/ Claim(w) \/ Deliver(w)
           \/ UNCHANGED <<enr, tick, queue, worker>>,
           \A i \in Enrollments : LeadHasOne(i)
    PROVE  \A i \in Enrollments : LeadHasOne(i)'
<1>1. CASE UNCHANGED <<enr, tick, queue, worker>>
  <2>1. \A i \in Enrollments : Still(i)
    BY <1>1 DEF Still, Untouched, Running
  <2> QED
    BY <2>1, StillHasOne
<1>2. ASSUME NEW w \in Workers, Reserve(w) \/ Claim(w) \/ Deliver(w)
      PROVE  \A i \in Enrollments : LeadHasOne(i)'
  <2>1. worker[w] \in Busy /\ worker[w].pc \notin {"idle", "research"}
    BY <1>2, BusyWorker DEF Reserve, Claim, Deliver, TypeOK
  <2>2. /\ worker'[w].e = worker[w].e /\ worker'[w].pc \notin {"idle", "research"}
        /\ \A v \in Workers : v # w => worker'[v] = worker[v]
    BY <1>2, <2>1 DEF Reserve, Claim, Deliver, TypeOK, SequencerTypeOK, Busy
  <2>3. UNCHANGED <<enr, tick, queue>>
    BY <1>2 DEF Reserve, Claim, Deliver
  <2>4. \A i \in Enrollments : Still(i)
    BY <2>1, <2>2, <2>3 DEF Still, Untouched, Running
  <2> QED
    BY <2>4, StillHasOne
<1> QED
  BY <1>1, <1>2

-----------------------------------------------------------------------------
(* Claims: without deaths every claimed row is in some task's hands.       *)

ClaimsInFlight == \A k \in Keys : msg[k].status = "claimed" => InFlight(k)

LEMMA FlightStays ==
    ASSUME ClaimsInFlight, msg' = msg,
           \A w \in Workers : Sending(w) => Sending(w)' /\ KeyOf(w)' = KeyOf(w)
    PROVE  ClaimsInFlight'
BY DEF ClaimsInFlight, InFlight

LEMMA TasksFly ==
    ASSUME NEW w \in Workers, \A v \in Workers : v # w => worker'[v] = worker[v],
           ~Sending(w)
    PROVE  \A v \in Workers : Sending(v) => Sending(v)' /\ KeyOf(v)' = KeyOf(v)
BY DEF Sending, KeyOf

LEMMA ClaimsFly ==
    ASSUME TypeOK, ClaimsInFlight, NEW w \in Workers,
           Claim(w) \/ Deliver(w) \/ DeliverFailed(w) \/ Finalize(w)
    PROVE  ClaimsInFlight'
<1>1. /\ worker[w] \in Busy /\ KeyOf(w) \in Keys
      /\ \A v \in Workers : v # w => worker'[v] = worker[v]
      /\ Claim(w) => worker'[w] = [worker[w] EXCEPT !.pc = "claimed"]
      /\ Deliver(w) => worker'[w] = [worker[w] EXCEPT !.pc = "delivered"]
  BY TaskMoves
<1> PICK k \in Keys : k = KeyOf(w)
  BY <1>1
<1>2. \A v \in Workers : v # w /\ Sending(v) => Sending(v)' /\ KeyOf(v)' = KeyOf(v)
  BY <1>1 DEF Sending, KeyOf
<1>3. \A i \in Keys : i # k => msg'[i] = msg[i]
  BY DEF Claim, Deliver, DeliverFailed, Finalize, TypeOK, SendTypeOK, sendVars
<1>4. ASSUME NEW i \in Keys, i # k, msg'[i].status = "claimed"
      PROVE  InFlight(i)'
  <2>1. PICK v \in Workers : Sending(v) /\ KeyOf(v) = i
    BY <1>3, <1>4 DEF ClaimsInFlight, InFlight
  <2>2. v # w
    BY <1>4, <2>1
  <2> QED
    BY <1>2, <2>1, <2>2 DEF InFlight
<1>5. CASE Claim(w) \/ Deliver(w)
  <2>1. /\ worker'[w].pc \in {"claimed", "delivered"}
        /\ worker'[w].e = worker[w].e /\ worker'[w].step = worker[w].step
    BY <1>1, <1>5 DEF Busy
  <2>2. Sending(w)' /\ KeyOf(w)' = k
    BY <2>1 DEF Sending, KeyOf
  <2> QED
    BY <1>4, <2>2 DEF ClaimsInFlight, InFlight
<1>6. CASE DeliverFailed(w) \/ Finalize(w)
  <2>1. msg'[k].status # "claimed"
    <3>1. CASE DeliverFailed(w)
      BY <3>1 DEF DeliverFailed, NoMessage, TypeOK, SendTypeOK
    <3>2. CASE Finalize(w)
      <4>1. msg[k] \in Message /\ msg'[k] = [msg[k] EXCEPT !.status = "sent"]
        BY <3>2 DEF Finalize, TypeOK, SendTypeOK
      <4> QED
        BY <4>1 DEF Message
    <3> QED
      BY <1>6, <3>1, <3>2
  <2> QED
    BY <1>4, <2>1 DEF ClaimsInFlight
<1> QED
  BY <1>5, <1>6

-----------------------------------------------------------------------------
(* Every step that is no failure and nobody's redrive *)

Calm == crashes' = crashes /\ redrives' = redrives

LEMMA OneHeld ==
    ASSUME TypeOK, LockedRows, OneInv, [Next]_vars, Calm
    PROVE  OneInv'
<1>1. (\A i \in Enrollments : LeadHasOne(i)) /\ ClaimsInFlight
  BY DEF OneInv, ClaimsInFlight
<1> SUFFICES (\A i \in Enrollments : LeadHasOne(i)') /\ ClaimsInFlight'
  BY DEF OneInv, ClaimsInFlight
<1>2. crashes \in Nat /\ redrives \in Nat
  BY DEF TypeOK, SequencerTypeOK
<1>3. ASSUME UNCHANGED <<msg, worker>>
      PROVE  ClaimsInFlight'
  BY <1>1, <1>3, FlightStays DEF Sending, KeyOf
<1>4. ASSUME NEW e \in Enrollments, TickStep(e)
      PROVE  (\A i \in Enrollments : LeadHasOne(i)') /\ ClaimsInFlight'
  <2>1. UNCHANGED <<msg, worker>>
    BY <1>4, TickMoves DEF TickStep, Alone, sendVars
  <2> QED
    BY <1>1, <1>3, <1>4, <2>1, OneTick
<1>5. CASE Alone(TickCommit)
  BY <1>1, <1>3, <1>5, OneCommit DEF Alone, TickCommit, sendVars
<1>6. CASE DailyReset \/ UNCHANGED vars \/ \E e \in Enrollments : Suppress(e)
  <2>1. UNCHANGED <<enr, tick, queue, worker, msg>>
    BY <1>6 DEF DailyReset, Suppress, vars, seqVars, sendVars
  <2> QED
    BY <1>1, <1>3, <2>1, OneStill
<1>7. ASSUME NEW w \in Workers, NEW e \in Enrollments, NEW n \in 0..MaxRetries,
             TakeJob(w, e, n)
      PROVE  (\A i \in Enrollments : LeadHasOne(i)') /\ ClaimsInFlight'
  <2>1. msg' = msg /\ worker[w] = IdleWorker
    BY <1>7 DEF TakeJob, Alone, StartResearch, Discard, StartSend, StartRefused, Reroute, Take,
       sendVars
  <2>2. \A v \in Workers : v # w => worker'[v] = worker[v]
    BY <1>7 DEF TakeJob, Alone, StartResearch, Discard, StartSend, StartRefused, Reroute, Run,
       TypeOK, SequencerTypeOK
  <2>3. ~Sending(w)
    BY <2>1 DEF Sending, IdleWorker
  <2>4. ClaimsInFlight'
    BY <1>1, <2>1, <2>2, <2>3, TasksFly, FlightStays
  <2> QED
    BY <1>1, <1>7, <2>4, OneTake
<1>8. ASSUME NEW w \in Workers, WorkerStep(w)
      PROVE  (\A i \in Enrollments : LeadHasOne(i)') /\ ClaimsInFlight'
  <2>1. ~Alone(TaskException(w))
    BY <1>2 DEF Alone, TaskException, Calm
  <2>2. CASE Claim(w) \/ Deliver(w) \/ DeliverFailed(w) \/ Finalize(w)
    BY <1>1, <2>2, ClaimsFly, OneEnd, OneStill
  <2>3. CASE \/ Alone(FinishResearch(w)) \/ CopyRejected(w) \/ PresendSuppressed(w)
             \/ PresendBlocked(w) \/ DuplicateClaim(w) \/ Reserve(w)
    <3>1. msg' = msg /\ ~Sending(w)
      BY <2>3 DEF Alone, FinishResearch, CopyRejected, PresendSuppressed, PresendBlocked,
         DuplicateClaim, Reserve, Sending, sendVars
    <3>2. \A v \in Workers : v # w => worker'[v] = worker[v]
      BY <2>3 DEF Alone, FinishResearch, CopyRejected, PresendSuppressed, PresendBlocked,
         DuplicateClaim, Reserve, Stop, TypeOK, SequencerTypeOK
    <3>3. ClaimsInFlight'
      BY <1>1, <3>1, <3>2, TasksFly, FlightStays
    <3>4. \A i \in Enrollments : LeadHasOne(i)'
      BY <1>1, <2>3, OneEnd, OneStill
    <3> QED
      BY <3>3, <3>4
  <2> QED
    BY <1>8, <2>1, <2>2, <2>3 DEF WorkerStep
<1>9. ~(\E k \in Keys : SweepUnsent(k))
  BY <1>1 DEF SweepUnsent, ClaimsInFlight
<1>10. ~Failure
  BY <1>2 DEF Failure, Alone, TickCrash, RedisLost, Redeliver, Crash, Calm
<1>11. \A e \in Enrollments : \A action : ~Redrive(e, action)
  BY <1>2 DEF Redrive, Calm
<1> QED
  BY <1>4, <1>5, <1>6, <1>7, <1>8, <1>9, <1>10, <1>11 DEF Next, PersonStep, Alone

LEMMA Disturbances ==
    ASSUME TypeOK, [Next]_vars, Undisturbed'
    PROVE  Undisturbed /\ Calm
<1>1. crashes \in Nat /\ redrives \in Nat
  BY DEF TypeOK, SequencerTypeOK
<1>2. \/ crashes' = crashes /\ redrives' = redrives
      \/ crashes' = crashes + 1 \/ redrives' = redrives + 1
  <2>1. ASSUME NEW e \in Enrollments, TickStep(e) \/ PersonStep(e)
        PROVE  Calm \/ redrives' = redrives + 1
    BY <2>1 DEF TickStep, PersonStep, Alone, TickQueued, TickFinished, TickTimer, TickReady,
       Suppress, Redrive, seqVars, Calm
  <2>2. CASE Alone(TickCommit) \/ DailyReset \/ UNCHANGED vars
    BY <2>2 DEF Alone, TickCommit, DailyReset, vars, seqVars
  <2>3. ASSUME NEW w \in Workers, NEW e \in Enrollments, NEW n \in 0..MaxRetries,
               TakeJob(w, e, n)
        PROVE  Calm
    BY <2>3 DEF TakeJob, Alone, StartResearch, Discard, StartSend, StartRefused, Reroute, Calm
  <2>4. ASSUME NEW w \in Workers, WorkerStep(w)
        PROVE  Calm \/ crashes' = crashes + 1
    BY <2>4 DEF WorkerStep, Alone, FinishResearch, TaskException, CopyRejected,
       PresendSuppressed, PresendBlocked, Reserve, Claim, DuplicateClaim, Deliver,
       DeliverFailed, Finalize, Calm
  <2>5. ASSUME NEW k \in Keys, SweepUnsent(k)
        PROVE  Calm
    BY <2>5 DEF SweepUnsent, Calm
  <2>6. CASE Failure
    BY <2>6 DEF Failure, Alone, TickCrash, RedisLost, Redeliver, Crash
  <2> QED
    BY <2>1, <2>2, <2>3, <2>4, <2>5, <2>6 DEF Next, Calm
<1> QED
  BY <1>1, <1>2 DEF Undisturbed, Calm

(* Until something goes wrong a lead has at most one job or task, of the   *)
(* kind its row is in: the inductive invariant of what follows.            *)
THEOREM OneStands == Spec => [](Undisturbed => OneInv)
<1>1. Init => OneInv
  BY DEF Init, SequencerInit, OneInv, LeadHasOne, AtMostOne, Nothing, Queued, Running, TasksFit,
     IdleWorker, NoMessage
<1>2. TypeOK /\ ScheduleInv /\ (Undisturbed => OneInv) /\ [Next]_vars
        => (Undisturbed => OneInv)'
  BY Disturbances, OneHeld DEF ScheduleInv
<1> QED
  BY <1>1, <1>2, TypeCorrect, ScheduleStands, PTL DEF Spec

(* Clearing next_action_at on dispatch is enough for a lead never to have  *)
(* two jobs or running tasks at a time, until something dies, a job is     *)
(* delivered again or somebody redrives a lead.                            *)
THEOREM OneTaskHolds == Spec => []OneTaskAtATime
<1>1. ASSUME OneInv, TypeOK, NEW e \in Enrollments
      PROVE  /\ \A j, i \in Job : (j.e = e /\ i.e = e /\ queue[j] > 0 /\ queue[i] > 0) => i = j
             /\ \A j \in Job : j.e = e => queue[j] <= 1
             /\ \A j \in Job, w \in Workers :
                   ~(j.e = e /\ queue[j] > 0 /\ worker[w] # IdleWorker /\ worker[w].e = e)
             /\ \A w, v \in Workers :
                   (worker[w] # IdleWorker /\ worker[v] # IdleWorker
                       /\ worker[w].e = e /\ worker[v].e = e) => w = v
  <2>1. AtMostOne(e)
    BY <1>1 DEF OneInv, LeadHasOne
  <2>2. /\ \A j \in Job : j.e = e /\ queue[j] > 0 <=> j \in Queued(e)
        /\ \A w \in Workers : worker[w] # IdleWorker /\ worker[w].e = e => w \in Running(e)
    BY <1>1 DEF Queued, Running, TypeOK, SequencerTypeOK, Busy, BusyPC
  <2>3. \A j \in Job : queue[j] \in Nat
    BY <1>1 DEF TypeOK, SequencerTypeOK
  <2>4. \A j \in Queued(e) : queue[j] = 1 /\ Queued(e) = {j} /\ Running(e) = {}
    BY <2>1 DEF AtMostOne, Nothing, OneJob, OneTask
  <2>5. \A w \in Running(e) : Running(e) = {w}
    BY <2>1 DEF AtMostOne, Nothing, OneJob, OneTask
  <2> QED
    BY <2>2, <2>3, <2>4, <2>5
<1>2. TypeOK /\ (Undisturbed => OneInv) => OneTaskAtATime
  BY <1>1 DEF OneTaskAtATime
<1> QED
  BY <1>2, OneStands, TypeCorrect, PTL

(* So long, no task still running writes the row of a lead that has left   *)
(* the sequence.                                                           *)
THEOREM TerminalHolds == Spec => TerminalIsFinal
<1>1. Live \cap Terminal = {}
  BY DEF Live, Terminal
<1>2. ASSUME TypeOK, LockedRows, OneInv, [Next]_vars, Calm, NEW e \in Enrollments,
             enr[e].state \in Terminal
      PROVE  enr'[e] = enr[e]
  <2>1. enr[e].state \notin {"queued", "researching", "ready", "waiting", "ooo_rescheduled"}
    BY <1>1, <1>2 DEF Live
  <2>2. crashes \in Nat /\ redrives \in Nat
    BY <1>2 DEF TypeOK, SequencerTypeOK
  <2>3. ASSUME NEW i \in Enrollments, enr[i].state \in {"ready", "researching"},
               NEW row, Write(i, row)
        PROVE  enr'[e] = enr[e]
    BY <1>2, <2>1, <2>3, Written
  <2>4. ASSUME NEW w \in Workers, worker[w].pc # "idle", NEW row, Write(worker[w].e, row)
        PROVE  enr'[e] = enr[e]
    <3>1. PICK i \in Enrollments : i = worker[w].e
      BY <1>2, <2>4, BusyWorker DEF TypeOK, Busy
    <3>2. w \in Running(i)
      BY <2>4, <3>1 DEF Running
    <3>3. enr[i].state \in {"ready", "researching"}
      BY <1>2, <3>2 DEF OneInv, LeadHasOne, TasksFit
    <3> QED
      BY <2>3, <2>4, <3>1, <3>3
  <2>5. CASE enr' = enr
    BY <2>5
  <2>6. ASSUME NEW i \in Enrollments, TickStep(i) \/ PersonStep(i)
        PROVE  enr' = enr
    <3>1. ~(\E action : Redrive(i, action))
      BY <1>2, <2>2 DEF Redrive, Calm
    <3> QED
      BY <2>6, <3>1, <1>2, TickMoves DEF PersonStep, Alone, Suppress, seqVars
  <2>7. CASE Alone(TickCommit)
    <3>1. ~Locked(e)
      BY <1>2, <2>1 DEF LockedRows, Advanced
    <3>2. PICK S \in SUBSET {i \in Enrollments : Locked(i)} :
             enr' = [i \in Enrollments |-> IF i \in S THEN tick[i] ELSE enr[i]]
      BY <2>7 DEF Alone, TickCommit
    <3> QED
      BY <3>1, <3>2
  <2>8. ASSUME NEW w \in Workers, NEW i \in Enrollments, NEW n \in 0..MaxRetries,
               TakeJob(w, i, n)
        PROVE  enr'[e] = enr[e]
    <3>1. CASE StartRefused(w, i, n)
      BY <2>3, <3>1 DEF StartRefused
    <3>2. CASE ~StartRefused(w, i, n)
      BY <2>8, <3>2 DEF TakeJob, Alone, StartResearch, Discard, StartSend, Reroute
    <3> QED
      BY <3>1, <3>2
  <2>9. ASSUME NEW w \in Workers, WorkerStep(w)
        PROVE  enr'[e] = enr[e]
    <3>1. CASE \/ Alone(FinishResearch(w)) \/ CopyRejected(w) \/ PresendSuppressed(w)
               \/ Finalize(w)
      BY <2>4, <3>1 DEF Alone, FinishResearch, CopyRejected, PresendSuppressed, Finalize
    <3>2. CASE \/ Alone(TaskException(w)) \/ PresendBlocked(w) \/ Reserve(w) \/ Claim(w)
               \/ DuplicateClaim(w) \/ Deliver(w) \/ DeliverFailed(w)
      BY <3>2 DEF Alone, TaskException, PresendBlocked, Reserve, Claim, DuplicateClaim, Deliver,
         DeliverFailed
    <3> QED
      BY <2>9, <3>1, <3>2 DEF WorkerStep
  <2>10. ~(\E k \in Keys : SweepUnsent(k))
    BY <1>2 DEF SweepUnsent, OneInv
  <2>11. CASE DailyReset \/ UNCHANGED vars \/ Failure
    BY <2>11 DEF DailyReset, vars, seqVars, Failure, Alone, TickCrash, RedisLost, Redeliver,
       Crash
  <2> QED
    BY <1>2, <2>6, <2>7, <2>8, <2>9, <2>10, <2>11 DEF Next
<1>3. TypeOK /\ ScheduleInv /\ (Undisturbed => OneInv) /\ [Next]_vars =>
        [Undisturbed' => \A e \in Enrollments :
           enr[e].state \in Terminal => enr'[e] = enr[e]]_vars
  BY <1>2, Disturbances DEF ScheduleInv
<1> QED
  BY <1>3, OneStands, ScheduleStands, TypeCorrect, PTL DEF Spec, TerminalIsFinal

-----------------------------------------------------------------------------
(* The composition with the touch tasks and the inbox                      *)

USE TouchTasksAssumption, InboxAssumption

-----------------------------------------------------------------------------
(* Type correctness, but for the histories of NoteSettling *)

ActTypeOK ==
    /\ TouchTypeOK
    /\ inbox \in [Mails -> MailStatus]
    /\ poll \in Polling \cup {NoPoll}
    /\ answered \subseteq Enrollments

LEMMA StepOfSend ==
    ASSUME NEW A, A => [Next]_vars, Aside(Beside(A)), ActTypeOK
    PROVE  ActTypeOK'
<1>1. TypeOK'
  BY NextType DEF Aside, Beside, ActTypeOK, TouchTypeOK
<1> QED
  BY <1>1 DEF Aside, Beside, ActTypeOK, TouchTypeOK, touchVars, inboxVars

LEMMA RowTypes ==
    ASSUME NEW r \in Row
    PROVE  /\ [r EXCEPT !.due = FALSE] \in Row
           /\ \A s \in States : /\ [r EXCEPT !.state = s] \in Row
                                /\ [r EXCEPT !.state = s, !.due = TRUE] \in Row
                                /\ [r EXCEPT !.state = s, !.due = FALSE] \in Row
           /\ \A s \in States, n \in 0..LastStep, d \in BOOLEAN :
                 [r EXCEPT !.state = s, !.step = n, !.due = d] \in Row
BY DEF Row

LEMMA TouchStates ==
    /\ NextState("ready", "task_created") = "awaiting_human_touch"
    /\ NextState("ready", "task_created") \in States
    /\ \A to \in {"done", "skipped", "expired"} :
          \A s : NextState(s, ResolveEvent[to]) = "waiting"
    /\ {"waiting", "error", "meeting_booked", "unsubscribed"} \subseteq States
    /\ \A s : NextState(s, "meeting_booked") = "meeting_booked"
    /\ \A to \in {"done", "skipped"}, s \in States :
          Defined(s, ResolveEvent[to]) => s = "awaiting_human_touch"
BY DEF NextState, Target, States, Live, Terminal, ResolveEvent, Defined, Sources

LEMMA CancelType ==
    ASSUME task \in [Keys -> TaskStatus], NEW S, Cancel(S)
    PROVE  task' \in [Keys -> TaskStatus]
BY DEF Cancel, TaskStatus

LEMMA NoteType ==
    ASSUME TouchTypeOK, NEW w \in Workers, worker[w] \in Busy, NoteWrite(w)
    PROVE  crossed' \subseteq Enrollments
BY DEF NoteWrite, TouchTypeOK, Busy

(* The tick's expiry and its commit.                                       *)
LEMMA ExpireType ==
    ASSUME TouchTypeOK, NEW e \in Enrollments, TickExpire(e)
    PROVE  TouchTypeOK'
<1>1. enr[e] \in Row
  BY DEF TouchTypeOK, TypeOK, SequencerTypeOK
<1>2. /\ [enr[e] EXCEPT !.state = NextState(enr[e].state, ResolveEvent["expired"])] \in Row
      /\ [enr[e] EXCEPT !.due = FALSE] \in Row
  BY <1>1, TouchStates, RowTypes
<1>3. tick' \in [Enrollments -> Row \cup {NoRow}]
  BY <1>2 DEF TickExpire, Hold, TouchTypeOK, TypeOK, SequencerTypeOK
<1> QED
  BY <1>3 DEF TickExpire, TouchTypeOK, TypeOK, SequencerTypeOK, SendTypeOK, sendVars, histVars,
     touchVars

LEMMA CommitType ==
    ASSUME TouchTypeOK, TouchTickCommit
    PROVE  TouchTypeOK'
<1>1. SequencerTypeOK'
  BY TickEndType DEF TouchTickCommit, TouchTypeOK, TypeOK
<1>2. task' \in [Keys -> TaskStatus] /\ crossed' \subseteq Enrollments
  BY DEF TouchTickCommit, TouchTypeOK, TaskStatus
<1> QED
  BY <1>1, <1>2 DEF TouchTickCommit, TouchTypeOK, TypeOK, SendTypeOK, sendVars, histVars

(* generate_touch_task *)
LEMMA TouchJobType ==
    ASSUME TouchTypeOK, NEW w \in Workers, NEW e \in Enrollments, NEW n \in 0..MaxRetries,
           \/ Beside(Alone(Discard(w, "touch", "ready", e, n)))
           \/ StartTouch(w, e, n) \/ TouchRefused(w, e, n)
    PROVE  TouchTypeOK'
<1>1. queue' \in [Job -> Nat]
  <2>1. [kind |-> "touch", e |-> e, n |-> n] \in Job
    BY DEF Job
  <2> QED
    BY <2>1, ConsumeType
    DEF Beside, Alone, Discard, StartTouch, TouchRefused, Take, TouchTypeOK, TypeOK
<1>2. CASE Beside(Alone(Discard(w, "touch", "ready", e, n)))
  BY <1>1, <1>2 DEF Beside, Alone, Discard, Drop, TouchTypeOK, TypeOK, SequencerTypeOK,
     SendTypeOK, sendVars, histVars, touchVars
<1>3. CASE StartTouch(w, e, n)
  <2>1. worker' \in [Workers -> Busy \cup {IdleWorker}]
    BY <1>3, RunType DEF StartTouch, BusyPC, TouchTypeOK, TypeOK
  <2>2. armed' \subseteq Workers
    BY <1>3 DEF StartTouch, TouchTypeOK
  <2> QED
    BY <1>1, <1>3, <2>1, <2>2 DEF StartTouch, TouchTypeOK, TypeOK, SequencerTypeOK, SendTypeOK,
       sendVars, histVars
<1>4. CASE TouchRefused(w, e, n)
  <2>1. After(e, "unsubscribe") \in Row
    BY MachineSteps, RowTypes DEF After, TouchTypeOK, TypeOK, SequencerTypeOK
  <2>2. enr' \in [Enrollments -> Row] /\ dropped' \subseteq Enrollments
    BY <1>4, <2>1, WriteType DEF TouchRefused, Drop, TouchTypeOK, TypeOK, SequencerTypeOK
  <2> QED
    BY <1>1, <1>4, <2>2 DEF TouchRefused, TouchTypeOK, TypeOK, SequencerTypeOK, SendTypeOK,
       sendVars, histVars, touchVars
<1> QED
  BY <1>2, <1>3, <1>4

LEMMA TouchEndType ==
    ASSUME TouchTypeOK, NEW w \in Workers,
           TouchRejected(w) \/ CreateTask(w) \/ DuplicateTask(w)
    PROVE  TouchTypeOK'
<1>1. worker[w] \in Busy
  BY BusyWorker DEF TouchRejected, CreateTask, DuplicateTask, TouchTypeOK, TypeOK
<1>2. PICK e \in Enrollments : e = worker[w].e
  BY <1>1 DEF Busy
<1>3. enr[e] \in Row /\ KeyOf(w) \in Keys /\ KeyOf(w) = <<e, worker[w].step>>
      /\ worker[w].step \in 0..LastStep
  BY <1>1, <1>2, KeyType DEF TouchTypeOK, TypeOK, SequencerTypeOK, KeyOf, Steps, Keys
<1>4. worker' \in [Workers -> Busy \cup {IdleWorker}]
  BY StopType DEF TouchRejected, CreateTask, DuplicateTask, TouchTypeOK, TypeOK
<1>5. CASE TouchRejected(w)
  <2>1. [enr[e] EXCEPT !.state = "error"] \in Row
    BY <1>3, RowTypes, TouchStates
  <2>2. enr' \in [Enrollments -> Row]
    BY <1>2, <1>5, <2>1, WriteType DEF TouchRejected, TouchTypeOK, TypeOK
  <2>3. review' \subseteq Enrollments /\ crossed' \subseteq Enrollments
    BY <1>1, <1>2, <1>5, NoteType DEF TouchRejected, TouchTypeOK, TypeOK, SequencerTypeOK
  <2> QED
    BY <1>4, <1>5, <2>2, <2>3 DEF TouchRejected, TouchTypeOK, TypeOK, SequencerTypeOK,
       SendTypeOK, sendVars, histVars
<1>6. CASE CreateTask(w)
  <2> DEFINE s == worker[w].step
             n == IF worker[w].first THEN s ELSE enr[e].step
             d == s \in SkipOnExpire \/ (enr[e].due /\ w \notin armed)
  <2>1. n \in 0..LastStep /\ d \in BOOLEAN
    BY <1>3 DEF Row
  <2>2. Write(e, [enr[e] EXCEPT !.state = NextState("ready", "task_created"),
                                !.step = n, !.due = d])
    BY <1>2, <1>6 DEF CreateTask
  <2> HIDE DEF n, d
  <2>3. enr' \in [Enrollments -> Row]
    BY <1>3, <2>1, <2>2, RowTypes, TouchStates, WriteType DEF TouchTypeOK, TypeOK
  <2>4. task' \in [Keys -> TaskStatus] /\ crossed' \subseteq Enrollments
    BY <1>1, <1>3, <1>6, <1>2, NoteType DEF CreateTask, TouchTypeOK, TaskStatus
  <2> QED
    BY <1>4, <1>6, <2>3, <2>4 DEF CreateTask, TouchTypeOK, TypeOK, SequencerTypeOK,
       SendTypeOK, sendVars, histVars
<1>7. CASE DuplicateTask(w)
  BY <1>2, <1>4, <1>7 DEF DuplicateTask, Drop, TouchTypeOK, TypeOK, SequencerTypeOK,
     SendTypeOK, sendVars, histVars, touchVars
<1> QED
  BY <1>5, <1>6, <1>7

(* The endpoints *)
LEMMA RequestType ==
    ASSUME TouchTypeOK,
           \/ \E e \in Enrollments : CancelSuppressed(e)
           \/ \E p \in Requests, e \in Enrollments, s \in Steps, to \in Resolution :
                 Click(p, <<e, s>>, to)
           \/ \E p \in Requests : Resolve(p)
    PROVE  TouchTypeOK'
<1>1. ASSUME NEW e \in Enrollments, CancelSuppressed(e)
      PROVE  TouchTypeOK'
  <2>1. task' \in [Keys -> TaskStatus]
    BY <1>1, CancelType DEF CancelSuppressed, TouchTypeOK
  <2> QED
    BY <1>1, <2>1 DEF CancelSuppressed, TouchTypeOK, TypeOK, SequencerTypeOK, SendTypeOK,
       vars, seqVars, sendVars, histVars
<1>2. ASSUME NEW p \in Requests, NEW e \in Enrollments, NEW s \in Steps, NEW to \in Resolution,
             Click(p, <<e, s>>, to)
      PROVE  TouchTypeOK'
  <2>1. [k |-> <<e, s>>, to |-> to, row |-> enr[e]] \in Request
    BY DEF Request, Keys, TouchTypeOK, TypeOK, SequencerTypeOK
  <2>2. request' \in [Requests -> Request \cup {NoRequest}]
    BY <1>2, <2>1 DEF Click, TouchTypeOK
  <2> QED
    BY <1>2, <2>2 DEF Click, TouchTypeOK, TypeOK, SequencerTypeOK, SendTypeOK,
       vars, seqVars, sendVars, histVars
<1>3. ASSUME NEW p \in Requests, Resolve(p)
      PROVE  TouchTypeOK'
  <2>1. request[p] \in Request
    BY <1>3 DEF Resolve, TouchTypeOK
  <2>2. PICK e \in Enrollments, s \in Steps : request[p].k = <<e, s>>
    BY <2>1 DEF Request, Keys
  <2>3. enr[e] \in Row /\ request[p].to \in {"done", "skipped"} /\ request[p].k[1] = e
        /\ request[p].k \in Keys
    BY <2>1, <2>2 DEF Request, Resolution, TouchTypeOK, TypeOK, SequencerTypeOK
  <2>4. [enr[e] EXCEPT !.state = NextState(enr[e].state, ResolveEvent[request[p].to]),
                       !.due = TRUE] \in Row
    BY <2>3, RowTypes, TouchStates
  <2>5. enr' \in [Enrollments -> Row]
    BY <1>3, <2>3, <2>4, WriteType DEF Resolve, TouchTypeOK, TypeOK
  <2>6. task' \in [Keys -> TaskStatus] /\ crossed' \subseteq Enrollments
        /\ request' \in [Requests -> Request \cup {NoRequest}]
    BY <1>3, <2>3 DEF Resolve, TouchTypeOK, TaskStatus
  <2> QED
    BY <1>3, <2>5, <2>6 DEF Resolve, TouchTypeOK, TypeOK, SequencerTypeOK, SendTypeOK,
       sendVars, histVars
<1> QED
  BY <1>1, <1>2, <1>3

(* Replies, verdicts and bookings *)
LEMMA LeadIs ==
    ASSUME NEW m \in Mails
    PROVE  LeadOf(m) \in Enrollments /\ ReplyTo[m] \in Keys /\ ReplyTo[m][1] = LeadOf(m)
BY DEF LeadOf, Keys

(* The state machine, as a classified reply asks it.                       *)
LEMMA LabelMoves ==
    ASSUME NEW label \in AllLabels
    PROVE  /\ \A s : NextState(s, LabelToEvent[label]) \in
                 {"replied_interested", "replied_objection", "replied_not_now",
                  "ooo_rescheduled", "unsubscribed", "bounced"}
           /\ \A s : NextState(s, LabelToEvent[label]) \in States
           /\ \A s \in Terminal : ~Defined(s, LabelToEvent[label])
           /\ \A s \in {"waiting", "awaiting_human_touch"} : Defined(s, LabelToEvent[label])
           /\ \A s : Defined(s, LabelToEvent[label])
                     /\ NextState(s, LabelToEvent[label]) = "ooo_rescheduled" =>
                        s \in {"waiting", "awaiting_human_touch"}
BY DEF AllLabels, LabelToEvent, NextState, Target, Defined, Sources, States, Live, Terminal

LEMMA MergeType ==
    ASSUME NEW old \in Row, NEW now \in Row, NEW label \in AllLabels,
           NEW dated \in BOOLEAN, NEW dated2 \in BOOLEAN
    PROVE  Merge(old, Applied(old, label, dated), now, dated2) \in Row
<1> DEFINE new == Applied(old, label, dated)
<1>1. new.state \in States
  BY LabelMoves DEF Applied, Row
<1>2. new.due \in BOOLEAN
  <2>1. CASE label = "ooo"
    BY <2>1 DEF Applied, Row
  <2>2. CASE label = "bounce_or_auto"
    BY <2>2 DEF Applied, Row
  <2>3. CASE label \notin {"ooo", "bounce_or_auto"}
    BY <2>3 DEF Applied
  <2> QED
    BY <2>1, <2>2, <2>3
<1>3. ASSUME NEW r, r.state \in States, r.due \in BOOLEAN
      PROVE  Merge(old, r, now, dated2) \in Row
  <2>1. /\ (IF r.state # old.state THEN r.state ELSE now.state) \in States
        /\ (IF dated2 \/ r.due # old.due THEN r.due ELSE now.due) \in BOOLEAN
    BY <1>3 DEF Row
  <2>2. \A s \in States, d \in BOOLEAN : [now EXCEPT !.state = s, !.due = d] \in Row
    BY DEF Row
  <2> QED
    BY <2>1, <2>2, Zenon DEF Merge
<1> QED
  BY <1>1, <1>2, <1>3

LEMMA OptOutType ==
    ASSUME SendTypeOK, NEW e \in Enrollments, OptOut(e)
    PROVE  suppressed' \subseteq Enrollments /\ past' \in [Enrollments -> Nat]
<1>1. Cardinality({w \in Workers :
          worker[w].pc \in {"reserved", "claimed"} /\ worker[w].e = e}) \in Nat
  BY FS_Subset, FS_CardinalityType
<1> QED
  BY <1>1 DEF OptOut, SendTypeOK

LEMMA ClassifyType ==
    ASSUME ActTypeOK, NEW e \in Enrollments, NEW row \in Row, NEW label \in Labels,
           NEW dated \in BOOLEAN, NEW keyword \in BOOLEAN,
           Classify(e, row, label, dated, keyword)
    PROVE  /\ enr' \in [Enrollments -> Row] /\ task' \in [Keys -> TaskStatus]
           /\ suppressed' \subseteq Enrollments /\ past' \in [Enrollments -> Nat]
           /\ review' \subseteq Enrollments /\ crossed' \subseteq Enrollments
           /\ answered' \subseteq Enrollments
<1>0. label \in AllLabels /\ SendTypeOK /\ SequencerTypeOK /\ enr[e] \in Row
  BY DEF ActTypeOK, TouchTypeOK, TypeOK, SequencerTypeOK
<1>1. enr' \in [Enrollments -> Row]
  <2>1. (dated /\ label = "ooo") \in BOOLEAN
    OBVIOUS
  <2>2. PICK new \in Row :
           new = Merge(row, Applied(row, label, dated), enr[e], dated /\ label = "ooo")
    BY <1>0, <2>1, MergeType
  <2>3. UNCHANGED enr \/ Write(e, new)
    BY <2>2 DEF Classify, WriteChanged
  <2> QED
    BY <1>0, <2>3, WriteType DEF SequencerTypeOK
<1>2. task' \in [Keys -> TaskStatus]
  BY CancelType DEF Classify, ActTypeOK, TouchTypeOK
<1>3. suppressed' \subseteq Enrollments /\ past' \in [Enrollments -> Nat]
  BY <1>0, OptOutType DEF Classify, SendTypeOK
<1>4. review' \subseteq Enrollments /\ crossed' \subseteq Enrollments
      /\ answered' \subseteq Enrollments
  BY DEF Classify, ActTypeOK, TouchTypeOK, TypeOK, SequencerTypeOK
<1> QED
  BY <1>1, <1>2, <1>3, <1>4

LEMMA PollType ==
    ASSUME ActTypeOK,
           \/ \E m \in Mails : Arrive(m) \/ Poll(m)
           \/ PollConfident \/ PollUnsure \/ PollFails
    PROVE  ActTypeOK'
<1>1. ASSUME NEW m \in Mails, Arrive(m) \/ Poll(m)
      PROVE  ActTypeOK'
  <2>1. [m |-> m, row |-> enr[LeadOf(m)]] \in Polling
    BY LeadIs DEF Polling, ActTypeOK, TouchTypeOK, TypeOK, SequencerTypeOK
  <2>2. poll' \in Polling \cup {NoPoll} /\ inbox' \in [Mails -> MailStatus]
    BY <1>1, <2>1 DEF Arrive, Poll, ActTypeOK, MailStatus
  <2>3. TouchTypeOK' /\ answered' \subseteq Enrollments
    BY <1>1 DEF Arrive, Poll, ActTypeOK, TouchTypeOK, TypeOK, SequencerTypeOK, SendTypeOK,
       allVars, vars, seqVars, sendVars, histVars, touchVars
  <2> QED
    BY <2>2, <2>3 DEF ActTypeOK
<1>2. ASSUME NEW status \in {"stored", "lost"}, PollEnds(status)
      PROVE  /\ poll' = NoPoll /\ inbox' \in [Mails -> MailStatus]
             /\ \E m \in Mails : m = poll.m /\ poll.row \in Row /\ LeadOf(poll.m) \in Enrollments
  <2>1. poll \in Polling
    BY <1>2 DEF PollEnds, ActTypeOK
  <2>2. poll.m \in Mails /\ poll.row \in Row
    BY <2>1 DEF Polling
  <2> QED
    BY <1>2, <2>2, LeadIs DEF PollEnds, ActTypeOK, MailStatus
<1>3. CASE PollConfident
  <2>1. /\ poll' = NoPoll /\ inbox' \in [Mails -> MailStatus]
        /\ poll.row \in Row /\ LeadOf(poll.m) \in Enrollments
    BY <1>2, <1>3 DEF PollConfident
  <2>2. PICK label \in Labels, dated \in BOOLEAN, keyword \in BOOLEAN :
           Classify(LeadOf(poll.m), poll.row, label, dated, keyword)
    BY <1>3 DEF PollConfident
  <2>3. /\ enr' \in [Enrollments -> Row] /\ task' \in [Keys -> TaskStatus]
        /\ suppressed' \subseteq Enrollments /\ past' \in [Enrollments -> Nat]
        /\ review' \subseteq Enrollments /\ crossed' \subseteq Enrollments
        /\ answered' \subseteq Enrollments
    BY <2>1, <2>2, ClassifyType
  <2> QED
    BY <1>3, <2>1, <2>3 DEF PollConfident, ActTypeOK, TouchTypeOK, TypeOK, SequencerTypeOK,
       SendTypeOK
<1>4. CASE PollUnsure
  <2>1. /\ poll' = NoPoll /\ inbox' \in [Mails -> MailStatus]
        /\ LeadOf(poll.m) \in Enrollments
    BY <1>2, <1>4 DEF PollUnsure
  <2>2. suppressed' \subseteq Enrollments /\ past' \in [Enrollments -> Nat]
    BY <1>4, <2>1, OptOutType DEF PollUnsure, ActTypeOK, TouchTypeOK, TypeOK, SendTypeOK
  <2> QED
    BY <1>4, <2>1, <2>2 DEF PollUnsure, ActTypeOK, TouchTypeOK, TypeOK, SequencerTypeOK,
       SendTypeOK, touchVars
<1>5. CASE PollFails
  <2>1. poll' = NoPoll /\ inbox' \in [Mails -> MailStatus]
    BY <1>2, <1>5 DEF PollFails
  <2>2. crashes' \in Nat
    BY <1>5 DEF PollFails, ActTypeOK, TouchTypeOK, TypeOK, SequencerTypeOK
  <2> QED
    BY <1>5, <2>1, <2>2 DEF PollFails, ActTypeOK, TouchTypeOK, TypeOK, SequencerTypeOK,
       SendTypeOK, sendVars, histVars, touchVars
<1> QED
  BY <1>1, <1>3, <1>4, <1>5

LEMMA VerdictType ==
    ASSUME ActTypeOK,
           \/ \E m \in Mails, label \in Labels : Reclassify(m, label)
           \/ \E e \in Enrollments : MeetingBooked(e)
    PROVE  ActTypeOK'
<1>1. ASSUME NEW m \in Mails, NEW label \in Labels, Reclassify(m, label)
      PROVE  ActTypeOK'
  <2>1. LeadOf(m) \in Enrollments /\ enr[LeadOf(m)] \in Row
    BY LeadIs DEF ActTypeOK, TouchTypeOK, TypeOK, SequencerTypeOK
  <2>2. PICK keyword \in BOOLEAN : Classify(LeadOf(m), enr[LeadOf(m)], label, FALSE, keyword)
    BY <1>1 DEF Reclassify
  <2>3. /\ enr' \in [Enrollments -> Row] /\ task' \in [Keys -> TaskStatus]
        /\ suppressed' \subseteq Enrollments /\ past' \in [Enrollments -> Nat]
        /\ review' \subseteq Enrollments /\ crossed' \subseteq Enrollments
        /\ answered' \subseteq Enrollments
    BY <2>1, <2>2, ClassifyType
  <2> QED
    BY <1>1, <2>3 DEF Reclassify, ActTypeOK, TouchTypeOK, TypeOK, SequencerTypeOK, SendTypeOK
<1>2. ASSUME NEW e \in Enrollments, MeetingBooked(e)
      PROVE  ActTypeOK'
  <2>1. [enr[e] EXCEPT !.state = NextState(enr[e].state, "meeting_booked"), !.due = FALSE] \in Row
    BY RowTypes, TouchStates DEF ActTypeOK, TouchTypeOK, TypeOK, SequencerTypeOK
  <2>2. enr' \in [Enrollments -> Row]
    BY <1>2, <2>1, WriteType DEF MeetingBooked, ActTypeOK, TouchTypeOK, TypeOK
  <2>3. task' \in [Keys -> TaskStatus]
    BY <1>2, CancelType DEF MeetingBooked, ActTypeOK, TouchTypeOK
  <2> QED
    BY <1>2, <2>2, <2>3 DEF MeetingBooked, ActTypeOK, TouchTypeOK, TypeOK, SequencerTypeOK,
       SendTypeOK, sendVars, histVars, inboxVars
<1> QED
  BY <1>1, <1>2

LEMMA ActInitType == InboxInit => ActTypeOK
BY InitType DEF InboxInit, TouchInit, ActTypeOK, TouchTypeOK, TaskStatus, MailStatus

LEMMA ActNextType == ActTypeOK /\ [InboxAct]_inboxAllVars => ActTypeOK'
<1> SUFFICES ASSUME ActTypeOK, [InboxAct]_inboxAllVars
             PROVE  ActTypeOK'
  OBVIOUS
<1>1. ASSUME NEW A, A => [Next]_vars, Aside(Beside(A))
      PROVE  ActTypeOK'
  BY <1>1, StepOfSend
<1>2. TouchTypeOK
  BY DEF ActTypeOK
<1>3. ASSUME NEW A, A => TouchTypeOK', Aside(A)
      PROVE  ActTypeOK'
  BY <1>3 DEF Aside, ActTypeOK, inboxVars
<1>4. ASSUME NEW e \in Enrollments, Aside(TouchTickStep(e) \/ TouchPersonStep(e))
      PROVE  ActTypeOK'
  <2>1. TickStep(e) => Next
    BY DEF Next
  <2>2. PersonStep(e) => Next
    BY DEF Next
  <2>3. CASE Aside(Beside(TickStep(e)))
    BY <1>1, <2>1, <2>3
  <2>4. CASE Aside(Beside(PersonStep(e)))
    BY <1>1, <2>2, <2>4
  <2>5. CASE Aside(TickExpire(e))
    BY <1>2, <1>3, <2>5, ExpireType
  <2>6. CASE Aside(CancelSuppressed(e))
    BY <1>2, <1>3, <2>6, RequestType
  <2>7. ASSUME NEW p \in Requests, NEW s \in Steps, NEW to \in Resolution,
               Aside(Click(p, <<e, s>>, to))
        PROVE  ActTypeOK'
    BY <1>2, <1>3, <2>7, RequestType
  <2> QED
    BY <1>4, <2>3, <2>4, <2>5, <2>6, <2>7 DEF Aside, TouchTickStep, TouchPersonStep
<1>5. CASE Aside(TouchTickCommit)
  BY <1>2, <1>3, <1>5, CommitType
<1>6. ASSUME NEW w \in Workers, Aside(TouchWorkerStep(w))
      PROVE  ActTypeOK'
  <2>1. CASE Writing(w, WorkerStep(w))
    <3>1. worker[w] \in Busy
      <4>1. WorkerStep(w)
        BY <2>1 DEF Writing
      <4>2. TypeOK /\ SequencerTypeOK
        BY DEF ActTypeOK, TouchTypeOK, TypeOK
      <4>3. CASE \/ Alone(FinishResearch(w)) \/ Alone(TaskException(w)) \/ CopyRejected(w)
                 \/ PresendSuppressed(w) \/ PresendBlocked(w)
        BY <4>2, <4>3, BusyWorker DEF Alone, FinishResearch, TaskException, CopyRejected,
           PresendSuppressed, PresendBlocked, SequencerTypeOK
      <4>4. CASE \/ Reserve(w) \/ Claim(w) \/ DuplicateClaim(w) \/ Deliver(w)
                 \/ DeliverFailed(w) \/ Finalize(w)
        BY <4>2, <4>4, TaskMoves
      <4> QED
        BY <4>1, <4>3, <4>4 DEF WorkerStep
    <3>2. TypeOK'
      BY <2>1, NextType DEF Writing, Next, ActTypeOK, TouchTypeOK
    <3>3. crossed' \subseteq Enrollments
      BY <2>1, <3>1, NoteType DEF Writing, ActTypeOK
    <3> QED
      BY <1>6, <2>1, <3>2, <3>3 DEF Aside, Writing, ActTypeOK, TouchTypeOK, inboxVars
  <2>2. CASE TouchRejected(w) \/ CreateTask(w) \/ DuplicateTask(w)
    <3>1. TouchTypeOK'
      BY <1>2, <2>2, TouchEndType
    <3> QED
      BY <1>6, <3>1 DEF Aside, ActTypeOK, inboxVars
  <2> QED
    BY <1>6, <2>1, <2>2 DEF Aside, TouchWorkerStep
<1>7. ASSUME NEW w \in Workers, NEW e \in Enrollments, NEW n \in 0..MaxRetries,
             Aside(TouchTakeJob(w, e, n))
      PROVE  ActTypeOK'
  <2>1. TakeJob(w, e, n) => Next
    BY DEF Next
  <2>2. CASE Aside(Beside(TakeJob(w, e, n)))
    BY <1>1, <2>1, <2>2
  <2>3. CASE \/ Beside(Alone(Discard(w, "touch", "ready", e, n)))
             \/ StartTouch(w, e, n) \/ TouchRefused(w, e, n)
    <3>1. TouchTypeOK'
      BY <1>2, <2>3, TouchJobType
    <3> QED
      BY <1>7, <3>1 DEF Aside, ActTypeOK, inboxVars
  <2> QED
    BY <1>7, <2>2, <2>3 DEF Aside, TouchTakeJob
<1>8. ASSUME NEW p \in Requests, Aside(Resolve(p))
      PROVE  ActTypeOK'
  BY <1>2, <1>3, <1>8, RequestType
<1>9. ASSUME NEW k \in Keys, Aside(Beside(SweepUnsent(k)))
      PROVE  ActTypeOK'
  <2>1. SweepUnsent(k) => Next
    BY DEF Next
  <2> QED
    BY <1>1, <1>9, <2>1
<1>10. CASE Aside(Beside(DailyReset)) \/ Aside(Beside(Failure))
  <2>1. (DailyReset => Next) /\ (Failure => Next)
    BY DEF Next
  <2> QED
    BY <1>1, <1>10, <2>1
<1>11. CASE UNCHANGED inboxAllVars
  BY <1>11 DEF inboxAllVars, allVars, vars, seqVars, sendVars, histVars, touchVars, inboxVars,
     ActTypeOK, TouchTypeOK, TypeOK, SequencerTypeOK, SendTypeOK
<1>12. CASE Aside(TouchNext)
  BY <1>4, <1>5, <1>6, <1>7, <1>8, <1>9, <1>10, <1>12 DEF Aside, TouchNext
<1> QED
  BY <1>11, <1>12, PollType, VerdictType DEF InboxAct

LEMMA ActStep == [InboxNext]_leadVars => [InboxAct]_inboxAllVars
BY DEF InboxNext, leadVars

LEMMA SettlingType ==
    ASSUME settled \in [Keys -> Nat], rivals \in [Keys -> Nat], [InboxNext]_leadVars
    PROVE  settled' \in [Keys -> Nat] /\ rivals' \in [Keys -> Nat]
<1>1. CASE UNCHANGED leadVars
  BY <1>1 DEF leadVars
<1>2. CASE InboxNext
  BY <1>2 DEF InboxNext, NoteSettling
<1> QED
  BY <1>1, <1>2

(* Whatever arrives, whoever clicks and whatever dies, every row, task,    *)
(* request and poll is one the code could store there.                     *)
THEOREM InboxTyped == InboxSpec => []InboxTypeOK
<1>1. InboxInit => InboxTypeOK
  BY ActInitType DEF InboxInit, ActTypeOK, InboxTypeOK
<1>2. InboxTypeOK /\ [InboxNext]_leadVars => InboxTypeOK'
  <2>1. InboxTypeOK => ActTypeOK
    BY DEF InboxTypeOK, ActTypeOK
  <2>2. ASSUME InboxTypeOK, [InboxNext]_leadVars
        PROVE  ActTypeOK' /\ settled' \in [Keys -> Nat] /\ rivals' \in [Keys -> Nat]
    <3>1. settled \in [Keys -> Nat] /\ rivals \in [Keys -> Nat]
      BY <2>2 DEF InboxTypeOK
    <3>2. ActTypeOK'
      BY <2>1, <2>2, ActStep, ActNextType
    <3> QED
      BY <2>2, <3>1, <3>2, SettlingType
  <2> QED
    BY <2>2 DEF ActTypeOK, InboxTypeOK
<1> QED
  BY <1>1, <1>2, PTL DEF InboxSpec

-----------------------------------------------------------------------------
(* What holds of every lead.  TaskMatchesLead and WaitingStaysArmed are    *)
(* not inductive: a tick holds a row it read some time ago, a task wakes   *)
(* up after its lead moved on, a poll writes what it made of an old row.   *)

(* What a running tick will commit for a row it locked: one step of        *)
(* SendPath's tick, or an expired or disarmed wait for a person.           *)
Ticked(old, new) ==
    \/ Advanced(old, new)
    \/ /\ old.state = "awaiting_human_touch" /\ new.step = old.step
       /\ new.state = "awaiting_human_touch" \/ (new.state = "waiting" /\ new.due)

TickedRows == \A e \in Enrollments : Locked(e) => Ticked(enr[e], tick[e])

(* A task works on a step of the channel it is for.                        *)
SendPC == {"generate", "reserved", "claimed", "delivered"}

RightChannel(w) ==
    /\ worker[w].pc = "touch" => Channel[worker[w].step] = "task"
    /\ worker[w].pc \in SendPC => Channel[worker[w].step] = "email"

(* Nothing but research happens to a lead whose company has no brief yet:  *)
(* it has got no mail and no review item, and only a lead that has one     *)
(* leaves the queue.                                                       *)
Unbriefed(e) ==
    /\ enr[e].state \in {"queued", "researching", "error"}
    /\ e \notin review
    /\ \A s \in Steps : delivered[<<e, s>>] = 0

BriefFirst ==
    /\ \A e \in Enrollments : IF e \in brief THEN enr[e].state # "queued" ELSE Unbriefed(e)
    /\ \A w \in Workers : worker[w].pc \notin {"idle", "research"} => worker[w].e \in brief
    /\ \A m \in Mails : inbox[m] # "unsent" => LeadOf(m) \in brief
    /\ poll # NoPoll => LeadOf(poll.m) \in brief
    /\ \A p \in Requests : request[p] # NoRequest =>
          request[p].k[1] \in brief /\ request[p].row.state = "awaiting_human_touch"

(* What holds of a lead none of whose updates was lost and that nobody     *)
(* redrove: its open task is that of the step it waits at, every task step *)
(* behind it had a task, and no task runs ahead of it.                     *)
TaskMatches(e) ==
    /\ \A s \in Steps : task[<<e, s>>] = "open" =>
          enr[e].state = "awaiting_human_touch" /\ enr[e].step = s
    /\ enr[e].state = "awaiting_human_touch" /\ e \notin suppressed => OpenAt(e, enr[e].step)

Touched(row) == Between(row) \/ row.state = "awaiting_human_touch"

BehindHadTask(e) ==
    \A s \in Steps :
       Channel[s] = "task" /\ (s < enr[e].step \/ (s = enr[e].step /\ Touched(enr[e]))) =>
          task[<<e, s>>] # "none"

NoneAhead(e) == \A w \in Workers : worker[w].pc # "idle" /\ worker[w].e = e => StepReached(w)

InStep(e) == TaskMatches(e) /\ BehindHadTask(e) /\ NoneAhead(e)

InboxInd ==
    /\ TickedRows
    /\ \A w \in Workers : RightChannel(w)
    /\ BriefFirst
    /\ redrives = 0 => \A e \in Enrollments \ crossed : InStep(e)
    /\ WaitingStaysArmed

LEMMA InSteps ==
    (redrives = 0 => \A e \in Enrollments \ crossed : InStep(e)) => TaskMatchesLead
BY DEF InStep, TaskMatches, TaskMatchesLead

-----------------------------------------------------------------------------
(* What a step may do to a lead                                            *)

TasksStay(e) == \A s \in Steps : task'[<<e, s>>] = task[<<e, s>>]

TasksCancelled(e) ==
    \A s \in Steps :
       task'[<<e, s>>] = IF task[<<e, s>>] = "open" THEN "cancelled" ELSE task[<<e, s>>]

(* Its row stays, and so do its tasks, but for the open one of a           *)
(* suppressed lead, which somebody who looked at it cancelled.             *)
Stays(e) ==
    /\ enr'[e] = enr[e]
    /\ \A s \in Steps : \/ task'[<<e, s>>] = task[<<e, s>>]
                        \/ /\ e \in suppressed /\ task[<<e, s>>] = "open"
                           /\ task'[<<e, s>>] = "cancelled"

(* A tick commits what it holds, and expires the task it read as open.     *)
Commits(e) ==
    /\ Locked(e) /\ enr'[e] = tick[e]
    /\ \A s \in Steps :
          /\ task'[<<e, s>>] = IF Expiring(<<e, s>>) THEN "expired" ELSE task[<<e, s>>]
          /\ task'[<<e, s>>] # task[<<e, s>>] => task[<<e, s>>] = "open"

(* It moves while no person is awaited, before and after.                  *)
Passed(old, new) ==
    /\ old.state # "awaiting_human_touch" /\ new.state # "awaiting_human_touch"
    /\ new.step = old.step \/ (old.step = 0 /\ new.step = 1)
    /\ Armed(new)
    /\ old.state \in Terminal => new.state \in Terminal
    /\ Between(new) => \/ Channel[new.step] = "email"
                       \/ new.step = old.step /\ Between(old)

Passes(e) == Passed(enr[e], enr'[e]) /\ TasksStay(e)

(* It begins to wait for a person, whose task is created.                  *)
Waits(e) ==
    /\ enr[e].state = "ready" /\ enr'[e].state = "awaiting_human_touch"
    /\ \E s \in Steps :
          /\ s = AtLeastOne(enr[e].step) /\ enr'[e].step = s
          /\ task[<<e, s>>] = "none" /\ task'[<<e, s>>] = "open"
          /\ \A i \in Steps : i # s => task'[<<e, i>>] = task[<<e, i>>]

(* The person resolves the task.                                           *)
Resolves(e) ==
    /\ enr[e].state = "awaiting_human_touch" /\ enr'[e].state = "waiting" /\ enr'[e].due
    /\ enr'[e].step = enr[e].step
    /\ \E s \in Steps :
          /\ s = enr[e].step /\ task[<<e, s>>] = "open" /\ task'[<<e, s>>] \in Resolution
          /\ \A i \in Steps : i # s => task'[<<e, i>>] = task[<<e, i>>]

(* A reply or a booking takes it away from the person.                     *)
Leaves(e) ==
    /\ enr[e].state = "awaiting_human_touch"
    /\ enr'[e].state \notin {"awaiting_human_touch", "waiting", "queued"}
    /\ enr'[e].step = enr[e].step
    /\ TasksCancelled(e)

(* Once somebody redrove a lead, no more is claimed than this.             *)
Unordered(e) ==
    /\ redrives' # 0
    /\ enr'[e] # enr[e] => Armed(enr'[e])
    /\ enr[e].state \in Terminal /\ enr'[e].state \notin Terminal => redrives' > redrives
    /\ \A s \in Steps : task[<<e, s>>] \notin {"none", "open"} =>
          task'[<<e, s>>] = task[<<e, s>>]

LeadMoves(e) ==
    \/ e \in crossed'
    \/ Unordered(e)
    \/ Stays(e) \/ Commits(e) \/ Passes(e) \/ Waits(e) \/ Resolves(e) \/ Leaves(e)

(* Only a row no tick holds is written; a tick takes hold of a row.        *)
TickHolds(e) ==
    \/ enr'[e] = enr[e] /\ tick'[e] = tick[e]
    \/ tick'[e] = NoRow
    \/ enr'[e] = enr[e] /\ Ticked(enr[e], tick'[e])

(* How a row and its lead's brief change together.                         *)
BriefMoves(e) ==
    \/ enr'[e] = enr[e] /\ (e \in brief' => e \in brief)
    \/ Locked(e) /\ enr'[e] = tick[e] /\ (e \in brief' => e \in brief)
    \/ e \in brief /\ enr'[e].state # "queued"
    \/ e \in brief' /\ enr'[e].state = "ready"
    \/ enr'[e].state = "error"

MovesOn(e) == LeadMoves(e) /\ TickHolds(e) /\ BriefMoves(e)

(* A task goes on with the lead and the step it loaded, or loads a lead    *)
(* that is in the state its job is for.                                    *)
WorkerMoves(w) ==
    worker'[w].pc # "idle" =>
       \/ /\ worker[w].pc # "idle" /\ worker'[w].e = worker[w].e
          /\ worker'[w].step = worker[w].step /\ worker'[w].first = worker[w].first
          /\ worker'[w].pc = worker[w].pc \/ {worker[w].pc, worker'[w].pc} \subseteq SendPC
       \/ /\ enr' = enr
          /\ worker'[w].step = AtLeastOne(enr[worker'[w].e].step)
          /\ worker'[w].first = (enr[worker'[w].e].step = 0)
          /\ \/ worker'[w].pc = "research"
             \/ /\ enr[worker'[w].e].state = "ready"
                /\ worker'[w].pc = IF Channel[worker'[w].step] = "task"
                                   THEN "touch" ELSE "generate"

MailMoves ==
    /\ \A m \in Mails : inbox'[m] # "unsent" => inbox[m] # "unsent" \/ LeadOf(m) \in brief
    /\ poll' # NoPoll => poll' = poll \/ inbox[poll'.m] # "unsent"

RequestMoves ==
    \A p \in Requests : request'[p] # NoRequest =>
       \/ request'[p] = request[p]
       \/ /\ request'[p].k[1] \in brief
          /\ request'[p].row.state = "awaiting_human_touch"

OtherMoves ==
    /\ redrives' = redrives \/ redrives' = redrives + 1
    /\ crossed \subseteq crossed' /\ suppressed \subseteq suppressed' /\ brief \subseteq brief'
    /\ review' \subseteq review \cup brief
    /\ \A e \in Enrollments \ brief, s \in Steps : delivered'[<<e, s>>] = delivered[<<e, s>>]
    /\ \A w \in Workers : WorkerMoves(w)
    /\ MailMoves /\ RequestMoves

InboxMoves == OtherMoves /\ \A e \in Enrollments : MovesOn(e)

-----------------------------------------------------------------------------
(* Such a step keeps what holds of the leads                               *)

LEMMA RowsTyped ==
    ASSUME TypeOK
    PROVE  /\ \A e \in Enrollments :
                 enr[e] \in Row /\ enr[e].step \in Nat /\ enr[e].step <= LastStep
           /\ redrives \in Nat
BY DEF TypeOK, SequencerTypeOK, Row

LEMMA TickedStep ==
    ASSUME TickedRows, InboxMoves
    PROVE  TickedRows'
<1> SUFFICES ASSUME NEW e \in Enrollments, Locked(e)'
             PROVE  Ticked(enr'[e], tick'[e])
  BY DEF TickedRows, Ticked, Advanced
<1>1. tick'[e] # NoRow
  BY DEF Locked
<1>2. TickHolds(e)
  BY DEF InboxMoves, MovesOn
<1> QED
  BY <1>1, <1>2 DEF TickHolds, TickedRows, Locked

LEMMA ChannelStep ==
    ASSUME TypeOK, TypeOK', \A w \in Workers : RightChannel(w), InboxMoves, NEW w \in Workers
    PROVE  RightChannel(w)'
<1>1. WorkerMoves(w) /\ RightChannel(w)
  BY DEF InboxMoves, OtherMoves
<1>2. ASSUME worker'[w].pc # "idle"
      PROVE  worker'[w].step \in Steps
  <2>1. worker'[w] \in Busy
    BY <1>2 DEF TypeOK, SequencerTypeOK, IdleWorker
  <2> QED
    BY <2>1 DEF Busy
<1> QED
  BY <1>1, <1>2 DEF WorkerMoves, RightChannel, SendPC

LEMMA BriefStep ==
    ASSUME ActTypeOK, ActTypeOK', TickedRows, BriefFirst, InboxMoves
    PROVE  BriefFirst'
<1>0. TypeOK /\ TypeOK'
  BY DEF ActTypeOK, TouchTypeOK
<1>1. OtherMoves /\ brief \subseteq brief'
  BY DEF InboxMoves, OtherMoves
<1>2. ASSUME NEW e \in Enrollments
      PROVE  IF e \in brief' THEN enr'[e].state # "queued" ELSE Unbriefed(e)'
  <2>1. BriefMoves(e)
    BY DEF InboxMoves, MovesOn
  <2>2. IF e \in brief THEN enr[e].state # "queued" ELSE Unbriefed(e)
    BY DEF BriefFirst
  <2>3. Locked(e) => /\ tick[e].state # "queued"
                     /\ enr[e].state \in {"queued", "researching", "error"} =>
                           tick[e].state = "researching"
    BY DEF TickedRows, Ticked, Advanced
  <2>4. CASE e \in brief'
    BY <2>1, <2>2, <2>3, <2>4 DEF BriefMoves, Unbriefed
  <2>5. CASE e \notin brief'
    <3>1. e \notin brief /\ Unbriefed(e)
      BY <1>1, <2>2, <2>5
    <3>2. enr'[e].state \in {"queued", "researching", "error"}
      BY <2>1, <2>3, <2>5, <3>1 DEF BriefMoves, Unbriefed
    <3>3. e \notin review' /\ \A s \in Steps : delivered'[<<e, s>>] = 0
      BY <1>1, <3>1 DEF OtherMoves, Unbriefed
    <3> QED
      BY <2>5, <3>2, <3>3 DEF Unbriefed
  <2> QED
    BY <2>4, <2>5
<1>3. ASSUME NEW w \in Workers, worker'[w].pc \notin {"idle", "research"}
      PROVE  worker'[w].e \in brief'
  <2>1. WorkerMoves(w)
    BY DEF InboxMoves, OtherMoves
  <2>2. worker'[w] \in Busy
    BY <1>0, <1>3 DEF TypeOK, SequencerTypeOK, IdleWorker
  <2>3. PICK e \in Enrollments : e = worker'[w].e
    BY <2>2 DEF Busy
  <2>4. enr[e].state = "ready" => e \in brief
    BY DEF BriefFirst, Unbriefed
  <2>5. worker[w].pc \notin {"idle", "research"} => worker[w].e \in brief
    BY DEF BriefFirst
  <2> QED
    BY <1>1, <1>3, <2>1, <2>3, <2>4, <2>5 DEF WorkerMoves, SendPC
<1>4. ASSUME NEW m \in Mails, inbox'[m] # "unsent"
      PROVE  LeadOf(m) \in brief'
  BY <1>1, <1>4 DEF OtherMoves, MailMoves, BriefFirst
<1>5. ASSUME poll' # NoPoll
      PROVE  LeadOf(poll'.m) \in brief'
  <2>1. poll'.m \in Mails
    BY <1>5 DEF ActTypeOK, Polling
  <2>2. poll' = poll \/ inbox[poll'.m] # "unsent"
    BY <1>1, <1>5 DEF OtherMoves, MailMoves
  <2>3. CASE poll' = poll
    BY <1>1, <1>5, <2>3 DEF BriefFirst
  <2>4. CASE inbox[poll'.m] # "unsent"
    BY <1>1, <2>1, <2>4 DEF BriefFirst
  <2> QED
    BY <2>2, <2>3, <2>4
<1>6. ASSUME NEW p \in Requests, request'[p] # NoRequest
      PROVE  request'[p].k[1] \in brief' /\ request'[p].row.state = "awaiting_human_touch"
  BY <1>1, <1>6 DEF OtherMoves, RequestMoves, BriefFirst
<1>7. poll' # NoPoll => LeadOf(poll.m)' \in brief'
  BY <1>5 DEF LeadOf
<1>8. \A m \in Mails : inbox'[m] # "unsent" => LeadOf(m)' \in brief'
  BY <1>4 DEF LeadOf
<1> QED
  BY <1>2, <1>3, <1>6, <1>7, <1>8 DEF BriefFirst

(* No step makes a lead go back to an earlier step.                        *)
LEMMA StepsGrow ==
    ASSUME TypeOK, TypeOK', TickedRows, InboxMoves, NEW e \in Enrollments, e \notin crossed',
           redrives' = 0
    PROVE  enr[e].step <= enr'[e].step
<1>1. enr[e].step \in Nat /\ enr'[e].step \in Nat
  BY DEF TypeOK, SequencerTypeOK, Row
<1>2. LeadMoves(e)
  BY DEF InboxMoves, MovesOn
<1>3. CASE Commits(e)
  BY <1>1, <1>3 DEF Commits, TickedRows, Ticked, Advanced
<1>4. CASE Waits(e)
  BY <1>1, <1>4 DEF Waits, AtLeastOne
<1>5. CASE Stays(e) \/ Passes(e) \/ Resolves(e) \/ Leaves(e)
  BY <1>1, <1>5 DEF Stays, Passes, Passed, Resolves, Leaves
<1> QED
  BY <1>2, <1>3, <1>4, <1>5 DEF LeadMoves, Unordered

LEMMA NoneAheadStep ==
    ASSUME TypeOK, TypeOK', TickedRows, InboxMoves, NEW e \in Enrollments, e \notin crossed',
           redrives' = 0, NoneAhead(e)
    PROVE  NoneAhead(e)'
<1>1. enr[e].step \in Nat /\ enr'[e].step \in Nat /\ enr[e].step <= enr'[e].step
  BY StepsGrow DEF TypeOK, SequencerTypeOK, Row
<1> SUFFICES ASSUME NEW w \in Workers, worker'[w].pc # "idle", worker'[w].e = e
             PROVE  IF worker'[w].first THEN worker'[w].step = 1
                                        ELSE worker'[w].step <= enr'[e].step
  BY DEF NoneAhead, StepReached
<1>2. WorkerMoves(w)
  BY DEF InboxMoves, OtherMoves
<1>3. worker'[w].step \in Nat
  <2>1. worker'[w] \in Busy
    BY DEF TypeOK, SequencerTypeOK, IdleWorker
  <2> QED
    BY <2>1 DEF Busy, Steps
<1>4. CASE /\ worker[w].pc # "idle" /\ worker'[w].e = worker[w].e
           /\ worker'[w].step = worker[w].step /\ worker'[w].first = worker[w].first
  BY <1>1, <1>3, <1>4 DEF NoneAhead, StepReached
<1>5. CASE /\ enr' = enr
           /\ worker'[w].step = AtLeastOne(enr[worker'[w].e].step)
           /\ worker'[w].first = (enr[worker'[w].e].step = 0)
  <2>1. worker'[w].step = AtLeastOne(enr[e].step) /\ (worker'[w].first <=> enr[e].step = 0)
    BY <1>5
  <2> QED
    BY <1>1, <1>5, <2>1 DEF AtLeastOne
<1> QED
  BY <1>2, <1>4, <1>5 DEF WorkerMoves

LEMMA BehindStep ==
    ASSUME TypeOK, TypeOK', TickedRows, InboxMoves, NEW e \in Enrollments, e \notin crossed',
           redrives' = 0, BehindHadTask(e)
    PROVE  BehindHadTask(e)'
<1> SUFFICES ASSUME NEW s \in Steps, Channel[s] = "task",
                    s < enr'[e].step \/ (s = enr'[e].step /\ Touched(enr'[e]))
             PROVE  task'[<<e, s>>] # "none"
  BY DEF BehindHadTask, Touched, Between
<1>1. enr[e].step \in Nat /\ enr'[e].step \in Nat /\ s \in Nat /\ s >= 1
  BY DEF TypeOK, SequencerTypeOK, Row, Steps
<1>2. LeadMoves(e)
  BY DEF InboxMoves, MovesOn
<1>3. s < enr[e].step \/ (s = enr[e].step /\ Touched(enr[e])) => task[<<e, s>>] # "none"
  BY DEF BehindHadTask
<1>4. CASE Stays(e)
  BY <1>3, <1>4 DEF Stays
<1>5. CASE Commits(e)
  <2>1. task[<<e, s>>] # "none" => task'[<<e, s>>] # "none"
    BY <1>5 DEF Commits
  <2>2. s < enr[e].step \/ (s = enr[e].step /\ Touched(enr[e]))
    BY <1>1, <1>5 DEF Commits, TickedRows, Ticked, Advanced, Touched, Between
  <2> QED
    BY <1>3, <2>1, <2>2
<1>6. CASE Passes(e)
  <2>1. task'[<<e, s>>] = task[<<e, s>>]
    BY <1>6 DEF Passes, TasksStay
  <2>2. s < enr[e].step \/ (s = enr[e].step /\ Touched(enr[e]))
    BY <1>1, <1>6 DEF Passes, Passed, Touched
  <2> QED
    BY <1>3, <2>1, <2>2
<1>7. CASE Waits(e)
  BY <1>1, <1>3, <1>7 DEF Waits, AtLeastOne
<1>8. CASE Resolves(e)
  <2>1. s < enr[e].step \/ (s = enr[e].step /\ Touched(enr[e]))
    BY <1>8 DEF Resolves, Touched
  <2>2. task[<<e, s>>] # "none" => task'[<<e, s>>] # "none"
    BY <1>8 DEF Resolves, Resolution
  <2> QED
    BY <1>3, <2>1, <2>2
<1>9. CASE Leaves(e)
  <2>1. s < enr[e].step \/ (s = enr[e].step /\ Touched(enr[e]))
    BY <1>9 DEF Leaves, Touched
  <2>2. task[<<e, s>>] # "none" => task'[<<e, s>>] # "none"
    BY <1>9 DEF Leaves, TasksCancelled
  <2> QED
    BY <1>3, <2>1, <2>2
<1> QED
  BY <1>2, <1>4, <1>5, <1>6, <1>7, <1>8, <1>9 DEF LeadMoves, Unordered

LEMMA MatchStep ==
    ASSUME TypeOK, TypeOK', TickedRows, InboxMoves, NEW e \in Enrollments, e \notin crossed',
           redrives' = 0, TaskMatches(e)
    PROVE  TaskMatches(e)'
<1>1. /\ \A s \in Steps : task[<<e, s>>] = "open" =>
            enr[e].state = "awaiting_human_touch" /\ enr[e].step = s
      /\ enr[e].state = "awaiting_human_touch" /\ e \notin suppressed =>
            enr[e].step \in Steps /\ task[<<e, enr[e].step>>] = "open"
  BY DEF TaskMatches, OpenAt
<1>2. LeadMoves(e) /\ suppressed \subseteq suppressed'
  BY DEF InboxMoves, MovesOn, OtherMoves
<1> SUFFICES /\ \A s \in Steps : task'[<<e, s>>] = "open" =>
                   enr'[e].state = "awaiting_human_touch" /\ enr'[e].step = s
             /\ enr'[e].state = "awaiting_human_touch" /\ e \notin suppressed' =>
                   enr'[e].step \in Steps /\ task'[<<e, enr'[e].step>>] = "open"
  BY DEF TaskMatches, OpenAt
<1>3. CASE Stays(e)
  BY <1>1, <1>2, <1>3 DEF Stays
<1>4. CASE Commits(e)
  <2>1. Ticked(enr[e], tick[e]) /\ Locked(e) /\ enr'[e] = tick[e]
    BY <1>4 DEF Commits, TickedRows
  <2>2. CASE enr[e].state # "awaiting_human_touch"
    <3>1. enr'[e].state # "awaiting_human_touch" /\ TasksStay(e)
      BY <1>4, <2>1, <2>2 DEF Commits, Ticked, Advanced, Expiring, TasksStay
    <3> QED
      BY <1>1, <2>2, <3>1 DEF TasksStay
  <2>3. CASE enr[e].state = "awaiting_human_touch" /\ tick[e].state = "awaiting_human_touch"
    <3>1. enr'[e].step = enr[e].step /\ enr'[e].state = "awaiting_human_touch" /\ TasksStay(e)
      BY <1>4, <2>1, <2>3 DEF Commits, Ticked, Advanced, Expiring, TasksStay
    <3> QED
      BY <1>1, <1>2, <2>3, <3>1 DEF TasksStay
  <2>4. CASE enr[e].state = "awaiting_human_touch" /\ tick[e].state = "waiting"
    <3>1. \A s \in Steps : s = enr[e].step => task'[<<e, s>>] = "expired"
      BY <1>4, <2>1, <2>4 DEF Commits, Expiring
    <3>2. \A s \in Steps : s # enr[e].step => task'[<<e, s>>] # "open"
      BY <1>1, <1>4 DEF Commits
    <3> QED
      BY <2>1, <2>4, <3>1, <3>2
  <2> QED
    BY <2>1, <2>2, <2>3, <2>4 DEF Ticked, Advanced
<1>5. CASE Passes(e)
  BY <1>1, <1>5 DEF Passes, Passed, TasksStay
<1>6. CASE Waits(e)
  BY <1>1, <1>6 DEF Waits
<1>7. CASE Resolves(e)
  BY <1>1, <1>7 DEF Resolves, Resolution
<1>8. CASE Leaves(e)
  BY <1>1, <1>8 DEF Leaves, TasksCancelled
<1> QED
  BY <1>2, <1>3, <1>4, <1>5, <1>6, <1>7, <1>8 DEF LeadMoves, Unordered

LEMMA ArmedStep ==
    ASSUME TickedRows, WaitingStaysArmed, InboxMoves
    PROVE  WaitingStaysArmed'
<1> SUFFICES ASSUME NEW e \in Enrollments, e \notin crossed'
             PROVE  Armed(enr'[e])
  BY DEF WaitingStaysArmed, Armed
<1>1. Armed(enr[e]) /\ LeadMoves(e)
  BY DEF WaitingStaysArmed, Armed, InboxMoves, MovesOn, OtherMoves
<1>2. CASE Commits(e)
  BY <1>2 DEF Commits, TickedRows, Ticked, Advanced, Armed
<1> QED
  BY <1>1, <1>2 DEF LeadMoves, Unordered, Stays, Passes, Passed, Waits, Resolves, Leaves, Armed

LEMMA IndStep ==
    ASSUME ActTypeOK, ActTypeOK', InboxInd, InboxMoves
    PROVE  InboxInd'
<1>1. /\ TypeOK /\ TypeOK' /\ TickedRows /\ BriefFirst /\ WaitingStaysArmed
      /\ \A w \in Workers : RightChannel(w)
      /\ redrives = 0 => \A e \in Enrollments \ crossed : InStep(e)
  BY DEF ActTypeOK, TouchTypeOK, InboxInd
<1>2. TickedRows' /\ BriefFirst' /\ WaitingStaysArmed'
  BY <1>1, TickedStep, BriefStep, ArmedStep
<1>3. \A w \in Workers : RightChannel(w)'
  BY <1>1, ChannelStep
<1>4. ASSUME redrives' = 0, NEW e \in Enrollments, e \notin crossed'
      PROVE  InStep(e)'
  <2>1. redrives = 0 /\ e \notin crossed
    <3>1. redrives \in Nat /\ OtherMoves
      BY <1>1 DEF TypeOK, SequencerTypeOK, InboxMoves
    <3> QED
      BY <1>4, <3>1 DEF OtherMoves
  <2>2. TaskMatches(e) /\ BehindHadTask(e) /\ NoneAhead(e)
    BY <1>1, <2>1 DEF InStep
  <2>3. TaskMatches(e)' /\ BehindHadTask(e)' /\ NoneAhead(e)'
    BY <1>1, <1>4, <2>2, MatchStep, BehindStep, NoneAheadStep
  <2> QED
    BY <2>3 DEF InStep
<1> QED
  BY <1>2, <1>3, <1>4 DEF InboxInd

-----------------------------------------------------------------------------
(* Every step is such a step.  What its parts come to.                     *)

LEMMA NothingMoves ==
    ASSUME UNCHANGED <<enr, tick, task>>, brief' = brief
    PROVE  \A e \in Enrollments : MovesOn(e)
BY DEF MovesOn, LeadMoves, Stays, TickHolds, BriefMoves

LEMMA WrittenMovesOn ==
    ASSUME TypeOK, NEW e \in Enrollments, NEW row, Write(e, row), tick' = tick,
           \A i \in Enrollments, s \in Steps : i # e => task'[<<i, s>>] = task[<<i, s>>],
           brief' \subseteq brief \cup {e}, LeadMoves(e), BriefMoves(e)
    PROVE  \A i \in Enrollments : MovesOn(i)
<1>1. /\ ~Locked(e) /\ \A i \in Enrollments : i # e => enr'[i] = enr[i]
  BY Written
<1>2. MovesOn(e)
  BY <1>1 DEF MovesOn, TickHolds, Locked
<1>3. ASSUME NEW i \in Enrollments, i # e
      PROVE  MovesOn(i)
  <2>1. enr'[i] = enr[i] /\ \A s \in Steps : task'[<<i, s>>] = task[<<i, s>>]
    BY <1>1, <1>3
  <2>2. LeadMoves(i)
    BY <2>1 DEF LeadMoves, Stays
  <2>3. BriefMoves(i) /\ TickHolds(i)
    BY <1>3, <2>1 DEF BriefMoves, TickHolds
  <2> QED
    BY <2>2, <2>3 DEF MovesOn
<1> QED
  BY <1>2, <1>3

LEMMA SameWorkers ==
    ASSUME worker' = worker
    PROVE  \A w \in Workers : WorkerMoves(w)
BY DEF WorkerMoves

LEMMA StoppedWorkers ==
    ASSUME TypeOK, NEW w \in Workers, Stop(w)
    PROVE  \A v \in Workers : WorkerMoves(v)
BY DEF Stop, WorkerMoves, IdleWorker, TypeOK, SequencerTypeOK

LEMMA LoadedWorkers ==
    ASSUME TypeOK, NEW w \in Workers, NEW pc \in BusyPC, NEW e \in Enrollments,
           NEW n \in 0..MaxRetries, Run(w, pc, e, n), enr' = enr,
           \/ pc = "research"
           \/ /\ enr[e].state = "ready"
              /\ pc = IF Channel[AtLeastOne(enr[e].step)] = "task" THEN "touch" ELSE "generate"
    PROVE  \A v \in Workers : WorkerMoves(v)
<1>1. /\ worker'[w].e = e /\ worker'[w].step = AtLeastOne(enr[e].step)
      /\ worker'[w].first = (enr[e].step = 0) /\ worker'[w].pc = pc
      /\ \A v \in Workers : v # w => worker'[v] = worker[v]
  BY DEF Run, TypeOK, SequencerTypeOK
<1> QED
  BY <1>1 DEF WorkerMoves

LEMMA PassedWorkers ==
    ASSUME TypeOK, NEW w \in Workers, Reserve(w) \/ Claim(w) \/ Deliver(w)
    PROVE  \A v \in Workers : WorkerMoves(v)
<1>1. /\ worker[w] \in Busy
      /\ \A v \in Workers : v # w => worker'[v] = worker[v]
      /\ Reserve(w) => worker'[w] = [worker[w] EXCEPT !.pc = "reserved", !.day = day]
      /\ Claim(w) => worker'[w] = [worker[w] EXCEPT !.pc = "claimed"]
      /\ Deliver(w) => worker'[w] = [worker[w] EXCEPT !.pc = "delivered"]
  BY TaskMoves
<1>2. worker[w].pc \in {"generate", "reserved", "claimed"}
  BY DEF Reserve, Claim, Deliver
<1>3. /\ worker'[w].e = worker[w].e /\ worker'[w].step = worker[w].step
      /\ worker'[w].first = worker[w].first
      /\ worker'[w].pc \in {"reserved", "claimed", "delivered"}
  BY <1>1 DEF Busy
<1> QED
  BY <1>1, <1>2, <1>3 DEF WorkerMoves, SendPC

LEMMA MailStays ==
    ASSUME UNCHANGED <<inbox, poll>>
    PROVE  MailMoves
BY DEF MailMoves

LEMMA RequestStays ==
    ASSUME UNCHANGED request
    PROVE  RequestMoves
BY DEF RequestMoves

(* The rest of a step that leaves most of it alone.                        *)
LEMMA OthersStay ==
    ASSUME UNCHANGED <<redrives, suppressed, delivered, inbox, poll, request>>,
           crossed \subseteq crossed', brief \subseteq brief', review' \subseteq review \cup brief,
           \A w \in Workers : WorkerMoves(w)
    PROVE  OtherMoves
BY MailStays, RequestStays DEF OtherMoves

(* Only a lead with a brief is ready, waits or awaits a person.            *)
LEMMA HasBrief ==
    ASSUME InboxInd, NEW e \in Enrollments,
           enr[e].state \notin {"queued", "researching", "error"} \/ e \in review
    PROVE  e \in brief
BY DEF InboxInd, BriefFirst, Unbriefed

-----------------------------------------------------------------------------
(* The tick *)

LEMMA TickInbox ==
    ASSUME ActTypeOK, NEW e \in Enrollments, Aside(TouchTickStep(e))
    PROVE  InboxMoves
<1>0. TypeOK /\ enr[e] \in Row
  BY DEF ActTypeOK, TouchTypeOK, TypeOK, SequencerTypeOK
<1>1. ASSUME enr' = enr, task' = task, ~Locked(e), Ticked(enr[e], tick'[e]),
             \A i \in Enrollments : i # e => tick'[i] = tick[i], brief' = brief
      PROVE  \A i \in Enrollments : MovesOn(i)
  BY <1>1 DEF MovesOn, LeadMoves, Stays, TickHolds, BriefMoves
<1>2. CASE Aside(Beside(TickStep(e)))
  <2>1. TickStep(e)
    BY <1>2 DEF Aside, Beside
  <2>2. /\ enr' = enr /\ ~Locked(e) /\ Ticked(enr[e], tick'[e]) /\ worker' = worker
        /\ \A i \in Enrollments : i # e => tick'[i] = tick[i]
    BY <1>0, <2>1, TickMoves DEF Ticked
  <2>3. UNCHANGED <<redrives, brief, review, suppressed, delivered>>
    BY <2>1 DEF TickStep, Alone, TickQueued, TickFinished, TickTimer, TickReady, sendVars, histVars
  <2>4. UNCHANGED <<task, crossed, request, inbox, poll>>
    BY <1>2 DEF Aside, Beside, touchVars, inboxVars
  <2> QED
    BY <1>1, <2>2, <2>3, <2>4, OthersStay, SameWorkers DEF InboxMoves
<1>3. CASE Aside(TickExpire(e))
  <2>1. /\ UNCHANGED <<enr, worker, redrives, brief, review, suppressed, delivered>>
        /\ UNCHANGED <<task, crossed, request, inbox, poll>>
    BY <1>3 DEF Aside, TickExpire, sendVars, histVars, touchVars, inboxVars
  <2>2. ~Locked(e) /\ enr[e].due /\ enr[e].state = "awaiting_human_touch"
    BY <1>3 DEF Aside, TickExpire, Due
  <2>3. \/ Hold(e, [enr[e] EXCEPT !.state = "waiting"])
        \/ Hold(e, [enr[e] EXCEPT !.due = FALSE])
    BY <1>3, TouchStates DEF Aside, TickExpire
  <2>4. \/ tick'[e] = [enr[e] EXCEPT !.state = "waiting"]
        \/ tick'[e] = [enr[e] EXCEPT !.due = FALSE]
    BY <2>3, <1>0 DEF Hold, TypeOK, SequencerTypeOK
  <2>5. Ticked(enr[e], tick'[e])
    BY <1>0, <2>2, <2>4 DEF Ticked, Row
  <2>6. \A i \in Enrollments : i # e => tick'[i] = tick[i]
    BY <2>3, <1>0 DEF Hold, TypeOK, SequencerTypeOK
  <2> QED
    BY <1>1, <2>1, <2>2, <2>5, <2>6, OthersStay, SameWorkers DEF InboxMoves
<1> QED
  BY <1>2, <1>3 DEF Aside, TouchTickStep

LEMMA CommitInbox ==
    ASSUME ActTypeOK, InboxInd, Aside(TouchTickCommit)
    PROVE  InboxMoves
<1>0. TypeOK /\ task \in [Keys -> TaskStatus] /\ TickedRows
  BY DEF ActTypeOK, TouchTypeOK, InboxInd
<1>1. UNCHANGED <<worker, redrives, brief, review, suppressed, delivered, request, inbox, poll>>
      /\ crossed \subseteq crossed'
  BY DEF Aside, TouchTickCommit, TickCommit, sendVars, histVars, inboxVars
<1>2. PICK S \in SUBSET {e \in Enrollments : Locked(e)} :
         /\ enr' = [e \in Enrollments |-> IF e \in S THEN tick[e] ELSE enr[e]]
         /\ tick' = [e \in Enrollments |-> IF e \in S THEN NoRow ELSE tick[e]]
  BY DEF Aside, TouchTickCommit, TickCommit
<1>3. ASSUME NEW e \in Enrollments, NEW s \in Steps
      PROVE  /\ task'[<<e, s>>] = IF Expiring(<<e, s>>) /\ e \in S THEN "expired"
                                                                   ELSE task[<<e, s>>]
             /\ \/ e \in crossed'
                \/ task'[<<e, s>>] # task[<<e, s>>] => task[<<e, s>>] = "open"
  <2>1. <<e, s>> \in Keys /\ <<e, s>>[1] = e
    BY DEF Keys
  <2>2. task'[<<e, s>>] = IF Expiring(<<e, s>>) /\ tick'[e] = NoRow THEN "expired"
                                                                    ELSE task[<<e, s>>]
    BY <2>1 DEF Aside, TouchTickCommit
  <2>3. Expiring(<<e, s>>) => (tick'[e] = NoRow <=> e \in S)
    BY <1>2 DEF Expiring, Locked
  <2>4. \/ e \in crossed'
        \/ task'[<<e, s>>] # task[<<e, s>>] => task[<<e, s>>] = "open"
    BY <2>1 DEF Aside, TouchTickCommit
  <2> QED
    BY <2>2, <2>3, <2>4
<1>4. ASSUME NEW e \in Enrollments
      PROVE  MovesOn(e)
  <2>1. CASE e \in S
    <3>1. Locked(e) /\ enr'[e] = tick[e] /\ tick'[e] = NoRow
      BY <1>2, <2>1
    <3>2. LeadMoves(e)
      BY <1>3, <2>1, <3>1 DEF LeadMoves, Commits
    <3> QED
      BY <1>1, <3>1, <3>2 DEF MovesOn, TickHolds, BriefMoves
  <2>2. CASE e \notin S
    <3>1. enr'[e] = enr[e] /\ tick'[e] = tick[e]
      BY <1>2, <2>2
    <3>2. LeadMoves(e)
      BY <1>3, <2>2, <3>1 DEF LeadMoves, Stays
    <3> QED
      BY <1>1, <3>1, <3>2 DEF MovesOn, TickHolds, BriefMoves
  <2> QED
    BY <2>1, <2>2
<1> QED
  BY <1>1, <1>4, OthersStay, SameWorkers DEF InboxMoves

-----------------------------------------------------------------------------
(* Workers take jobs *)

LEMMA TakeInbox ==
    ASSUME ActTypeOK, InboxInd, NEW w \in Workers, NEW e \in Enrollments,
           NEW n \in 0..MaxRetries, Aside(TouchTakeJob(w, e, n))
    PROVE  InboxMoves
<1>0. TypeOK /\ enr[e] \in Row
  BY DEF ActTypeOK, TouchTypeOK, TypeOK, SequencerTypeOK
<1>1. UNCHANGED <<inbox, poll, answered>>
  BY DEF Aside, inboxVars
<1>2. ASSUME NEW pc \in BusyPC, Run(w, pc, e, n),
             UNCHANGED <<enr, tick, task, redrives, brief, review, suppressed, delivered>>,
             UNCHANGED <<crossed, request>>,
             \/ pc = "research"
             \/ /\ enr[e].state = "ready"
                /\ pc = IF Channel[AtLeastOne(enr[e].step)] = "task" THEN "touch" ELSE "generate"
      PROVE  InboxMoves
  <2>1. \A v \in Workers : WorkerMoves(v)
    BY <1>0, <1>2, LoadedWorkers
  <2> QED
    BY <1>1, <1>2, <2>1, OthersStay, NothingMoves DEF InboxMoves
<1>3. CASE Beside(Alone(StartResearch(w, e, n)))
  <2>1. /\ UNCHANGED <<enr, tick, task, redrives, brief, review, suppressed, delivered>>
        /\ UNCHANGED <<crossed, request>> /\ Run(w, "research", e, n)
    BY <1>3 DEF Beside, Alone, StartResearch, sendVars, histVars, touchVars
  <2> QED
    BY <1>2, <2>1 DEF BusyPC
<1>4. CASE Beside(StartSend(w, e, n))
  <2>1. /\ UNCHANGED <<enr, tick, task, redrives, brief, review, suppressed, delivered>>
        /\ UNCHANGED <<crossed, request>> /\ Run(w, "generate", e, n)
        /\ enr[e].state = "ready" /\ Channel[AtLeastOne(enr[e].step)] = "email"
    BY <1>4 DEF Beside, StartSend, sendVars, histVars, touchVars
  <2> QED
    BY <1>2, <2>1 DEF BusyPC
<1>5. CASE StartTouch(w, e, n)
  <2>1. /\ UNCHANGED <<enr, tick, task, redrives, brief, review, suppressed, delivered>>
        /\ UNCHANGED <<crossed, request>> /\ Run(w, "touch", e, n)
        /\ enr[e].state = "ready" /\ Channel[AtLeastOne(enr[e].step)] = "task"
    BY <1>5 DEF StartTouch, sendVars, histVars
  <2> QED
    BY <1>2, <2>1 DEF BusyPC
<1>6. ASSUME UNCHANGED <<enr, tick, task, redrives, brief, review, suppressed, delivered>>,
             UNCHANGED <<worker, crossed, request>>
      PROVE  InboxMoves
  BY <1>1, <1>6, OthersStay, SameWorkers, NothingMoves DEF InboxMoves
<1>7. CASE \/ Beside(Alone(Discard(w, "research", "researching", e, n)))
           \/ Beside(Alone(Discard(w, "send", "ready", e, n)))
           \/ Beside(Alone(Discard(w, "touch", "ready", e, n)))
           \/ Beside(Reroute(w, e, n))
  BY <1>6, <1>7 DEF Beside, Alone, Discard, Reroute, sendVars, histVars, touchVars
<1>8. ASSUME NEW s \in {"error", "unsubscribed"}, enr[e].state = "ready",
             Write(e, [enr[e] EXCEPT !.state = s]),
             UNCHANGED <<worker, tick, task, redrives, brief, review, suppressed, delivered>>,
             UNCHANGED <<crossed, request>>
      PROVE  InboxMoves
  <2>1. enr'[e] = [enr[e] EXCEPT !.state = s]
    BY <1>0, <1>8, Written
  <2>2. enr'[e].state = s /\ enr'[e].step = enr[e].step
    BY <1>0, <2>1 DEF Row
  <2>3. Passes(e)
    BY <1>8, <2>2 DEF Passes, Passed, Armed, Between, Terminal, TasksStay
  <2>4. e \in brief
    BY <1>8, HasBrief
  <2>5. BriefMoves(e)
    BY <1>8, <2>2, <2>4 DEF BriefMoves
  <2>6. \A i \in Enrollments : MovesOn(i)
    BY <1>0, <1>8, <2>3, <2>5, WrittenMovesOn DEF LeadMoves
  <2> QED
    BY <1>1, <1>8, <2>6, OthersStay, SameWorkers DEF InboxMoves
<1>9. CASE Beside(StartRefused(w, e, n))
  <2>1. /\ UNCHANGED <<worker, tick, task, redrives, brief, review, suppressed, delivered>>
        /\ UNCHANGED <<crossed, request>> /\ enr[e].state = "ready"
    BY <1>9 DEF Beside, StartRefused, sendVars, histVars, touchVars
  <2>2. \E s \in {"error", "unsubscribed"} : Write(e, [enr[e] EXCEPT !.state = s])
    BY <1>9, MachineSteps DEF Beside, StartRefused, After
  <2> QED
    BY <1>8, <2>1, <2>2
<1>10. CASE TouchRefused(w, e, n)
  <2>1. /\ UNCHANGED <<worker, tick, task, redrives, brief, review, suppressed, delivered>>
        /\ UNCHANGED <<crossed, request>> /\ enr[e].state = "ready"
    BY <1>10 DEF TouchRefused, sendVars, histVars, touchVars
  <2>2. enr' = enr \/ Write(e, [enr[e] EXCEPT !.state = "unsubscribed"])
    BY <1>10, MachineSteps DEF TouchRefused, After
  <2> QED
    BY <1>6, <1>8, <2>1, <2>2
<1>11. TouchTakeJob(w, e, n)
  BY DEF Aside
<1>12. CASE Beside(TakeJob(w, e, n))
  <2>1. TakeJob(w, e, n) /\ UNCHANGED touchVars
    BY <1>12 DEF Beside
  <2>2. \/ Beside(Alone(StartResearch(w, e, n)))
        \/ Beside(Alone(Discard(w, "research", "researching", e, n)))
        \/ Beside(Alone(Discard(w, "send", "ready", e, n)))
        \/ Beside(StartSend(w, e, n)) \/ Beside(StartRefused(w, e, n)) \/ Beside(Reroute(w, e, n))
    BY <2>1 DEF TakeJob, Beside
  <2> QED
    BY <2>2, <1>3, <1>4, <1>7, <1>9
<1> QED
  BY <1>5, <1>7, <1>10, <1>11, <1>12 DEF TouchTakeJob

-----------------------------------------------------------------------------
(* Workers go on *)

(* A task that writes the row it loaded: if that is lost, crossed says so. *)
LEMMA NotedInbox ==
    ASSUME ActTypeOK, NEW w \in Workers, NEW e \in Enrollments, e = worker[w].e, NEW row,
           Write(e, row), Stop(w), NoteWrite(w), UNCHANGED <<tick, task, redrives>>,
           UNCHANGED <<suppressed, delivered, inbox, poll, request>>,
           brief \subseteq brief', brief' \subseteq brief \cup {e},
           review' \subseteq review \cup brief, BriefMoves(e),
           ~Outdated(w) => LeadMoves(e)
    PROVE  InboxMoves
<1>0. TypeOK
  BY DEF ActTypeOK, TouchTypeOK
<1>1. crossed \subseteq crossed'
  BY DEF NoteWrite
<1>2. LeadMoves(e)
  <2>1. CASE enr' = enr
    BY <2>1 DEF LeadMoves, Stays
  <2>2. CASE enr' # enr /\ Outdated(w)
    BY <2>2 DEF NoteWrite, LeadMoves
  <2> QED
    BY <2>1, <2>2
<1>3. \A i \in Enrollments : MovesOn(i)
  BY <1>0, <1>2, WrittenMovesOn
<1>4. \A v \in Workers : WorkerMoves(v)
  BY <1>0, StoppedWorkers
<1> QED
  BY <1>1, <1>3, <1>4, OthersStay DEF InboxMoves

(* Research ends, a copy or a task is rejected, or the lead is suppressed. *)
LEMMA EndInbox ==
    ASSUME ActTypeOK, InboxInd, NEW w \in Workers,
           \/ Aside(Writing(w, Alone(FinishResearch(w))))
           \/ Aside(Writing(w, CopyRejected(w)))
           \/ Aside(Writing(w, PresendSuppressed(w)))
           \/ Aside(TouchRejected(w))
    PROVE  InboxMoves
<1>0. TypeOK /\ SequencerTypeOK
  BY DEF ActTypeOK, TouchTypeOK, TypeOK
<1>1. worker[w] \in Busy
  BY <1>0, BusyWorker DEF Aside, Writing, Alone, FinishResearch, CopyRejected, PresendSuppressed,
     TouchRejected
<1>2. PICK e \in Enrollments : e = worker[w].e
  BY <1>1 DEF Busy
<1>3. enr[e] \in Row
  BY <1>0 DEF SequencerTypeOK
<1>4. /\ Stop(w) /\ NoteWrite(w) /\ UNCHANGED <<tick, task, redrives>>
      /\ UNCHANGED <<suppressed, delivered, inbox, poll, request>>
  BY DEF Aside, Writing, Alone, FinishResearch, CopyRejected, PresendSuppressed, TouchRejected,
     sendVars, histVars, inboxVars
<1>5. ASSUME NEW row, Write(e, row), row.step = enr[e].step, row.state \in {"ready", "error",
             "unsubscribed"}, ~Outdated(w)
      PROVE  LeadMoves(e)
  <2>1. enr'[e] = row
    BY <1>0, <1>5, Written
  <2>2. enr[e].state \in {"ready", "researching"}
    BY <1>2, <1>5 DEF Outdated, LoadedState
  <2> QED
    BY <1>4, <1>5, <2>1, <2>2
    DEF LeadMoves, Passes, Passed, Armed, Between, Terminal, TasksStay
<1>6. CASE Aside(Writing(w, Alone(FinishResearch(w))))
  <2>1. /\ UNCHANGED review
        /\ \/ Write(e, [enr[e] EXCEPT !.state = "ready", !.due = TRUE]) /\ brief' = brief \cup {e}
           \/ Write(e, [enr[e] EXCEPT !.state = "error"]) /\ UNCHANGED brief
    BY <1>2, <1>6, MachineSteps DEF Aside, Writing, Alone, FinishResearch
  <2>2. CASE Write(e, [enr[e] EXCEPT !.state = "ready", !.due = TRUE]) /\ brief' = brief \cup {e}
    <3>1. PICK row : row = [enr[e] EXCEPT !.state = "ready", !.due = TRUE]
      OBVIOUS
    <3>2. Write(e, row) /\ row.state = "ready" /\ row.step = enr[e].step
      BY <1>3, <2>2, <3>1 DEF Row
    <3>3. BriefMoves(e)
      BY <1>0, <2>2, <3>2, Written DEF BriefMoves
    <3> QED
      BY <1>2, <1>4, <1>5, <2>1, <2>2, <3>2, <3>3, NotedInbox
  <2>3. CASE Write(e, [enr[e] EXCEPT !.state = "error"]) /\ UNCHANGED brief
    <3>1. PICK row : row = [enr[e] EXCEPT !.state = "error"]
      OBVIOUS
    <3>2. Write(e, row) /\ row.state = "error" /\ row.step = enr[e].step
      BY <1>3, <2>3, <3>1 DEF Row
    <3>3. BriefMoves(e)
      BY <1>0, <3>2, Written DEF BriefMoves
    <3> QED
      BY <1>2, <1>4, <1>5, <2>1, <2>3, <3>2, <3>3, NotedInbox
  <2> QED
    BY <2>1, <2>2, <2>3
<1>7. CASE \/ Aside(Writing(w, CopyRejected(w))) \/ Aside(Writing(w, PresendSuppressed(w)))
           \/ Aside(TouchRejected(w))
  <2>1. e \in brief
    <3>1. worker[w].pc \in {"generate", "touch"}
      BY <1>7 DEF Aside, Writing, CopyRejected, PresendSuppressed, TouchRejected
    <3> QED
      BY <1>2, <3>1 DEF InboxInd, BriefFirst
  <2>2. brief' = brief /\ review' \subseteq review \cup {e}
    BY <1>2, <1>7 DEF Aside, Writing, CopyRejected, PresendSuppressed, TouchRejected
  <2>3. PICK s \in {"error", "unsubscribed"} : Write(e, [enr[e] EXCEPT !.state = s])
    BY <1>2, <1>7, MachineSteps
    DEF Aside, Writing, CopyRejected, PresendSuppressed, TouchRejected
  <2>4. PICK row : row = [enr[e] EXCEPT !.state = s]
    OBVIOUS
  <2>5. Write(e, row) /\ row.state = s /\ row.step = enr[e].step
    BY <1>3, <2>3, <2>4 DEF Row
  <2>6. BriefMoves(e)
    BY <1>0, <2>1, <2>3, <2>5, Written DEF BriefMoves
  <2> QED
    BY <1>2, <1>4, <1>5, <2>1, <2>2, <2>5, <2>6, NotedInbox
<1> QED
  BY <1>6, <1>7

(* A task that stops, or goes on, without writing its lead.                *)
LEMMA QuietInbox ==
    ASSUME ActTypeOK, InboxInd, NEW w \in Workers,
           \/ Aside(Writing(w, Alone(TaskException(w)))) \/ Aside(Writing(w, PresendBlocked(w)))
           \/ Aside(Writing(w, Reserve(w))) \/ Aside(Writing(w, Claim(w)))
           \/ Aside(Writing(w, DuplicateClaim(w))) \/ Aside(Writing(w, Deliver(w)))
           \/ Aside(Writing(w, DeliverFailed(w))) \/ Aside(DuplicateTask(w))
    PROVE  InboxMoves
<1>0. TypeOK
  BY DEF ActTypeOK, TouchTypeOK
<1>1. UNCHANGED <<inbox, poll, task, request>>
  BY DEF Aside, Writing, DuplicateTask, touchVars, inboxVars
<1>2. UNCHANGED <<enr, tick, redrives, brief, review>>
  BY DEF Aside, Writing, Alone, TaskException, PresendBlocked, Reserve, Claim, DuplicateClaim,
     Deliver, DeliverFailed, DuplicateTask
<1>3. crossed' = crossed
  BY <1>2 DEF Aside, Writing, NoteWrite, DuplicateTask, touchVars
<1>4. suppressed' = suppressed
  BY DEF Aside, Writing, Alone, TaskException, PresendBlocked, Reserve, Claim, DuplicateClaim,
     Deliver, DeliverFailed, DuplicateTask, sendVars
<1>5. \A v \in Workers : WorkerMoves(v)
  <2>1. \/ Stop(w) \/ Reserve(w) \/ Claim(w) \/ Deliver(w)
    BY DEF Aside, Writing, Alone, TaskException, PresendBlocked, DuplicateClaim, DeliverFailed,
       DuplicateTask
  <2> QED
    BY <1>0, <2>1, StoppedWorkers, PassedWorkers
<1>6. \A e \in Enrollments \ brief, s \in Steps : delivered'[<<e, s>>] = delivered[<<e, s>>]
  <2>1. CASE delivered' = delivered
    BY <2>1
  <2>2. CASE Accepted(w) /\ worker[w].pc = "claimed"
    <3>1. worker[w].e \in brief
      BY <2>2 DEF InboxInd, BriefFirst
    <3>2. delivered' = [delivered EXCEPT ![KeyOf(w)] = @ + 1] /\ delivered \in [Keys -> Nat]
      BY <1>0, <2>2 DEF Accepted, TypeOK, SendTypeOK
    <3>3. ASSUME NEW e \in Enrollments \ brief, NEW s \in Steps
          PROVE  <<e, s>> # KeyOf(w) /\ <<e, s>> \in Keys
      BY <3>1 DEF KeyOf, Keys
    <3> QED
      BY <3>2, <3>3
  <2> QED
    BY <2>1, <2>2 DEF Aside, Writing, Alone, TaskException, PresendBlocked, Reserve, Claim,
       DuplicateClaim, Deliver, DeliverFailed, DuplicateTask, histVars
<1>7. OtherMoves
  BY <1>1, <1>2, <1>3, <1>4, <1>5, <1>6, MailStays, RequestStays DEF OtherMoves
<1> QED
  BY <1>1, <1>2, <1>7, NothingMoves DEF InboxMoves

(* The e-mail went out: the lead waits for its next step.                  *)
LEMMA FinalizeInbox ==
    ASSUME ActTypeOK, InboxInd, NEW w \in Workers, Aside(Writing(w, Finalize(w)))
    PROVE  InboxMoves
<1>0. TypeOK /\ SequencerTypeOK
  BY DEF ActTypeOK, TouchTypeOK, TypeOK
<1>1. Finalize(w) /\ worker[w].pc = "delivered" /\ worker[w] \in Busy
  BY <1>0, BusyWorker DEF Aside, Writing, Finalize
<1>2. PICK e \in Enrollments : e = worker[w].e
  BY <1>1 DEF Busy
<1>3. PICK s \in Steps : s = worker[w].step
  BY <1>1 DEF Busy
<1>4. enr[e] \in Row /\ enr[e].step \in Nat /\ s \in Nat /\ s >= 1 /\ Channel[s] = "email"
  BY <1>0, <1>1, <1>3, RowsTyped DEF Steps, InboxInd, RightChannel, SendPC
<1>5. /\ Stop(w) /\ NoteWrite(w) /\ UNCHANGED <<tick, task, redrives>>
      /\ UNCHANGED <<suppressed, delivered, inbox, poll, request, brief, review>>
  BY DEF Aside, Writing, Finalize, histVars, inboxVars
<1>6. PICK n : n = IF worker[w].first THEN s ELSE enr[e].step
  OBVIOUS
<1>7. PICK row : row = [enr[e] EXCEPT !.state = "waiting", !.due = TRUE, !.step = n]
  OBVIOUS
<1>8. row.state = "waiting" /\ row.due /\ row.step = n
  BY <1>4, <1>7 DEF Row
<1>9. Write(e, row) /\ enr'[e] = row
  <2>1. Write(e, [enr[e] EXCEPT !.state = NextState("ready", "send_ok"), !.due = TRUE,
                                !.step = IF worker[w].first THEN worker[w].step ELSE enr[e].step])
    BY <1>1, <1>2 DEF Finalize
  <2>2. Write(e, row)
    BY <1>3, <1>6, <1>7, <2>1, MachineSteps
  <2> QED
    BY <1>0, <2>2, Written
<1>10. ASSUME ~Outdated(w)
       PROVE  LeadMoves(e)
  <2>1. enr[e].state = "ready" /\ AtLeastOne(enr[e].step) = s
    BY <1>1, <1>2, <1>3, <1>10 DEF Outdated, LoadedState
  <2>2. CASE redrives # 0
    BY <1>5, <1>8, <1>9, <2>1, <2>2 DEF LeadMoves, Unordered, Armed, Terminal
  <2>3. CASE e \in crossed
    BY <1>5, <2>3 DEF LeadMoves, NoteWrite
  <2>4. CASE redrives = 0 /\ e \notin crossed
    <3>1. IF worker[w].first THEN s = 1 ELSE s <= enr[e].step
      <4>1. NoneAhead(e)
        BY <2>4 DEF InboxInd, InStep
      <4> QED
        BY <1>1, <1>2, <1>3, <4>1 DEF NoneAhead, StepReached
    <3>2. n = s /\ (n = enr[e].step \/ (enr[e].step = 0 /\ n = 1))
      BY <1>4, <1>6, <2>1, <3>1 DEF AtLeastOne
    <3>3. Passed(enr[e], row)
      BY <1>4, <1>8, <2>1, <3>2 DEF Passed, Armed, Terminal, Between
    <3> QED
      BY <1>5, <1>9, <3>3 DEF LeadMoves, Passes, TasksStay
  <2> QED
    BY <2>2, <2>3, <2>4
<1>11. e \in brief
  BY <1>1, <1>2 DEF InboxInd, BriefFirst
<1>12. BriefMoves(e)
  BY <1>8, <1>9, <1>11 DEF BriefMoves
<1> QED
  BY <1>2, <1>5, <1>9, <1>10, <1>12, NotedInbox

(* The lead begins to wait for a person.  A task that comes late finds the *)
(* task of its step, unless an update of the lead was lost.                *)
LEMMA CreateInbox ==
    ASSUME ActTypeOK, InboxInd, NEW w \in Workers, Aside(CreateTask(w))
    PROVE  InboxMoves
<1>0. TypeOK /\ SequencerTypeOK /\ task \in [Keys -> TaskStatus]
  BY DEF ActTypeOK, TouchTypeOK, TypeOK
<1>1. CreateTask(w) /\ worker[w].pc = "touch" /\ worker[w] \in Busy
  BY <1>0, BusyWorker DEF Aside, CreateTask
<1>2. PICK e \in Enrollments : e = worker[w].e
  BY <1>1 DEF Busy
<1>3. PICK s \in Steps : s = worker[w].step
  BY <1>1 DEF Busy
<1>4. enr[e] \in Row /\ enr[e].step \in Nat /\ s \in Nat /\ s >= 1 /\ Channel[s] = "task"
  BY <1>0, <1>1, <1>3, RowsTyped DEF Steps, InboxInd, RightChannel
<1>5. /\ Stop(w) /\ NoteWrite(w) /\ UNCHANGED <<tick, redrives>>
      /\ UNCHANGED <<suppressed, delivered, inbox, poll, request, brief, review>>
  BY DEF Aside, CreateTask, sendVars, histVars, inboxVars
<1>6. PICK n : n = IF worker[w].first THEN s ELSE enr[e].step
  OBVIOUS
<1>7. PICK d : d = (s \in SkipOnExpire \/ (enr[e].due /\ w \notin armed))
  OBVIOUS
<1>8. PICK row : row = [enr[e] EXCEPT !.state = "awaiting_human_touch", !.step = n, !.due = d]
  OBVIOUS
<1>9. row.state = "awaiting_human_touch" /\ row.step = n
  BY <1>4, <1>8 DEF Row
<1>10. Write(e, row) /\ enr'[e] = row /\ ~Locked(e)
       /\ \A i \in Enrollments : i # e => enr'[i] = enr[i]
  <2>1. Write(e, [enr[e] EXCEPT !.state = NextState("ready", "task_created"),
                                !.step = IF worker[w].first THEN worker[w].step ELSE enr[e].step,
                                !.due = worker[w].step \in SkipOnExpire
                                        \/ (enr[e].due /\ w \notin armed)])
    BY <1>1, <1>2 DEF CreateTask
  <2>2. Write(e, row)
    BY <1>3, <1>6, <1>7, <1>8, <2>1, TouchStates
  <2> QED
    BY <1>0, <2>2, Written
<1>11. task[<<e, s>>] = "none" /\ task' = [task EXCEPT ![<<e, s>>] = "open"]
  BY <1>1, <1>2, <1>3 DEF CreateTask
<1>12. /\ task'[<<e, s>>] = "open"
       /\ \A i \in Enrollments, t \in Steps :
             <<i, t>> # <<e, s>> => task'[<<i, t>>] = task[<<i, t>>]
  BY <1>0, <1>11 DEF Keys
<1>13. crossed \subseteq crossed' /\ (enr' # enr /\ Outdated(w) => e \in crossed')
  BY <1>2, <1>5 DEF NoteWrite
<1>14. LeadMoves(e)
  <2>1. CASE redrives # 0
    <3>1. Armed(row) /\ "awaiting_human_touch" \notin Terminal
      BY <1>9 DEF Armed, Terminal
    <3>2. \A t \in Steps : task[<<e, t>>] \notin {"none", "open"} =>
             task'[<<e, t>>] = task[<<e, t>>]
      BY <1>11, <1>12
    <3>3. \/ e \in crossed'
          \/ enr'[e] = enr[e]
          \/ enr[e].state = "ready"
      BY <1>1, <1>2, <1>10, <1>13 DEF Outdated, LoadedState
    <3> QED
      BY <1>5, <1>10, <2>1, <3>1, <3>2, <3>3 DEF LeadMoves, Unordered, Terminal
  <2>2. CASE e \in crossed'
    BY <2>2 DEF LeadMoves
  <2>3. CASE redrives = 0 /\ e \notin crossed'
    <3>1. InStep(e)
      BY <1>13, <2>3 DEF InboxInd
    <3>2. IF worker[w].first THEN s = 1 ELSE s <= enr[e].step
      BY <1>1, <1>2, <1>3, <3>1 DEF InStep, NoneAhead, StepReached
    <3>3. ~Outdated(w)
      <4> SUFFICES ASSUME Outdated(w)
                   PROVE  FALSE
        OBVIOUS
      <4>1. enr[e] = row
        BY <1>10, <1>13, <2>3
      <4>2. enr[e].state = "awaiting_human_touch" /\ enr[e].step = n
        BY <1>9, <4>1
      <4>3. s <= enr[e].step
        BY <1>4, <1>6, <3>2, <4>2
      <4>4. task[<<e, s>>] # "none"
        BY <1>4, <3>1, <4>2, <4>3 DEF InStep, BehindHadTask, Touched
      <4> QED
        BY <1>11, <4>4
    <3>4. enr[e].state = "ready" /\ AtLeastOne(enr[e].step) = s
      BY <1>1, <1>2, <1>3, <3>3 DEF Outdated, LoadedState
    <3>5. n = s
      BY <1>4, <1>6, <3>2, <3>4 DEF AtLeastOne
    <3>6. Waits(e)
      BY <1>9, <1>10, <1>11, <1>12, <3>4, <3>5 DEF Waits
    <3> QED
      BY <3>6 DEF LeadMoves
  <2> QED
    BY <2>1, <2>2, <2>3
<1>15. e \in brief
  BY <1>1, <1>2 DEF InboxInd, BriefFirst
<1>16. BriefMoves(e)
  BY <1>9, <1>10, <1>15 DEF BriefMoves
<1>17. \A i \in Enrollments : MovesOn(i)
  <2>1. \A i \in Enrollments, t \in Steps : i # e => task'[<<i, t>>] = task[<<i, t>>]
    BY <1>12
  <2> QED
    BY <1>0, <1>5, <1>10, <1>14, <1>16, <2>1, WrittenMovesOn
<1> QED
  BY <1>0, <1>5, <1>13, <1>17, OthersStay, StoppedWorkers DEF InboxMoves

LEMMA WorkerInbox ==
    ASSUME ActTypeOK, InboxInd, NEW w \in Workers, Aside(TouchWorkerStep(w))
    PROVE  InboxMoves
<1>1. \/ Writing(w, WorkerStep(w))
      \/ TouchRejected(w) \/ CreateTask(w) \/ DuplicateTask(w)
  BY DEF Aside, TouchWorkerStep
<1>2. UNCHANGED inboxVars
  BY DEF Aside
<1>3. CASE Writing(w, WorkerStep(w))
  <2>1. WorkerStep(w) /\ NoteWrite(w) /\ UNCHANGED <<task, armed, request, clicks>>
    BY <1>3 DEF Writing
  <2>2. CASE Alone(FinishResearch(w)) \/ CopyRejected(w) \/ PresendSuppressed(w)
    <3>1. \/ Aside(Writing(w, Alone(FinishResearch(w))))
          \/ Aside(Writing(w, CopyRejected(w)))
          \/ Aside(Writing(w, PresendSuppressed(w)))
      BY <1>2, <2>1, <2>2 DEF Aside, Writing
    <3> QED
      BY <3>1, EndInbox
  <2>3. CASE Finalize(w)
    <3>1. Aside(Writing(w, Finalize(w)))
      BY <1>2, <2>1, <2>3 DEF Aside, Writing
    <3> QED
      BY <3>1, FinalizeInbox
  <2>4. CASE \/ Alone(TaskException(w)) \/ PresendBlocked(w) \/ Reserve(w) \/ Claim(w)
             \/ DuplicateClaim(w) \/ Deliver(w) \/ DeliverFailed(w)
    <3>1. \/ Aside(Writing(w, Alone(TaskException(w)))) \/ Aside(Writing(w, PresendBlocked(w)))
          \/ Aside(Writing(w, Reserve(w))) \/ Aside(Writing(w, Claim(w)))
          \/ Aside(Writing(w, DuplicateClaim(w))) \/ Aside(Writing(w, Deliver(w)))
          \/ Aside(Writing(w, DeliverFailed(w)))
      BY <1>2, <2>1, <2>4 DEF Aside, Writing
    <3> QED
      BY <3>1, QuietInbox
  <2> QED
    BY <2>1, <2>2, <2>3, <2>4 DEF WorkerStep
<1>4. CASE TouchRejected(w)
  BY <1>2, <1>4, EndInbox DEF Aside
<1>5. CASE CreateTask(w)
  BY <1>2, <1>5, CreateInbox DEF Aside
<1>6. CASE DuplicateTask(w)
  BY <1>2, <1>6, QuietInbox DEF Aside
<1> QED
  BY <1>1, <1>3, <1>4, <1>5, <1>6

-----------------------------------------------------------------------------
(* Persons *)

LEMMA Cancels ==
    ASSUME NEW e \in Enrollments, Cancel({e})
    PROVE  /\ TasksCancelled(e)
           /\ \A i \in Enrollments, s \in Steps : i # e => task'[<<i, s>>] = task[<<i, s>>]
<1>1. ASSUME NEW i \in Enrollments, NEW s \in Steps
      PROVE  task'[<<i, s>>] = IF i = e /\ task[<<i, s>>] = "open" THEN "cancelled"
                                                                  ELSE task[<<i, s>>]
  <2>1. <<i, s>> \in Keys /\ <<i, s>>[1] = i
    BY DEF Keys
  <2> QED
    BY <2>1 DEF Cancel
<1> QED
  BY <1>1 DEF TasksCancelled

LEMMA OthersGrow ==
    ASSUME UNCHANGED <<worker, brief, delivered>>,
           redrives' = redrives \/ redrives' = redrives + 1,
           suppressed \subseteq suppressed', crossed \subseteq crossed',
           review' \subseteq review \cup brief, MailMoves, RequestMoves
    PROVE  OtherMoves
BY SameWorkers DEF OtherMoves

LEMMA SameMovesOn ==
    ASSUME NEW e \in Enrollments, UNCHANGED <<enr, tick, brief>>, LeadMoves(e),
           \A i \in Enrollments, s \in Steps : i # e => task'[<<i, s>>] = task[<<i, s>>]
    PROVE  \A i \in Enrollments : MovesOn(i)
<1> SUFFICES ASSUME NEW i \in Enrollments
             PROVE  MovesOn(i)
  OBVIOUS
<1>1. LeadMoves(i)
  <2>1. CASE i = e
    BY <2>1
  <2>2. CASE i # e
    BY <2>2 DEF LeadMoves, Stays
  <2> QED
    BY <2>1, <2>2
<1> QED
  BY <1>1 DEF MovesOn, TickHolds, BriefMoves

(* A person suppresses the lead, or redrives it from the review queue.     *)
LEMMA PersonInbox ==
    ASSUME ActTypeOK, InboxInd, NEW e \in Enrollments, Aside(Beside(PersonStep(e)))
    PROVE  InboxMoves
<1>0. TypeOK /\ enr[e] \in Row /\ redrives \in Nat
  BY DEF ActTypeOK, TouchTypeOK, TypeOK, SequencerTypeOK
<1>1. PersonStep(e) /\ UNCHANGED <<task, crossed, request, inbox, poll>>
  BY DEF Aside, Beside, touchVars, inboxVars
<1>2. CASE Suppress(e)
  <2>1. /\ UNCHANGED <<enr, tick, worker, brief, review, redrives, delivered>>
        /\ suppressed \subseteq suppressed'
    BY <1>2 DEF Suppress, seqVars
  <2> QED
    BY <1>1, <2>1, OthersGrow, MailStays, RequestStays, NothingMoves DEF InboxMoves
<1>3. ASSUME NEW action \in {"retry", "skip", "kill"}, Alone(Redrive(e, action))
      PROVE  InboxMoves
  <2>1. /\ UNCHANGED <<tick, worker, brief, review, delivered, suppressed>>
        /\ redrives' = redrives + 1 /\ e \in review
    BY <1>3 DEF Alone, Redrive, sendVars, histVars
  <2>2. e \in brief
    BY <2>1, HasBrief
  <2>3. PICK row : /\ Write(e, row)
                   /\ \/ row = [enr[e] EXCEPT !.state = "error", !.due = FALSE]
                      \/ row = [enr[e] EXCEPT !.state = "ready", !.step = AtLeastOne(@),
                                              !.due = TRUE]
                      \/ row = [enr[e] EXCEPT !.state = "finished_no_reply", !.due = FALSE]
                      \/ row = [state |-> "ready", step |-> enr[e].step + 1, due |-> TRUE]
    BY <1>3, <2>2 DEF Alone, Redrive
  <2>4. row.state \in {"error", "ready", "finished_no_reply"}
    <3>1. /\ [enr[e] EXCEPT !.state = "error", !.due = FALSE].state = "error"
          /\ \A n : [enr[e] EXCEPT !.state = "ready", !.step = n, !.due = TRUE].state = "ready"
          /\ [enr[e] EXCEPT !.state = "finished_no_reply", !.due = FALSE].state =
                "finished_no_reply"
          /\ \A n : [state |-> "ready", step |-> n, due |-> TRUE].state = "ready"
      BY <1>0 DEF Row
    <3> QED
      BY <2>3, <3>1
  <2>5. enr'[e] = row
    BY <1>0, <2>3, Written
  <2>6. LeadMoves(e)
    BY <1>0, <1>1, <2>1, <2>4, <2>5 DEF LeadMoves, Unordered, Armed
  <2>7. BriefMoves(e)
    BY <2>2, <2>4, <2>5 DEF BriefMoves
  <2>8. \A i \in Enrollments : MovesOn(i)
    BY <1>0, <1>1, <2>1, <2>3, <2>6, <2>7, WrittenMovesOn
  <2> QED
    BY <1>1, <2>1, <2>8, OthersGrow, MailStays, RequestStays DEF InboxMoves
<1> QED
  BY <1>1, <1>2, <1>3 DEF PersonStep

(* A person looks at the task of a suppressed lead, or begins a request.   *)
LEMMA RequestInbox ==
    ASSUME ActTypeOK, InboxInd, NEW e \in Enrollments,
           \/ Aside(CancelSuppressed(e))
           \/ \E p \in Requests, s \in Steps, to \in Resolution : Aside(Click(p, <<e, s>>, to))
    PROVE  InboxMoves
<1>0. enr[e] \in Row /\ request \in [Requests -> Request \cup {NoRequest}]
  BY DEF ActTypeOK, TouchTypeOK, TypeOK, SequencerTypeOK
<1>1. UNCHANGED <<enr, tick, worker, brief, review, redrives, delivered, suppressed, crossed>>
      /\ UNCHANGED <<inbox, poll>>
  BY DEF Aside, CancelSuppressed, Click, vars, seqVars, sendVars, histVars, inboxVars
<1>2. CASE Aside(CancelSuppressed(e))
  <2>1. e \in suppressed /\ Cancel({e}) /\ UNCHANGED request
    BY <1>2 DEF Aside, CancelSuppressed
  <2>2. LeadMoves(e)
    BY <1>1, <2>1, Cancels DEF LeadMoves, Stays, TasksCancelled
  <2>3. \A i \in Enrollments : MovesOn(i)
    BY <1>1, <2>1, <2>2, Cancels, SameMovesOn
  <2> QED
    BY <1>1, <2>1, <2>3, OthersGrow, MailStays, RequestStays DEF InboxMoves
<1>3. ASSUME NEW p \in Requests, NEW s \in Steps, NEW to \in Resolution,
             Aside(Click(p, <<e, s>>, to))
      PROVE  InboxMoves
  <2>1. /\ Defined(enr[e].state, ResolveEvent[to]) /\ task' = task
        /\ request' = [request EXCEPT ![p] = [k |-> <<e, s>>, to |-> to, row |-> enr[e]]]
    BY <1>3 DEF Aside, Click
  <2>2. enr[e].state = "awaiting_human_touch"
    BY <1>0, <2>1, TouchStates DEF Resolution, Row
  <2>3. e \in brief
    BY <2>2, HasBrief
  <2>4. RequestMoves
    BY <1>0, <2>1, <2>2, <2>3 DEF RequestMoves
  <2> QED
    BY <1>1, <2>1, <2>4, OthersGrow, MailStays, NothingMoves DEF InboxMoves
<1> QED
  BY <1>2, <1>3

(* The request ends: the task it loaded is resolved, unless the lead or    *)
(* the task changed meanwhile.                                             *)
LEMMA ResolveInbox ==
    ASSUME ActTypeOK, InboxInd, NEW p \in Requests, Aside(Resolve(p))
    PROVE  InboxMoves
<1>0. /\ TypeOK /\ redrives \in Nat /\ task \in [Keys -> TaskStatus]
      /\ request \in [Requests -> Request \cup {NoRequest}]
  BY DEF ActTypeOK, TouchTypeOK, TypeOK, SequencerTypeOK
<1>1. /\ UNCHANGED <<tick, worker, brief, review, redrives, delivered, suppressed>>
      /\ UNCHANGED <<inbox, poll>>
      /\ request' = [request EXCEPT ![p] = NoRequest]
  BY DEF Aside, Resolve, sendVars, histVars, inboxVars
<1>2. request[p] # NoRequest /\ request[p] \in Request
  BY <1>0 DEF Aside, Resolve
<1>3. PICK e \in Enrollments, s \in Steps : request[p].k = <<e, s>>
  BY <1>2 DEF Request, Keys
<1>4. PICK to \in Resolution : request[p].to = to
  BY <1>2 DEF Request
<1>5. enr[e] \in Row
  BY <1>0 DEF TypeOK, SequencerTypeOK
<1>6. PICK row : row = [enr[e] EXCEPT !.state = "waiting", !.due = TRUE]
  OBVIOUS
<1>7. row.state = "waiting" /\ row.due /\ row.step = enr[e].step
  BY <1>5, <1>6 DEF Row
<1>8. Write(e, row)
  <2>1. Write(e, [enr[e] EXCEPT !.state = NextState(enr[e].state, ResolveEvent[to]), !.due = TRUE])
    BY <1>3, <1>4 DEF Aside, Resolve
  <2> QED
    BY <1>6, <2>1, TouchStates DEF Resolution
<1>9. enr'[e] = row
  BY <1>0, <1>8, Written
<1>10. /\ task'[<<e, s>>] = to
       /\ \A i \in Enrollments, t \in Steps :
             <<i, t>> # <<e, s>> => task'[<<i, t>>] = task[<<i, t>>]
  <2>1. task' = [task EXCEPT ![<<e, s>>] = to]
    BY <1>3, <1>4 DEF Aside, Resolve
  <2> QED
    BY <1>0, <2>1 DEF Keys
<1>11. crossed' = IF enr[e] # request[p].row \/ task[<<e, s>>] # "open"
                  THEN crossed \cup {e} ELSE crossed
  BY <1>3 DEF Aside, Resolve
<1>12. e \in brief /\ request[p].row.state = "awaiting_human_touch"
  BY <1>2, <1>3 DEF InboxInd, BriefFirst
<1>13. LeadMoves(e)
  <2>1. CASE e \in crossed'
    BY <2>1 DEF LeadMoves
  <2>2. CASE e \notin crossed'
    <3>1. enr[e].state = "awaiting_human_touch" /\ task[<<e, s>>] = "open" /\ e \notin crossed
      BY <1>11, <1>12, <2>2
    <3>2. CASE redrives # 0
      BY <1>1, <1>7, <1>9, <1>10, <3>1, <3>2 DEF LeadMoves, Unordered, Armed, Terminal
    <3>3. CASE redrives = 0
      <4>1. enr[e].step = s
        BY <3>1, <3>3 DEF InboxInd, InStep, TaskMatches
      <4>2. Resolves(e)
        BY <1>7, <1>9, <1>10, <3>1, <4>1 DEF Resolves
      <4> QED
        BY <4>2 DEF LeadMoves
    <3> QED
      BY <3>2, <3>3
  <2> QED
    BY <2>1, <2>2
<1>14. BriefMoves(e)
  BY <1>7, <1>9, <1>12 DEF BriefMoves
<1>15. \A i \in Enrollments : MovesOn(i)
  <2>1. \A i \in Enrollments, t \in Steps : i # e => task'[<<i, t>>] = task[<<i, t>>]
    BY <1>10
  <2> QED
    BY <1>0, <1>1, <1>8, <1>13, <1>14, <2>1, WrittenMovesOn
<1>16. RequestMoves
  BY <1>0, <1>1 DEF RequestMoves
<1>17. crossed \subseteq crossed'
  BY <1>11
<1> QED
  BY <1>1, <1>15, <1>16, <1>17, OthersGrow, MailStays DEF InboxMoves

-----------------------------------------------------------------------------
(* Beat jobs and failures *)

LEMMA BeatInbox ==
    ASSUME ActTypeOK, InboxInd,
           \/ \E k \in Keys : Aside(Beside(SweepUnsent(k)))
           \/ Aside(Beside(DailyReset)) \/ Aside(Beside(Failure))
    PROVE  InboxMoves
<1>0. TypeOK
  BY DEF ActTypeOK, TouchTypeOK
<1>1. UNCHANGED <<task, crossed, request, inbox, poll>>
  BY DEF Aside, Beside, touchVars, inboxVars
<1>2. ASSUME NEW k \in Keys, Aside(Beside(SweepUnsent(k)))
      PROVE  InboxMoves
  <2>1. PICK e \in Enrollments : e = k[1]
    BY DEF Keys
  <2>2. /\ UNCHANGED <<tick, worker, brief, review, redrives, delivered, suppressed>>
        /\ IF enr[e].state = "ready" THEN Write(e, [enr[e] EXCEPT !.due = TRUE])
                                     ELSE UNCHANGED enr
    BY <1>2, <2>1 DEF Aside, Beside, SweepUnsent
  <2>3. CASE enr' = enr
    BY <1>1, <2>2, <2>3, NothingMoves, OthersStay, SameWorkers DEF InboxMoves
  <2>4. CASE enr[e].state = "ready" /\ Write(e, [enr[e] EXCEPT !.due = TRUE])
    <3>1. enr[e] \in Row
      BY <1>0 DEF TypeOK, SequencerTypeOK
    <3>2. PICK row : row = [enr[e] EXCEPT !.due = TRUE]
      OBVIOUS
    <3>3. row.state = "ready" /\ row.step = enr[e].step /\ Write(e, row)
      BY <2>4, <3>1, <3>2 DEF Row
    <3>4. enr'[e] = row
      BY <1>0, <3>3, Written
    <3>5. Passes(e)
      BY <1>1, <2>4, <3>3, <3>4 DEF Passes, Passed, Armed, Between, Terminal, TasksStay
    <3>6. BriefMoves(e)
      BY <2>4, <3>3, <3>4, HasBrief DEF BriefMoves
    <3>7. \A i \in Enrollments : MovesOn(i)
      BY <1>0, <1>1, <2>2, <3>3, <3>5, <3>6, WrittenMovesOn DEF LeadMoves
    <3> QED
      BY <1>1, <2>2, <3>7, OthersStay, SameWorkers DEF InboxMoves
  <2> QED
    BY <2>2, <2>3, <2>4
<1>3. CASE Aside(Beside(DailyReset))
  <2>1. UNCHANGED <<enr, tick, worker, brief, review, redrives, delivered, suppressed>>
    BY <1>3 DEF Aside, Beside, DailyReset, seqVars
  <2> QED
    BY <1>1, <2>1, NothingMoves, OthersStay, SameWorkers DEF InboxMoves
<1>4. CASE Aside(Beside(Failure))
  <2>1. Failure
    BY <1>4 DEF Aside, Beside
  <2>2. UNCHANGED <<enr, brief, review, redrives, delivered, suppressed>>
    BY <2>1 DEF Failure, Alone, TickCrash, RedisLost, Redeliver, Crash, sendVars, histVars
  <2>3. \A w \in Workers : WorkerMoves(w)
    <3>1. worker' = worker \/ \E w \in Workers : Stop(w)
      BY <2>1 DEF Failure, Alone, TickCrash, RedisLost, Redeliver, Crash
    <3> QED
      BY <1>0, <3>1, SameWorkers, StoppedWorkers
  <2>4. \A e \in Enrollments : tick'[e] = tick[e] \/ tick'[e] = NoRow
    BY <2>1 DEF Failure, Alone, TickCrash, RedisLost, Redeliver, Crash
  <2>5. \A e \in Enrollments : MovesOn(e)
    BY <1>1, <2>2, <2>4 DEF MovesOn, LeadMoves, Stays, TickHolds, BriefMoves
  <2> QED
    BY <1>1, <2>2, <2>3, <2>5, OthersStay DEF InboxMoves
<1> QED
  BY <1>2, <1>3, <1>4

-----------------------------------------------------------------------------
(* The poll, a verdict, a booking *)

LEMMA MailInbox ==
    ASSUME ActTypeOK, InboxInd,
           (\E m \in Mails : Arrive(m) \/ Poll(m)) \/ PollUnsure \/ PollFails
    PROVE  InboxMoves
<1>0. inbox \in [Mails -> MailStatus] /\ BriefFirst
  BY DEF ActTypeOK, InboxInd
<1>1. ASSUME UNCHANGED <<enr, tick, task, worker, brief, delivered, crossed, redrives, request>>,
             suppressed \subseteq suppressed', review' \subseteq review \cup brief, MailMoves
      PROVE  InboxMoves
  BY <1>1, OthersGrow, RequestStays, NothingMoves DEF InboxMoves
<1>2. ASSUME NEW m \in Mails, Arrive(m)
      PROVE  InboxMoves
  <2>1. LeadOf(m) \in brief
    <3>1. PICK e \in Enrollments, s \in Steps : ReplyTo[m] = <<e, s>>
      BY DEF Keys
    <3>2. LeadOf(m) = e /\ delivered[<<e, s>>] # 0
      BY <1>2, <3>1 DEF LeadOf, Arrive
    <3> QED
      BY <1>0, <3>2 DEF BriefFirst, Unbriefed
  <2>2. inbox' = [inbox EXCEPT ![m] = "unseen"] /\ poll' = poll
    BY <1>2 DEF Arrive
  <2>3. MailMoves
    BY <1>0, <2>1, <2>2 DEF MailMoves
  <2> QED
    BY <1>1, <1>2, <2>3 DEF Arrive, allVars, vars, seqVars, sendVars, histVars, touchVars
<1>3. ASSUME NEW m \in Mails, Poll(m)
      PROVE  InboxMoves
  <2>1. /\ inbox[m] = "unseen"
        /\ \E status \in {"seen", "ignored"} : inbox' = [inbox EXCEPT ![m] = status]
        /\ poll' = poll \/ poll' = [m |-> m, row |-> enr[LeadOf(m)]]
    BY <1>3 DEF Poll
  <2>2. MailMoves
    BY <1>0, <2>1 DEF MailMoves
  <2> QED
    BY <1>1, <1>3, <2>2 DEF Poll, allVars, vars, seqVars, sendVars, histVars, touchVars
<1>4. ASSUME NEW status, PollEnds(status)
      PROVE  MailMoves /\ LeadOf(poll.m) \in brief
  BY <1>0, <1>4 DEF MailMoves, BriefFirst, PollEnds
<1>5. CASE PollUnsure
  <2>1. MailMoves /\ LeadOf(poll.m) \in brief
    BY <1>4, <1>5 DEF PollUnsure
  <2>2. suppressed \subseteq suppressed' /\ review' \subseteq review \cup brief
    BY <1>5, <2>1 DEF PollUnsure, OptOut
  <2> QED
    BY <1>1, <1>5, <2>1, <2>2 DEF PollUnsure, touchVars
<1>6. CASE PollFails
  <2>1. MailMoves
    BY <1>4, <1>6 DEF PollFails
  <2> QED
    BY <1>1, <1>6, <2>1 DEF PollFails, sendVars, histVars, touchVars
<1> QED
  BY <1>2, <1>3, <1>5, <1>6

(* What a classified reply makes of the row it loaded.                     *)
LEMMA AppliedMoves ==
    ASSUME NEW row, NEW label \in AllLabels, NEW dated \in BOOLEAN, NEW new,
           new = Applied(row, label, dated)
    PROVE  /\ new.step = row.step /\ (new.state # "queued" \/ new.state = row.state)
           /\ new.state # row.state \/ row.state \notin {"waiting", "awaiting_human_touch"}
           /\ new.state \notin {"waiting", "awaiting_human_touch"}
           /\ row.state \in Terminal => new.state = row.state
           /\ new.state = "ooo_rescheduled" =>
                 row.state \in {"waiting", "awaiting_human_touch", "ooo_rescheduled"}
<1>1. /\ new.step = row.step
      /\ new.state = IF Defined(row.state, LabelToEvent[label])
                     THEN NextState(row.state, LabelToEvent[label]) ELSE row.state
  BY DEF Applied
<1> QED
  BY <1>1, LabelMoves

(* A confident classification: the lead leaves the person who was to act,  *)
(* moves on, or is left alone; a row that changed meanwhile is noted.      *)
LEMMA ClassifyMoves ==
    ASSUME ActTypeOK, InboxInd, NEW e \in Enrollments, e \in brief, NEW row \in Row,
           NEW label \in Labels, NEW dated \in BOOLEAN,
           NEW keyword \in BOOLEAN, Classify(e, row, label, dated, keyword),
           UNCHANGED <<tick, brief>>
    PROVE  \A i \in Enrollments : MovesOn(i)
<1>0. TypeOK /\ label \in AllLabels /\ enr[e].state # "queued"
  BY DEF ActTypeOK, TouchTypeOK, InboxInd, BriefFirst
<1>1. enr[e] \in Row
  BY <1>0 DEF TypeOK, SequencerTypeOK
<1>2. PICK new : new = Applied(row, label, dated)
  OBVIOUS
<1>3. /\ new.step = row.step /\ (new.state # "queued" \/ new.state = row.state)
      /\ new.state # row.state \/ row.state \notin {"waiting", "awaiting_human_touch"}
      /\ new.state \notin {"waiting", "awaiting_human_touch"}
      /\ row.state \in Terminal => new.state = row.state
      /\ new.state = "ooo_rescheduled" =>
            row.state \in {"waiting", "awaiting_human_touch", "ooo_rescheduled"}
  BY <1>0, <1>2, AppliedMoves
<1>4. PICK d : d = (dated /\ label = "ooo")
  OBVIOUS
<1>5. PICK m : m = Merge(row, new, enr[e], d)
  OBVIOUS
<1>6. m.step = enr[e].step /\ m.state = IF new.state # row.state THEN new.state ELSE enr[e].state
  BY <1>1, <1>5 DEF Merge, Row
<1>7. WriteChanged(e, m)
  BY <1>2, <1>4, <1>5 DEF Classify
<1>8. enr'[e] = m
  BY <1>0, <1>7, Written DEF WriteChanged
<1>9. /\ crossed' = IF enr[e] # row THEN crossed \cup {e} ELSE crossed
      /\ IF row.state = "awaiting_human_touch" /\ new.state # row.state
         THEN Cancel({e}) ELSE UNCHANGED task
  BY <1>2 DEF Classify, Orphaned
<1>10. LeadMoves(e)
  <2>1. CASE enr[e] # row
    BY <1>9, <2>1 DEF LeadMoves
  <2>2. CASE enr[e] = row /\ row.state = "awaiting_human_touch"
    <3>1. TasksCancelled(e)
      BY <1>3, <1>9, <2>2, Cancels
    <3> QED
      BY <1>0, <1>3, <1>6, <1>8, <2>2, <3>1 DEF LeadMoves, Leaves
  <2>3. CASE enr[e] = row /\ row.state # "awaiting_human_touch"
    <3>1. m.state = new.state /\ m.step = row.step
      BY <1>6, <2>3
    <3>2. Passed(row, m)
      BY <1>0, <1>3, <2>3, <3>1 DEF Passed, Armed, Between
    <3> QED
      BY <1>8, <1>9, <2>3, <3>2 DEF LeadMoves, Passes, TasksStay
  <2> QED
    BY <2>1, <2>2, <2>3
<1>11. BriefMoves(e)
  BY <1>0, <1>3, <1>6, <1>8 DEF BriefMoves
<1>12. \A i \in Enrollments, s \in Steps : i # e => task'[<<i, s>>] = task[<<i, s>>]
  BY <1>9, Cancels
<1>13. CASE enr' = enr
  BY <1>10, <1>12, <1>13, SameMovesOn
<1>14. CASE Write(e, m)
  BY <1>0, <1>10, <1>11, <1>12, <1>14, WrittenMovesOn
<1> QED
  BY <1>7, <1>13, <1>14 DEF WriteChanged

LEMMA VerdictInbox ==
    ASSUME ActTypeOK, InboxInd,
           \/ PollConfident
           \/ \E m \in Mails, label \in Labels : Reclassify(m, label)
    PROVE  InboxMoves
<1>0. TypeOK /\ BriefFirst /\ inbox \in [Mails -> MailStatus]
  BY DEF ActTypeOK, TouchTypeOK, InboxInd
<1>1. ASSUME NEW e \in Enrollments, e \in brief, NEW row \in Row, NEW label \in Labels,
             NEW dated \in BOOLEAN, NEW keyword \in BOOLEAN,
             Classify(e, row, label, dated, keyword), MailMoves,
             UNCHANGED <<tick, worker, brief, delivered, redrives, request>>
      PROVE  InboxMoves
  <2>1. \A i \in Enrollments : MovesOn(i)
    BY <1>1, ClassifyMoves
  <2>2. /\ suppressed \subseteq suppressed' /\ crossed \subseteq crossed'
        /\ review' \subseteq review \cup brief
    BY <1>1 DEF Classify, OptOut
  <2> QED
    BY <1>1, <2>1, <2>2, OthersGrow, RequestStays DEF InboxMoves
<1>2. CASE PollConfident
  <2>1. poll \in Polling /\ poll # NoPoll
    BY <1>2 DEF PollConfident, PollEnds, ActTypeOK
  <2>2. poll.row \in Row /\ LeadOf(poll.m) \in Enrollments /\ LeadOf(poll.m) \in brief
    BY <1>0, <2>1, LeadIs DEF Polling, BriefFirst
  <2>3. MailMoves
    BY <1>0, <1>2, <2>2 DEF PollConfident, PollEnds, MailMoves
  <2>4. PICK label \in Labels, dated \in BOOLEAN, keyword \in BOOLEAN :
           Classify(LeadOf(poll.m), poll.row, label, dated, keyword)
    BY <1>2 DEF PollConfident
  <2> QED
    BY <1>1, <1>2, <2>2, <2>3, <2>4 DEF PollConfident
<1>3. ASSUME NEW m \in Mails, NEW label \in Labels, Reclassify(m, label)
      PROVE  InboxMoves
  <2>1. LeadOf(m) \in Enrollments /\ enr[LeadOf(m)] \in Row
    BY <1>0, LeadIs DEF TypeOK, SequencerTypeOK
  <2>2. LeadOf(m) \in brief
    BY <1>0, <1>3 DEF Reclassify, BriefFirst
  <2>3. PICK keyword \in BOOLEAN : Classify(LeadOf(m), enr[LeadOf(m)], label, FALSE, keyword)
    BY <1>3 DEF Reclassify
  <2>4. UNCHANGED <<tick, worker, brief, delivered, redrives, request, inbox, poll>>
    BY <1>3 DEF Reclassify
  <2> QED
    BY <1>1, <2>1, <2>2, <2>3, <2>4, MailStays
<1> QED
  BY <1>2, <1>3

LEMMA BookingInbox ==
    ASSUME ActTypeOK, InboxInd, NEW e \in Enrollments, MeetingBooked(e)
    PROVE  InboxMoves
<1>0. TypeOK /\ enr[e] \in Row
  BY DEF ActTypeOK, TouchTypeOK, TypeOK, SequencerTypeOK
<1>1. /\ UNCHANGED <<tick, worker, brief, review, delivered, suppressed, crossed, redrives>>
      /\ UNCHANGED <<request, inbox, poll>>
  BY DEF MeetingBooked, sendVars, histVars, inboxVars
<1>2. e \in brief
  <2>1. enr[e].state \notin {"queued", "researching", "error"}
    BY DEF MeetingBooked, Defined, Sources, Replied
  <2> QED
    BY <2>1, HasBrief
<1>3. PICK row : row = [enr[e] EXCEPT !.state = "meeting_booked", !.due = FALSE]
  OBVIOUS
<1>4. row.state = "meeting_booked" /\ row.step = enr[e].step
  BY <1>0, <1>3 DEF Row
<1>5. Write(e, row)
  <2>1. Write(e, [enr[e] EXCEPT !.state = NextState(enr[e].state, "meeting_booked"),
                                !.due = FALSE])
    BY DEF MeetingBooked
  <2> QED
    BY <1>3, <2>1, TouchStates
<1>6. enr'[e] = row
  BY <1>0, <1>5, Written
<1>7. IF enr[e].state = "awaiting_human_touch" THEN Cancel({e}) ELSE UNCHANGED task
  BY DEF MeetingBooked
<1>8. LeadMoves(e)
  <2>1. CASE enr[e].state = "awaiting_human_touch"
    BY <1>4, <1>6, <1>7, <2>1, Cancels DEF LeadMoves, Leaves
  <2>2. CASE enr[e].state # "awaiting_human_touch"
    BY <1>4, <1>6, <1>7, <2>2 DEF LeadMoves, Passes, Passed, Armed, Between, Terminal, TasksStay
  <2> QED
    BY <2>1, <2>2
<1>9. BriefMoves(e)
  BY <1>2, <1>4, <1>6 DEF BriefMoves
<1>10. \A i \in Enrollments, s \in Steps : i # e => task'[<<i, s>>] = task[<<i, s>>]
  BY <1>7, Cancels
<1>11. \A i \in Enrollments : MovesOn(i)
  BY <1>0, <1>1, <1>5, <1>8, <1>9, <1>10, WrittenMovesOn
<1> QED
  BY <1>1, <1>11, OthersGrow, MailStays, RequestStays DEF InboxMoves

-----------------------------------------------------------------------------
(* All steps, and what follows                                             *)

LEMMA SameInbox ==
    ASSUME UNCHANGED inboxAllVars
    PROVE  InboxMoves
<1>1. /\ UNCHANGED <<enr, tick, task, worker, brief, review, redrives, delivered>>
      /\ UNCHANGED <<suppressed, crossed, request, inbox, poll>>
  BY DEF inboxAllVars, allVars, vars, seqVars, sendVars, histVars, touchVars, inboxVars
<1> QED
  BY <1>1, NothingMoves, OthersStay, SameWorkers DEF InboxMoves

LEMMA InboxStep ==
    ASSUME ActTypeOK, InboxInd, [InboxAct]_inboxAllVars
    PROVE  InboxMoves
<1>1. CASE UNCHANGED inboxAllVars
  BY <1>1, SameInbox
<1>2. CASE Aside(TouchNext)
  <2>1. UNCHANGED inboxVars
    BY <1>2 DEF Aside
  <2>2. ASSUME NEW e \in Enrollments, TouchTickStep(e) \/ TouchPersonStep(e)
        PROVE  InboxMoves
    <3>1. CASE TouchTickStep(e)
      BY <2>1, <3>1, TickInbox DEF Aside
    <3>2. CASE Beside(PersonStep(e))
      BY <2>1, <3>2, PersonInbox DEF Aside
    <3>3. CASE CancelSuppressed(e)
      BY <2>1, <3>3, RequestInbox DEF Aside
    <3>4. CASE \E p \in Requests, s \in Steps, to \in Resolution : Click(p, <<e, s>>, to)
      BY <2>1, <3>4, RequestInbox DEF Aside
    <3> QED
      BY <2>2, <3>1, <3>2, <3>3, <3>4 DEF TouchPersonStep
  <2>3. CASE TouchTickCommit
    BY <2>1, <2>3, CommitInbox DEF Aside
  <2>4. ASSUME NEW w \in Workers, TouchWorkerStep(w)
        PROVE  InboxMoves
    BY <2>1, <2>4, WorkerInbox DEF Aside
  <2>5. ASSUME NEW w \in Workers, NEW e \in Enrollments, NEW n \in 0..MaxRetries,
               TouchTakeJob(w, e, n)
        PROVE  InboxMoves
    BY <2>1, <2>5, TakeInbox DEF Aside
  <2>6. ASSUME NEW p \in Requests, Resolve(p)
        PROVE  InboxMoves
    BY <2>1, <2>6, ResolveInbox DEF Aside
  <2>7. CASE \/ \E k \in Keys : Beside(SweepUnsent(k))
             \/ Beside(DailyReset) \/ Beside(Failure)
    BY <2>1, <2>7, BeatInbox DEF Aside
  <2>8. TouchNext
    BY <1>2 DEF Aside
  <2> QED
    BY <2>2, <2>3, <2>4, <2>5, <2>6, <2>7, <2>8 DEF TouchNext
<1>3. CASE \/ \E m \in Mails : Arrive(m) \/ Poll(m)
           \/ PollUnsure \/ PollFails
  BY <1>3, MailInbox
<1>4. CASE PollConfident \/ \E m \in Mails, label \in Labels : Reclassify(m, label)
  BY <1>4, VerdictInbox
<1>5. CASE \E e \in Enrollments : MeetingBooked(e)
  BY <1>5, BookingInbox
<1> QED
  BY <1>1, <1>2, <1>3, <1>4, <1>5 DEF InboxAct

LEMMA InitInd == InboxInit => InboxInd
<1> SUFFICES ASSUME InboxInit
             PROVE  InboxInd
  OBVIOUS
<1>1. /\ \A e \in Enrollments : enr[e] = [state |-> "queued", step |-> 0, due |-> TRUE]
      /\ \A e \in Enrollments : ~Locked(e)
      /\ \A w \in Workers : worker[w] = [pc |-> "idle"]
      /\ brief = {} /\ review = {} /\ redrives = 0
  BY DEF InboxInit, TouchInit, Init, SequencerInit, Locked, IdleWorker
<1>2. /\ \A e \in Enrollments, s \in Steps : task[<<e, s>>] = "none" /\ delivered[<<e, s>>] = 0
      /\ \A m \in Mails : inbox[m] = "unsent"
      /\ \A p \in Requests : request[p] = NoRequest
      /\ poll = NoPoll
  BY DEF InboxInit, TouchInit, Init, Keys
<1>3. TickedRows /\ WaitingStaysArmed
  BY <1>1 DEF TickedRows, WaitingStaysArmed
<1>4. \A w \in Workers : RightChannel(w)
  BY <1>1 DEF RightChannel, SendPC
<1>5. BriefFirst
  BY <1>1, <1>2 DEF BriefFirst, Unbriefed
<1>6. ASSUME NEW e \in Enrollments
      PROVE  InStep(e)
  <2>1. TaskMatches(e) /\ NoneAhead(e)
    BY <1>1, <1>2 DEF TaskMatches, NoneAhead
  <2>2. BehindHadTask(e)
    BY <1>1 DEF BehindHadTask, Touched, Between, Steps
  <2> QED
    BY <2>1, <2>2 DEF InStep
<1> QED
  BY <1>3, <1>4, <1>5, <1>6 DEF InboxInd

LEMMA InboxStands == InboxSpec => [](ActTypeOK /\ InboxInd)
<1>1. InboxInit => ActTypeOK /\ InboxInd
  BY ActInitType, InitInd
<1>2. ActTypeOK /\ InboxInd /\ [InboxNext]_leadVars => (ActTypeOK /\ InboxInd)'
  BY ActStep, ActNextType, InboxStep, IndStep
<1> QED
  BY <1>1, <1>2, PTL DEF InboxSpec

(* Tasks and leads agree, and a queued or waiting lead keeps its timer,    *)
(* whatever ticks, tasks, people, replies and bookings do to it, unless an *)
(* update of the lead was lost or somebody redrove one.                    *)
THEOREM InboxHolds == InboxSpec => []InboxInv
<1>1. InboxInd => TaskMatchesLead /\ WaitingStaysArmed
  BY InSteps DEF InboxInd
<1>2. InboxTypeOK /\ InboxInd => InboxInv
  BY <1>1 DEF InboxInv
<1> QED
  BY <1>2, InboxStands, InboxTyped, PTL

(* No task still running, request, reply or booking brings a finished lead *)
(* back into the sequence, but for one that loaded the lead before it      *)
(* finished, and a person's redrive.                                       *)
THEOREM FinishedStays == InboxSpec => FinishedStaysFinished
<1>1. ASSUME ActTypeOK, InboxInd, InboxMoves, NEW e \in Enrollments,
             enr[e].state \in Terminal, enr'[e].state \notin Terminal
      PROVE  e \in crossed' \/ redrives' > redrives
  <2>1. LeadMoves(e) /\ TickedRows
    BY <1>1 DEF InboxMoves, MovesOn, InboxInd
  <2>2. CASE Commits(e)
    BY <1>1, <2>1, <2>2 DEF Commits, TickedRows, Ticked, Advanced, Terminal
  <2>3. CASE Stays(e) \/ Passes(e)
    BY <1>1, <2>3 DEF Stays, Passes, Passed
  <2>4. CASE Waits(e) \/ Resolves(e) \/ Leaves(e)
    BY <1>1, <2>4 DEF Waits, Resolves, Leaves, Terminal
  <2> QED
    BY <1>1, <2>1, <2>2, <2>3, <2>4 DEF LeadMoves, Unordered
<1>2. ActTypeOK /\ InboxInd /\ [InboxNext]_leadVars =>
         [\A e \in Enrollments : enr[e].state \in Terminal /\ enr'[e].state \notin Terminal =>
             e \in crossed' \/ redrives' > redrives]_allVars
  BY <1>1, ActStep, InboxStep
<1> QED
  BY <1>2, InboxStands, PTL DEF InboxSpec, FinishedStaysFinished

-----------------------------------------------------------------------------
(* Resolutions.  TaskResolvedOnce counts those that resolve a task against *)
(* those that had read it as open.  Inductive is the sum of resolutions    *)
(* and holders: it only grows past one with a rival.                       *)

Unresolved(k) == task[k] \in {"none", "open"}

SettledInv ==
    \A k \in Keys :
       /\ Unresolved(k) => settled[k] = 0
       /\ settled[k] + Holders(k) <= 1 + rivals[k]

(* A row a tick holds is written by its commit alone, and no tick but an   *)
(* expiry takes hold of a lead that awaits a person.                       *)
HoldsKept ==
    \A e \in Enrollments :
       /\ enr'[e] = enr[e] \/ ~Locked(e)
       /\ \/ tick'[e] \in {tick[e], NoRow}
          \/ enr'[e] = enr[e] /\ enr[e].state # "awaiting_human_touch"

(* How a step may treat a task: nobody begins or ends to resolve it, a     *)
(* request or a tick begins to, or one of them ends.                       *)
ExpiryKept(k) == (Expiring(k)' => Expiring(k)) /\ (Expiring(k) => enr'[k[1]] = enr[k[1]])

AskingKept(k) == Asking(k)' = Asking(k)

TaskKept(k) ==
    \/ task'[k] = task[k]
    \/ task[k] = "none" /\ task'[k] = "open"
    \/ task[k] = "open" /\ task'[k] = "cancelled"

Rests(k) == AskingKept(k) /\ ExpiryKept(k) /\ TaskKept(k)

RequestJoins(k) ==
    /\ ExpiryKept(k) /\ task[k] = "open" /\ task'[k] = "open"
    /\ \E p \in Requests : request[p] = NoRequest /\ Asking(k)' = Asking(k) \cup {p}

RequestLeaves(k) ==
    /\ ExpiryKept(k) /\ task'[k] \in Resolution
    /\ \E p \in Asking(k) : request'[p] = NoRequest /\ Asking(k)' = Asking(k) \ {p}

ExpiryJoins(k) ==
    /\ AskingKept(k) /\ ~Expiring(k)
    /\ task[k] = "open" /\ task'[k] = "open"

ExpiryLeaves(k) ==
    /\ AskingKept(k) /\ Expiring(k) /\ ~Expiring(k)'
    /\ enr'[k[1]] # enr[k[1]] /\ task'[k] = "expired"

Resolving(k) ==
    \/ Rests(k) \/ RequestJoins(k) \/ RequestLeaves(k)
    \/ ExpiryJoins(k) \/ ExpiryLeaves(k)

LEMMA AskingFinite ==
    ASSUME NEW k
    PROVE  IsFiniteSet(Asking(k)) /\ Cardinality(Asking(k)) \in Nat
           /\ IsFiniteSet(Asking(k)') /\ Cardinality(Asking(k)') \in Nat
<1>1. IsFiniteSet(Requests) /\ Asking(k) \subseteq Requests /\ Asking(k)' \subseteq Requests
  BY DEF Asking
<1>2. IsFiniteSet(Asking(k)) /\ IsFiniteSet(Asking(k)')
  BY <1>1, FS_Subset
<1> QED
  BY <1>2, FS_CardinalityType

(* Such a step keeps the sum.                                              *)
LEMMA ResolvingStep ==
    ASSUME settled \in [Keys -> Nat], rivals \in [Keys -> Nat], NEW k \in Keys,
           Unresolved(k) => settled[k] = 0, settled[k] + Holders(k) <= 1 + rivals[k],
           Resolving(k), NoteSettling
    PROVE  /\ Unresolved(k)' => settled'[k] = 0
           /\ settled'[k] + Holders(k)' <= 1 + rivals'[k]
<1> DEFINE c == Cardinality(Asking(k))
           d == Cardinality(Asking(k)')
           x == IF Expiring(k) THEN 1 ELSE 0
           y == IF Expiring(k)' THEN 1 ELSE 0
           S == settled[k]
           R == rivals[k]
<1>1. c \in Nat /\ d \in Nat /\ x \in {0, 1} /\ y \in {0, 1} /\ S \in Nat /\ R \in Nat
  BY AskingFinite
<1>2. Holders(k) = c + x /\ Holders(k)' = d + y
  BY DEF Holders
<1>3. S + (c + x) <= 1 + R
  BY <1>2
<1>4. /\ settled'[k] = IF Settles(k) THEN S + 1 ELSE S
      /\ rivals'[k] = IF Joins(k) /\ c + x > 0 THEN R + 1 ELSE R
  BY <1>2 DEF NoteSettling
<1>5. AskingKept(k) => d = c
  BY DEF AskingKept
<1>6. ExpiryKept(k) => y <= x
  BY DEF ExpiryKept
<1>7. Unresolved(k) => S = 0
  OBVIOUS
<1>8. CASE Rests(k)
  <2>1. \A p \in Asking(k) : request'[p] # NoRequest
    BY <1>8 DEF Rests, AskingKept, Asking
  <2>2. Settles(k) <=> Cancelled(k)
    BY <1>8, <2>1 DEF Rests, ExpiryKept, Settles
  <2>3. Cancelled(k) => Joins(k)
    BY DEF Joins
  <2>4. CASE Cancelled(k)
    <3>1. task[k] = "open" /\ task'[k] = "cancelled"
      BY <1>8, <2>4 DEF Rests, TaskKept, Cancelled
    <3>2. S = 0 /\ ~Unresolved(k)'
      BY <1>7, <3>1 DEF Unresolved
    <3>3. settled'[k] = 1 /\ rivals'[k] = IF c + x > 0 THEN R + 1 ELSE R
      BY <1>4, <2>2, <2>3, <2>4, <3>2
    <3>4. d = c /\ y <= x
      BY <1>5, <1>6, <1>8 DEF Rests
    <3> HIDE DEF c, d, x, y, S, R
    <3>5. 1 + (d + y) <= 1 + IF c + x > 0 THEN R + 1 ELSE R
      BY <1>1, <1>3, <3>2, <3>4
    <3> QED
      BY <1>2, <3>2, <3>3, <3>5
  <2>5. CASE ~Cancelled(k)
    <3>1. Unresolved(k)' => Unresolved(k)
      BY <1>8 DEF Rests, TaskKept, Unresolved
    <3>2. settled'[k] = S /\ rivals'[k] \in {R, R + 1}
      BY <1>4, <2>2, <2>5
    <3>3. d = c /\ y <= x
      BY <1>5, <1>6, <1>8 DEF Rests
    <3> HIDE DEF c, d, x, y, S, R
    <3> QED
      BY <1>1, <1>2, <1>3, <1>7, <3>1, <3>2, <3>3
  <2> QED
    BY <2>4, <2>5
<1>9. CASE RequestJoins(k)
  <2>1. PICK p \in Requests : request[p] = NoRequest /\ Asking(k)' = Asking(k) \cup {p}
    BY <1>9 DEF RequestJoins
  <2>2. p \notin Asking(k) /\ p \in Asking(k)'
    BY <2>1 DEF Asking
  <2>3. d = c + 1
    BY <2>1, <2>2, AskingFinite, FS_AddElement
  <2>4. Joins(k)
    BY <2>1, <2>2 DEF Joins
  <2>5. ~Settles(k)
    <3>1. \A q \in Asking(k) : request'[q] # NoRequest
      BY <2>1 DEF Asking
    <3> QED
      BY <1>9, <3>1 DEF RequestJoins, ExpiryKept, Cancelled, Settles
  <2>6. S = 0 /\ y <= x
    BY <1>6, <1>7, <1>9 DEF RequestJoins, Unresolved
  <2>7. settled'[k] = 0 /\ rivals'[k] = IF c + x > 0 THEN R + 1 ELSE R
    BY <1>4, <2>4, <2>5, <2>6
  <2> HIDE DEF c, d, x, y, S, R
  <2>8. 0 + (d + y) <= 1 + IF c + x > 0 THEN R + 1 ELSE R
    BY <1>1, <1>3, <2>3, <2>6
  <2> QED
    BY <1>2, <2>7, <2>8
<1>10. CASE RequestLeaves(k)
  <2>1. PICK p \in Asking(k) : request'[p] = NoRequest /\ Asking(k)' = Asking(k) \ {p}
    BY <1>10 DEF RequestLeaves
  <2>2. d = c - 1
    <3>1. IsFiniteSet(Asking(k)) /\ p \in Asking(k)
      BY <2>1, AskingFinite
    <3>2. Cardinality(Asking(k) \ {p}) = Cardinality(Asking(k)) - 1
      BY <3>1, FS_RemoveElement
    <3> QED
      BY <2>1, <3>2
  <2>3. Settles(k)
    BY <2>1 DEF Settles
  <2>4. y <= x /\ ~Unresolved(k)'
    BY <1>6, <1>10 DEF RequestLeaves, Unresolved, Resolution
  <2>5. settled'[k] = S + 1 /\ rivals'[k] \in {R, R + 1}
    BY <1>4, <2>3
  <2> HIDE DEF c, d, x, y, S, R
  <2> QED
    BY <1>1, <1>2, <1>3, <2>2, <2>4, <2>5
<1>11. CASE ExpiryJoins(k)
  <2>1. S = 0 /\ d = c /\ x = 0
    BY <1>5, <1>7, <1>11 DEF ExpiryJoins, Unresolved
  <2>2. ~Settles(k)
    <3>1. \A q \in Asking(k) : request'[q] # NoRequest
      BY <1>11 DEF ExpiryJoins, AskingKept, Asking
    <3> QED
      BY <1>11, <3>1 DEF ExpiryJoins, Cancelled, Settles
  <2>3. y = 1 => Joins(k)
    BY <1>11 DEF ExpiryJoins, Joins
  <2>4. settled'[k] = 0 /\ rivals'[k] \in {R, R + 1}
    BY <1>4, <2>1, <2>2
  <2>5. y = 1 => rivals'[k] = IF c + x > 0 THEN R + 1 ELSE R
    BY <1>4, <2>3
  <2> HIDE DEF c, d, x, y, S, R
  <2>6. CASE y = 1
    <3>1. 0 + (d + y) <= 1 + IF c + x > 0 THEN R + 1 ELSE R
      BY <1>1, <1>3, <2>1, <2>6
    <3> QED
      BY <1>2, <2>4, <2>5, <2>6, <3>1
  <2>7. CASE y = 0
    BY <1>1, <1>2, <1>3, <2>1, <2>4, <2>7
  <2> QED
    BY <1>1, <2>6, <2>7
<1>12. CASE ExpiryLeaves(k)
  <2>1. d = c /\ x = 1 /\ y = 0 /\ ~Unresolved(k)' /\ Settles(k)
    BY <1>5, <1>12 DEF ExpiryLeaves, Unresolved, Settles
  <2>2. settled'[k] = S + 1 /\ rivals'[k] \in {R, R + 1}
    BY <1>4, <2>1
  <2> HIDE DEF c, d, x, y, S, R
  <2> QED
    BY <1>1, <1>2, <1>3, <2>1, <2>2
<1> QED
  BY <1>8, <1>9, <1>10, <1>11, <1>12 DEF Resolving


-----------------------------------------------------------------------------
(* What every action does to the tasks and those who resolve them          *)

LEMMA WriteKeeps ==
    ASSUME ActTypeOK, NEW e, NEW row, Write(e, row), tick' = tick
    PROVE  HoldsKept
<1>1. enr \in [Enrollments -> Row] /\ ~Locked(e) /\ enr' = [enr EXCEPT ![e] = row]
  BY DEF Write, ActTypeOK, TouchTypeOK, TypeOK, SequencerTypeOK
<1>2. \A i \in Enrollments : i # e => enr'[i] = enr[i]
  BY <1>1
<1> QED
  BY <1>1, <1>2 DEF HoldsKept

LEMMA SameKeeps ==
    ASSUME enr' = enr, \A e \in Enrollments : tick'[e] \in {tick[e], NoRow}
    PROVE  HoldsKept
BY DEF HoldsKept

LEMMA HoldsKeepExpiry ==
    ASSUME HoldsKept, NEW k \in Keys
    PROVE  ExpiryKept(k)
<1>1. PICK e \in Enrollments : e = k[1]
  BY DEF Keys
<1>2. /\ enr'[e] = enr[e] \/ ~Locked(e)
      /\ \/ tick'[e] \in {tick[e], NoRow}
         \/ enr'[e] = enr[e] /\ enr[e].state # "awaiting_human_touch"
  BY DEF HoldsKept
<1>3. Expiring(k) => enr'[k[1]] = enr[k[1]]
  BY <1>1, <1>2 DEF Expiring
<1>4. Expiring(k)' => Expiring(k)
  BY <1>1, <1>2 DEF Expiring, Locked
<1> QED
  BY <1>3, <1>4 DEF ExpiryKept

LEMMA RequestKeeps ==
    ASSUME request' = request, NEW k
    PROVE  AskingKept(k)
BY DEF AskingKept, Asking

LEMMA AllRest ==
    ASSUME HoldsKept, request' = request, \A k \in Keys : TaskKept(k)
    PROVE  \A k \in Keys : Resolving(k)
BY HoldsKeepExpiry, RequestKeeps DEF Resolving, Rests

LEMMA CancelKeeps ==
    ASSUME NEW S, Cancel(S), NEW k \in Keys
    PROVE  TaskKept(k)
BY DEF Cancel, TaskKept

(* The e-mail steps.                                                       *)
LEMMA SendKeeps ==
    ASSUME ActTypeOK,
           \/ \E e \in Enrollments : TickStep(e) \/ PersonStep(e)
           \/ \E w \in Workers :
                 \/ WorkerStep(w)
                 \/ \E e \in Enrollments, n \in 0..MaxRetries : TakeJob(w, e, n)
           \/ \E k \in Keys : SweepUnsent(k)
           \/ DailyReset \/ Failure
    PROVE  HoldsKept
<1>0. TypeOK
  BY DEF ActTypeOK, TouchTypeOK
<1>1. ASSUME NEW e \in Enrollments, TickStep(e)
      PROVE  HoldsKept
  <2>1. /\ enr' = enr /\ Advanced(enr[e], tick'[e])
        /\ \A i \in Enrollments : i # e => tick'[i] = tick[i]
    BY <1>0, <1>1, TickMoves
  <2>2. enr[e].state # "awaiting_human_touch"
    BY <2>1 DEF Advanced
  <2> QED
    BY <2>1, <2>2 DEF HoldsKept
<1>2. ASSUME NEW e \in Enrollments, PersonStep(e)
      PROVE  HoldsKept
  BY <1>2, WriteKeeps, SameKeeps DEF PersonStep, Suppress, Alone, Redrive, seqVars
<1>3. ASSUME NEW w \in Workers, WorkerStep(w)
      PROVE  HoldsKept
  <2>1. CASE Alone(FinishResearch(w)) \/ Alone(TaskException(w))
    BY <2>1, WriteKeeps, SameKeeps DEF Alone, FinishResearch, TaskException
  <2>2. CASE CopyRejected(w) \/ PresendSuppressed(w) \/ PresendBlocked(w) \/ Reserve(w)
    BY <2>2, WriteKeeps, SameKeeps DEF CopyRejected, PresendSuppressed, PresendBlocked, Reserve
  <2>3. CASE Claim(w) \/ DuplicateClaim(w) \/ Deliver(w) \/ DeliverFailed(w) \/ Finalize(w)
    BY <2>3, WriteKeeps, SameKeeps DEF Claim, DuplicateClaim, Deliver, DeliverFailed, Finalize
  <2> QED
    BY <1>3, <2>1, <2>2, <2>3 DEF WorkerStep
<1>4. ASSUME NEW w \in Workers, NEW e \in Enrollments, NEW n \in 0..MaxRetries, TakeJob(w, e, n)
      PROVE  HoldsKept
  BY <1>4, WriteKeeps, SameKeeps
  DEF TakeJob, Alone, StartResearch, Discard, StartSend, StartRefused, Reroute
<1>5. ASSUME NEW k \in Keys, SweepUnsent(k)
      PROVE  HoldsKept
  BY <1>5, WriteKeeps, SameKeeps DEF SweepUnsent
<1>6. CASE DailyReset
  BY <1>6, SameKeeps DEF DailyReset, seqVars
<1>7. CASE Failure
  <2>1. enr' = enr
    BY <1>7 DEF Failure, Alone, TickCrash, RedisLost, Redeliver, Crash
  <2>2. \A e \in Enrollments : tick'[e] \in {tick[e], NoRow}
    BY <1>7 DEF Failure, Alone, TickCrash, RedisLost, Redeliver, Crash
  <2> QED
    BY <2>1, <2>2, SameKeeps
<1> QED
  BY <1>1, <1>2, <1>3, <1>4, <1>5, <1>6, <1>7

(* The tick reads an open task, and commits what it made of it.            *)
LEMMA ExpiryResolves ==
    ASSUME ActTypeOK, NEW e \in Enrollments, TickExpire(e), NEW k \in Keys
    PROVE  Resolving(k)
<1>0. tick \in [Enrollments -> Row \cup {NoRow}] /\ enr[e] \in Row
  BY DEF ActTypeOK, TouchTypeOK, TypeOK, SequencerTypeOK
<1>1. /\ ~Locked(e) /\ enr' = enr /\ task' = task /\ request' = request
      /\ enr[e].state = "awaiting_human_touch"
  BY DEF TickExpire, Due, touchVars
<1>2. PICK row : tick' = [tick EXCEPT ![e] = row]
                 /\ (row.state = "waiting" => OpenAt(e, enr[e].step))
  <2>1. CASE OpenAt(e, enr[e].step)
    BY <2>1 DEF TickExpire, Hold
  <2>2. CASE ~OpenAt(e, enr[e].step)
    <3>1. tick' = [tick EXCEPT ![e] = [enr[e] EXCEPT !.due = FALSE]]
      BY <2>2 DEF TickExpire, Hold
    <3>2. [enr[e] EXCEPT !.due = FALSE].state = "awaiting_human_touch"
      BY <1>0, <1>1 DEF Row
    <3> QED
      BY <3>1, <3>2
  <2> QED
    BY <2>1, <2>2
<1>3. PICK i \in Enrollments, s \in Steps : k = <<i, s>>
  BY DEF Keys
<1>4. AskingKept(k) /\ TaskKept(k)
  BY <1>1, RequestKeeps DEF TaskKept
<1>5. CASE i # e \/ k[2] # enr[e].step
  <2>1. Expiring(k)' => Expiring(k)
    BY <1>0, <1>1, <1>2, <1>3, <1>5 DEF Expiring, Locked
  <2> QED
    BY <1>1, <1>4, <2>1 DEF Resolving, Rests, ExpiryKept
<1>6. CASE i = e /\ k[2] = enr[e].step
  <2>1. ~Expiring(k)
    BY <1>1, <1>3, <1>6 DEF Expiring
  <2>2. CASE task[k] = "open"
    BY <1>1, <1>4, <2>1, <2>2 DEF Resolving, ExpiryJoins
  <2>3. CASE task[k] # "open"
    <3>1. ~OpenAt(e, enr[e].step)
      BY <1>3, <1>6, <2>3 DEF OpenAt
    <3>2. tick'[e].state # "waiting"
      BY <1>0, <1>2, <3>1
    <3>3. ~Expiring(k)'
      BY <1>3, <1>6, <3>2 DEF Expiring
    <3> QED
      BY <1>1, <1>4, <3>3 DEF Resolving, Rests, ExpiryKept
  <2> QED
    BY <2>2, <2>3
<1> QED
  BY <1>5, <1>6, <1>3

LEMMA CommitResolves ==
    ASSUME ActTypeOK, TouchTickCommit, NEW k \in Keys
    PROVE  Resolving(k)
<1>1. PICK S \in SUBSET {e \in Enrollments : Locked(e)} :
         /\ enr' = [e \in Enrollments |-> IF e \in S THEN tick[e] ELSE enr[e]]
         /\ tick' = [e \in Enrollments |-> IF e \in S THEN NoRow ELSE tick[e]]
  BY DEF TouchTickCommit, TickCommit
<1>2. /\ task'[k] = IF Expiring(k) /\ tick'[k[1]] = NoRow THEN "expired" ELSE task[k]
      /\ request' = request
  BY DEF TouchTickCommit
<1>3. PICK e \in Enrollments, s \in Steps : k = <<e, s>>
  BY DEF Keys
<1>4. AskingKept(k)
  BY <1>2, RequestKeeps
<1>5. CASE e \in S
  <2>1. ~Expiring(k)' /\ enr'[e] = tick[e] /\ tick'[e] = NoRow
    BY <1>1, <1>3, <1>5 DEF Expiring, Locked
  <2>2. CASE Expiring(k)
    <3>1. enr'[k[1]] # enr[k[1]]
      BY <1>3, <2>1, <2>2 DEF Expiring
    <3> QED
      BY <1>2, <1>3, <1>4, <2>1, <2>2, <3>1 DEF Resolving, ExpiryLeaves
  <2>3. CASE ~Expiring(k)
    BY <1>2, <1>4, <2>1, <2>3 DEF Resolving, Rests, ExpiryKept, TaskKept
  <2> QED
    BY <2>2, <2>3
<1>6. CASE e \notin S
  <2>1. enr'[e] = enr[e] /\ tick'[e] = tick[e]
    BY <1>1, <1>6
  <2>2. Expiring(k)' <=> Expiring(k)
    BY <1>3, <2>1 DEF Expiring, Locked
  <2>3. task'[k] = task[k]
    BY <1>2, <1>3, <2>1 DEF Expiring, Locked
  <2> QED
    BY <1>3, <1>4, <2>1, <2>2, <2>3 DEF Resolving, Rests, ExpiryKept, TaskKept
<1> QED
  BY <1>5, <1>6

(* A request reads an open task, and ends.                                 *)
LEMMA ClickResolves ==
    ASSUME ActTypeOK, NEW p \in Requests, NEW e \in Enrollments, NEW s \in Steps,
           NEW to \in Resolution, Click(p, <<e, s>>, to), NEW k \in Keys
    PROVE  Resolving(k)
<1>1. /\ UNCHANGED <<enr, tick, task>>
      /\ request[p] = NoRequest /\ task[<<e, s>>] = "open"
  BY DEF Click, vars, seqVars
<1>2. PICK r : r = [k |-> <<e, s>>, to |-> to, row |-> enr[e]]
  OBVIOUS
<1>3. request' = [request EXCEPT ![p] = r] /\ r.k = <<e, s>> /\ r # NoRequest
  <2>1. request' = [request EXCEPT ![p] = r]
    BY <1>2 DEF Click
  <2>2. r.k = <<e, s>> /\ r.to = to
    BY <1>2
  <2>3. to # "none" /\ NoRequest.to = "none"
    BY DEF Resolution, NoRequest
  <2> QED
    BY <2>1, <2>2, <2>3
<1>4. request \in [Requests -> Request \cup {NoRequest}]
  BY DEF ActTypeOK, TouchTypeOK
<1>5. ExpiryKept(k) /\ task'[k] = task[k]
  BY <1>1, SameKeeps, HoldsKeepExpiry
<1>6. request'[p] = r /\ \A q \in Requests : q # p => request'[q] = request[q]
  BY <1>3, <1>4
<1>7. CASE k = <<e, s>>
  <2>1. Asking(k)' = Asking(k) \cup {p}
    BY <1>1, <1>3, <1>6, <1>7 DEF Asking
  <2> QED
    BY <1>1, <1>5, <1>7, <2>1 DEF Resolving, RequestJoins
<1>8. CASE k # <<e, s>>
  <2>1. Asking(k)' = Asking(k)
    BY <1>1, <1>3, <1>6, <1>8 DEF Asking
  <2> QED
    BY <1>5, <2>1 DEF Resolving, Rests, AskingKept, TaskKept
<1> QED
  BY <1>7, <1>8

LEMMA ResolveResolves ==
    ASSUME ActTypeOK, NEW p \in Requests, Resolve(p), NEW k \in Keys
    PROVE  Resolving(k)
<1>1. request \in [Requests -> Request \cup {NoRequest}] /\ task \in [Keys -> TaskStatus]
  BY DEF ActTypeOK, TouchTypeOK
<1>2. request[p] # NoRequest /\ request[p] \in Request
  BY <1>1 DEF Resolve
<1>3. PICK i \in Keys, to \in Resolution : request[p].k = i /\ request[p].to = to
  BY <1>2 DEF Request
<1>4. /\ task' = [task EXCEPT ![i] = to]
      /\ request' = [request EXCEPT ![p] = NoRequest]
      /\ tick' = tick
  BY <1>3 DEF Resolve
<1>5. ExpiryKept(k)
  <2>1. HoldsKept
    BY <1>4, WriteKeeps DEF Resolve
  <2> QED
    BY <2>1, HoldsKeepExpiry
<1>6. request'[p] = NoRequest /\ \A q \in Requests : q # p => request'[q] = request[q]
  BY <1>1, <1>4
<1>7. CASE k = i
  <2>1. p \in Asking(k) /\ Asking(k)' = Asking(k) \ {p}
    BY <1>2, <1>3, <1>6, <1>7 DEF Asking
  <2>2. task'[k] \in Resolution
    BY <1>1, <1>4, <1>7
  <2> QED
    BY <1>5, <1>6, <2>1, <2>2 DEF Resolving, RequestLeaves
<1>8. CASE k # i
  <2>1. Asking(k)' = Asking(k)
    BY <1>2, <1>3, <1>6, <1>8 DEF Asking
  <2>2. task'[k] = task[k]
    BY <1>1, <1>4, <1>8
  <2> QED
    BY <1>5, <2>1, <2>2 DEF Resolving, Rests, AskingKept, TaskKept
<1> QED
  BY <1>7, <1>8

(* Everything else leaves the requests alone and resolves nothing, but for *)
(* the open tasks of a lead that leaves them.                              *)
LEMMA TouchRests ==
    ASSUME ActTypeOK,
           \/ \E w \in Workers : TouchRejected(w) \/ CreateTask(w) \/ DuplicateTask(w)
           \/ \E w \in Workers, e \in Enrollments, n \in 0..MaxRetries :
                 \/ Beside(Alone(Discard(w, "touch", "ready", e, n)))
                 \/ StartTouch(w, e, n) \/ TouchRefused(w, e, n)
           \/ \E e \in Enrollments : CancelSuppressed(e)
    PROVE  \A k \in Keys : Resolving(k)
<1>1. ASSUME NEW w \in Workers, TouchRejected(w) \/ DuplicateTask(w)
      PROVE  \A k \in Keys : Resolving(k)
  <2>1. HoldsKept
    BY <1>1, WriteKeeps, SameKeeps DEF TouchRejected, DuplicateTask
  <2>2. task' = task /\ request' = request
    BY <1>1 DEF TouchRejected, DuplicateTask, touchVars
  <2> QED
    BY <2>1, <2>2, AllRest DEF TaskKept
<1>2. ASSUME NEW w \in Workers, CreateTask(w)
      PROVE  \A k \in Keys : Resolving(k)
  <2>1. HoldsKept
    BY <1>2, WriteKeeps DEF CreateTask
  <2>2. PICK i : i = <<worker[w].e, worker[w].step>>
    OBVIOUS
  <2>3. task[i] = "none" /\ task' = [task EXCEPT ![i] = "open"] /\ request' = request
    BY <1>2, <2>2 DEF CreateTask
  <2>4. task \in [Keys -> TaskStatus]
    BY DEF ActTypeOK, TouchTypeOK
  <2>5. \A k \in Keys : TaskKept(k)
    BY <2>3, <2>4 DEF TaskKept
  <2> QED
    BY <2>1, <2>3, <2>5, AllRest
<1>3. ASSUME NEW w \in Workers, NEW e \in Enrollments, NEW n \in 0..MaxRetries,
             \/ Beside(Alone(Discard(w, "touch", "ready", e, n)))
             \/ StartTouch(w, e, n) \/ TouchRefused(w, e, n)
      PROVE  \A k \in Keys : Resolving(k)
  <2>1. HoldsKept
    BY <1>3, WriteKeeps, SameKeeps DEF Beside, Alone, Discard, StartTouch, TouchRefused
  <2>2. task' = task /\ request' = request
    BY <1>3 DEF Beside, StartTouch, TouchRefused, touchVars
  <2> QED
    BY <2>1, <2>2, AllRest DEF TaskKept
<1>4. ASSUME NEW e \in Enrollments, CancelSuppressed(e)
      PROVE  \A k \in Keys : Resolving(k)
  <2>1. HoldsKept /\ request' = request
    BY <1>4, SameKeeps DEF CancelSuppressed, vars, seqVars
  <2> QED
    BY <1>4, <2>1, AllRest, CancelKeeps DEF CancelSuppressed
<1> QED
  BY <1>1, <1>2, <1>3, <1>4

LEMMA InboxRests ==
    ASSUME ActTypeOK,
           \/ \E e \in Enrollments : MeetingBooked(e)
           \/ \E m \in Mails : Arrive(m) \/ Poll(m)
           \/ \E m \in Mails, label \in Labels : Reclassify(m, label)
           \/ PollConfident \/ PollUnsure \/ PollFails
    PROVE  \A k \in Keys : Resolving(k)
<1>1. ASSUME NEW e, NEW row, NEW label, NEW dated, NEW keyword,
             Classify(e, row, label, dated, keyword), tick' = tick, request' = request
      PROVE  \A k \in Keys : Resolving(k)
  <2>1. HoldsKept
    BY <1>1, WriteKeeps, SameKeeps DEF Classify, WriteChanged
  <2>2. \A k \in Keys : TaskKept(k)
    <3>1. task' = task \/ Cancel({e})
      BY <1>1 DEF Classify
    <3> QED
      BY <3>1, CancelKeeps DEF TaskKept
  <2> QED
    BY <1>1, <2>1, <2>2, AllRest
<1>2. ASSUME NEW e \in Enrollments, MeetingBooked(e)
      PROVE  \A k \in Keys : Resolving(k)
  <2>1. HoldsKept /\ request' = request
    BY <1>2, WriteKeeps DEF MeetingBooked
  <2>2. \A k \in Keys : TaskKept(k)
    <3>1. task' = task \/ Cancel({e})
      BY <1>2 DEF MeetingBooked
    <3> QED
      BY <3>1, CancelKeeps DEF TaskKept
  <2> QED
    BY <2>1, <2>2, AllRest
<1>3. ASSUME NEW m \in Mails, NEW label \in Labels, Reclassify(m, label)
      PROVE  \A k \in Keys : Resolving(k)
  BY <1>1, <1>3 DEF Reclassify
<1>4. CASE PollConfident
  BY <1>1, <1>4 DEF PollConfident
<1>5. CASE (\E m \in Mails : Arrive(m) \/ Poll(m)) \/ PollUnsure \/ PollFails
  <2>1. UNCHANGED <<enr, tick, task, request>>
    BY <1>5 DEF Arrive, Poll, PollUnsure, PollFails, allVars, vars, seqVars, touchVars
  <2> QED
    BY <2>1, SameKeeps, AllRest DEF TaskKept
<1> QED
  BY <1>2, <1>3, <1>4, <1>5

LEMMA ActResolves ==
    ASSUME ActTypeOK, InboxAct
    PROVE  \A k \in Keys : Resolving(k)
<1>1. ASSUME HoldsKept, UNCHANGED <<task, request>>
      PROVE  \A k \in Keys : Resolving(k)
  BY <1>1, AllRest DEF TaskKept
<1>2. CASE TouchNext
  <2>1. ASSUME NEW e \in Enrollments, TouchTickStep(e)
        PROVE  \A k \in Keys : Resolving(k)
    BY <1>1, <2>1, SendKeeps, ExpiryResolves DEF TouchTickStep, Beside, touchVars
  <2>2. ASSUME NEW e \in Enrollments, TouchPersonStep(e)
        PROVE  \A k \in Keys : Resolving(k)
    <3>1. CASE Beside(PersonStep(e))
      BY <1>1, <3>1, SendKeeps DEF Beside, touchVars
    <3>2. CASE CancelSuppressed(e)
      BY <3>2, TouchRests
    <3>3. CASE \E p \in Requests, s \in Steps, to \in Resolution : Click(p, <<e, s>>, to)
      BY <3>3, ClickResolves
    <3> QED
      BY <2>2, <3>1, <3>2, <3>3 DEF TouchPersonStep
  <2>3. CASE TouchTickCommit
    BY <2>3, CommitResolves
  <2>4. ASSUME NEW w \in Workers, TouchWorkerStep(w)
        PROVE  \A k \in Keys : Resolving(k)
    <3>1. CASE Writing(w, WorkerStep(w))
      BY <1>1, <3>1, SendKeeps DEF Writing
    <3> QED
      BY <2>4, <3>1, TouchRests DEF TouchWorkerStep
  <2>5. ASSUME NEW w \in Workers, NEW e \in Enrollments, NEW n \in 0..MaxRetries,
               TouchTakeJob(w, e, n)
        PROVE  \A k \in Keys : Resolving(k)
    <3>1. CASE Beside(TakeJob(w, e, n))
      BY <1>1, <3>1, SendKeeps DEF Beside, touchVars
    <3> QED
      BY <2>5, <3>1, TouchRests DEF TouchTakeJob
  <2>6. ASSUME NEW p \in Requests, Resolve(p)
        PROVE  \A k \in Keys : Resolving(k)
    BY <2>6, ResolveResolves
  <2>7. CASE (\E k \in Keys : Beside(SweepUnsent(k))) \/ Beside(DailyReset) \/ Beside(Failure)
    BY <1>1, <2>7, SendKeeps DEF Beside, touchVars
  <2> QED
    BY <1>2, <2>1, <2>2, <2>3, <2>4, <2>5, <2>6, <2>7 DEF TouchNext
<1> QED
  BY <1>2, InboxRests DEF InboxAct, Aside

(* Whatever the interleaving of requests, ticks, replies and bookings, a   *)
(* task is resolved at most once but for the rivals that had read it as    *)
(* open, or cancelled it, while another was resolving it.                  *)
THEOREM ResolvedOnce == InboxSpec => []TaskResolvedOnce
<1>1. InboxInit => SettledInv
  <2> SUFFICES ASSUME InboxInit
               PROVE  SettledInv
    OBVIOUS
  <2>1. ASSUME NEW k \in Keys
        PROVE  settled[k] = 0 /\ rivals[k] = 0 /\ Holders(k) = 0
    <3>1. settled[k] = 0 /\ rivals[k] = 0
      BY DEF InboxInit
    <3>2. Asking(k) = {}
      BY DEF InboxInit, TouchInit, Asking
    <3>3. ~Expiring(k)
      <4>1. k[1] \in Enrollments
        BY DEF Keys
      <4> QED
        BY <4>1 DEF InboxInit, TouchInit, Init, SequencerInit, Expiring, Locked
    <3> QED
      BY <3>1, <3>2, <3>3, FS_EmptySet DEF Holders
  <2> QED
    BY <2>1 DEF SettledInv
<1>2. ASSUME InboxTypeOK, SettledInv, [InboxNext]_leadVars
      PROVE  SettledInv'
  <2>0. settled \in [Keys -> Nat] /\ rivals \in [Keys -> Nat] /\ ActTypeOK
    BY <1>2 DEF InboxTypeOK, ActTypeOK
  <2>1. CASE UNCHANGED leadVars
    BY <1>2, <2>1
    DEF SettledInv, Unresolved, Holders, Asking, Expiring, Locked,
        leadVars, inboxAllVars, allVars, vars, seqVars, touchVars
  <2>2. CASE InboxNext
    <3>1. \A k \in Keys : Resolving(k)
      BY <2>0, <2>2, ActResolves DEF InboxNext
    <3>2. ASSUME NEW k \in Keys
          PROVE  /\ Unresolved(k)' => settled'[k] = 0
                 /\ settled'[k] + Holders(k)' <= 1 + rivals'[k]
      BY <1>2, <2>0, <2>2, <3>1, ResolvingStep DEF InboxNext, SettledInv
    <3> QED
      BY <3>2 DEF SettledInv
  <2> QED
    BY <1>2, <2>1, <2>2
<1>3. InboxTypeOK /\ SettledInv => TaskResolvedOnce
  <2> SUFFICES ASSUME InboxTypeOK, SettledInv, NEW k \in Keys
               PROVE  settled[k] <= 1 + rivals[k]
    BY DEF TaskResolvedOnce
  <2>1. settled[k] \in Nat /\ rivals[k] \in Nat /\ Cardinality(Asking(k)) \in Nat
    BY AskingFinite DEF InboxTypeOK
  <2>2. Holders(k) \in Nat
    BY <2>1 DEF Holders
  <2> QED
    BY <2>1, <2>2 DEF SettledInv
<1> QED
  BY <1>1, <1>2, <1>3, InboxTyped, PTL DEF InboxSpec

=============================================================================
