------------------------- MODULE ReplyDraft_proofs -------------------------
(***************************************************************************)
(* Proofs about ReplyDraft, for every set of replies and processes and     *)
(* every bound.                                                            *)
(***************************************************************************)
EXTENDS ReplyDraft, FiniteSetTheorems, TLAPS

USE ReplyDraftAssumption

-----------------------------------------------------------------------------
(* What the helpers return *)

LEMMA BusyProc ==
    ASSUME TypeOK, NEW p \in Procs, proc[p].pc # "idle"
    PROVE  /\ proc[p] \in Busy
           /\ proc[p].d \in Replies /\ proc[p].n \in 0..MaxRetries
           /\ proc[p].auto \in BOOLEAN /\ proc[p].edited \in BOOLEAN
BY DEF TypeOK, Idle, Busy

LEMMA StopType ==
    ASSUME TypeOK, NEW p \in Procs, Stop(p)
    PROVE  proc' \in [Procs -> Busy \cup {Idle}]
BY DEF TypeOK, Stop

LEMMA GotoType ==
    ASSUME TypeOK, NEW p \in Procs, proc[p] \in Busy,
           NEW pc \in {"generate", "dispatch"} \cup Dispatching, Goto(p, pc)
    PROVE  proc' \in [Procs -> Busy \cup {Idle}]
<1>1. [proc[p] EXCEPT !.pc = pc] \in Busy
  BY DEF Busy
<1>2. proc' = [proc EXCEPT ![p] = [proc[p] EXCEPT !.pc = pc]]
  BY DEF Goto, TypeOK
<1> QED
  BY <1>1, <1>2 DEF TypeOK

LEMMA SetStatusType ==
    ASSUME TypeOK, NEW d \in Replies, NEW status \in Status, SetStatus(d, status)
    PROVE  draft' \in [Replies -> Draft]
<1>1. [draft[d] EXCEPT !.status = status] \in Draft
  BY DEF TypeOK, Draft
<1>2. draft' = [draft EXCEPT ![d] = [draft[d] EXCEPT !.status = status]]
  BY DEF SetStatus, TypeOK
<1> QED
  BY <1>1, <1>2 DEF TypeOK

LEMMA ReleaseType ==
    ASSUME TypeOK, NEW d \in Replies, NEW status \in Status, Release(d, status)
    PROVE  draft' \in [Replies -> Draft]
BY DEF TypeOK, Release, Draft

LEMMA AcceptedType ==
    ASSUME TypeOK, NEW p \in Procs, proc[p] \in Busy, Accepted(p)
    PROVE  mails' \in [Replies -> Nat] /\ autoMails' \in Nat /\ late' \in Nat
<1>1. proc[p].d \in Replies
  BY DEF Busy
<1> QED
  BY <1>1 DEF Accepted, TypeOK

LEMMA WrittenOffType ==
    ASSUME TypeOK, NEW p \in Procs, proc[p] \in Busy, WrittenOff(p)
    PROVE  unconfirmed' \in [Replies -> Nat] /\ autoUnconfirmed' \in Nat
<1>1. proc[p].d \in Replies
  BY DEF Busy
<1> QED
  BY <1>1 DEF WrittenOff, TypeOK

LEMMA QueueType ==
    ASSUME TypeOK, NEW j \in Job
    PROVE  /\ [queue EXCEPT ![j] = @ + 1] \in [Job -> Nat]
           /\ queue[j] > 0 => [queue EXCEPT ![j] = @ - 1] \in [Job -> Nat]
BY DEF TypeOK

LEMMA PublishType ==
    ASSUME TypeOK, NEW d \in Replies, Publish(d)
    PROVE  queue' \in [Job -> Nat]
<1>1. [d |-> d, n |-> 0] \in Job
  BY DEF Job
<1> QED
  BY <1>1, QueueType DEF Publish

-----------------------------------------------------------------------------
(* Type correctness *)

LEMMA OutsideType ==
    ASSUME TypeOK, NEW d \in Replies,
           Poll(d) \/ PollCommit(d) \/ Reclassify(d) \/ DiscardDraft(d)
    PROVE  TypeOK'
<1>1. CASE Poll(d)
  BY <1>1, PublishType DEF Poll, TypeOK, mailVars, failVars
<1>2. CASE PollCommit(d)
  BY <1>2 DEF PollCommit, TypeOK, rowVars, mailVars, failVars
<1>3. CASE Reclassify(d)
  BY <1>3, PublishType DEF Reclassify, TypeOK, mailVars, failVars
<1>4. CASE DiscardDraft(d)
  <2>1. draft' \in [Replies -> Draft]
    BY <1>4, SetStatusType DEF DiscardDraft, Status, Resolved
  <2> QED
    BY <1>4, <2>1 DEF DiscardDraft, TypeOK, mailVars, restVars, failVars
<1> QED
  BY <1>1, <1>2, <1>3, <1>4

LEMMA QuietType ==
    ASSUME TypeOK, Toggle \/ Suppress \/ SweepUnsent
    PROVE  TypeOK'
<1>1. CASE Toggle
  BY <1>1 DEF Toggle, TypeOK, rowVars, mailVars, failVars
<1>2. CASE Suppress
  <2> DEFINE S == {p \in Procs : proc[p].pc = "checked"}
  <2>1. S \subseteq Procs /\ IsFiniteSet(S)
    BY FS_Subset
  <2>2. Cardinality(S) \in Nat
    BY <2>1, FS_CardinalityType
  <2>3. past' = Cardinality(S)
    BY <1>2 DEF Suppress
  <2> QED
    BY <1>2, <2>2, <2>3 DEF Suppress, TypeOK, rowVars, mailVars, failVars
<1>3. CASE SweepUnsent
  BY <1>3 DEF SweepUnsent, TypeOK, mailVars, failVars
<1> QED
  BY <1>1, <1>2, <1>3

LEMMA TakeJobType ==
    ASSUME TypeOK, NEW p \in Procs, TakeJob(p)
    PROVE  TypeOK'
<1> PICK d \in Replies, n \in 0..MaxRetries : StartDropped(p, d, n) \/ StartDraft(p, d, n)
  BY DEF TakeJob
<1> [d |-> d, n |-> n] \in Job
  BY DEF Job
<1>1. queue' \in [Job -> Nat]
  BY QueueType DEF StartDropped, StartDraft, Take
<1>2. CASE StartDropped(p, d, n)
  BY <1>1, <1>2 DEF StartDropped, TypeOK, mailVars, restVars, failVars
<1>3. CASE StartDraft(p, d, n)
  <2>1. draft' \in [Replies -> Draft]
    BY <1>3, SetStatusType DEF StartDraft, Status
  <2>2. [pc |-> "generate", d |-> d, n |-> n, auto |-> TRUE, edited |-> FALSE,
         enabled |-> enabled] \in Busy
    BY DEF Busy, TypeOK
  <2>3. proc' \in [Procs -> Busy \cup {Idle}]
    BY <1>3, <2>2 DEF StartDraft, TypeOK
  <2> QED
    BY <1>1, <1>3, <2>1, <2>3 DEF StartDraft, TypeOK, mailVars, restVars, failVars
<1> QED
  BY <1>2, <1>3

LEMMA ClickType ==
    ASSUME TypeOK, NEW p \in Procs, NEW d \in Replies, NEW edited \in BOOLEAN,
           Click(p, d, edited)
    PROVE  TypeOK'
<1>1. [pc |-> "dispatch", d |-> d, n |-> 0, auto |-> FALSE, edited |-> edited,
       enabled |-> FALSE] \in Busy
  BY DEF Busy
<1>2. proc' \in [Procs -> Busy \cup {Idle}]
  BY <1>1 DEF Click, TypeOK
<1> QED
  BY <1>2 DEF Click, TypeOK, rowVars, mailVars, failVars

LEMMA GenerateType ==
    ASSUME TypeOK, NEW p \in Procs,
           \/ GenerateFailed(p) \/ GenerateStranded(p)
           \/ DraftForHuman(p) \/ DraftForAutopilot(p)
    PROVE  TypeOK'
<1> proc[p] \in Busy /\ proc[p].d \in Replies /\ proc[p].n \in 0..MaxRetries
  BY BusyProc DEF GenerateFailed, GenerateStranded, DraftForHuman, DraftForAutopilot
<1>1. CASE GenerateFailed(p)
  <2>1. draft' \in [Replies -> Draft]
    BY <1>1, SetStatusType DEF GenerateFailed, Status
  <2>2. queue' \in [Job -> Nat]
    <3>1. CASE proc[p].n < MaxRetries
      <4>1. [d |-> proc[p].d, n |-> proc[p].n + 1] \in Job
        BY <3>1 DEF Job
      <4> QED
        BY <1>1, <3>1, <4>1, QueueType DEF GenerateFailed
    <3>2. CASE ~(proc[p].n < MaxRetries)
      BY <1>1, <3>2 DEF GenerateFailed, TypeOK
    <3> QED
      BY <3>1, <3>2
  <2>3. proc' \in [Procs -> Busy \cup {Idle}]
    BY <1>1, StopType DEF GenerateFailed
  <2> QED
    BY <1>1, <2>1, <2>2, <2>3 DEF GenerateFailed, TypeOK, mailVars, restVars, failVars
<1>2. CASE DraftForHuman(p)
  <2>1. draft' \in [Replies -> Draft]
    BY <1>2, SetStatusType DEF DraftForHuman, Status, Resolved
  <2>2. proc' \in [Procs -> Busy \cup {Idle}]
    BY <1>2, StopType DEF DraftForHuman
  <2> QED
    BY <1>2, <2>1, <2>2 DEF DraftForHuman, TypeOK, mailVars, restVars, failVars
<1>3. CASE DraftForAutopilot(p)
  <2>1. draft' \in [Replies -> Draft]
    BY <1>3, SetStatusType DEF DraftForAutopilot, Status
  <2>2. proc' \in [Procs -> Busy \cup {Idle}]
    BY <1>3, GotoType DEF DraftForAutopilot
  <2> QED
    BY <1>3, <2>1, <2>2 DEF DraftForAutopilot, TypeOK, mailVars, restVars, failVars
<1>4. CASE GenerateStranded(p)
  <2>1. proc' \in [Procs -> Busy \cup {Idle}]
    BY <1>4, StopType DEF GenerateStranded
  <2>2. faults' \in Nat /\ stranded' \subseteq Replies
    BY <1>4 DEF GenerateStranded, UseFault, Strands, TypeOK
  <2> QED
    BY <1>4, <2>1, <2>2 DEF GenerateStranded, TypeOK, rowVars, mailVars, restVars
<1> QED
  BY <1>1, <1>2, <1>3, <1>4

LEMMA DispatchType ==
    ASSUME TypeOK, NEW p \in Procs,
           ClaimDraft(p) \/ ClaimRefused(p) \/ CheckPassed(p) \/ Deliver(p)
    PROVE  TypeOK'
<1> proc[p] \in Busy /\ proc[p].d \in Replies /\ proc[p].auto \in BOOLEAN
  BY BusyProc DEF ClaimDraft, ClaimRefused, CheckPassed, Deliver
<1>1. CASE ClaimDraft(p)
  <2>1. [status |-> "sending", auto |-> proc[p].auto \/ draft[proc[p].d].auto] \in Draft
    BY DEF Draft, Status
  <2>2. draft' \in [Replies -> Draft]
    BY <1>1, <2>1 DEF ClaimDraft, TypeOK
  <2>3. proc' \in [Procs -> Busy \cup {Idle}]
    BY <1>1, GotoType DEF ClaimDraft, Dispatching
  <2> QED
    BY <1>1, <2>2, <2>3 DEF ClaimDraft, TypeOK, mailVars, restVars, failVars
<1>2. CASE ClaimRefused(p)
  BY <1>2, StopType DEF ClaimRefused, TypeOK, rowVars, mailVars, restVars, failVars
<1>3. CASE CheckPassed(p)
  <2>1. proc' \in [Procs -> Busy \cup {Idle}]
    BY <1>3, GotoType DEF CheckPassed, Dispatching
  <2> QED
    BY <1>3, <2>1 DEF CheckPassed, TypeOK, rowVars, mailVars, restVars, failVars
<1>4. CASE Deliver(p)
  <2>1. proc' \in [Procs -> Busy \cup {Idle}]
    BY <1>4, GotoType DEF Deliver, Dispatching
  <2>2. mails' \in [Replies -> Nat] /\ autoMails' \in Nat /\ late' \in Nat
    BY <1>4, AcceptedType DEF Deliver
  <2>3. wire' \in [Replies -> Nat]
    BY <1>4 DEF Deliver, TypeOK
  <2> QED
    BY <1>4, <2>1, <2>2, <2>3 DEF Deliver, TypeOK, rowVars, restVars, failVars
<1> QED
  BY <1>1, <1>2, <1>3, <1>4

LEMMA EndType ==
    ASSUME TypeOK, NEW p \in Procs,
           \/ SendBlocked(p) \/ DeliveryFailed(p) \/ Finish(p)
           \/ UnexpectedFailure(p) \/ CommitFailed(p)
    PROVE  TypeOK'
<1> proc[p] \in Busy /\ proc[p].d \in Replies /\ proc[p].auto \in BOOLEAN
  BY BusyProc DEF SendBlocked, DeliveryFailed, Finish, UnexpectedFailure, CommitFailed,
                  Dispatching
<1>0. proc' \in [Procs -> Busy \cup {Idle}]
  BY StopType DEF SendBlocked, DeliveryFailed, Finish, UnexpectedFailure, CommitFailed
<1>1. CASE SendBlocked(p)
  <2>1. draft' \in [Replies -> Draft]
    BY <1>1, ReleaseType DEF SendBlocked, Status, Resolved
  <2> QED
    BY <1>0, <1>1, <2>1 DEF SendBlocked, TypeOK, mailVars, restVars, failVars
<1>2. CASE DeliveryFailed(p)
  <2>1. draft' \in [Replies -> Draft]
    BY <1>2, ReleaseType DEF DeliveryFailed, Status
  <2>2. CASE UNCHANGED mailVars
    BY <1>0, <1>2, <2>1, <2>2 DEF DeliveryFailed, TypeOK, mailVars, restVars, failVars
  <2>3. CASE Accepted(p) /\ WrittenOff(p) /\ UNCHANGED wire
    BY <1>0, <1>2, <2>1, <2>3, AcceptedType, WrittenOffType
       DEF DeliveryFailed, TypeOK, restVars, failVars
  <2> QED
    BY <1>2, <2>2, <2>3 DEF DeliveryFailed
<1>3. CASE Finish(p)
  <2>1. [status |-> IF proc[p].edited THEN "edited_sent" ELSE "sent", auto |-> proc[p].auto]
            \in Draft
    BY DEF Draft, Status, Resolved
  <2>2. draft' \in [Replies -> Draft]
    BY <1>3, <2>1 DEF Finish, TypeOK
  <2> QED
    BY <1>0, <1>3, <2>2 DEF Finish, TypeOK, mailVars, restVars, failVars
<1>4. CASE UnexpectedFailure(p)
  <2>1. draft' \in [Replies -> Draft]
    BY <1>4, ReleaseType DEF UnexpectedFailure, Status
  <2>2. unsent' \in Nat /\ faults' \in Nat
    BY <1>4 DEF UnexpectedFailure, UseFault, TypeOK
  <2>3. CASE proc[p].pc = "mailed"
    <3>1. /\ wire' \in [Replies -> Nat]
          /\ unconfirmed' \in [Replies -> Nat] /\ autoUnconfirmed' \in Nat
      BY <1>4, <2>3, WrittenOffType DEF UnexpectedFailure, TypeOK
    <3>2. UNCHANGED <<mails, autoMails, late, queue, restVars, stranded>>
      BY <1>4, <2>3 DEF UnexpectedFailure
    <3> QED
      BY <1>0, <2>1, <2>2, <3>1, <3>2 DEF TypeOK, restVars, failVars
  <2>4. CASE proc[p].pc # "mailed"
    BY <1>0, <1>4, <2>1, <2>2, <2>4 DEF UnexpectedFailure, TypeOK, mailVars, restVars, failVars
  <2> QED
    BY <2>3, <2>4
<1>5. CASE CommitFailed(p)
  BY <1>0, <1>5 DEF CommitFailed, UseFault, Strands, TypeOK, rowVars, mailVars, restVars
<1> QED
  BY <1>1, <1>2, <1>3, <1>4, <1>5

LEMMA CrashType ==
    ASSUME TypeOK, NEW p \in Procs, Crash(p)
    PROVE  TypeOK'
<1>1. proc[p] \in Busy
  BY DEF Crash, TypeOK
<1>2. [d |-> proc[p].d, n |-> proc[p].n] \in Job
  BY <1>1 DEF Busy, Job
<1>3. queue' \in [Job -> Nat]
  BY <1>2, QueueType DEF Crash, TypeOK
<1> QED
  BY <1>1, <1>3, StopType DEF Crash, UseFault, Strands, Busy, TypeOK, mailVars, restVars

(* Every variable keeps its type in every reachable state.                 *)
THEOREM TypeCorrect == Spec => []TypeOK
<1>1. Init => TypeOK
  <2>1. NoDraft \in Draft
    BY DEF NoDraft, Draft, Status
  <2> SUFFICES ASSUME Init
               PROVE  TypeOK
    OBVIOUS
  <2>2. draft \in [Replies -> Draft] /\ inbound \in [Replies -> {"unread", "flushed", "stored"}]
    BY <2>1 DEF Init
  <2>3. queue \in [Job -> Nat] /\ proc \in [Procs -> Busy \cup {Idle}]
    BY DEF Init
  <2>4. enabled \in BOOLEAN /\ suppressed \in BOOLEAN
    BY DEF Init
  <2>5. /\ mails \in [Replies -> Nat] /\ wire \in [Replies -> Nat]
        /\ unconfirmed \in [Replies -> Nat]
        /\ unsent \in Nat /\ freed \in Nat
        /\ autoMails \in Nat /\ autoUnconfirmed \in Nat /\ late \in Nat /\ past \in Nat
        /\ stranded \subseteq Replies
        /\ faults \in Nat /\ clicks \in Nat /\ toggles \in Nat
    BY DEF Init
  <2> QED
    BY <2>2, <2>3, <2>4, <2>5 DEF TypeOK
<1>2. TypeOK /\ [Next]_vars => TypeOK'
  <2> SUFFICES ASSUME TypeOK, [Next]_vars
               PROVE  TypeOK'
    OBVIOUS
  <2>1. CASE UNCHANGED vars
    BY <2>1 DEF vars, mailVars, TypeOK
  <2>2. ASSUME NEW p \in Procs, Progress(p)
        PROVE  TypeOK'
    BY <2>2, GenerateType, DispatchType, EndType DEF Progress
  <2>3. CASE \E d \in Replies : Poll(d) \/ PollCommit(d) \/ Reclassify(d) \/ DiscardDraft(d)
    BY <2>3, OutsideType
  <2>4. CASE Toggle \/ Suppress \/ SweepUnsent
    BY <2>4, QuietType
  <2> QED
    BY <2>1, <2>2, <2>3, <2>4, TakeJobType, CrashType, ClickType DEF Next
<1> QED
  BY <1>1, <1>2, PTL DEF Spec
-----------------------------------------------------------------------------
(* A dispatch owns its draft *)

Dispatches(p) == proc[p].pc \in Dispatching

Out == {"sending", "sent", "edited_sent"}

(* A step that does not touch a draft being sent or sent, nor a mail, and  *)
(* lets no dispatch begin or move on from or to its e-mail.                *)
Quiet ==
    /\ UNCHANGED <<mails, wire, unconfirmed, autoMails, autoUnconfirmed>>
    /\ \A p \in Procs : Dispatches(p)' =>
          /\ Dispatches(p)
          /\ proc'[p].d = proc[p].d /\ proc'[p].auto = proc[p].auto
          /\ proc'[p].pc = "mailed" <=> proc[p].pc = "mailed"
    /\ \A d \in Replies :
          \/ draft'[d] = draft[d]
          \/ /\ draft[d].status \notin Out /\ draft'[d].status \notin Out
             /\ draft'[d].auto = draft[d].auto

LEMMA SetStatusQuiet ==
    ASSUME TypeOK, NEW d \in Replies, NEW status, SetStatus(d, status),
           draft[d].status \notin Out, status \notin Out
    PROVE  \A i \in Replies :
              \/ draft'[i] = draft[i]
              \/ /\ draft[i].status \notin Out /\ draft'[i].status \notin Out
                 /\ draft'[i].auto = draft[i].auto
<1>1. draft' = [draft EXCEPT ![d] = [draft[d] EXCEPT !.status = status]]
  BY DEF SetStatus, TypeOK
<1>2. /\ [draft[d] EXCEPT !.status = status].status = status
      /\ [draft[d] EXCEPT !.status = status].auto = draft[d].auto
  BY DEF TypeOK, Draft
<1> QED
  BY <1>1, <1>2 DEF TypeOK

LEMMA StopQuiet ==
    ASSUME TypeOK, NEW p \in Procs, Stop(p)
    PROVE  /\ ~Dispatches(p)'
           /\ \A q \in Procs : q # p => proc'[q] = proc[q]
BY DEF Stop, Dispatches, Dispatching, Idle, TypeOK

LEMMA GotoOther ==
    ASSUME TypeOK, NEW p \in Procs, proc[p] \in Busy, NEW pc, Goto(p, pc)
    PROVE  /\ proc'[p].pc = pc
           /\ proc'[p].d = proc[p].d /\ proc'[p].auto = proc[p].auto
           /\ \A q \in Procs : q # p => proc'[q] = proc[q]
<1>1. proc' = [proc EXCEPT ![p] = [proc[p] EXCEPT !.pc = pc]]
  BY DEF Goto, TypeOK
<1>2. /\ [proc[p] EXCEPT !.pc = pc].pc = pc
      /\ [proc[p] EXCEPT !.pc = pc].d = proc[p].d
      /\ [proc[p] EXCEPT !.pc = pc].auto = proc[p].auto
  BY DEF Busy
<1> QED
  BY <1>1, <1>2 DEF TypeOK

LEMMA QuietProcs ==
    ASSUME NEW p \in Procs, ~Dispatches(p)', \A q \in Procs : q # p => proc'[q] = proc[q]
    PROVE  \A q \in Procs : Dispatches(q)' =>
              /\ Dispatches(q)
              /\ proc'[q].d = proc[q].d /\ proc'[q].auto = proc[q].auto
              /\ proc'[q].pc = "mailed" <=> proc[q].pc = "mailed"
BY DEF Dispatches

LEMMA OutsideQuiet ==
    ASSUME TypeOK, NEW d \in Replies,
           \/ Poll(d) \/ PollCommit(d) \/ Reclassify(d)
           \/ Toggle \/ Suppress \/ SweepUnsent \/ UNCHANGED vars
    PROVE  Quiet
<1> UNCHANGED <<mails, wire, unconfirmed, autoMails, autoUnconfirmed, proc, draft>>
  BY DEF Poll, PollCommit, Reclassify, Toggle, Suppress, SweepUnsent, vars, mailVars, rowVars
<1> QED
  BY DEF Quiet, Dispatches

LEMMA DiscardQuiet ==
    ASSUME TypeOK, NEW d \in Replies, DiscardDraft(d)
    PROVE  Quiet
<1>1. UNCHANGED <<mails, wire, unconfirmed, autoMails, autoUnconfirmed, proc>>
  BY DEF DiscardDraft, mailVars
<1>2. draft[d].status \notin Out /\ "discarded" \notin Out
  BY DEF DiscardDraft, Out
<1> QED
  BY <1>1, <1>2, SetStatusQuiet DEF DiscardDraft, Quiet, Dispatches
LEMMA TakeJobQuiet ==
    ASSUME TypeOK, NEW p \in Procs, TakeJob(p)
    PROVE  Quiet
<1> PICK d \in Replies, n \in 0..MaxRetries : StartDropped(p, d, n) \/ StartDraft(p, d, n)
  BY DEF TakeJob
<1>1. UNCHANGED <<mails, wire, unconfirmed, autoMails, autoUnconfirmed>>
  BY DEF StartDropped, StartDraft, mailVars
<1>2. CASE StartDropped(p, d, n)
  BY <1>1, <1>2 DEF StartDropped, Quiet, Dispatches
<1>3. CASE StartDraft(p, d, n)
  <2>1. draft[d].status \notin Out /\ "generating" \notin Out
    BY <1>3 DEF StartDraft, Out
  <2>2. ~Dispatches(p)' /\ \A q \in Procs : q # p => proc'[q] = proc[q]
    BY <1>3 DEF StartDraft, Dispatches, Dispatching, TypeOK
  <2> QED
    BY <1>1, <1>3, <2>1, <2>2, QuietProcs, SetStatusQuiet DEF StartDraft, Quiet
<1> QED
  BY <1>2, <1>3

LEMMA ClickQuiet ==
    ASSUME TypeOK, NEW p \in Procs, NEW d \in Replies, NEW edited \in BOOLEAN,
           Click(p, d, edited)
    PROVE  Quiet
<1>1. ~Dispatches(p)' /\ \A q \in Procs : q # p => proc'[q] = proc[q]
  BY DEF Click, Dispatches, Dispatching, TypeOK
<1>2. UNCHANGED <<mails, wire, unconfirmed, autoMails, autoUnconfirmed, draft>>
  BY DEF Click, mailVars, rowVars
<1> QED
  BY <1>1, <1>2, QuietProcs DEF Quiet

LEMMA GenerateQuiet ==
    ASSUME TypeOK, GenerateOwned, NEW p \in Procs,
           GenerateFailed(p) \/ DraftForHuman(p) \/ DraftForAutopilot(p)
    PROVE  Quiet
<1> proc[p] \in Busy /\ proc[p].d \in Replies
  BY BusyProc DEF GenerateFailed, DraftForHuman, DraftForAutopilot
<1>1. UNCHANGED <<mails, wire, unconfirmed, autoMails, autoUnconfirmed>>
  BY DEF GenerateFailed, DraftForHuman, DraftForAutopilot, mailVars
<1>2. draft[proc[p].d].status \notin Out
  BY DEF GenerateFailed, DraftForHuman, DraftForAutopilot, GenerateOwned, Out
<1>3. PICK status \in {"none", "skipped", "failed", "pending"} : SetStatus(proc[p].d, status)
  BY DEF GenerateFailed, DraftForHuman, DraftForAutopilot
<1>4. status \notin Out
  BY DEF Out
<1>5. ~Dispatches(p)' /\ \A q \in Procs : q # p => proc'[q] = proc[q]
  <2>1. CASE DraftForAutopilot(p)
    <3>1. Goto(p, "dispatch")
      BY <2>1 DEF DraftForAutopilot
    <3> QED
      BY <3>1, GotoOther DEF Dispatches, Dispatching
  <2>2. CASE GenerateFailed(p) \/ DraftForHuman(p)
    BY <2>2, StopQuiet DEF GenerateFailed, DraftForHuman
  <2> QED
    BY <2>1, <2>2
<1> QED
  BY <1>1, <1>2, <1>3, <1>4, <1>5, QuietProcs, SetStatusQuiet DEF Quiet

LEMMA RefusedQuiet ==
    ASSUME TypeOK, NEW p \in Procs,
           ClaimRefused(p) \/ GenerateStranded(p) \/ CommitFailed(p) \/ Crash(p)
    PROVE  Quiet
<1>1. UNCHANGED <<mails, wire, unconfirmed, autoMails, autoUnconfirmed, draft>>
  BY DEF ClaimRefused, GenerateStranded, CommitFailed, Crash, mailVars, rowVars
<1>2. Stop(p)
  BY DEF ClaimRefused, GenerateStranded, CommitFailed, Crash
<1> QED
  BY <1>1, <1>2, StopQuiet, QuietProcs DEF Quiet

LEMMA CheckQuiet ==
    ASSUME TypeOK, NEW p \in Procs, CheckPassed(p)
    PROVE  Quiet
<1>1. UNCHANGED <<mails, wire, unconfirmed, autoMails, autoUnconfirmed, draft>>
  BY DEF CheckPassed, mailVars, rowVars
<1>2. proc[p].pc = "claimed" /\ proc[p] \in Busy /\ Goto(p, "checked")
  BY BusyProc DEF CheckPassed
<1>3. /\ proc'[p].pc = "checked" /\ proc'[p].d = proc[p].d /\ proc'[p].auto = proc[p].auto
      /\ \A q \in Procs : q # p => proc'[q] = proc[q]
  BY <1>2, GotoOther
<1> QED
  BY <1>1, <1>2, <1>3 DEF Quiet, Dispatches, Dispatching

(* What a quiet step leaves of the invariant.                              *)
LEMMA QuietOwns ==
    ASSUME TypeOK, TypeOK', DispatchOwned, Quiet
    PROVE  DispatchOwned'
<1>1. ASSUME NEW p \in Procs, proc'[p].pc \in Dispatching
      PROVE  /\ draft'[proc'[p].d] = [status |-> "sending", auto |-> proc'[p].auto]
             /\ wire'[proc'[p].d] = IF proc'[p].pc = "mailed" THEN 1 ELSE 0
  <2>1. /\ proc[p].pc \in Dispatching
        /\ proc'[p].d = proc[p].d /\ proc'[p].auto = proc[p].auto
        /\ proc'[p].pc = "mailed" <=> proc[p].pc = "mailed"
    BY <1>1 DEF Quiet, Dispatches
  <2>2. proc[p].d \in Replies
    BY <2>1, BusyProc DEF Dispatching
  <2>3. draft[proc[p].d] = [status |-> "sending", auto |-> proc[p].auto]
    BY <2>1 DEF DispatchOwned
  <2>4. draft'[proc[p].d] = draft[proc[p].d]
    BY <2>2, <2>3 DEF Quiet, Out
  <2> QED
    BY <2>1, <2>3, <2>4 DEF DispatchOwned, Quiet
<1>2. \A p, q \in Procs :
         proc'[p].pc \in Dispatching /\ proc'[q].pc \in Dispatching /\ proc'[p].d = proc'[q].d
             => p = q
  BY DEF Quiet, Dispatches, DispatchOwned
<1>3. \A d \in Replies :
         /\ wire'[d] \in 0..1
         /\ wire'[d] = 1 => draft'[d].status \in {"sending", "sent", "edited_sent"}
         /\ draft'[d].status \in {"sent", "edited_sent"} => wire'[d] = 1
         /\ draft'[d].auto => draft'[d].status \in {"sending", "sent", "edited_sent"}
  BY DEF Quiet, DispatchOwned, Out
<1>4. \A d, i \in Replies : draft'[d].auto /\ draft'[i].auto => d = i
  BY DEF Quiet, DispatchOwned
<1> QED
  BY <1>1, <1>2, <1>3, <1>4 DEF DispatchOwned
(* The other dispatches keep their drafts when p changes only its own.     *)
LEMMA DispatchStatus ==
    ASSUME DispatchOwned, NEW p \in Procs, Dispatches(p)
    PROVE  draft[proc[p].d].status = "sending"
<1>1. draft[proc[p].d] = [status |-> "sending", auto |-> proc[p].auto]
  BY DEF DispatchOwned, Dispatches
<1> QED
  BY <1>1

LEMMA OthersKeep ==
    ASSUME TypeOK, DispatchOwned, NEW p \in Procs, NEW d,
           \A q \in Procs : q # p => proc'[q] = proc[q],
           \A q \in Procs : q # p /\ Dispatches(q) => proc[q].d # d,
           \A i \in Replies : i # d => draft'[i] = draft[i] /\ wire'[i] = wire[i]
    PROVE  \A q \in Procs : q # p /\ proc'[q].pc \in Dispatching =>
              /\ draft'[proc'[q].d] = [status |-> "sending", auto |-> proc'[q].auto]
              /\ wire'[proc'[q].d] = IF proc'[q].pc = "mailed" THEN 1 ELSE 0
              /\ proc'[q].d # d
              /\ Dispatches(q) /\ proc'[q].d = proc[q].d
<1> SUFFICES ASSUME NEW q \in Procs, q # p, proc'[q].pc \in Dispatching
             PROVE  /\ draft'[proc'[q].d] = [status |-> "sending", auto |-> proc'[q].auto]
                    /\ wire'[proc'[q].d] = IF proc'[q].pc = "mailed" THEN 1 ELSE 0
                    /\ proc'[q].d # d
                    /\ Dispatches(q) /\ proc'[q].d = proc[q].d
  OBVIOUS
<1>1. proc'[q] = proc[q] /\ Dispatches(q)
  BY DEF Dispatches
<1>2. proc[q].d \in Replies /\ proc[q].d # d
  BY <1>1, BusyProc DEF Dispatches, Dispatching
<1> QED
  BY <1>1, <1>2 DEF DispatchOwned, Dispatches

LEMMA StillApart ==
    ASSUME DispatchOwned, NEW p \in Procs, NEW d,
           Dispatches(p)' => proc'[p].d = d,
           \A q \in Procs : q # p /\ proc'[q].pc \in Dispatching =>
              proc'[q].d # d /\ Dispatches(q) /\ proc'[q].d = proc[q].d
    PROVE  \A q, r \in Procs :
              proc'[q].pc \in Dispatching /\ proc'[r].pc \in Dispatching
                 /\ proc'[q].d = proc'[r].d => q = r
<1> SUFFICES ASSUME NEW q \in Procs, NEW r \in Procs, proc'[q].pc \in Dispatching,
                    proc'[r].pc \in Dispatching, proc'[q].d = proc'[r].d
             PROVE  q = r
  OBVIOUS
<1>1. CASE q = p \/ r = p
  BY <1>1 DEF Dispatches
<1>2. CASE q # p /\ r # p
  <2>1. proc[q].pc \in Dispatching /\ proc[r].pc \in Dispatching /\ proc[q].d = proc[r].d
    BY <1>2 DEF Dispatches
  <2> QED
    BY <2>1 DEF DispatchOwned
<1> QED
  BY <1>1, <1>2

LEMMA ClaimOwns ==
    ASSUME TypeOK, DispatchOwned, NEW p \in Procs, ClaimDraft(p)
    PROVE  DispatchOwned'
<1> PICK d \in Replies : d = proc[p].d
  BY BusyProc DEF ClaimDraft
<1>1. proc[p] \in Busy /\ Goto(p, "claimed") /\ wire' = wire
  BY BusyProc DEF ClaimDraft, mailVars
<1>2. /\ proc'[p].pc = "claimed" /\ proc'[p].d = d /\ proc'[p].auto = proc[p].auto
      /\ \A q \in Procs : q # p => proc'[q] = proc[q]
  BY <1>1, GotoOther
<1>3. draft[d].status = "pending" /\ ~draft[d].auto /\ wire[d] = 0
  BY DEF ClaimDraft, DispatchOwned
<1>4. draft' = [draft EXCEPT ![d] = [status |-> "sending", auto |-> proc[p].auto]]
  <2>1. proc[p].auto \in BOOLEAN /\ draft[d].auto = FALSE
    BY <1>1, <1>3 DEF Busy, TypeOK, Draft
  <2>2. (proc[p].auto \/ draft[d].auto) = proc[p].auto
    BY <2>1
  <2> QED
    BY <2>2 DEF ClaimDraft
<1>5. /\ draft'[d] = [status |-> "sending", auto |-> proc[p].auto]
      /\ \A i \in Replies : i # d => draft'[i] = draft[i]
  BY <1>4 DEF TypeOK
<1>6. \A q \in Procs : q # p /\ Dispatches(q) => proc[q].d # d
  BY <1>3, DispatchStatus
<1>7. \A q \in Procs : q # p /\ proc'[q].pc \in Dispatching =>
         /\ draft'[proc'[q].d] = [status |-> "sending", auto |-> proc'[q].auto]
         /\ wire'[proc'[q].d] = IF proc'[q].pc = "mailed" THEN 1 ELSE 0
         /\ proc'[q].d # d
         /\ Dispatches(q) /\ proc'[q].d = proc[q].d
  BY <1>1, <1>2, <1>5, <1>6, OthersKeep
<1>8. \A q, r \in Procs :
         proc'[q].pc \in Dispatching /\ proc'[r].pc \in Dispatching /\ proc'[q].d = proc'[r].d
             => q = r
  <2>1. Dispatches(p)' => proc'[p].d = d
    BY <1>2
  <2>2. \A q \in Procs : q # p /\ proc'[q].pc \in Dispatching =>
           proc'[q].d # d /\ Dispatches(q) /\ proc'[q].d = proc[q].d
    BY <1>7
  <2> QED
    BY <2>1, <2>2, StillApart
<1>9. \A i \in Replies :
         /\ wire'[i] \in 0..1
         /\ wire'[i] = 1 => draft'[i].status \in {"sending", "sent", "edited_sent"}
         /\ draft'[i].status \in {"sent", "edited_sent"} => wire'[i] = 1
         /\ draft'[i].auto => draft'[i].status \in {"sending", "sent", "edited_sent"}
  BY <1>1, <1>3, <1>5 DEF DispatchOwned
<1>10. \A i, j \in Replies : draft'[i].auto /\ draft'[j].auto => i = j
  <2>1. proc[p].auto => \A i \in Replies \ {d} : ~draft[i].auto
    BY DEF ClaimDraft, ThreadTaken
  <2>2. \A i \in Replies : draft'[i].auto => IF i = d THEN proc[p].auto ELSE draft[i].auto
    BY <1>5
  <2> QED
    BY <2>1, <2>2 DEF DispatchOwned
<1>11. \A q \in Procs : proc'[q].pc \in Dispatching =>
         /\ draft'[proc'[q].d] = [status |-> "sending", auto |-> proc'[q].auto]
         /\ wire'[proc'[q].d] = IF proc'[q].pc = "mailed" THEN 1 ELSE 0
  BY <1>1, <1>2, <1>3, <1>5, <1>7
<1> QED
  BY <1>8, <1>9, <1>10, <1>11 DEF DispatchOwned

LEMMA DeliverOwns ==
    ASSUME TypeOK, DispatchOwned, NEW p \in Procs, Deliver(p)
    PROVE  DispatchOwned'
<1> PICK d \in Replies : d = proc[p].d
  BY BusyProc DEF Deliver
<1>1. proc[p] \in Busy /\ Goto(p, "mailed") /\ draft' = draft /\ Dispatches(p)
  BY BusyProc DEF Deliver, rowVars, Dispatches, Dispatching
<1>2. /\ proc'[p].pc = "mailed" /\ proc'[p].d = d /\ proc'[p].auto = proc[p].auto
      /\ \A q \in Procs : q # p => proc'[q] = proc[q]
  BY <1>1, GotoOther
<1>3. draft[d] = [status |-> "sending", auto |-> proc[p].auto] /\ wire[d] = 0
  BY <1>1 DEF Deliver, DispatchOwned, Dispatches
<1>4. wire'[d] = 1 /\ \A i \in Replies : i # d => wire'[i] = wire[i]
  BY <1>3 DEF Deliver, TypeOK
<1>5. \A q \in Procs : q # p /\ Dispatches(q) => proc[q].d # d
  BY <1>1 DEF DispatchOwned, Dispatches
<1>6. \A q \in Procs : q # p /\ proc'[q].pc \in Dispatching =>
         /\ draft'[proc'[q].d] = [status |-> "sending", auto |-> proc'[q].auto]
         /\ wire'[proc'[q].d] = IF proc'[q].pc = "mailed" THEN 1 ELSE 0
         /\ proc'[q].d # d
         /\ Dispatches(q) /\ proc'[q].d = proc[q].d
  BY <1>1, <1>2, <1>4, <1>5, OthersKeep
<1>7. \A q, r \in Procs :
         proc'[q].pc \in Dispatching /\ proc'[r].pc \in Dispatching /\ proc'[q].d = proc'[r].d
             => q = r
  <2>1. Dispatches(p)' => proc'[p].d = d
    BY <1>2
  <2>2. \A q \in Procs : q # p /\ proc'[q].pc \in Dispatching =>
           proc'[q].d # d /\ Dispatches(q) /\ proc'[q].d = proc[q].d
    BY <1>6
  <2> QED
    BY <2>1, <2>2, StillApart
<1>8. \A i \in Replies :
         /\ wire'[i] \in 0..1
         /\ wire'[i] = 1 => draft'[i].status \in {"sending", "sent", "edited_sent"}
         /\ draft'[i].status \in {"sent", "edited_sent"} => wire'[i] = 1
         /\ draft'[i].auto => draft'[i].status \in {"sending", "sent", "edited_sent"}
  BY <1>1, <1>3, <1>4 DEF DispatchOwned
<1>9. \A q \in Procs : proc'[q].pc \in Dispatching =>
         /\ draft'[proc'[q].d] = [status |-> "sending", auto |-> proc'[q].auto]
         /\ wire'[proc'[q].d] = IF proc'[q].pc = "mailed" THEN 1 ELSE 0
  BY <1>1, <1>2, <1>3, <1>4, <1>6
<1> QED
  BY <1>1, <1>7, <1>8, <1>9 DEF DispatchOwned

(* A dispatch ends: with its mail out and the draft sent, or with no mail  *)
(* under the claim and the draft released.                                 *)
End(p) == SendBlocked(p) \/ DeliveryFailed(p) \/ Finish(p) \/ UnexpectedFailure(p)

Released == {"pending", "discarded"}

LEMMA EndEffect ==
    ASSUME TypeOK, DispatchOwned, NEW p \in Procs, NEW d \in Replies, d = proc[p].d,
           End(p)
    PROVE  /\ Dispatches(p) /\ Stop(p)
           /\ draft[d] = [status |-> "sending", auto |-> proc[p].auto]
           /\ \A i \in Replies : i # d => draft'[i] = draft[i] /\ wire'[i] = wire[i]
           /\ \/ /\ wire[d] = 1 /\ wire' = wire
                 /\ draft'[d].status \in {"sent", "edited_sent"}
                 /\ draft'[d].auto = proc[p].auto
                 /\ UNCHANGED mailVars
              \/ /\ wire' = [wire EXCEPT ![d] = 0]
                 /\ draft'[d].status \in Released
                 /\ draft'[d].auto = FALSE
<1>1. Dispatches(p) /\ Stop(p)
  BY DEF End, SendBlocked, DeliveryFailed, Finish, UnexpectedFailure, Dispatches, Dispatching
<1>2. /\ draft[d] = [status |-> "sending", auto |-> proc[p].auto]
      /\ wire[d] = IF proc[p].pc = "mailed" THEN 1 ELSE 0
  BY <1>1 DEF DispatchOwned, Dispatches
<1>3. ASSUME NEW status \in Released, Release(d, status)
      PROVE  /\ draft'[d].status \in Released /\ draft'[d].auto = FALSE
             /\ \A i \in Replies : i # d => draft'[i] = draft[i]
  BY <1>3 DEF Release, TypeOK
<1>4. wire[d] = 0 /\ wire' = wire => wire' = [wire EXCEPT ![d] = 0]
  BY DEF TypeOK
<1>5. CASE SendBlocked(p)
  BY <1>1, <1>2, <1>3, <1>4, <1>5 DEF SendBlocked, mailVars, Released
<1>6. CASE DeliveryFailed(p)
  BY <1>1, <1>2, <1>3, <1>4, <1>6 DEF DeliveryFailed, mailVars, Released
<1>7. CASE Finish(p)
  <2>1. draft' = [draft EXCEPT ![d] =
            [status |-> IF proc[p].edited THEN "edited_sent" ELSE "sent",
             auto |-> proc[p].auto]]
    BY <1>7 DEF Finish
  <2>2. /\ draft'[d].status \in {"sent", "edited_sent"}
        /\ draft'[d].auto = proc[p].auto
        /\ \A i \in Replies : i # d => draft'[i] = draft[i]
    BY <2>1 DEF TypeOK
  <2>3. wire' = wire /\ UNCHANGED mailVars
    BY <1>7 DEF Finish, mailVars
  <2>4. wire[d] = 1
    BY <1>2, <1>7 DEF Finish
  <2> QED
    BY <1>1, <1>2, <2>2, <2>3, <2>4
<1>8. CASE UnexpectedFailure(p)
  <2>1. wire' = [wire EXCEPT ![d] = 0]
    BY <1>2, <1>4, <1>8 DEF UnexpectedFailure, mailVars
  <2> QED
    BY <1>1, <1>2, <1>3, <1>8, <2>1 DEF UnexpectedFailure, Released, TypeOK
<1> QED
  BY <1>5, <1>6, <1>7, <1>8 DEF End

LEMMA EndOwns ==
    ASSUME TypeOK, DispatchOwned, NEW p \in Procs, End(p)
    PROVE  DispatchOwned'
<1> PICK d \in Replies : d = proc[p].d
  BY BusyProc DEF End, SendBlocked, DeliveryFailed, Finish, UnexpectedFailure, Dispatching
<1>0. /\ Dispatches(p) /\ Stop(p)
      /\ draft[d] = [status |-> "sending", auto |-> proc[p].auto]
      /\ \A i \in Replies : i # d => draft'[i] = draft[i] /\ wire'[i] = wire[i]
  BY EndEffect
<1>1. ~Dispatches(p)' /\ \A q \in Procs : q # p => proc'[q] = proc[q]
  BY <1>0, StopQuiet
<1>2. \A q \in Procs : q # p /\ Dispatches(q) => proc[q].d # d
  BY <1>0 DEF DispatchOwned, Dispatches
<1>3. \A q \in Procs : q # p /\ proc'[q].pc \in Dispatching =>
         /\ draft'[proc'[q].d] = [status |-> "sending", auto |-> proc'[q].auto]
         /\ wire'[proc'[q].d] = IF proc'[q].pc = "mailed" THEN 1 ELSE 0
         /\ proc'[q].d # d
         /\ Dispatches(q) /\ proc'[q].d = proc[q].d
  BY <1>0, <1>1, <1>2, OthersKeep
<1>4. \A q, r \in Procs :
         proc'[q].pc \in Dispatching /\ proc'[r].pc \in Dispatching /\ proc'[q].d = proc'[r].d
             => q = r
  <2>1. Dispatches(p)' => proc'[p].d = d
    BY <1>1
  <2>2. \A q \in Procs : q # p /\ proc'[q].pc \in Dispatching =>
           proc'[q].d # d /\ Dispatches(q) /\ proc'[q].d = proc[q].d
    BY <1>3
  <2> QED
    BY <2>1, <2>2, StillApart
<1>5. draft[d].status = "sending" /\ draft[d].auto = proc[p].auto
  BY <1>0
<1>6. \/ /\ wire'[d] = 1 /\ draft'[d].status \in {"sent", "edited_sent"}
         /\ draft'[d].auto = draft[d].auto
      \/ wire'[d] = 0 /\ draft'[d].status \in Released /\ draft'[d].auto = FALSE
  <2>1. \/ /\ wire[d] = 1 /\ wire' = wire
           /\ draft'[d].status \in {"sent", "edited_sent"}
           /\ draft'[d].auto = proc[p].auto
        \/ /\ wire' = [wire EXCEPT ![d] = 0]
           /\ draft'[d].status \in Released
           /\ draft'[d].auto = FALSE
    BY EndEffect
  <2> QED
    BY <1>5, <2>1 DEF TypeOK
<1>7. \A i \in Replies : i # d => draft'[i] = draft[i] /\ wire'[i] = wire[i]
  BY <1>0
<1>9. \A i \in Replies :
         /\ wire'[i] \in 0..1
         /\ wire'[i] = 1 => draft'[i].status \in {"sending", "sent", "edited_sent"}
         /\ draft'[i].status \in {"sent", "edited_sent"} => wire'[i] = 1
         /\ draft'[i].auto => draft'[i].status \in {"sending", "sent", "edited_sent"}
  BY <1>6, <1>7 DEF DispatchOwned, Released
<1>10. \A i, j \in Replies : draft'[i].auto /\ draft'[j].auto => i = j
  BY <1>6, <1>7 DEF DispatchOwned
<1>11. \A q \in Procs : proc'[q].pc \in Dispatching =>
         /\ draft'[proc'[q].d] = [status |-> "sending", auto |-> proc'[q].auto]
         /\ wire'[proc'[q].d] = IF proc'[q].pc = "mailed" THEN 1 ELSE 0
  BY <1>1, <1>3 DEF Dispatches
<1> QED
  BY <1>4, <1>9, <1>10, <1>11 DEF DispatchOwned

-----------------------------------------------------------------------------
(* A task owns the draft it is generating *)

(* p does not generate any more and changes one draft, no other generated. *)
LEMMA OneChangesGenerate ==
    ASSUME TypeOK, GenerateOwned, NEW p \in Procs, NEW d,
           proc'[p].pc # "generate",
           \A q \in Procs : q # p => proc'[q] = proc[q],
           \A q \in Procs : q # p /\ proc[q].pc = "generate" => proc[q].d # d,
           \A i \in Replies : i # d => draft'[i] = draft[i]
    PROVE  GenerateOwned'
<1>1. ASSUME NEW q \in Procs, proc'[q].pc = "generate"
      PROVE  /\ q # p /\ proc'[q] = proc[q] /\ proc[q].pc = "generate"
             /\ draft'[proc[q].d].status = "generating"
  <2>1. q # p /\ proc'[q] = proc[q]
    BY <1>1
  <2>2. proc[q].pc = "generate" /\ proc[q].d # d
    BY <1>1, <2>1
  <2>3. proc[q].d \in Replies
    BY <2>2, BusyProc
  <2> QED
    BY <2>1, <2>2, <2>3 DEF GenerateOwned
<1> QED
  BY <1>1 DEF GenerateOwned

LEMMA SameDraftsGenerate ==
    ASSUME TypeOK, GenerateOwned, draft' = draft,
           \A q \in Procs : proc'[q].pc = "generate" => proc'[q] = proc[q]
    PROVE  GenerateOwned'
BY DEF GenerateOwned

LEMMA OutsideGenerate ==
    ASSUME TypeOK, GenerateOwned, NEW d \in Replies,
           \/ Poll(d) \/ PollCommit(d) \/ Reclassify(d)
           \/ Toggle \/ Suppress \/ SweepUnsent \/ UNCHANGED vars
    PROVE  GenerateOwned'
<1> UNCHANGED <<proc, draft>>
  BY DEF Poll, PollCommit, Reclassify, Toggle, Suppress, SweepUnsent, vars, rowVars
<1> QED
  BY SameDraftsGenerate

LEMMA DiscardGenerate ==
    ASSUME TypeOK, GenerateOwned, NEW d \in Replies, DiscardDraft(d)
    PROVE  GenerateOwned'
<1>1. proc' = proc /\ draft[d].status = "pending"
  BY DEF DiscardDraft
<1>2. \A i \in Replies : i # d => draft'[i] = draft[i]
  BY DEF DiscardDraft, SetStatus, TypeOK
<1>3. \A q \in Procs : proc[q].pc = "generate" => proc[q].d \in Replies
  BY BusyProc
<1> QED
  BY <1>1, <1>2, <1>3 DEF GenerateOwned

LEMMA TakeJobGenerate ==
    ASSUME TypeOK, GenerateOwned, NEW p \in Procs, TakeJob(p)
    PROVE  GenerateOwned'
<1> PICK d \in Replies, n \in 0..MaxRetries : StartDropped(p, d, n) \/ StartDraft(p, d, n)
  BY DEF TakeJob
<1>1. CASE StartDropped(p, d, n)
  BY <1>1, SameDraftsGenerate DEF StartDropped
<1>2. CASE StartDraft(p, d, n)
  <2>1. draft[d].status = "none" /\ \A i \in Replies : i # d => draft'[i] = draft[i]
    BY <1>2 DEF StartDraft, SetStatus, TypeOK
  <2>2. draft'[d].status = "generating"
    BY <1>2 DEF StartDraft, SetStatus, TypeOK, Draft
  <2>3. proc'[p].d = d /\ \A q \in Procs : q # p => proc'[q] = proc[q]
    BY <1>2 DEF StartDraft, TypeOK
  <2>4. \A q \in Procs : proc[q].pc = "generate" => proc[q].d \in Replies /\ proc[q].d # d
    BY <2>1, BusyProc DEF GenerateOwned
  <2>5. \A q \in Procs : proc'[q].pc = "generate" =>
           draft'[proc'[q].d].status = "generating"
    BY <2>1, <2>2, <2>3, <2>4 DEF GenerateOwned
  <2>6. \A q, r \in Procs :
           proc'[q].pc = "generate" /\ proc'[r].pc = "generate" /\ proc'[q].d = proc'[r].d
               => q = r
    BY <2>3, <2>4 DEF GenerateOwned
  <2> QED
    BY <2>5, <2>6 DEF GenerateOwned
<1> QED
  BY <1>1, <1>2

LEMMA StepGenerate ==
    ASSUME TypeOK, GenerateOwned, DispatchOwned, NEW p \in Procs, Progress(p) \/ Crash(p)
    PROVE  GenerateOwned'
<1>1. CASE GenerateFailed(p) \/ DraftForHuman(p) \/ DraftForAutopilot(p)
  <2> PICK d \in Replies : d = proc[p].d
    BY <1>1, BusyProc DEF GenerateFailed, DraftForHuman, DraftForAutopilot
  <2>1. proc[p].pc = "generate" /\ proc[p] \in Busy
    BY <1>1, BusyProc DEF GenerateFailed, DraftForHuman, DraftForAutopilot
  <2>2. (Stop(p) \/ Goto(p, "dispatch")) /\ \E status \in Status : SetStatus(d, status)
    BY <1>1 DEF GenerateFailed, DraftForHuman, DraftForAutopilot, Status, Resolved
  <2>3. proc'[p].pc # "generate" /\ \A q \in Procs : q # p => proc'[q] = proc[q]
    BY <2>1, <2>2 DEF Stop, Goto, Idle, Busy, TypeOK
  <2>4. \A i \in Replies : i # d => draft'[i] = draft[i]
    BY <2>2 DEF SetStatus, TypeOK
  <2>5. \A q \in Procs : q # p /\ proc[q].pc = "generate" => proc[q].d # d
    BY <2>1 DEF GenerateOwned
  <2> QED
    BY <2>3, <2>4, <2>5, OneChangesGenerate
<1>2. CASE ClaimRefused(p) \/ GenerateStranded(p) \/ CommitFailed(p) \/ Crash(p)
  <2>1. Stop(p) /\ draft' = draft
    BY <1>2 DEF ClaimRefused, GenerateStranded, CommitFailed, Crash, rowVars
  <2>2. \A q \in Procs : proc'[q].pc = "generate" => proc'[q] = proc[q]
    BY <2>1 DEF Stop, Idle, TypeOK
  <2> QED
    BY <2>1, <2>2, SameDraftsGenerate
<1>3. CASE CheckPassed(p) \/ Deliver(p)
  <2>1. draft' = draft /\ proc[p] \in Busy /\ (Goto(p, "checked") \/ Goto(p, "mailed"))
    BY <1>3, BusyProc DEF CheckPassed, Deliver, rowVars
  <2>2. proc'[p].pc # "generate" /\ \A q \in Procs : q # p => proc'[q] = proc[q]
    BY <2>1, GotoOther
  <2> QED
    BY <2>1, <2>2, SameDraftsGenerate
<1>4. CASE ClaimDraft(p)
  <2> PICK d \in Replies : d = proc[p].d
    BY <1>4, BusyProc DEF ClaimDraft
  <2>1. Goto(p, "claimed") /\ proc[p] \in Busy /\ draft[d].status = "pending"
    BY <1>4, BusyProc DEF ClaimDraft
  <2>2. proc'[p].pc # "generate" /\ \A q \in Procs : q # p => proc'[q] = proc[q]
    BY <2>1, GotoOther
  <2>3. \A i \in Replies : i # d => draft'[i] = draft[i]
    BY <1>4 DEF ClaimDraft, TypeOK
  <2>4. \A q \in Procs : q # p /\ proc[q].pc = "generate" => proc[q].d # d
    BY <2>1 DEF GenerateOwned
  <2> QED
    BY <2>2, <2>3, <2>4, OneChangesGenerate
<1>5. CASE End(p)
  <2> PICK d \in Replies : d = proc[p].d
    BY <1>5, BusyProc DEF End, SendBlocked, DeliveryFailed, Finish, UnexpectedFailure,
                          Dispatching
  <2>1. /\ Dispatches(p) /\ Stop(p)
        /\ \A i \in Replies : i # d => draft'[i] = draft[i]
    BY <1>5, EndEffect
  <2>2. proc'[p].pc # "generate" /\ \A q \in Procs : q # p => proc'[q] = proc[q]
    BY <2>1 DEF Stop, Idle, TypeOK
  <2>3. \A q \in Procs : q # p /\ proc[q].pc = "generate" => proc[q].d # d
    BY <2>1, DispatchStatus DEF GenerateOwned
  <2> QED
    BY <2>1, <2>2, <2>3, OneChangesGenerate
<1> QED
  BY <1>1, <1>2, <1>3, <1>4, <1>5 DEF Progress, End

LEMMA ClickGenerate ==
    ASSUME TypeOK, GenerateOwned, NEW p \in Procs, NEW d \in Replies, NEW edited \in BOOLEAN,
           Click(p, d, edited)
    PROVE  GenerateOwned'
<1>1. draft' = draft /\ \A q \in Procs : proc'[q].pc = "generate" => proc'[q] = proc[q]
  BY DEF Click, rowVars, TypeOK
<1> QED
  BY <1>1, SameDraftsGenerate

(* The steps that are not quiet.                                           *)
Loud(p) == ClaimDraft(p) \/ Deliver(p) \/ End(p)

LEMMA Steps ==
    ASSUME TypeOK, GenerateOwned, [Next]_vars
    PROVE  Quiet \/ \E p \in Procs : Loud(p)
<1>1. CASE UNCHANGED vars \/ Toggle \/ Suppress \/ SweepUnsent
  <2>1. UNCHANGED <<mails, wire, unconfirmed, autoMails, autoUnconfirmed, proc, draft>>
    BY <1>1 DEF Toggle, Suppress, SweepUnsent, vars, mailVars, rowVars
  <2> QED
    BY <2>1 DEF Quiet, Dispatches
<1>2. ASSUME NEW d \in Replies,
             Poll(d) \/ PollCommit(d) \/ Reclassify(d) \/ DiscardDraft(d)
      PROVE  Quiet
  BY <1>2, OutsideQuiet, DiscardQuiet
<1>3. ASSUME NEW p \in Procs, Progress(p)
      PROVE  Quiet \/ Loud(p)
  BY <1>3, GenerateQuiet, RefusedQuiet, CheckQuiet DEF Progress, Loud, End
<1>4. ASSUME NEW p \in Procs,
             \/ TakeJob(p) \/ Crash(p)
             \/ \E d \in Replies, edited \in BOOLEAN : Click(p, d, edited)
      PROVE  Quiet
  BY <1>4, TakeJobQuiet, RefusedQuiet, ClickQuiet
<1> QED
  BY <1>1, <1>2, <1>3, <1>4 DEF Next

(* The inductive invariant: tasks own what they generate, dispatches what  *)
(* they send.                                                              *)
THEOREM DraftsAreOwned == Spec => [](GenerateOwned /\ DispatchOwned)
<1>1. Init => GenerateOwned /\ DispatchOwned
  BY DEF Init, GenerateOwned, DispatchOwned, Idle, NoDraft, Dispatching
<1>2. ASSUME TypeOK, TypeOK', GenerateOwned, DispatchOwned, [Next]_vars
      PROVE  GenerateOwned' /\ DispatchOwned'
  <2>1. DispatchOwned'
    <3>1. ASSUME NEW p \in Procs, Loud(p)
          PROVE  DispatchOwned'
      BY <1>2, <3>1, ClaimOwns, DeliverOwns, EndOwns DEF Loud
    <3> QED
      BY <1>2, <3>1, Steps, QuietOwns
  <2>2. GenerateOwned'
    <3>1. CASE UNCHANGED vars \/ Toggle \/ Suppress \/ SweepUnsent
      <4>1. UNCHANGED <<proc, draft>>
        BY <3>1 DEF Toggle, Suppress, SweepUnsent, vars, rowVars
      <4> QED
        BY <1>2, <4>1, SameDraftsGenerate
    <3>2. ASSUME NEW d \in Replies,
                 Poll(d) \/ PollCommit(d) \/ Reclassify(d) \/ DiscardDraft(d)
          PROVE  GenerateOwned'
      BY <1>2, <3>2, OutsideGenerate, DiscardGenerate
    <3>3. ASSUME NEW p \in Procs, TakeJob(p) \/ Progress(p) \/ Crash(p)
          PROVE  GenerateOwned'
      BY <1>2, <3>3, TakeJobGenerate, StepGenerate
    <3> QED
      BY <1>2, <3>1, <3>2, <3>3, ClickGenerate DEF Next
  <2> QED
    BY <2>1, <2>2
<1> QED
  BY <1>1, <1>2, TypeCorrect, PTL DEF Spec

-----------------------------------------------------------------------------
(* What has been mailed *)

AutoOut == IF \E d \in Replies : draft[d].auto /\ wire[d] = 1 THEN 1 ELSE 0

(* Every mail of a draft is the one of its present claim or was written    *)
(* off; so is every automatic mail of the thread.                          *)
Ledger ==
    /\ \A d \in Replies : mails[d] = wire[d] + unconfirmed[d]
    /\ autoMails = autoUnconfirmed + AutoOut

LEMMA QuietLedger ==
    ASSUME TypeOK, DispatchOwned, Ledger, Quiet
    PROVE  Ledger'
<1>1. \A d \in Replies : draft'[d].auto = draft[d].auto
  BY DEF Quiet
<1>2. AutoOut' = AutoOut
  BY <1>1 DEF AutoOut, Quiet
<1> QED
  BY <1>2 DEF Ledger, Quiet

LEMMA ClaimLedger ==
    ASSUME TypeOK, DispatchOwned, Ledger, NEW p \in Procs, ClaimDraft(p)
    PROVE  Ledger'
<1> PICK d \in Replies : d = proc[p].d
  BY BusyProc DEF ClaimDraft
<1>1. /\ UNCHANGED <<mails, wire, unconfirmed, autoMails, autoUnconfirmed>>
      /\ draft[d].status = "pending"
      /\ \A i \in Replies : i # d => draft'[i] = draft[i]
  BY DEF ClaimDraft, mailVars, TypeOK
<1>2. wire[d] # 1
  BY <1>1 DEF DispatchOwned
<1>3. AutoOut' = AutoOut
  BY <1>1, <1>2 DEF AutoOut
<1> QED
  BY <1>1, <1>3 DEF Ledger

LEMMA DeliverLedger ==
    ASSUME TypeOK, DispatchOwned, Ledger, NEW p \in Procs, Deliver(p)
    PROVE  Ledger'
<1> PICK d \in Replies : d = proc[p].d
  BY BusyProc DEF Deliver
<1>1. /\ draft' = draft
      /\ draft[d] = [status |-> "sending", auto |-> proc[p].auto] /\ wire[d] = 0
  BY DEF Deliver, DispatchOwned, Dispatching, rowVars
<1>2. /\ \A i \in Replies : i # d => wire'[i] = wire[i] /\ mails'[i] = mails[i]
      /\ wire'[d] = 1 /\ mails'[d] = mails[d] + 1
      /\ UNCHANGED <<unconfirmed, autoUnconfirmed>>
      /\ autoMails' = IF proc[p].auto THEN autoMails + 1 ELSE autoMails
  BY <1>1 DEF Deliver, Accepted, TypeOK
<1>3. AutoOut' = IF proc[p].auto THEN 1 ELSE AutoOut
  BY <1>1, <1>2 DEF AutoOut
<1>4. proc[p].auto => AutoOut = 0
  BY <1>1 DEF AutoOut, DispatchOwned
<1>5. \A i \in Replies : mails'[i] = wire'[i] + unconfirmed'[i]
  BY <1>1, <1>2 DEF Ledger, TypeOK
<1>6. autoMails' = autoUnconfirmed' + AutoOut'
  BY <1>2, <1>3, <1>4 DEF Ledger, TypeOK
<1> QED
  BY <1>5, <1>6 DEF Ledger

LEMMA EndLedger ==
    ASSUME TypeOK, DispatchOwned, Ledger, NEW p \in Procs, End(p)
    PROVE  Ledger'
<1> PICK d \in Replies : d = proc[p].d
  BY BusyProc DEF End, SendBlocked, DeliveryFailed, Finish, UnexpectedFailure, Dispatching
<1>1. /\ proc[p].pc \in Dispatching
      /\ draft[d] = [status |-> "sending", auto |-> proc[p].auto]
      /\ \A i \in Replies : i # d => draft'[i] = draft[i] /\ wire'[i] = wire[i]
  BY EndEffect DEF Dispatches
<1>2. wire[d] = IF proc[p].pc = "mailed" THEN 1 ELSE 0
  BY <1>1 DEF DispatchOwned
<1>3. proc[p].auto => \A i \in Replies : i # d => ~draft[i].auto
  BY <1>1 DEF DispatchOwned
<1>4. CASE UNCHANGED <<mails, unconfirmed, autoMails, autoUnconfirmed>> /\ wire'[d] = wire[d]
           /\ (wire[d] = 0 \/ draft'[d].auto = proc[p].auto)
  <2>1. \A i \in Replies : wire'[i] = wire[i]
    BY <1>1, <1>4
  <2>2. \A i \in Replies : draft'[i].auto /\ wire'[i] = 1 <=> draft[i].auto /\ wire[i] = 1
    BY <1>1, <1>4
  <2>3. AutoOut' = AutoOut
    BY <2>2 DEF AutoOut
  <2> QED
    BY <1>4, <2>1, <2>3 DEF Ledger
<1>5. CASE /\ mails' = [mails EXCEPT ![d] = @ + 1]
           /\ unconfirmed' = [unconfirmed EXCEPT ![d] = @ + 1]
           /\ autoMails' = IF proc[p].auto THEN autoMails + 1 ELSE autoMails
           /\ autoUnconfirmed' = IF proc[p].auto THEN autoUnconfirmed + 1 ELSE autoUnconfirmed
           /\ wire'[d] = 0 /\ wire[d] = 0
  <2>1. \A i \in Replies : draft'[i].auto /\ wire'[i] = 1 <=> draft[i].auto /\ wire[i] = 1
    BY <1>1, <1>5
  <2>2. AutoOut' = AutoOut /\ AutoOut \in Nat
    BY <2>1 DEF AutoOut
  <2>3. autoMails' = autoUnconfirmed' + AutoOut'
    BY <1>5, <2>2 DEF Ledger, TypeOK
  <2>4. \A i \in Replies : mails'[i] = wire'[i] + unconfirmed'[i]
    BY <1>1, <1>5 DEF Ledger, TypeOK
  <2> QED
    BY <2>3, <2>4 DEF Ledger
<1>6. CASE /\ UNCHANGED <<mails, autoMails>>
           /\ unconfirmed' = [unconfirmed EXCEPT ![d] = @ + 1]
           /\ autoUnconfirmed' = IF proc[p].auto THEN autoUnconfirmed + 1 ELSE autoUnconfirmed
           /\ wire'[d] = 0 /\ wire[d] = 1
  <2>1. AutoOut = 1 <=> proc[p].auto \/ AutoOut' = 1
    BY <1>1, <1>6 DEF AutoOut
  <2>2. proc[p].auto => AutoOut' = 0 /\ AutoOut = 1
    BY <1>1, <1>3, <1>6 DEF AutoOut
  <2>3. AutoOut' \in {0, 1} /\ AutoOut \in {0, 1}
    BY DEF AutoOut
  <2>4. autoMails' = autoUnconfirmed' + AutoOut'
    <3>1. CASE proc[p].auto
      BY <1>6, <2>2, <3>1 DEF Ledger, TypeOK
    <3>2. CASE ~proc[p].auto
      <4>1. AutoOut' = AutoOut
        BY <2>1, <2>3, <3>2
      <4> QED
        BY <1>6, <3>2, <4>1 DEF Ledger
    <3> QED
      BY <3>1, <3>2
  <2>5. \A i \in Replies : mails'[i] = wire'[i] + unconfirmed'[i]
    BY <1>1, <1>6 DEF Ledger, TypeOK
  <2> QED
    BY <2>4, <2>5 DEF Ledger
<1>7. CASE SendBlocked(p)
  <2>1. wire[d] = 0
    BY <1>2, <1>7 DEF SendBlocked
  <2> QED
    BY <1>4, <1>7, <2>1 DEF SendBlocked, mailVars
<1>8. CASE DeliveryFailed(p)
  <2>1. wire[d] = 0
    BY <1>2, <1>8 DEF DeliveryFailed
  <2>2. CASE UNCHANGED mailVars
    BY <1>4, <2>1, <2>2 DEF mailVars
  <2>3. CASE Accepted(p) /\ WrittenOff(p) /\ UNCHANGED wire
    BY <1>5, <2>1, <2>3 DEF Accepted, WrittenOff
  <2> QED
    BY <1>8, <2>2, <2>3 DEF DeliveryFailed
<1>9. CASE Finish(p)
  <2>1. draft'[d].auto = proc[p].auto
    BY <1>9 DEF Finish, TypeOK
  <2> QED
    BY <1>4, <1>9, <2>1 DEF Finish, mailVars
<1>10. CASE UnexpectedFailure(p)
  <2>1. CASE proc[p].pc = "mailed"
    <3>1. wire[d] = 1 /\ wire' = [wire EXCEPT ![d] = 0]
      BY <1>2, <1>10, <2>1 DEF UnexpectedFailure
    <3>2. wire'[d] = 0
      BY <3>1 DEF TypeOK
    <3> QED
      BY <1>6, <1>10, <2>1, <3>1, <3>2 DEF UnexpectedFailure, WrittenOff
  <2>2. CASE proc[p].pc # "mailed"
    BY <1>2, <1>4, <1>10, <2>2 DEF UnexpectedFailure, mailVars
  <2> QED
    BY <2>1, <2>2
<1> QED
  BY <1>7, <1>8, <1>9, <1>10 DEF End

(* Mails are accounted for, draft by draft and for the thread's Autopilot. *)
THEOREM MailsAreAccounted == Spec => []Ledger
<1>1. Init => Ledger
  BY DEF Init, Ledger, AutoOut
<1>2. ASSUME TypeOK, GenerateOwned, DispatchOwned, Ledger, [Next]_vars
      PROVE  Ledger'
  <2>1. ASSUME NEW p \in Procs, Loud(p)
        PROVE  Ledger'
    BY <1>2, <2>1, ClaimLedger, DeliverLedger, EndLedger DEF Loud
  <2> QED
    BY <1>2, <2>1, Steps, QuietLedger
<1> QED
  BY <1>1, <1>2, TypeCorrect, DraftsAreOwned, PTL DEF Spec

(* A draft in progress belongs to one task or one dispatch.                *)
THEOREM DraftsHaveOwners == Spec => []DraftsOwned
<1>1. GenerateOwned /\ DispatchOwned => DraftsOwned
  BY DEF DraftsOwned
<1> QED
  BY <1>1, DraftsAreOwned, PTL

(* A draft's mail goes out again only after it was written off.            *)
THEOREM OneMail == Spec => []OneMailPerDraft
<1>1. TypeOK /\ DispatchOwned /\ Ledger => OneMailPerDraft
  BY DEF TypeOK, DispatchOwned, Ledger, OneMailPerDraft
<1> QED
  BY <1>1, TypeCorrect, DraftsAreOwned, MailsAreAccounted, PTL

(* Autopilot answers a thread once, but for answers written off.           *)
THEOREM OneAuto == Spec => []OneAutoReply
<1>1. TypeOK /\ Ledger => OneAutoReply
  BY DEF TypeOK, Ledger, AutoOut, OneAutoReply
<1> QED
  BY <1>1, TypeCorrect, MailsAreAccounted, PTL

-----------------------------------------------------------------------------
(* ReplyDraft implements Outbox *)

Row == [d \in Replies |-> OutboxRow(draft[d].status)]

LEMMA RowOf ==
    ASSUME TypeOK, NEW d \in Replies,
           \A i \in Replies : i # d => draft'[i] = draft[i]
    PROVE  Row' = [Row EXCEPT ![d] = OutboxRow(draft'[d].status)]
BY DEF Row

LEMMA QuietStep ==
    ASSUME TypeOK, Quiet
    PROVE  UNCHANGED <<Row, wire>>
<1>1. \A d \in Replies : OutboxRow(draft'[d].status) = OutboxRow(draft[d].status)
  BY DEF Quiet, Out, OutboxRow
<1> QED
  BY <1>1 DEF Quiet, Row

LEMMA OutboxStep ==
    ASSUME NEW d \in Replies,
           Outbox!Open(d) \/ Outbox!Mail(d) \/ Outbox!Done(d) \/ Outbox!Cancel(d)
    PROVE  Outbox!Next
BY DEF Outbox!Next

LEMMA LoudStep ==
    ASSUME TypeOK, DispatchOwned, NEW p \in Procs, Loud(p)
    PROVE  Outbox!Next
<1>1. CASE ClaimDraft(p)
  <2> PICK d \in Replies : d = proc[p].d
    BY <1>1, BusyProc DEF ClaimDraft
  <2>1. /\ draft[d].status = "pending" /\ draft'[d].status = "sending" /\ wire' = wire
        /\ \A i \in Replies : i # d => draft'[i] = draft[i]
    BY <1>1 DEF ClaimDraft, mailVars, TypeOK
  <2>2. Row' = [Row EXCEPT ![d] = "claimed"] /\ Row[d] = "none"
    BY <2>1, RowOf DEF OutboxRow, Row
  <2>3. Outbox!Open(d)
    BY <2>1, <2>2 DEF Outbox!Open, Row
  <2> QED
    BY <2>3, OutboxStep
<1>2. CASE Deliver(p)
  <2> PICK d \in Replies : d = proc[p].d
    BY <1>2, BusyProc DEF Deliver
  <2>1. draft[d] = [status |-> "sending", auto |-> proc[p].auto] /\ wire[d] = 0
    BY <1>2 DEF Deliver, DispatchOwned, Dispatching
  <2>2. draft' = draft /\ wire' = [wire EXCEPT ![d] = 1]
    BY <1>2, <2>1 DEF Deliver, rowVars, TypeOK
  <2>3. Row' = Row /\ Row[d] = "claimed"
    BY <2>1, <2>2 DEF OutboxRow, Row
  <2>4. Outbox!Mail(d)
    BY <2>1, <2>2, <2>3 DEF Outbox!Mail, Row
  <2> QED
    BY <2>4, OutboxStep
<1>3. CASE End(p)
  <2> PICK d \in Replies : d = proc[p].d
    BY <1>3, BusyProc DEF End, SendBlocked, DeliveryFailed, Finish, UnexpectedFailure,
                          Dispatching
  <2>1. /\ draft[d] = [status |-> "sending", auto |-> proc[p].auto]
        /\ \A i \in Replies : i # d => draft'[i] = draft[i] /\ wire'[i] = wire[i]
        /\ \/ wire[d] = 1 /\ wire' = wire /\ draft'[d].status \in {"sent", "edited_sent"}
           \/ wire' = [wire EXCEPT ![d] = 0] /\ draft'[d].status \in Released
    BY <1>3, EndEffect
  <2>2. Row' = [Row EXCEPT ![d] = OutboxRow(draft'[d].status)] /\ Row[d] = "claimed"
    BY <2>1, RowOf DEF OutboxRow, Row
  <2>3. CASE wire[d] = 1 /\ wire' = wire /\ draft'[d].status \in {"sent", "edited_sent"}
    <3>1. OutboxRow(draft'[d].status) = "sent"
      BY <2>3 DEF OutboxRow
    <3>2. Outbox!Done(d)
      BY <2>2, <2>3, <3>1 DEF Outbox!Done, Row
    <3> QED
      BY <3>2, OutboxStep
  <2>4. CASE wire' = [wire EXCEPT ![d] = 0] /\ draft'[d].status \in Released
    <3>1. OutboxRow(draft'[d].status) = "none"
      BY <2>4 DEF OutboxRow, Released
    <3>2. Outbox!Cancel(d)
      BY <2>2, <2>4, <3>1 DEF Outbox!Cancel, Row
    <3> QED
      BY <3>2, OutboxStep
  <2> QED
    BY <2>1, <2>3, <2>4
<1> QED
  BY <1>1, <1>2, <1>3 DEF Loud

(* Drafting, Autopilot, clicks, crashes and failures keep the promise of   *)
(* Outbox: a draft opened is mailed at most once, then done or cancelled.  *)
THEOREM ImplementsOutbox == Spec => OutboxPromise
<1>1. Init => Outbox!Init
  BY DEF Init, NoDraft, OutboxRow, Outbox!Init
<1>2. ASSUME TypeOK, GenerateOwned, DispatchOwned, [Next]_vars
      PROVE  [Outbox!Next]_(Outbox!vars)
  <2>1. CASE Quiet
    BY <1>2, <2>1, QuietStep DEF Row, Outbox!vars
  <2>2. ASSUME NEW p \in Procs, Loud(p)
        PROVE  [Outbox!Next]_(Outbox!vars)
    BY <1>2, <2>2, LoudStep
  <2> QED
    BY <1>2, <2>1, <2>2, Steps
<1> QED
  BY <1>1, <1>2, TypeCorrect, DraftsAreOwned, PTL DEF Spec, OutboxPromise, Outbox!Spec

-----------------------------------------------------------------------------
(* Suppression.  Dispatches past their last check, each of which may still *)
(* send once, and what went out late are paid for by `past`.               *)

Checked == {p \in Procs : proc[p].pc = "checked"}

LateInv ==
    IF suppressed THEN late + Cardinality(Checked) <= past ELSE late = 0

LEMMA CheckedFinite == IsFiniteSet(Checked) /\ Cardinality(Checked) \in Nat
<1>1. Checked \subseteq Procs
  BY DEF Checked
<1> QED
  BY <1>1, FS_Subset, FS_CardinalityType

(* No dispatch passes the check of a suppressed lead.                      *)
LEMMA LateFrame ==
    ASSUME TypeOK, TypeOK', LateInv, UNCHANGED <<suppressed, late, past>>,
           suppressed => Checked' \subseteq Checked
    PROVE  LateInv'
<1>1. suppressed => Cardinality(Checked') <= Cardinality(Checked)
  BY CheckedFinite, FS_Subset
<1>2. Cardinality(Checked) \in Nat
  BY CheckedFinite
<1>3. Cardinality(Checked)' \in Nat
  <2>1. Checked' \subseteq Procs
    BY DEF Checked
  <2> QED
    BY <2>1, FS_Subset, FS_CardinalityType
<1> QED
  BY <1>1, <1>2, <1>3 DEF LateInv, TypeOK

(* An e-mail goes out and its dispatch is past the point: what was owed is *)
(* now late.                                                               *)
LEMMA LateSent ==
    ASSUME TypeOK, LateInv, NEW p \in Procs, proc[p].pc = "checked",
           UNCHANGED <<suppressed, past>>,
           late' = IF suppressed THEN late + 1 ELSE late,
           proc'[p].pc # "checked", \A q \in Procs : q # p => proc'[q] = proc[q]
    PROVE  LateInv'
<1>1. Checked' = Checked \ {p} /\ p \in Checked
  BY DEF Checked
<1>2. Cardinality(Checked') = Cardinality(Checked) - 1 /\ Cardinality(Checked) \in Nat
  BY <1>1, CheckedFinite, FS_RemoveElement
<1> QED
  BY <1>1, <1>2 DEF LateInv, TypeOK

LEMMA LateStays ==
    ASSUME TypeOK, NEW p \in Procs, \A q \in Procs : q # p => proc'[q] = proc[q],
           proc'[p].pc # "checked"
    PROVE  Checked' \subseteq Checked
BY DEF Checked

LEMMA LateTask ==
    ASSUME TypeOK, TypeOK', LateInv, NEW p \in Procs, Progress(p)
    PROVE  LateInv'
<1>1. proc[p] \in Busy
  BY BusyProc DEF Progress, GenerateFailed, GenerateStranded, DraftForHuman,
     DraftForAutopilot, ClaimDraft,
     ClaimRefused, SendBlocked, CheckPassed, Deliver, DeliveryFailed, Finish,
     UnexpectedFailure, CommitFailed, Dispatching
<1>2. UNCHANGED <<suppressed, past>>
  BY DEF Progress, GenerateFailed, GenerateStranded, DraftForHuman, DraftForAutopilot, ClaimDraft,
     ClaimRefused, SendBlocked, CheckPassed, Deliver, DeliveryFailed, Finish,
     UnexpectedFailure, CommitFailed, restVars
<1>3. Stop(p) => proc'[p].pc = "idle" /\ \A q \in Procs : q # p => proc'[q] = proc[q]
  BY DEF Stop, Idle, TypeOK
<1>4. CASE Stop(p) /\ late' = late
  <2>1. Checked' \subseteq Checked
    BY <1>3, <1>4, LateStays
  <2> QED
    BY <1>2, <1>4, <2>1, LateFrame
<1>5. CASE DraftForAutopilot(p) \/ ClaimDraft(p)
  <2>1. late' = late /\ (Goto(p, "dispatch") \/ Goto(p, "claimed"))
    BY <1>5 DEF DraftForAutopilot, ClaimDraft, mailVars
  <2>2. Checked' \subseteq Checked
    BY <1>1, <2>1, GotoOther, LateStays
  <2> QED
    BY <1>2, <2>1, <2>2, LateFrame
<1>6. CASE CheckPassed(p)
  BY <1>2, <1>6, LateFrame DEF CheckPassed, mailVars
<1>7. CASE Deliver(p)
  <2>1. proc[p].pc = "checked" /\ Goto(p, "mailed")
        /\ late' = IF suppressed THEN late + 1 ELSE late
    BY <1>7 DEF Deliver, Accepted
  <2>2. proc'[p].pc # "checked" /\ \A q \in Procs : q # p => proc'[q] = proc[q]
    BY <1>1, <2>1, GotoOther
  <2> QED
    BY <1>2, <2>1, <2>2, LateSent
<1>8. CASE DeliveryFailed(p)
  <2>1. proc[p].pc = "checked" /\ Stop(p)
        /\ (late' = late \/ late' = IF suppressed THEN late + 1 ELSE late)
    BY <1>8 DEF DeliveryFailed, Accepted, mailVars
  <2> QED
    BY <1>2, <1>3, <1>4, <2>1, LateSent
<1>9. CASE GenerateFailed(p) \/ GenerateStranded(p) \/ DraftForHuman(p)
           \/ ClaimRefused(p) \/ SendBlocked(p)
           \/ Finish(p) \/ UnexpectedFailure(p) \/ CommitFailed(p)
  <2>1. Stop(p) /\ late' = late
    BY <1>9 DEF GenerateFailed, GenerateStranded, DraftForHuman, ClaimRefused, SendBlocked, Finish,
       UnexpectedFailure, CommitFailed, mailVars
  <2> QED
    BY <1>4, <2>1
<1> QED
  BY <1>5, <1>6, <1>7, <1>8, <1>9 DEF Progress

LEMMA LateStep == TypeOK /\ TypeOK' /\ LateInv /\ [Next]_vars => LateInv'
<1> SUFFICES ASSUME TypeOK, TypeOK', LateInv, [Next]_vars
             PROVE  LateInv'
  OBVIOUS
<1>1. CASE Suppress
  <2>1. ~suppressed /\ suppressed' = TRUE /\ past' = Cardinality(Checked) /\ late' = late
        /\ proc' = proc
    BY <1>1 DEF Suppress, Checked, rowVars, mailVars
  <2>2. Checked' = Checked
    BY <2>1 DEF Checked
  <2> QED
    BY <2>1, <2>2, CheckedFinite DEF LateInv, TypeOK
<1>2. CASE \/ \E d \in Replies : Poll(d) \/ PollCommit(d) \/ Reclassify(d) \/ DiscardDraft(d)
           \/ Toggle \/ SweepUnsent \/ UNCHANGED vars
  <2>1. UNCHANGED <<suppressed, late, past, proc>>
    BY <1>2 DEF Poll, PollCommit, Reclassify, DiscardDraft, Toggle, SweepUnsent, vars,
       rowVars, mailVars, restVars
  <2> QED
    BY <2>1, LateFrame DEF Checked
<1>3. ASSUME NEW p \in Procs, TakeJob(p) \/ Crash(p)
                \/ \E d \in Replies, edited \in BOOLEAN : Click(p, d, edited)
      PROVE  LateInv'
  <2>1. UNCHANGED <<suppressed, late, past>>
    BY <1>3 DEF TakeJob, StartDropped, StartDraft, Crash, Click, rowVars, mailVars, restVars
  <2>2. \/ proc' = proc
        \/ /\ proc'[p].pc # "checked"
           /\ \A q \in Procs : q # p => proc'[q] = proc[q]
    <3>1. CASE TakeJob(p)
      BY <3>1 DEF TakeJob, StartDropped, StartDraft, TypeOK
    <3>2. CASE Crash(p)
      BY <3>2 DEF Crash, Stop, Idle, TypeOK
    <3>3. ASSUME NEW d \in Replies, NEW edited \in BOOLEAN, Click(p, d, edited)
          PROVE  /\ proc'[p].pc # "checked"
                 /\ \A q \in Procs : q # p => proc'[q] = proc[q]
      BY <3>3 DEF Click, TypeOK
    <3> QED
      BY <1>3, <3>1, <3>2, <3>3
  <2>3. Checked' \subseteq Checked
    BY <2>2, LateStays DEF Checked
  <2> QED
    BY <2>1, <2>3, LateFrame
<1> QED
  BY <1>1, <1>2, <1>3, LateTask DEF Next

(* Once the lead is suppressed, at most the dispatches past their last     *)
(* check send to it, each once, whoever clicks and whatever is retried.    *)
THEOREM SuppressionHolds == Spec => []SuppressionStops
<1>1. Init => LateInv
  BY DEF Init, LateInv
<1>2. TypeOK /\ LateInv => SuppressionStops
  BY CheckedFinite DEF LateInv, SuppressionStops, TypeOK
<1> QED
  BY <1>1, <1>2, LateStep, TypeCorrect, PTL DEF Spec

(* A draft that was sent, discarded, skipped or failed never changes: a    *)
(* task or dispatch writes only the draft it owns, and a person's discard  *)
(* takes a pending one.                                                    *)
THEOREM ResolvedStays == Spec => ResolvedIsFinal
<1>1. ASSUME TypeOK, GenerateOwned, DispatchOwned, [Next]_vars, NEW d \in Replies,
             draft[d].status \in Resolved
      PROVE  draft'[d] = draft[d]
  <2>1. draft[d].status \notin {"none", "generating", "pending", "sending"}
    BY <1>1 DEF Resolved
  <2>2. ASSUME NEW i \in Replies, draft[i].status \in {"none", "generating", "pending", "sending"},
               \/ \E status : SetStatus(i, status) \/ Release(i, status)
               \/ \E row : draft' = [draft EXCEPT ![i] = row]
        PROVE  draft'[d] = draft[d]
    BY <1>1, <2>1, <2>2 DEF SetStatus, Release, TypeOK
  <2>3. ASSUME NEW i \in Replies,
               Poll(i) \/ PollCommit(i) \/ Reclassify(i) \/ DiscardDraft(i)
        PROVE  draft'[d] = draft[d]
    BY <2>2, <2>3 DEF Poll, PollCommit, Reclassify, DiscardDraft, rowVars
  <2>4. CASE Toggle \/ Suppress \/ SweepUnsent \/ UNCHANGED vars
    BY <2>4 DEF Toggle, Suppress, SweepUnsent, vars, rowVars
  <2>5. ASSUME NEW p \in Procs, TakeJob(p)
        PROVE  draft'[d] = draft[d]
    BY <2>2, <2>5 DEF TakeJob, StartDropped, StartDraft
  <2>6. ASSUME NEW p \in Procs, Progress(p)
        PROVE  draft'[d] = draft[d]
    <3>1. proc[p].pc \in {"generate", "dispatch"} \cup Dispatching /\ proc[p].pc # "idle"
      BY <2>6 DEF Progress, GenerateFailed, GenerateStranded, DraftForHuman,
         DraftForAutopilot, ClaimDraft,
         ClaimRefused, SendBlocked, CheckPassed, Deliver, DeliveryFailed, Finish,
         UnexpectedFailure, CommitFailed, Dispatching
    <3>2. proc[p].d \in Replies
      BY <1>1, <3>1, BusyProc
    <3>3. CASE GenerateFailed(p) \/ DraftForHuman(p) \/ DraftForAutopilot(p)
      <4>1. draft[proc[p].d].status = "generating" /\ \E status : SetStatus(proc[p].d, status)
        BY <1>1, <3>3 DEF GenerateFailed, DraftForHuman, DraftForAutopilot, GenerateOwned
      <4> QED
        BY <2>2, <3>2, <4>1
    <3>4. CASE ClaimDraft(p)
      BY <2>2, <3>2, <3>4 DEF ClaimDraft
    <3>5. CASE SendBlocked(p) \/ DeliveryFailed(p) \/ Finish(p) \/ UnexpectedFailure(p)
      <4>1. proc[p].pc \in Dispatching
        BY <3>5 DEF SendBlocked, DeliveryFailed, Finish, UnexpectedFailure, Dispatching
      <4>2. draft[proc[p].d] = [status |-> "sending", auto |-> proc[p].auto]
        BY <1>1, <4>1 DEF DispatchOwned
      <4>3. \/ \E status : Release(proc[p].d, status)
            \/ \E row : draft' = [draft EXCEPT ![proc[p].d] = row]
        BY <3>5 DEF SendBlocked, DeliveryFailed, Finish, UnexpectedFailure
      <4> QED
        BY <2>2, <3>2, <4>2, <4>3, draft[proc[p].d].status = "sending"
    <3>6. CASE ClaimRefused(p) \/ CheckPassed(p) \/ Deliver(p)
               \/ GenerateStranded(p) \/ CommitFailed(p)
      BY <3>6 DEF ClaimRefused, CheckPassed, Deliver, GenerateStranded, CommitFailed, rowVars
    <3> QED
      BY <2>6, <3>3, <3>4, <3>5, <3>6 DEF Progress
  <2>7. ASSUME NEW p \in Procs,
               Crash(p) \/ \E i \in Replies, edited \in BOOLEAN : Click(p, i, edited)
        PROVE  draft'[d] = draft[d]
    BY <2>7 DEF Crash, Click, rowVars
  <2> QED
    BY <1>1, <2>3, <2>4, <2>5, <2>6, <2>7 DEF Next
<1>2. TypeOK /\ GenerateOwned /\ DispatchOwned /\ [Next]_vars =>
        [\A d \in Replies : draft[d].status \in Resolved => draft'[d] = draft[d]]_vars
  BY <1>1
<1> QED
  BY <1>2, TypeCorrect, DraftsAreOwned, PTL DEF Spec, ResolvedIsFinal
=============================================================================
