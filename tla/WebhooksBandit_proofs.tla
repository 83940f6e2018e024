------------------------ MODULE WebhooksBandit_proofs -----------------------
(***************************************************************************)
(* Proofs about two parts that share nothing.  Webhooks, for every set of  *)
(* endpoints, deliveries, handlers and workers and every bound: the budget *)
(* of attempts holds, a delivery is resolved once, and none is forgotten.  *)
(* Bandit, for every set of variants, messages, settlers and polls: the    *)
(* posteriors are exact, and the guardrail leaves an arm on.               *)
(***************************************************************************)
EXTENDS Webhooks, Bandit, FiniteSetTheorems, WellFoundedInduction, TLAPS

USE WebhooksAssumption

-----------------------------------------------------------------------------
(* Jobs *)

LEMMA BusyJob ==
    ASSUME TypeOK, NEW w \in Workers, worker[w].pc # "idle"
    PROVE  worker[w] \in Job /\ worker[w] # Idle
BY DEF TypeOK, Idle

LEMMA IdleJob ==
    ASSUME TypeOK, NEW w \in Workers, worker[w] # Idle
    PROVE  worker[w] \in Job /\ worker[w].pc # "idle"
BY DEF TypeOK, Job

(* A step of a worker changes that worker only.                            *)
LEMMA WorkersAre ==
    ASSUME TypeOK, NEW w \in Workers, NEW new, Step(w, new)
    PROVE  worker'[w] = new /\ \A v \in Workers : v # w => worker'[v] = worker[v]
BY DEF TypeOK, Step

LEMMA WorkersType ==
    ASSUME TypeOK, NEW w \in Workers, NEW new \in Job \cup {Idle}, Step(w, new)
    PROVE  worker' \in [Workers -> Job \cup {Idle}]
BY DEF TypeOK, Step

LEMMA JobMoves ==
    ASSUME NEW j \in Job, NEW pc \in {"posting", "answered", "retrying", "done"},
           NEW ok \in BOOLEAN
    PROVE  /\ [j EXCEPT !.pc = pc] \in Job
           /\ [j EXCEPT !.pc = pc, !.ok = ok] \in Job
BY DEF Job

LEMMA JobFields ==
    ASSUME NEW j \in Job
    PROVE  /\ j.d \in Deliveries /\ j.ok \in BOOLEAN /\ j.n \in 1..MaxAttempts
           /\ j.pc \in {"posting", "answered", "retrying", "done"}
BY DEF Job

LEMMA Counted ==
    ASSUME TypeOK, NEW d \in Deliveries
    PROVE  IsFiniteSet(Running(d)) /\ Cardinality(Running(d)) \in Nat
<1>1. Running(d) \subseteq Workers
  BY DEF Running
<1> QED
  BY <1>1, FS_Subset, FS_CardinalityType

(* Two jobs of one delivery are counted as two.                            *)
LEMMA TwoJobs ==
    ASSUME TypeOK, NEW d \in Deliveries, NEW w \in Running(d),
           queue[d] > 0 \/ \E v \in Running(d) : v # w
    PROVE  Copies(d) > 1
<1>1. IsFiniteSet(Running(d)) /\ Cardinality(Running(d)) \in Nat /\ queue[d] \in Nat
  BY Counted DEF TypeOK
<1> DEFINE rest == Running(d) \ {w}
<1>2. IsFiniteSet(rest) /\ Cardinality(rest) = Cardinality(Running(d)) - 1
  BY <1>1, FS_RemoveElement
<1>3. Cardinality(rest) \in Nat
  BY <1>2, FS_CardinalityType
<1>4. CASE queue[d] > 0
  BY <1>1, <1>2, <1>3, <1>4 DEF Copies
<1>5. CASE \E v \in Running(d) : v # w
  <2>1. rest # {}
    BY <1>5
  <2>2. Cardinality(rest) # 0
    BY <1>2, <2>1, FS_EmptySet
  <2> HIDE DEF rest
  <2> QED
    BY <1>1, <1>2, <1>3, <2>2 DEF Copies
<1> QED
  BY <1>4, <1>5

-----------------------------------------------------------------------------
(* Types *)

(* A row that may still be tried has attempts left.                        *)
Unspent == \A d \in Deliveries : row[d].status \in {"open", "pending"} => row[d].attempts < MaxAttempts

WellInv == TypeOK /\ Unspent

LEMMA InitWell == Init => WellInv
<1> SUFFICES ASSUME Init PROVE WellInv
  OBVIOUS
<1>1. endpoint \in [Endpoints -> Endpoint]
  BY DEF Init, Endpoint
<1>2. row \in [Deliveries -> Row] /\ Unspent
  <2>1. (CHOOSE e \in Endpoints : TRUE) \in Endpoints
    OBVIOUS
  <2> QED
    BY <2>1 DEF Init, Row, Unspent
<1>3. tx \in [Emitters -> Tx]
  BY DEF Init, Tx, NoTx
<1> QED
  BY <1>1, <1>2, <1>3 DEF Init, TypeOK, WellInv

LEMMA DuplicatedType ==
    ASSUME TypeOK, Next PROVE duplicated' \subseteq Deliveries
BY DEF TypeOK, Next

LEMMA RowMoves ==
    ASSUME NEW r \in Row
    PROVE  \A status \in Final \cup {r.status, "gone"}, n \in 0..MaxAttempts :
              /\ [r EXCEPT !.status = status, !.attempts = n] \in Row
              /\ [r EXCEPT !.status = status, !.attempts = n].attempts = n
              /\ [r EXCEPT !.status = status, !.attempts = n].status = status
BY DEF Row, Final

(* What an answered worker writes.                                         *)
LEMMA RowWritten ==
    ASSUME WellInv, NEW w \in Workers, Answered(w), NEW status, RowAs(w, status),
           status \in Final \/ (status = row[worker[w].d].status /\ worker[w].n < MaxAttempts)
    PROVE  /\ row' \in [Deliveries -> Row] /\ Unspent'
           /\ worker[w] \in Job
           /\ \A d \in Deliveries : d # worker[w].d => row'[d] = row[d]
           /\ row'[worker[w].d] = [row[worker[w].d] EXCEPT !.status = status, !.attempts = worker[w].n]
<1>1. worker[w] \in Job
  BY BusyJob DEF Answered, WellInv
<1> DEFINE k == worker[w].d
           n == worker[w].n
<1>2. k \in Deliveries /\ n \in 1..MaxAttempts /\ row[k] \in Row
  BY <1>1, JobFields DEF WellInv, TypeOK
<1> DEFINE new == [row[k] EXCEPT !.status = status, !.attempts = n]
<1>3. row' = [row EXCEPT ![k] = new]
  BY <1>2 DEF RowAs, WellInv, TypeOK
<1>4. new \in Row /\ new.attempts = n /\ new.status = status
  <2>1. status \in Final \cup {row[k].status, "gone"} /\ n \in 0..MaxAttempts
    BY <1>2
  <2>2. PICK r \in Row : r = row[k]
    BY <1>2
  <2>3. \A s \in Final \cup {r.status, "gone"}, i \in 0..MaxAttempts :
          /\ [r EXCEPT !.status = s, !.attempts = i] \in Row
          /\ [r EXCEPT !.status = s, !.attempts = i].attempts = i
          /\ [r EXCEPT !.status = s, !.attempts = i].status = s
    BY RowMoves
  <2>4. new = [r EXCEPT !.status = status, !.attempts = n]
    BY <2>2
  <2> HIDE DEF k, n, new
  <2> QED
    BY <2>1, <2>2, <2>3, <2>4
<1>5. new.status \in {"open", "pending"} => new.attempts < MaxAttempts
  BY <1>4 DEF Final
<1> HIDE DEF k, n, new
<1>6. row' \in [Deliveries -> Row] /\ row'[k] = new /\ \A d \in Deliveries : d # k => row'[d] = row[d]
  BY <1>2, <1>3, <1>4 DEF WellInv, TypeOK
<1>7. Unspent'
  BY <1>5, <1>6 DEF Unspent, WellInv
<1> QED
  BY <1>1, <1>6, <1>7 DEF k, n, new

(* Rows that leave the state "open" at the end of a transaction.           *)
LEMMA RowsClosed ==
    ASSUME TypeOK, NEW t \in Emitters, NEW status \in {"pending", "gone"}, Close(t, status)
    PROVE  /\ row' \in [Deliveries -> Row]
           /\ \A d \in Deliveries : /\ row'[d].attempts = row[d].attempts
                                    /\ d \in tx[t].rows => row'[d].status = status
                                    /\ d \notin tx[t].rows => row'[d] = row[d]
           /\ tx' \in [Emitters -> Tx]
           /\ tx'[t] = NoTx /\ \A u \in Emitters : u # t => tx'[u] = tx[u]
<1>1. NoTx \in Tx
  BY DEF NoTx, Tx
<1>2. \A d \in Deliveries : row[d] \in Row
  BY DEF TypeOK
<1>3. \A d \in Deliveries : [row[d] EXCEPT !.status = status] \in Row
  BY <1>2 DEF Row
<1>4. \A d \in Deliveries : /\ [row[d] EXCEPT !.status = status].status = status
                            /\ [row[d] EXCEPT !.status = status].attempts = row[d].attempts
  BY <1>2 DEF Row
<1>5. row' \in [Deliveries -> Row]
  BY <1>2, <1>3 DEF Close
<1>6. \A d \in Deliveries : /\ row'[d].attempts = row[d].attempts
                            /\ d \in tx[t].rows => row'[d].status = status
                            /\ d \notin tx[t].rows => row'[d] = row[d]
  BY <1>4 DEF Close
<1>7. tx' \in [Emitters -> Tx] /\ tx'[t] = NoTx /\ \A u \in Emitters : u # t => tx'[u] = tx[u]
  BY <1>1 DEF Close, TypeOK
<1> QED
  BY <1>5, <1>6, <1>7

LEMMA RowsDeleted ==
    ASSUME TypeOK, NEW e \in Endpoints, Delete(e)
    PROVE  /\ row' \in [Deliveries -> Row]
           /\ \A d \in Deliveries :
                 \/ row'[d] = row[d]
                 \/ row[d].status \in Committed /\ row'[d].status = "gone"
<1> SUFFICES ASSUME NEW d \in Deliveries
             PROVE  /\ row'[d] \in Row
                    /\ \/ row'[d] = row[d]
                       \/ row[d].status \in Committed /\ row'[d].status = "gone"
  BY DEF Delete
<1>1. row[d] \in Row
  BY DEF TypeOK
<1>2. [row[d] EXCEPT !.status = "gone"] \in Row /\ [row[d] EXCEPT !.status = "gone"].status = "gone"
  BY <1>1 DEF Row
<1>3. \/ row'[d] = row[d]
      \/ row[d].status \in Committed /\ row'[d] = [row[d] EXCEPT !.status = "gone"]
  BY DEF Delete
<1> QED
  BY <1>1, <1>2, <1>3

(* A row of an open transaction.                                           *)
LEMMA RowEmitted ==
    ASSUME TypeOK, NEW t \in Emitters, NEW e \in Endpoints, NEW d \in Deliveries, Insert(t, e, d),
           row' = [row EXCEPT ![d] = [status |-> "open", endpoint |-> e,
                                      event |-> tx[t].event, attempts |-> 0]],
           tx' = [tx EXCEPT ![t].todo = @ \ {e}, ![t].rows = @ \cup {d}]
    PROVE  /\ row' \in [Deliveries -> Row] /\ tx' \in [Emitters -> Tx]
           /\ row'[d].status = "open" /\ row'[d].attempts = 0
           /\ \A k \in Deliveries : k # d => row'[k] = row[k]
           /\ tx'[t].rows = tx[t].rows \cup {d}
           /\ \A u \in Emitters : u # t => tx'[u] = tx[u]
<1>1. tx[t] \in Tx
  BY DEF TypeOK
<1> DEFINE new == [tx[t] EXCEPT !.todo = @ \ {e}, !.rows = @ \cup {d}]
           fresh == [status |-> "open", endpoint |-> e, event |-> tx[t].event, attempts |-> 0]
<1>2. new \in Tx /\ new.rows = tx[t].rows \cup {d}
  BY <1>1 DEF Tx
<1>3. fresh \in Row /\ fresh.status = "open" /\ fresh.attempts = 0
  BY <1>1 DEF Row, Tx
<1>4. tx' = [tx EXCEPT ![t] = new]
  BY <1>1 DEF TypeOK, Tx
<1>5. row' = [row EXCEPT ![d] = fresh]
  OBVIOUS
<1> HIDE DEF new, fresh
<1>6. row' \in [Deliveries -> Row] /\ row'[d] = fresh /\ \A k \in Deliveries : k # d => row'[k] = row[k]
  BY <1>3, <1>5 DEF TypeOK
<1>7. tx' \in [Emitters -> Tx] /\ tx'[t] = new /\ \A u \in Emitters : u # t => tx'[u] = tx[u]
  BY <1>2, <1>4 DEF TypeOK
<1> QED
  BY <1>2, <1>3, <1>6, <1>7

LEMMA RowRefused ==
    ASSUME TypeOK, NEW w \in Workers, NEW d \in Deliveries, Refuse(w, d)
    PROVE  /\ row' \in [Deliveries -> Row]
           /\ row'[d] = [row[d] EXCEPT !.status = "failed"]
           /\ row'[d].status = "failed" /\ row'[d].attempts = row[d].attempts
           /\ \A k \in Deliveries : k # d => row'[k] = row[k]
<1>1. row[d] \in Row
  BY DEF TypeOK
<1> DEFINE new == [row[d] EXCEPT !.status = "failed"]
<1>2. new \in Row /\ new.status = "failed" /\ new.attempts = row[d].attempts
  BY <1>1 DEF Row
<1>3. row' = [row EXCEPT ![d] = new]
  BY DEF Refuse, TypeOK
<1> HIDE DEF new
<1> QED
  BY <1>2, <1>3 DEF TypeOK, new

LEMMA QueueType ==
    ASSUME TypeOK, NEW d \in Deliveries
    PROVE  /\ [queue EXCEPT ![d] = @ + 1] \in [Deliveries -> Nat]
           /\ queue[d] > 0 => [queue EXCEPT ![d] = @ - 1] \in [Deliveries -> Nat]
BY DEF TypeOK

-----------------------------------------------------------------------------
(* Rows of open transactions belong to one of them, and nobody has seen    *)
(* them.                                                                   *)
OpenRows ==
    \A t \in Emitters : \A d \in tx[t].rows :
       row[d].status = "open" /\ \A u \in Emitters : d \in tx[u].rows => u = t

Unseen ==
    \A d \in Deliveries :
       row[d].status \in {"none", "open"} => received[d] = 0 /\ Running(d) = {}

OwnInv == OpenRows /\ Unseen

LEMMA NextWell ==
    ASSUME WellInv, OpenRows, Next PROVE WellInv'
<1>0. TypeOK /\ Unspent
  BY DEF WellInv
<1>d. duplicated' \subseteq Deliveries
  BY <1>0, DuplicatedType
<1>r. row' = row => row' \in [Deliveries -> Row] /\ Unspent'
  BY <1>0 DEF TypeOK, Unspent
<1>f. \A kind : Fault(kind) => faults' \in 0..MaxFaults
  BY <1>0 DEF Fault, TypeOK
<1>1. ASSUME NEW e \in Endpoints, Create(e) PROVE WellInv'
  <2>1. endpoint' \in [Endpoints -> Endpoint]
    <3>1. PICK mask \in SUBSET Events \ {{}} :
            endpoint' = [endpoint EXCEPT ![e] = [state |-> "live", active |-> TRUE, mask |-> mask]]
      BY <1>1 DEF Create
    <3>2. [state |-> "live", active |-> TRUE, mask |-> mask] \in Endpoint
      BY DEF Endpoint
    <3> QED
      BY <1>0, <3>1, <3>2 DEF TypeOK
  <2> QED
    BY <1>0, <1>1, <1>d, <1>r, <2>1 DEF Create, Api, TypeOK, WellInv
<1>2. ASSUME NEW e \in Endpoints, Update(e) PROVE WellInv'
  <2>0. endpoint[e] \in Endpoint
    BY <1>0 DEF TypeOK
  <2>1. \A mask \in SUBSET Events, b \in BOOLEAN :
          /\ [endpoint[e] EXCEPT !.mask = mask] \in Endpoint
          /\ [endpoint[e] EXCEPT !.active = b] \in Endpoint
    BY <2>0 DEF Endpoint
  <2>2. \E new \in Endpoint : endpoint' = [endpoint EXCEPT ![e] = new]
    BY <1>0, <1>2, <2>1 DEF Update, TypeOK
  <2>3. endpoint' \in [Endpoints -> Endpoint]
    BY <1>0, <2>2 DEF TypeOK
  <2>4. edits' \in 0..MaxEdits
    BY <1>0, <1>2 DEF Update, TypeOK
  <2> QED
    BY <1>0, <1>2, <1>d, <1>r, <2>3, <2>4 DEF Update, Api, TypeOK, WellInv
<1>3. ASSUME NEW e \in Endpoints, Delete(e) PROVE WellInv'
  <2>0. endpoint[e] \in Endpoint
    BY <1>0 DEF TypeOK
  <2>1. [endpoint[e] EXCEPT !.state = "deleted"] \in Endpoint
    BY <2>0 DEF Endpoint
  <2>2. endpoint' \in [Endpoints -> Endpoint]
    BY <1>0, <1>3, <2>1 DEF Delete, TypeOK
  <2>3. row' \in [Deliveries -> Row] /\ Unspent'
    BY <1>0, <1>3, RowsDeleted DEF Unspent
  <2> QED
    BY <1>0, <1>3, <1>d, <2>2, <2>3 DEF Delete, Api, TypeOK, WellInv
<1>4. ASSUME NEW t \in Emitters, Emit(t) PROVE WellInv'
  <2>1. PICK ev \in Events :
          tx' = [tx EXCEPT ![t] = [NoTx EXCEPT !.pc = "open", !.todo = Subscribed(ev), !.event = ev]]
    BY <1>4 DEF Emit
  <2>2. [NoTx EXCEPT !.pc = "open", !.todo = Subscribed(ev), !.event = ev] \in Tx
    BY DEF NoTx, Tx, Subscribed
  <2>3. tx' \in [Emitters -> Tx]
    BY <1>0, <2>1, <2>2 DEF TypeOK
  <2> QED
    BY <1>0, <1>4, <1>d, <1>r, <2>3 DEF Emit, Emission, TypeOK, WellInv
<1>5. ASSUME NEW t \in Emitters, TestPing(t) PROVE WellInv'
  <2>1. PICK e \in Endpoints : tx' = [tx EXCEPT ![t] = [NoTx EXCEPT !.pc = "open", !.todo = {e}]]
    BY <1>5 DEF TestPing
  <2>2. [NoTx EXCEPT !.pc = "open", !.todo = {e}] \in Tx
    BY DEF NoTx, Tx
  <2>3. tx' \in [Emitters -> Tx]
    BY <1>0, <2>1, <2>2 DEF TypeOK
  <2> QED
    BY <1>0, <1>5, <1>d, <1>r, <2>3 DEF TestPing, Emission, TypeOK, WellInv
<1>6. ASSUME NEW t \in Emitters, EmitRow(t) PROVE WellInv'
  <2>1. PICK e \in Endpoints, d \in Deliveries :
          /\ Insert(t, e, d)
          /\ row' = [row EXCEPT ![d] = [status |-> "open", endpoint |-> e,
                                        event |-> tx[t].event, attempts |-> 0]]
          /\ tx' = [tx EXCEPT ![t].todo = @ \ {e}, ![t].rows = @ \cup {d}]
          /\ \/ queue' = [queue EXCEPT ![d] = @ + 1] /\ UNCHANGED <<stranded, faults>>
             \/ Fault("broker_loss") /\ stranded' = stranded \cup {d} /\ UNCHANGED queue
    BY <1>6 DEF EmitRow
  <2>a. /\ row' \in [Deliveries -> Row] /\ tx' \in [Emitters -> Tx]
        /\ row'[d].attempts = 0 /\ \A k \in Deliveries : k # d => row'[k] = row[k]
    BY <1>0, <2>1, RowEmitted
  <2>2. row' \in [Deliveries -> Row] /\ tx' \in [Emitters -> Tx] /\ Unspent'
    BY <1>0, <2>a DEF Unspent
  <2>3. queue' \in [Deliveries -> Nat] /\ stranded' \subseteq Deliveries /\ faults' \in 0..MaxFaults
    BY <1>0, <1>f, <2>1, QueueType DEF TypeOK
  <2> QED
    BY <1>0, <1>6, <1>d, <2>2, <2>3 DEF EmitRow, Emission, TypeOK, WellInv
<1>7. ASSUME NEW t \in Emitters, EmitFails(t) PROVE WellInv'
  <2>1. [tx[t] EXCEPT !.pc = "broken", !.todo = {}] \in Tx
    BY <1>0 DEF TypeOK, Tx
  <2>2. tx' = [tx EXCEPT ![t] = [tx[t] EXCEPT !.pc = "broken", !.todo = {}]]
    BY <1>0, <1>7 DEF EmitFails, TypeOK
  <2>3. tx' \in [Emitters -> Tx]
    BY <1>0, <2>1, <2>2 DEF TypeOK
  <2> QED
    BY <1>0, <1>7, <1>d, <1>r, <2>3 DEF EmitFails, Emission, TypeOK, WellInv
<1>8. ASSUME NEW t \in Emitters, NEW status \in {"pending", "gone"}, Close(t, status),
             faults' \in 0..MaxFaults
      PROVE  WellInv'
  <2>1. row' \in [Deliveries -> Row] /\ tx' \in [Emitters -> Tx]
    BY <1>0, <1>8, RowsClosed
  <2>2. Unspent'
    BY <1>0, <1>8, RowsClosed DEF Unspent, OpenRows
  <2> QED
    BY <1>0, <1>8, <1>d, <2>1, <2>2 DEF Close, Emission, TypeOK, WellInv
<1>9. ASSUME NEW t \in Emitters, EmitCommit(t) PROVE WellInv'
  BY <1>0, <1>8, <1>9 DEF EmitCommit, TypeOK
<1>10. ASSUME NEW t \in Emitters, EmitRollback(t) PROVE WellInv'
  BY <1>0, <1>8, <1>10, <1>f DEF EmitRollback, TypeOK
<1>11. ASSUME NEW w \in Workers, NEW d \in Deliveries, Discard(w, d) PROVE WellInv'
  BY <1>0, <1>11, <1>d, <1>r, QueueType DEF Discard, Taken, Delivery, TypeOK, WellInv
<1>12. ASSUME NEW w \in Workers, NEW d \in Deliveries, Refuse(w, d) PROVE WellInv'
  <2>1. row' \in [Deliveries -> Row] /\ Unspent'
    BY <1>0, <1>12, RowRefused DEF Unspent
  <2> QED
    BY <1>0, <1>12, <1>d, <2>1, QueueType DEF Refuse, Taken, Delivery, TypeOK, WellInv
<1>13. ASSUME NEW w \in Workers, NEW d \in Deliveries, Attempt(w, d) PROVE WellInv'
  <2>1. row[d] \in Row /\ row[d].attempts < MaxAttempts
    BY <1>0, <1>13 DEF Attempt, TypeOK, Unspent
  <2>2. row[d].attempts + 1 \in 1..MaxAttempts
    BY <2>1 DEF Row
  <2>3. [pc |-> "posting", d |-> d, ok |-> FALSE, n |-> row[d].attempts + 1] \in Job
    BY <2>2 DEF Job
  <2>4. worker' \in [Workers -> Job \cup {Idle}]
    BY <1>0, <1>13, <2>3, WorkersType DEF Attempt
  <2> QED
    BY <1>0, <1>13, <1>d, <1>r, <2>4, QueueType DEF Attempt, Taken, Delivery, TypeOK, WellInv
<1>14. ASSUME NEW w \in Workers, Post(w) PROVE WellInv'
  <2>1. worker[w] \in Job /\ worker[w].d \in Deliveries
    BY <1>0, <1>14, BusyJob, JobFields DEF Post
  <2>2. PICK got \in BOOLEAN, ok \in BOOLEAN :
          /\ Step(w, [worker[w] EXCEPT !.pc = "answered", !.ok = ok])
          /\ received' = IF got THEN [received EXCEPT ![worker[w].d] = @ + 1] ELSE received
          /\ accepted' = IF ok THEN accepted \cup {worker[w].d} ELSE accepted
    BY <1>14 DEF Post
  <2>3. worker' \in [Workers -> Job \cup {Idle}]
    BY <1>0, <2>1, <2>2, JobMoves, WorkersType
  <2>4. received' \in [Deliveries -> Nat] /\ accepted' \subseteq Deliveries
    BY <1>0, <2>1, <2>2 DEF TypeOK
  <2> QED
    BY <1>0, <1>14, <1>d, <1>r, <2>3, <2>4 DEF Post, Delivery, TypeOK, WellInv
<1>15. ASSUME NEW w \in Workers, NEW status, NEW pc \in {"retrying", "done"}, Answered(w), RowAs(w, status),
              status \in Final \/ (status = row[worker[w].d].status /\ worker[w].n < MaxAttempts),
              Step(w, [worker[w] EXCEPT !.pc = pc]),
              UNCHANGED <<queue, received, accepted, stranded, faults, Delivery>>
       PROVE  WellInv'
  <2>1. row' \in [Deliveries -> Row] /\ Unspent' /\ worker[w] \in Job
    BY <1>15, RowWritten
  <2>2. worker' \in [Workers -> Job \cup {Idle}]
    BY <1>0, <1>15, <2>1, JobMoves, WorkersType
  <2> QED
    BY <1>0, <1>15, <1>d, <2>1, <2>2 DEF Delivery, TypeOK, WellInv
<1>16. ASSUME NEW w \in Workers, Delivered(w) PROVE WellInv'
  <2>1. "delivered" \in Final
    BY DEF Final
  <2> QED
    BY <1>15, <1>16, <2>1 DEF Delivered
<1>17. ASSUME NEW w \in Workers, Exhausted(w) PROVE WellInv'
  <2>1. "failed" \in Final
    BY DEF Final
  <2> QED
    BY <1>15, <1>17, <2>1 DEF Exhausted
<1>18. ASSUME NEW w \in Workers, AttemptFailed(w) PROVE WellInv'
  BY <1>15, <1>18 DEF AttemptFailed
<1>19. ASSUME NEW w \in Workers, Step(w, Idle) PROVE worker' \in [Workers -> Job \cup {Idle}]
  BY <1>0, <1>19, WorkersType
<1>20. ASSUME NEW w \in Workers, RowDeleted(w) PROVE WellInv'
  BY <1>0, <1>20, <1>d, <1>r, <1>19 DEF RowDeleted, Delivery, TypeOK, WellInv
<1>21. ASSUME NEW w \in Workers, Retry(w) PROVE WellInv'
  <2>1. worker[w] \in Job /\ worker[w].d \in Deliveries
    BY <1>0, <1>21, BusyJob, JobFields DEF Retry
  <2>2. worker' \in [Workers -> Job \cup {Idle}]
    BY <1>0, <1>21, <2>1, JobMoves, WorkersType DEF Retry
  <2>3. queue' \in [Deliveries -> Nat] /\ stranded' \subseteq Deliveries /\ faults' \in 0..MaxFaults
    BY <1>0, <1>f, <1>21, <2>1, QueueType DEF Retry, TypeOK
  <2> QED
    BY <1>0, <1>21, <1>d, <1>r, <2>2, <2>3 DEF Retry, Delivery, TypeOK, WellInv
<1>22. ASSUME NEW w \in Workers, Acknowledge(w) PROVE WellInv'
  BY <1>0, <1>22, <1>d, <1>r, <1>19 DEF Acknowledge, Delivery, TypeOK, WellInv
<1>23. ASSUME NEW w \in Workers, Death(w) PROVE WellInv'
  <2>1. worker[w] \in Job /\ worker[w].d \in Deliveries
    BY <1>0, <1>23, IdleJob, JobFields DEF Death
  <2>2. worker' \in [Workers -> Job \cup {Idle}]
    BY <1>23, <1>19 DEF Death
  <2>3. queue' \in [Deliveries -> Nat] /\ stranded' \subseteq Deliveries /\ faults' \in 0..MaxFaults
    BY <1>0, <1>f, <1>23, <2>1, QueueType DEF Death, TypeOK
  <2> QED
    BY <1>0, <1>23, <1>d, <1>r, <2>2, <2>3 DEF Death, Delivery, TypeOK, WellInv
<1>24. CASE RedisLost
  <2>1. queue' \in [Deliveries -> Nat] /\ stranded' \subseteq Deliveries /\ faults' \in 0..MaxFaults
    BY <1>0, <1>f, <1>24 DEF RedisLost, TypeOK
  <2> QED
    BY <1>0, <1>24, <1>d, <1>r, <2>1 DEF RedisLost, Delivery, TypeOK, WellInv
<1>25. CASE Redeliver
  <2>1. queue' \in [Deliveries -> Nat] /\ faults' \in 0..MaxFaults
    BY <1>0, <1>f, <1>25, QueueType DEF Redeliver
  <2> QED
    BY <1>0, <1>25, <1>d, <1>r, <2>1 DEF Redeliver, Delivery, TypeOK, WellInv
<1> QED
  BY <1>1, <1>2, <1>3, <1>4, <1>5, <1>6, <1>7, <1>9, <1>10, <1>11, <1>12, <1>13, <1>14, <1>16,
     <1>17, <1>18, <1>20, <1>21, <1>22, <1>23, <1>24, <1>25 DEF Next, Act, Work, Finish

-----------------------------------------------------------------------------
(* Rows of open transactions.                                              *)

(* Nothing but the end of a transaction touches its rows.                  *)
LEMMA RowsKept ==
    ASSUME OpenRows,
           \A d \in Deliveries : row[d].status = "open" => row'[d] = row[d],
           TypeOK, UNCHANGED tx
    PROVE  OpenRows'
<1> SUFFICES ASSUME NEW t \in Emitters, NEW d \in tx[t].rows
             PROVE  row'[d].status = "open" /\ \A u \in Emitters : d \in tx[u].rows => u = t
  BY DEF OpenRows
<1>1. d \in Deliveries
  BY DEF TypeOK, Tx
<1> QED
  BY <1>1 DEF OpenRows

LEMMA TxRows ==
    ASSUME TypeOK, NEW t \in Emitters
    PROVE  tx[t].rows \subseteq Deliveries
<1>1. tx[t] \in Tx
  BY DEF TypeOK
<1> QED
  BY <1>1 DEF Tx

(* A worker holds a visible row.                                           *)
LEMMA HeldIsSeen ==
    ASSUME TypeOK, Unseen, NEW w \in Workers, worker[w] # Idle
    PROVE  worker[w].d \in Deliveries /\ row[worker[w].d].status \notin {"none", "open"}
<1>1. worker[w] \in Job /\ worker[w].pc # "idle" /\ worker[w].d \in Deliveries
  BY IdleJob, JobFields
<1>2. w \in Running(worker[w].d)
  BY <1>1 DEF Running
<1> QED
  BY <1>1, <1>2 DEF Unseen

(* Steps that change no transaction and no row of one, and after which     *)
(* only rows that were visible are held or seen.                           *)
LEMMA OwnKept ==
    ASSUME TypeOK, TypeOK', OwnInv, UNCHANGED tx,
           \A d \in Deliveries : \/ row'[d] = row[d]
                                 \/ row[d].status # "open" /\ row'[d].status \notin {"none", "open"},
           \A d \in Deliveries : row[d].status \in {"none", "open"} => received'[d] = received[d],
           \A v \in Workers : \/ worker'[v] = worker[v]
                              \/ worker'[v].pc = "idle"
                              \/ row[worker'[v].d].status \notin {"none", "open"}
    PROVE  OwnInv'
<1>1. OpenRows'
  BY RowsKept DEF OwnInv
<1>2. ASSUME NEW d \in Deliveries, row'[d].status \in {"none", "open"}
      PROVE  received'[d] = 0 /\ Running(d)' = {}
  <2>1. row'[d] = row[d] /\ row[d].status \in {"none", "open"}
    BY <1>2
  <2>2. received[d] = 0 /\ Running(d) = {}
    BY <2>1 DEF OwnInv, Unseen
  <2>3. \A v \in Workers : ~(worker'[v].pc # "idle" /\ worker'[v].d = d)
    BY <2>1, <2>2 DEF Running
  <2> QED
    BY <2>1, <2>2, <2>3 DEF Running
<1> QED
  BY <1>1, <1>2 DEF OwnInv, Unseen

LEMMA InitOwn == Init => OwnInv
BY DEF Init, OwnInv, OpenRows, Unseen, NoTx, Idle, Running

LEMMA NextOwn ==
    ASSUME WellInv, WellInv', OwnInv, Next PROVE OwnInv'
<1>0. TypeOK /\ TypeOK'
  BY DEF WellInv
<1>1. ASSUME NEW e \in Endpoints, Create(e) \/ Update(e) PROVE OwnInv'
  BY <1>0, <1>1, OwnKept DEF Create, Update, Api
<1>2. ASSUME NEW e \in Endpoints, Delete(e) PROVE OwnInv'
  <2>1. \A d \in Deliveries : \/ row'[d] = row[d]
                              \/ row[d].status # "open" /\ row'[d].status \notin {"none", "open"}
    BY <1>0, <1>2, RowsDeleted DEF Committed, Final
  <2> QED
    BY <1>0, <1>2, <2>1, OwnKept DEF Delete, Api
<1>3. ASSUME NEW t \in Emitters, NEW new, tx' = [tx EXCEPT ![t] = new], new.rows \subseteq tx[t].rows,
             UNCHANGED <<row, worker, received>>
      PROVE  OwnInv'
  <2>1. \A u \in Emitters : tx'[u].rows \subseteq tx[u].rows
    BY <1>0, <1>3 DEF TypeOK
  <2>2. OpenRows'
    BY <1>3, <2>1 DEF OwnInv, OpenRows
  <2>3. Unseen'
    BY <1>3 DEF OwnInv, Unseen, Running
  <2> QED
    BY <2>2, <2>3 DEF OwnInv
<1>4. ASSUME NEW t \in Emitters, Emit(t) PROVE OwnInv'
  <2>1. PICK ev \in Events :
          tx' = [tx EXCEPT ![t] = [NoTx EXCEPT !.pc = "open", !.todo = Subscribed(ev), !.event = ev]]
    BY <1>4 DEF Emit
  <2>2. [NoTx EXCEPT !.pc = "open", !.todo = Subscribed(ev), !.event = ev].rows \subseteq tx[t].rows
    BY DEF NoTx
  <2> QED
    BY <1>3, <1>4, <2>1, <2>2 DEF Emit, Emission
<1>5. ASSUME NEW t \in Emitters, TestPing(t) PROVE OwnInv'
  <2>1. PICK e \in Endpoints : tx' = [tx EXCEPT ![t] = [NoTx EXCEPT !.pc = "open", !.todo = {e}]]
    BY <1>5 DEF TestPing
  <2>2. [NoTx EXCEPT !.pc = "open", !.todo = {e}].rows \subseteq tx[t].rows
    BY DEF NoTx
  <2> QED
    BY <1>3, <1>5, <2>1, <2>2 DEF TestPing, Emission
<1>6. ASSUME NEW t \in Emitters, EmitRow(t) PROVE OwnInv'
  <2>1. PICK e \in Endpoints, d \in Deliveries :
          /\ Insert(t, e, d)
          /\ row' = [row EXCEPT ![d] = [status |-> "open", endpoint |-> e,
                                        event |-> tx[t].event, attempts |-> 0]]
          /\ tx' = [tx EXCEPT ![t].todo = @ \ {e}, ![t].rows = @ \cup {d}]
    BY <1>6 DEF EmitRow
  <2>2. /\ row'[d].status = "open" /\ \A k \in Deliveries : k # d => row'[k] = row[k]
        /\ tx'[t].rows = tx[t].rows \cup {d} /\ \A u \in Emitters : u # t => tx'[u] = tx[u]
        /\ row[d].status = "none"
    BY <1>0, <2>1, RowEmitted DEF Insert
  <2>3. \A u \in Emitters : d \notin tx[u].rows
    BY <2>2 DEF OwnInv, OpenRows
  <2>4. \A u \in Emitters : tx[u].rows \subseteq Deliveries
    BY <1>0, TxRows
  <2>5. OpenRows'
    <3> SUFFICES ASSUME NEW u \in Emitters, NEW k \in tx'[u].rows
                 PROVE  row'[k].status = "open" /\ \A v \in Emitters : k \in tx'[v].rows => v = u
      BY DEF OpenRows
    <3>1. CASE k = d
      BY <2>2, <2>3, <3>1
    <3>2. CASE k # d
      <4>1. k \in tx[u].rows /\ k \in Deliveries
        BY <2>2, <2>4, <3>2
      <4>2. \A v \in Emitters : k \in tx'[v].rows => k \in tx[v].rows
        BY <2>2, <3>2
      <4> QED
        BY <2>2, <3>2, <4>1, <4>2 DEF OwnInv, OpenRows
    <3> QED
      BY <3>1, <3>2
  <2>6. UNCHANGED <<received, worker>>
    BY <1>6 DEF EmitRow, Emission
  <2>7. Unseen'
    BY <2>2, <2>6 DEF OwnInv, Unseen, Running
  <2> QED
    BY <2>5, <2>7 DEF OwnInv
<1>7. ASSUME NEW t \in Emitters, EmitFails(t) PROVE OwnInv'
  <2> DEFINE new == [tx[t] EXCEPT !.pc = "broken", !.todo = {}]
  <2>1. tx' = [tx EXCEPT ![t] = new]
    BY <1>0, <1>7 DEF EmitFails, TypeOK
  <2>2. new.rows \subseteq tx[t].rows
    BY <1>0 DEF TypeOK, Tx
  <2> HIDE DEF new
  <2> QED
    BY <1>3, <1>7, <2>1, <2>2 DEF EmitFails, Emission
<1>8. ASSUME NEW t \in Emitters, NEW status \in {"pending", "gone"}, Close(t, status) PROVE OwnInv'
  <2>1. /\ \A d \in Deliveries : /\ d \in tx[t].rows => row'[d].status = status
                                 /\ d \notin tx[t].rows => row'[d] = row[d]
        /\ tx'[t] = NoTx /\ \A u \in Emitters : u # t => tx'[u] = tx[u]
    BY <1>0, <1>8, RowsClosed
  <2>2. \A u \in Emitters : tx[u].rows \subseteq Deliveries
    BY <1>0, TxRows
  <2>3. OpenRows'
    <3> SUFFICES ASSUME NEW u \in Emitters, NEW k \in tx'[u].rows
                 PROVE  row'[k].status = "open" /\ \A v \in Emitters : k \in tx'[v].rows => v = u
      BY DEF OpenRows
    <3>1. u # t /\ k \in tx[u].rows /\ k \in Deliveries
      BY <2>1, <2>2 DEF NoTx
    <3>2. k \notin tx[t].rows
      BY <3>1 DEF OwnInv, OpenRows
    <3>3. \A v \in Emitters : k \in tx'[v].rows => k \in tx[v].rows
      BY <2>1, <3>1 DEF NoTx
    <3> QED
      BY <2>1, <3>1, <3>2, <3>3 DEF OwnInv, OpenRows
  <2>4. UNCHANGED <<received, worker>>
    BY <1>8 DEF Close, Emission
  <2>5. Unseen'
    BY <2>1, <2>4 DEF OwnInv, Unseen, Running
  <2> QED
    BY <2>3, <2>5 DEF OwnInv
<1>9. ASSUME NEW t \in Emitters, EmitCommit(t) \/ EmitRollback(t) PROVE OwnInv'
  BY <1>8, <1>9 DEF EmitCommit, EmitRollback
<1>10. ASSUME NEW w \in Workers, NEW d \in Deliveries, Discard(w, d) PROVE OwnInv'
  BY <1>0, <1>10, OwnKept DEF Discard, Delivery
<1>11. ASSUME NEW w \in Workers, NEW d \in Deliveries, Refuse(w, d) PROVE OwnInv'
  <2>1. \A k \in Deliveries : \/ row'[k] = row[k]
                              \/ row[k].status # "open" /\ row'[k].status \notin {"none", "open"}
    BY <1>0, <1>11, RowRefused DEF Refuse
  <2> QED
    BY <1>0, <1>11, <2>1, OwnKept DEF Refuse, Delivery
<1>12. ASSUME NEW w \in Workers, NEW d \in Deliveries, Attempt(w, d) PROVE OwnInv'
  <2>1. /\ worker'[w].d = d /\ \A v \in Workers : v # w => worker'[v] = worker[v]
    BY <1>0, <1>12, WorkersAre DEF Attempt
  <2>2. row[d].status = "pending"
    BY <1>12 DEF Attempt
  <2> QED
    BY <1>0, <1>12, <2>1, <2>2, OwnKept DEF Attempt, Delivery
<1>13. ASSUME NEW w \in Workers, NEW j, worker[w] # Idle, Step(w, j),
              j.pc = "idle" \/ j.d = worker[w].d
       PROVE  \A v \in Workers : \/ worker'[v] = worker[v]
                                 \/ worker'[v].pc = "idle"
                                 \/ row[worker'[v].d].status \notin {"none", "open"}
  BY <1>0, <1>13, WorkersAre, HeldIsSeen DEF OwnInv
<1>14. ASSUME NEW w \in Workers, NEW pc \in {"answered", "retrying", "done"}, NEW ok \in BOOLEAN,
              worker[w] # Idle
       PROVE  /\ [worker[w] EXCEPT !.pc = pc].d = worker[w].d
              /\ [worker[w] EXCEPT !.pc = pc, !.ok = ok].d = worker[w].d
  BY <1>0, <1>14, IdleJob DEF Job
<1>15. ASSUME NEW w \in Workers, Post(w) PROVE OwnInv'
  <2>0. worker[w] # Idle
    BY <1>15 DEF Post, Idle
  <2>1. PICK got \in BOOLEAN, ok \in BOOLEAN :
          /\ Step(w, [worker[w] EXCEPT !.pc = "answered", !.ok = ok])
          /\ received' = IF got THEN [received EXCEPT ![worker[w].d] = @ + 1] ELSE received
    BY <1>15 DEF Post
  <2>2. \A v \in Workers : \/ worker'[v] = worker[v]
                           \/ worker'[v].pc = "idle"
                           \/ row[worker'[v].d].status \notin {"none", "open"}
    BY <1>13, <1>14, <2>0, <2>1
  <2>3. worker[w].d \in Deliveries /\ row[worker[w].d].status \notin {"none", "open"}
    BY <1>0, <2>0, HeldIsSeen DEF OwnInv
  <2>4. \A d \in Deliveries : d # worker[w].d => received'[d] = received[d]
    BY <1>0, <2>1, <2>3 DEF TypeOK
  <2> QED
    BY <1>0, <1>15, <2>2, <2>3, <2>4, OwnKept DEF Post, Delivery
<1>16. ASSUME NEW w \in Workers, NEW status, NEW pc \in {"retrying", "done"}, Answered(w), RowAs(w, status),
              status \in Final \/ (status = row[worker[w].d].status /\ worker[w].n < MaxAttempts),
              Step(w, [worker[w] EXCEPT !.pc = pc]), UNCHANGED <<received, tx>>
       PROVE  OwnInv'
  <2>0. worker[w] # Idle
    BY <1>16 DEF Answered, Idle
  <2>1. \A v \in Workers : \/ worker'[v] = worker[v]
                           \/ worker'[v].pc = "idle"
                           \/ row[worker'[v].d].status \notin {"none", "open"}
    BY <1>13, <1>14, <1>16, <2>0
  <2>2. worker[w].d \in Deliveries /\ row[worker[w].d].status \notin {"none", "open"}
    BY <1>0, <2>0, HeldIsSeen DEF OwnInv
  <2>3. /\ \A d \in Deliveries : d # worker[w].d => row'[d] = row[d]
        /\ row'[worker[w].d] = [row[worker[w].d] EXCEPT !.status = status, !.attempts = worker[w].n]
    BY <1>16, RowWritten
  <2>4. row'[worker[w].d].status = status
    BY <1>0, <2>2, <2>3 DEF TypeOK, Row
  <2>5. status \notin {"none", "open"}
    BY <1>16, <2>2 DEF Final
  <2> QED
    BY <1>0, <1>16, <2>1, <2>2, <2>3, <2>4, <2>5, OwnKept
<1>17. ASSUME NEW w \in Workers, Delivered(w) PROVE OwnInv'
  <2>1. "delivered" \in Final
    BY DEF Final
  <2> QED
    BY <1>16, <1>17, <2>1 DEF Delivered, Delivery
<1>18. ASSUME NEW w \in Workers, Exhausted(w) PROVE OwnInv'
  <2>1. "failed" \in Final
    BY DEF Final
  <2> QED
    BY <1>16, <1>18, <2>1 DEF Exhausted, Delivery
<1>19. ASSUME NEW w \in Workers, AttemptFailed(w) PROVE OwnInv'
  BY <1>16, <1>19 DEF AttemptFailed, Delivery
<1>20. ASSUME NEW w \in Workers, RowDeleted(w) \/ Acknowledge(w) \/ Death(w) PROVE OwnInv'
  <2>1. worker[w] # Idle /\ Step(w, Idle) /\ UNCHANGED <<row, received, tx>>
    BY <1>20 DEF RowDeleted, Acknowledge, Death, Delivery, Idle
  <2>2. Idle.pc = "idle"
    BY DEF Idle
  <2>3. \A v \in Workers : worker'[v] = worker[v] \/ worker'[v].pc = "idle"
    BY <1>0, <2>1, <2>2, WorkersAre
  <2> QED
    BY <1>0, <2>1, <2>3, OwnKept
<1>21. ASSUME NEW w \in Workers, Retry(w) PROVE OwnInv'
  <2>0. worker[w] # Idle /\ Step(w, [worker[w] EXCEPT !.pc = "done"]) /\ UNCHANGED <<row, received, tx>>
    BY <1>21 DEF Retry, Idle, Delivery
  <2>1. \A v \in Workers : \/ worker'[v] = worker[v]
                           \/ worker'[v].pc = "idle"
                           \/ row[worker'[v].d].status \notin {"none", "open"}
    BY <1>13, <1>14, <2>0
  <2> QED
    BY <1>0, <2>0, <2>1, OwnKept
<1>22. CASE RedisLost \/ Redeliver
  BY <1>0, <1>22, OwnKept DEF RedisLost, Redeliver, Delivery
<1> QED
  BY <1>1, <1>2, <1>4, <1>5, <1>6, <1>7, <1>9, <1>10, <1>11, <1>12, <1>15, <1>17, <1>18, <1>19,
     <1>20, <1>21, <1>22 DEF Next, Act, Work, Finish

-----------------------------------------------------------------------------
(* The attempts.                                                           *)

(* Two jobs of a delivery at once are on record.                           *)
Twice == \A d \in Deliveries : Copies(d) > 1 => d \in duplicated

(* An attempt of a delivery with one job works on the row as it is.        *)
Alone ==
    \A w \in Workers :
       /\ worker[w].pc \in {"posting", "answered"} => worker[w].d \in duplicated \/
             /\ row[worker[w].d].status \in {"pending", "gone"}
             /\ worker[w].n = row[worker[w].d].attempts + 1
       /\ worker[w].pc = "answered" /\ worker[w].ok => worker[w].d \in accepted

(* What the receiver saw and the row does not count: the attempt that was  *)
(* answered, and one for each fault.                                       *)
Owed(d) == row[d].attempts + faults
Paid(d) ==
    \/ received[d] <= Owed(d)
    \/ received[d] <= Owed(d) + 1 /\ \E w \in Running(d) : worker[w].pc = "answered"

Account ==
    \A d \in Deliveries :
       /\ row[d].status = "delivered" => d \in accepted
       /\ row[d].status \in Committed /\ d \notin duplicated => Paid(d)

AttemptInv == Twice /\ Alone /\ Account

LEMMA InitAttempt == Init => AttemptInv
<1> SUFFICES ASSUME Init PROVE AttemptInv
  OBVIOUS
<1>1. \A d \in Deliveries : Running(d) = {} /\ queue[d] = 0
  BY DEF Init, Running, Idle
<1>2. Twice
  BY <1>1, FS_EmptySet DEF Twice, Copies
<1>3. Alone /\ Account
  BY DEF Init, Alone, Account, Idle, Committed, Final
<1> QED
  BY <1>2, <1>3 DEF AttemptInv

LEMMA NextTwice == ASSUME TypeOK, Twice, Next PROVE Twice' /\ duplicated \subseteq duplicated'
BY DEF Twice, Next

(* A delivery off the record has one job: a worker that has it is alone    *)
(* with it, and no copy waits.                                             *)
LEMMA OneJob ==
    ASSUME TypeOK, Twice, NEW w \in Workers, worker[w] # Idle, worker[w].d \notin duplicated
    PROVE  /\ queue[worker[w].d] = 0
           /\ \A v \in Workers : worker[v] # Idle /\ worker[v].d = worker[w].d => v = w
<1>1. worker[w].d \in Deliveries /\ w \in Running(worker[w].d)
  BY IdleJob, JobFields DEF Running
<1>2. ~(Copies(worker[w].d) > 1)
  BY <1>1 DEF Twice
<1>3. queue[worker[w].d] \in Nat
  BY <1>1 DEF TypeOK
<1>4. \A v \in Workers : worker[v] # Idle /\ worker[v].d = worker[w].d => v \in Running(worker[w].d)
  BY IdleJob DEF Running
<1> QED
  BY <1>1, <1>2, <1>3, <1>4, TwoJobs

(* A step that leaves the rows and what the receiver saw, and starts no    *)
(* attempt and ends none that was answered.                                *)
LEMMA AttemptsKept ==
    ASSUME WellInv, WellInv', OwnInv, AttemptInv, Next,
           \A v \in Workers : worker'[v] = worker[v] \/ worker'[v].pc \notin {"posting", "answered"},
           \A d \in Deliveries :
              \/ row'[d] = row[d]
              \/ row[d].status = "none" /\ row'[d].status = "open"
              \/ row[d].status = "open" /\ row'[d].status \in {"pending", "gone"}
              \/ row[d].status \in Committed /\ row'[d].status = "gone" /\ row'[d].attempts = row[d].attempts,
           \A v \in Workers : worker[v].pc = "answered" => worker'[v] = worker[v] \/ faults' > faults
                                 \/ row'[worker[v].d].status \notin Committed,
           faults' >= faults, UNCHANGED <<received, accepted>>
    PROVE  AttemptInv'
<1> USE DEF Committed, Final
<1>0. TypeOK /\ TypeOK' /\ Twice' /\ duplicated \subseteq duplicated' /\ Twice
  BY NextTwice DEF WellInv, AttemptInv
<1>1. Alone'
  <2> SUFFICES ASSUME NEW w \in Workers, worker'[w].pc \in {"posting", "answered"}
               PROVE  /\ worker'[w].d \notin duplicated' =>
                           /\ row'[worker'[w].d].status \in {"pending", "gone"}
                           /\ worker'[w].n = row'[worker'[w].d].attempts + 1
                      /\ worker'[w].pc = "answered" /\ worker'[w].ok => worker'[w].d \in accepted'
    BY DEF Alone
  <2>1. worker'[w] = worker[w]
    OBVIOUS
  <2>2. worker[w] # Idle /\ worker[w].d \in Deliveries
    BY <1>0, <2>1, BusyJob, JobFields
  <2>a. row[worker[w].d].status \notin {"none", "open"}
    BY <1>0, <2>2, HeldIsSeen DEF OwnInv
  <2>3. \/ row'[worker[w].d] = row[worker[w].d]
        \/ row'[worker[w].d].status = "gone" /\ row'[worker[w].d].attempts = row[worker[w].d].attempts
    BY <2>2, <2>a
  <2> QED
    BY <1>0, <2>1, <2>2, <2>3 DEF AttemptInv, Alone
<1>2. Account'
  <2> SUFFICES ASSUME NEW d \in Deliveries
               PROVE  /\ row'[d].status = "delivered" => d \in accepted'
                      /\ row'[d].status \in Committed /\ d \notin duplicated' => Paid(d)'
    BY DEF Account
  <2>1. row'[d].status = "delivered" => d \in accepted'
    BY DEF AttemptInv, Account
  <2>2. ASSUME row'[d].status \in Committed, d \notin duplicated' PROVE Paid(d)'
    <3>0. CASE row[d].status = "open"
      <4>1. received'[d] = 0
        BY <3>0 DEF OwnInv, Unseen
      <4>2. row'[d].attempts \in Nat /\ faults' \in Nat
        BY <1>0 DEF TypeOK, Row
      <4> QED
        BY <4>1, <4>2 DEF Paid, Owed
    <3> SUFFICES ASSUME row[d].status # "open" PROVE Paid(d)'
      BY <3>0
    <3>1. row'[d] = row[d] /\ d \notin duplicated
      BY <1>0, <2>2
    <3>2. Paid(d)
      BY <2>2, <3>1 DEF AttemptInv, Account
    <3>3. received[d] \in Nat /\ row[d].attempts \in Nat /\ faults \in Nat /\ faults' \in Nat
      BY <1>0 DEF TypeOK, Row
    <3>4. CASE received[d] <= Owed(d)
      BY <3>1, <3>3, <3>4 DEF Paid, Owed
    <3>5. ASSUME received[d] <= Owed(d) + 1, NEW w \in Running(d), worker[w].pc = "answered"
          PROVE  Paid(d)'
      <4>1. worker[w].d = d /\ w \in Workers
        BY DEF Running
      <4>2. CASE worker'[w] = worker[w]
        <5>1. w \in Running(d)' /\ worker'[w].pc = "answered"
          BY <3>5, <4>1, <4>2 DEF Running
        <5>2. received'[d] <= Owed(d)' + 1
          BY <3>1, <3>3, <3>5 DEF Owed
        <5> QED
          BY <5>1, <5>2 DEF Paid
      <4>3. CASE faults' > faults
        BY <3>1, <3>3, <3>5, <4>3 DEF Paid, Owed
      <4> QED
        BY <2>2, <3>5, <4>1, <4>2, <4>3
    <3> QED
      BY <3>2, <3>4, <3>5 DEF Paid
  <2> QED
    BY <2>1, <2>2
<1> QED
  BY <1>0, <1>1, <1>2 DEF AttemptInv

(* A worker writes what came of an attempt.                                *)
LEMMA WriteAttempt ==
    ASSUME WellInv, WellInv', OwnInv, AttemptInv, Next,
           NEW w \in Workers, NEW status, NEW pc \in {"retrying", "done"}, Answered(w), RowAs(w, status),
           status \in Final \/ (status = row[worker[w].d].status /\ worker[w].n < MaxAttempts),
           status = "delivered" /\ row[worker[w].d].status # "delivered" => worker[w].ok,
           Step(w, [worker[w] EXCEPT !.pc = pc]), UNCHANGED <<received, accepted, faults>>
    PROVE  AttemptInv'
<1>0. TypeOK /\ TypeOK' /\ Twice' /\ duplicated \subseteq duplicated' /\ Twice
  BY NextTwice DEF WellInv, AttemptInv
<1>1. worker[w] # Idle /\ worker[w] \in Job /\ worker[w].d \in Deliveries /\ worker[w].n \in Nat
  BY <1>0, BusyJob, JobFields DEF Answered
<1>2. /\ \A d \in Deliveries : d # worker[w].d => row'[d] = row[d]
      /\ row'[worker[w].d] = [row[worker[w].d] EXCEPT !.status = status, !.attempts = worker[w].n]
  BY RowWritten
<1>3. row'[worker[w].d].status = status /\ row'[worker[w].d].attempts = worker[w].n
  BY <1>0, <1>1, <1>2 DEF TypeOK, Row
<1>4. worker'[w].pc = pc /\ \A v \in Workers : v # w => worker'[v] = worker[v]
  <2>1. [worker[w] EXCEPT !.pc = pc].pc = pc
    BY <1>1 DEF Job
  <2> QED
    BY <1>0, <2>1, WorkersAre
<1>5. Alone'
  <2> SUFFICES ASSUME NEW v \in Workers, worker'[v].pc \in {"posting", "answered"}
               PROVE  /\ worker'[v].d \notin duplicated' =>
                           /\ row'[worker'[v].d].status \in {"pending", "gone"}
                           /\ worker'[v].n = row'[worker'[v].d].attempts + 1
                      /\ worker'[v].pc = "answered" /\ worker'[v].ok => worker'[v].d \in accepted'
    BY DEF Alone
  <2>1. v # w /\ worker'[v] = worker[v]
    BY <1>4
  <2>2. worker[v] # Idle /\ worker[v].d \in Deliveries
    BY <1>0, <2>1, BusyJob, JobFields
  <2>3. worker[v].d = worker[w].d => worker[v].d \in duplicated
    BY <1>0, <1>1, <2>1, <2>2, OneJob
  <2> QED
    BY <1>0, <1>2, <2>1, <2>2, <2>3 DEF AttemptInv, Alone
<1>6. Account'
  <2> SUFFICES ASSUME NEW d \in Deliveries
               PROVE  /\ row'[d].status = "delivered" => d \in accepted'
                      /\ row'[d].status \in Committed /\ d \notin duplicated' => Paid(d)'
    BY DEF Account
  <2>1. CASE d = worker[w].d
    <3>1. row'[d].status = "delivered" => d \in accepted'
      BY <1>3, <2>1 DEF AttemptInv, Account, Alone, Answered
    <3>2. ASSUME row'[d].status \in Committed, d \notin duplicated' PROVE Paid(d)'
      <4>1. d \notin duplicated /\ row[d].status # "gone"
        BY <1>0, <2>1, <3>2 DEF Answered
      <4>2. row[d].status = "pending" /\ worker[w].n = row[d].attempts + 1
        BY <2>1, <4>1 DEF AttemptInv, Alone, Answered
      <4>3. received[d] <= row[d].attempts + faults \/ received[d] <= row[d].attempts + faults + 1
        BY <4>1, <4>2 DEF AttemptInv, Account, Paid, Owed, Committed
      <4>4. received[d] \in Nat /\ row[d].attempts \in Nat /\ faults \in Nat
        BY <1>0 DEF TypeOK, Row
      <4> QED
        BY <1>3, <2>1, <4>2, <4>3, <4>4 DEF Paid, Owed
    <3> QED
      BY <3>1, <3>2
  <2>2. CASE d # worker[w].d
    <3>1. row'[d] = row[d]
      BY <1>2, <2>2
    <3>2. \A v \in Running(d) : worker'[v] = worker[v]
      BY <1>4, <2>2 DEF Running
    <3>3. Paid(d) => Paid(d)'
      <4>1. \A v \in Running(d) : v \in Running(d)'
        BY <3>2 DEF Running
      <4> QED
        BY <3>1, <3>2, <4>1 DEF Paid, Owed
    <3> QED
      BY <1>0, <3>1, <3>3 DEF AttemptInv, Account
  <2> QED
    BY <2>1, <2>2
<1> QED
  BY <1>0, <1>5, <1>6 DEF AttemptInv

LEMMA RefuseAttempt ==
    ASSUME WellInv, WellInv', OwnInv, AttemptInv, Next,
           NEW w \in Workers, NEW d \in Deliveries, Refuse(w, d)
    PROVE  AttemptInv'
<1>0. TypeOK /\ TypeOK' /\ Twice' /\ duplicated \subseteq duplicated' /\ Twice
  BY NextTwice DEF WellInv, AttemptInv
<1>1. /\ row'[d].status = "failed" /\ row'[d].attempts = row[d].attempts
      /\ \A k \in Deliveries : k # d => row'[k] = row[k]
  BY <1>0, RowRefused
<1>2. UNCHANGED <<worker, received, accepted, faults>> /\ queue[d] > 0 /\ row[d].status = "pending"
  BY DEF Refuse, Taken
<1>3. Alone'
  <2> SUFFICES ASSUME NEW v \in Workers, worker[v].pc \in {"posting", "answered"}
               PROVE  /\ worker[v].d \notin duplicated' =>
                           /\ row'[worker[v].d].status \in {"pending", "gone"}
                           /\ worker[v].n = row'[worker[v].d].attempts + 1
                      /\ worker[v].pc = "answered" /\ worker[v].ok => worker[v].d \in accepted'
    BY <1>2 DEF Alone
  <2>1. worker[v] # Idle /\ worker[v].d \in Deliveries
    BY <1>0, BusyJob, JobFields
  <2>2. worker[v].d = d => d \in duplicated
    BY <1>0, <1>2, <2>1, OneJob
  <2> QED
    BY <1>0, <1>1, <1>2, <2>1, <2>2 DEF AttemptInv, Alone
<1>4. \A k \in Deliveries : Paid(k) => Paid(k)'
  BY <1>1, <1>2 DEF Paid, Owed, Running
<1>5. Account'
  <2> SUFFICES ASSUME NEW k \in Deliveries
               PROVE  /\ row'[k].status = "delivered" => k \in accepted'
                      /\ row'[k].status \in Committed /\ k \notin duplicated' => Paid(k)'
    BY DEF Account
  <2>1. row'[k].status = "delivered" => row[k].status = "delivered"
    BY <1>1
  <2>2. row'[k].status \in Committed => row[k].status \in Committed
    BY <1>1, <1>2 DEF Committed
  <2> QED
    BY <1>0, <1>2, <1>4, <2>1, <2>2 DEF AttemptInv, Account
<1> QED
  BY <1>0, <1>3, <1>5 DEF AttemptInv

LEMMA StartAttempt ==
    ASSUME WellInv, WellInv', OwnInv, AttemptInv, Next,
           NEW w \in Workers, NEW d \in Deliveries, Attempt(w, d)
    PROVE  AttemptInv'
<1>0. TypeOK /\ TypeOK' /\ Twice' /\ duplicated \subseteq duplicated' /\ Twice
  BY NextTwice DEF WellInv, AttemptInv
<1>1. /\ worker'[w] = [pc |-> "posting", d |-> d, ok |-> FALSE, n |-> row[d].attempts + 1]
      /\ \A v \in Workers : v # w => worker'[v] = worker[v]
  BY <1>0, WorkersAre DEF Attempt
<1>2. UNCHANGED <<row, received, accepted, faults>> /\ row[d].status = "pending" /\ worker[w] = Idle
  BY DEF Attempt, Taken
<1>3. Alone'
  <2> SUFFICES ASSUME NEW v \in Workers, worker'[v].pc \in {"posting", "answered"}
               PROVE  /\ worker'[v].d \notin duplicated' =>
                           /\ row'[worker'[v].d].status \in {"pending", "gone"}
                           /\ worker'[v].n = row'[worker'[v].d].attempts + 1
                      /\ worker'[v].pc = "answered" /\ worker'[v].ok => worker'[v].d \in accepted'
    BY DEF Alone
  <2>1. CASE v = w
    BY <1>1, <1>2, <2>1
  <2>2. CASE v # w
    BY <1>0, <1>1, <1>2, <2>2 DEF AttemptInv, Alone
  <2> QED
    BY <2>1, <2>2
<1>4. ASSUME NEW k \in Deliveries, Paid(k) PROVE Paid(k)'
  <2>1. \A v \in Running(k) : v \in Running(k)' /\ worker'[v] = worker[v]
    BY <1>1, <1>2 DEF Running, Idle
  <2> QED
    BY <1>2, <1>4, <2>1 DEF Paid, Owed
<1>5. Account'
  BY <1>0, <1>2, <1>4 DEF AttemptInv, Account
<1> QED
  BY <1>0, <1>3, <1>5 DEF AttemptInv

LEMMA PostAttempt ==
    ASSUME WellInv, WellInv', OwnInv, AttemptInv, Next, NEW w \in Workers, Post(w)
    PROVE  AttemptInv'
<1>0. TypeOK /\ TypeOK' /\ Twice' /\ duplicated \subseteq duplicated' /\ Twice
  BY NextTwice DEF WellInv, AttemptInv
<1>1. worker[w] # Idle /\ worker[w] \in Job /\ worker[w].d \in Deliveries /\ worker[w].pc = "posting"
  BY <1>0, BusyJob, JobFields DEF Post
<1>2. PICK got \in BOOLEAN, ok \in BOOLEAN :
        /\ Step(w, [worker[w] EXCEPT !.pc = "answered", !.ok = ok])
        /\ received' = IF got THEN [received EXCEPT ![worker[w].d] = @ + 1] ELSE received
        /\ accepted' = IF ok THEN accepted \cup {worker[w].d} ELSE accepted
  BY DEF Post
<1>3. /\ worker'[w].pc = "answered" /\ worker'[w].ok = ok
      /\ worker'[w].d = worker[w].d /\ worker'[w].n = worker[w].n
      /\ \A v \in Workers : v # w => worker'[v] = worker[v]
  <2>1. /\ [worker[w] EXCEPT !.pc = "answered", !.ok = ok].pc = "answered"
        /\ [worker[w] EXCEPT !.pc = "answered", !.ok = ok].ok = ok
        /\ [worker[w] EXCEPT !.pc = "answered", !.ok = ok].d = worker[w].d
        /\ [worker[w] EXCEPT !.pc = "answered", !.ok = ok].n = worker[w].n
    BY <1>1 DEF Job
  <2> QED
    BY <1>0, <1>2, <2>1, WorkersAre
<1>4. /\ \A d \in Deliveries : d # worker[w].d => received'[d] = received[d]
      /\ received'[worker[w].d] \in {received[worker[w].d], received[worker[w].d] + 1}
      /\ accepted \subseteq accepted' /\ (ok => worker[w].d \in accepted')
  BY <1>0, <1>1, <1>2 DEF TypeOK
<1>5. UNCHANGED <<row, faults>>
  BY DEF Post
<1>6. Alone'
  <2> SUFFICES ASSUME NEW v \in Workers, worker'[v].pc \in {"posting", "answered"}
               PROVE  /\ worker'[v].d \notin duplicated' =>
                           /\ row'[worker'[v].d].status \in {"pending", "gone"}
                           /\ worker'[v].n = row'[worker'[v].d].attempts + 1
                      /\ worker'[v].pc = "answered" /\ worker'[v].ok => worker'[v].d \in accepted'
    BY DEF Alone
  <2>1. CASE v = w
    BY <1>0, <1>1, <1>3, <1>4, <1>5, <2>1 DEF AttemptInv, Alone
  <2>2. CASE v # w
    BY <1>0, <1>3, <1>4, <1>5, <2>2 DEF AttemptInv, Alone
  <2> QED
    BY <2>1, <2>2
<1>7. ASSUME NEW d \in Deliveries, row[d].status \in Committed, d \notin duplicated PROVE Paid(d)'
  <2>0. Paid(d)
    BY <1>7 DEF AttemptInv, Account
  <2>1. CASE d = worker[w].d
    <3>1. \A v \in Running(d) : v = w
      BY <1>0, <1>1, <1>7, <2>1, OneJob, IdleJob DEF Running, Idle
    <3>2. received[d] <= Owed(d)
      BY <1>1, <2>0, <3>1 DEF Paid
    <3>3. w \in Running(d)'
      BY <1>3, <2>1 DEF Running
    <3>4. received[d] \in Nat /\ row[d].attempts \in Nat /\ faults \in Nat
      BY <1>0 DEF TypeOK, Row
    <3>5. received'[d] <= Owed(d)' + 1
      BY <1>4, <1>5, <2>1, <3>2, <3>4 DEF Owed
    <3> QED
      BY <1>3, <3>3, <3>5 DEF Paid
  <2>2. CASE d # worker[w].d
    <3>1. \A v \in Running(d) : v \in Running(d)' /\ worker'[v] = worker[v]
      BY <1>3, <2>2 DEF Running
    <3> QED
      BY <1>4, <1>5, <2>0, <2>2, <3>1 DEF Paid, Owed
  <2> QED
    BY <2>1, <2>2
<1>8. Account'
  BY <1>0, <1>4, <1>5, <1>7 DEF AttemptInv, Account
<1> QED
  BY <1>0, <1>6, <1>8 DEF AttemptInv

LEMMA NextAttempt ==
    ASSUME WellInv, WellInv', OwnInv, AttemptInv, Next PROVE AttemptInv'
<1>0. TypeOK /\ TypeOK' /\ faults \in Nat /\ faults' \in Nat
  BY DEF WellInv, TypeOK
<1>f. \A kind : Fault(kind) => faults' > faults
  BY <1>0 DEF Fault
<1>1. ASSUME NEW e \in Endpoints, Create(e) \/ Update(e) PROVE AttemptInv'
  BY <1>0, <1>1, AttemptsKept DEF Create, Update, Api
<1>2. ASSUME NEW e \in Endpoints, Delete(e) PROVE AttemptInv'
  <2>1. \A d \in Deliveries :
          \/ row'[d] = row[d]
          \/ row[d].status \in Committed /\ row'[d].status = "gone" /\ row'[d].attempts = row[d].attempts
    <3> SUFFICES ASSUME NEW d \in Deliveries, row'[d] # row[d]
                 PROVE  row[d].status \in Committed /\ row'[d].status = "gone" /\ row'[d].attempts = row[d].attempts
      OBVIOUS
    <3>1. row[d].status \in Committed /\ row'[d].status = "gone" /\ row'[d] = [row[d] EXCEPT !.status = "gone"]
      BY <1>0, <1>2, RowsDeleted DEF Delete
    <3>2. [row[d] EXCEPT !.status = "gone"].attempts = row[d].attempts
      BY <1>0 DEF TypeOK, Row
    <3> QED
      BY <3>1, <3>2
  <2> QED
    BY <1>0, <1>2, <2>1, AttemptsKept DEF Delete, Api
<1>3. ASSUME NEW t \in Emitters, Emit(t) \/ TestPing(t) \/ EmitFails(t) PROVE AttemptInv'
  <2>1. UNCHANGED <<row, worker, received, accepted, faults>>
    BY <1>3 DEF Emit, TestPing, EmitFails, Emission
  <2> QED
    BY <1>0, <2>1, AttemptsKept
<1>4. ASSUME NEW t \in Emitters, EmitRow(t) PROVE AttemptInv'
  <2>1. PICK e \in Endpoints, d \in Deliveries :
          /\ Insert(t, e, d)
          /\ row' = [row EXCEPT ![d] = [status |-> "open", endpoint |-> e,
                                        event |-> tx[t].event, attempts |-> 0]]
          /\ tx' = [tx EXCEPT ![t].todo = @ \ {e}, ![t].rows = @ \cup {d}]
    BY <1>4 DEF EmitRow
  <2>2. /\ row'[d].status = "open" /\ \A k \in Deliveries : k # d => row'[k] = row[k]
        /\ row[d].status = "none"
    BY <1>0, <2>1, RowEmitted DEF Insert
  <2>3. UNCHANGED <<received, accepted, worker>> /\ faults' >= faults
    BY <1>0, <1>4, <1>f DEF EmitRow, Emission
  <2> QED
    BY <2>2, <2>3, AttemptsKept
<1>5. ASSUME NEW t \in Emitters, EmitCommit(t) \/ EmitRollback(t) PROVE AttemptInv'
  <2>1. PICK status \in {"pending", "gone"} : Close(t, status)
    BY <1>5 DEF EmitCommit, EmitRollback
  <2>2. \A d \in Deliveries : \/ row'[d] = row[d]
                              \/ row[d].status = "open" /\ row'[d].status \in {"pending", "gone"}
    BY <1>0, <2>1, RowsClosed DEF OwnInv, OpenRows
  <2>3. UNCHANGED <<received, accepted, worker>>
    BY <2>1 DEF Close, Emission
  <2>4. faults' >= faults
    BY <1>0, <1>5, <1>f DEF EmitCommit, EmitRollback
  <2> QED
    BY <2>2, <2>3, <2>4, AttemptsKept
<1>6. ASSUME NEW w \in Workers, NEW d \in Deliveries, Discard(w, d) PROVE AttemptInv'
  BY <1>0, <1>6, AttemptsKept DEF Discard, Delivery
<1>7. ASSUME NEW w \in Workers, NEW d \in Deliveries, Refuse(w, d) \/ Attempt(w, d) PROVE AttemptInv'
  BY <1>7, RefuseAttempt, StartAttempt
<1>8. ASSUME NEW w \in Workers, Post(w) PROVE AttemptInv'
  BY <1>8, PostAttempt
<1>9. ASSUME NEW w \in Workers, Delivered(w) PROVE AttemptInv'
  <2>1. "delivered" \in Final
    BY DEF Final
  <2> QED
    BY <1>9, <2>1, WriteAttempt DEF Delivered
<1>10. ASSUME NEW w \in Workers, Exhausted(w) PROVE AttemptInv'
  <2>1. "failed" \in Final
    BY DEF Final
  <2> QED
    BY <1>10, <2>1, WriteAttempt DEF Exhausted
<1>11. ASSUME NEW w \in Workers, AttemptFailed(w) PROVE AttemptInv'
  BY <1>11, WriteAttempt DEF AttemptFailed
<1>12. ASSUME NEW w \in Workers, NEW new, Step(w, new), new.pc \notin {"posting", "answered"},
              \/ worker[w].pc # "answered" /\ faults' >= faults
              \/ row[worker[w].d].status = "gone" /\ faults' >= faults
              \/ faults' > faults,
              UNCHANGED <<row, received, accepted>>
       PROVE  AttemptInv'
  <2>1. worker'[w].pc \notin {"posting", "answered"} /\ \A v \in Workers : v # w => worker'[v] = worker[v]
    BY <1>0, <1>12, WorkersAre
  <2>2. \A v \in Workers : worker[v].pc = "answered" => worker'[v] = worker[v] \/ faults' > faults
                              \/ row'[worker[v].d].status \notin Committed
    BY <1>12, <2>1 DEF Committed, Final
  <2>3. faults' >= faults
    BY <1>0, <1>12
  <2> QED
    BY <1>12, <2>1, <2>2, <2>3, AttemptsKept
<1>13. ASSUME NEW w \in Workers, RowDeleted(w) PROVE AttemptInv'
  BY <1>0, <1>12, <1>13 DEF RowDeleted, Idle
<1>14. ASSUME NEW w \in Workers, Retry(w) PROVE AttemptInv'
  <2>1. [worker[w] EXCEPT !.pc = "done"].pc = "done"
    BY <1>0, <1>14, BusyJob DEF Retry, Job
  <2>2. faults' >= faults
    BY <1>0, <1>f, <1>14 DEF Retry
  <2> QED
    BY <1>12, <1>14, <2>1, <2>2 DEF Retry
<1>15. ASSUME NEW w \in Workers, Acknowledge(w) PROVE AttemptInv'
  BY <1>0, <1>12, <1>15 DEF Acknowledge, Idle
<1>16. ASSUME NEW w \in Workers, Death(w) PROVE AttemptInv'
  BY <1>0, <1>12, <1>f, <1>16 DEF Death, Idle
<1>17. CASE RedisLost \/ Redeliver
  <2>1. faults' >= faults
    BY <1>0, <1>f, <1>17 DEF RedisLost, Redeliver
  <2> QED
    BY <1>17, <2>1, AttemptsKept DEF RedisLost, Redeliver, Delivery
<1> QED
  BY <1>1, <1>2, <1>3, <1>4, <1>5, <1>6, <1>7, <1>8, <1>9, <1>10, <1>11, <1>13, <1>14, <1>15,
     <1>16, <1>17 DEF Next, Act, Work, Finish

-----------------------------------------------------------------------------
(* No row without a job.                                                   *)

Waits(d) == queue[d] > 0 \/ \E w \in Running(d) : worker[w].pc # "done"

LEMMA InitNone == Init => NoneForgotten
BY DEF Init, NoneForgotten

(* Steps that make no row wait and take no job away.                       *)
LEMMA NoneKept ==
    ASSUME TypeOK, TypeOK', NoneForgotten,
           \A d \in Deliveries : row'[d].status \in {"open", "pending"} =>
                                    row[d].status \in {"open", "pending"} \/ d \in stranded' \/ queue'[d] > 0,
           \A d \in Deliveries : queue'[d] >= queue[d],
           stranded \subseteq stranded',
           \A w \in Workers : \/ worker'[w] = worker[w]
                              \/ worker[w].pc \in {"idle", "done"}
                              \/ worker'[w].pc \notin {"idle", "done"} /\ worker'[w].d = worker[w].d
                              \/ worker[w].d \in stranded'
                              \/ queue'[worker[w].d] > 0
                              \/ row'[worker[w].d].status \notin {"open", "pending"}
    PROVE  NoneForgotten'
<1> SUFFICES ASSUME NEW d \in Deliveries, row'[d].status \in {"open", "pending"}, d \notin stranded'
             PROVE  Waits(d)'
  BY DEF NoneForgotten, Waits
<1>1. CASE queue'[d] > 0
  BY <1>1 DEF Waits
<1>2. CASE ~(queue'[d] > 0)
  <2>1. row[d].status \in {"open", "pending"} /\ d \notin stranded /\ ~(queue[d] > 0)
    BY <1>2 DEF TypeOK
  <2>2. PICK w \in Running(d) : worker[w].pc # "done"
    BY <2>1 DEF NoneForgotten
  <2>3. w \in Workers /\ worker[w].d = d /\ worker[w].pc # "idle"
    BY DEF Running
  <2>4. worker'[w].pc \notin {"idle", "done"} /\ worker'[w].d = d
    BY <1>2, <2>2, <2>3
  <2>5. w \in Running(d)'
    BY <2>3, <2>4 DEF Running
  <2> QED
    BY <2>4, <2>5 DEF Waits
<1> QED
  BY <1>1, <1>2

(* Nobody runs a job of a row that is not visible, so its job is queued.   *)
LEMMA OpenIsQueued ==
    ASSUME TypeOK, OwnInv, NoneForgotten, NEW d \in Deliveries, row[d].status = "open", d \notin stranded
    PROVE  queue[d] > 0
BY DEF OwnInv, Unseen, NoneForgotten

LEMMA NextNone ==
    ASSUME WellInv, WellInv', OwnInv, NoneForgotten, Next PROVE NoneForgotten'
<1>0. /\ TypeOK /\ TypeOK'
      /\ \A d \in Deliveries : queue[d] \in Nat /\ queue'[d] \in Nat
  BY DEF WellInv, TypeOK
<1>1. ASSUME NEW e \in Endpoints, Create(e) \/ Update(e) PROVE NoneForgotten'
  BY <1>0, <1>1, NoneKept DEF Create, Update, Api
<1>2. ASSUME NEW e \in Endpoints, Delete(e) PROVE NoneForgotten'
  <2>1. \A d \in Deliveries : row'[d] = row[d] \/ row'[d].status = "gone"
    BY <1>0, <1>2, RowsDeleted
  <2> QED
    BY <1>0, <1>2, <2>1, NoneKept DEF Delete, Api
<1>3. ASSUME NEW t \in Emitters, Emit(t) \/ TestPing(t) \/ EmitFails(t) PROVE NoneForgotten'
  <2>1. UNCHANGED <<row, worker, queue, stranded>>
    BY <1>3 DEF Emit, TestPing, EmitFails, Emission
  <2> QED
    BY <1>0, <2>1, NoneKept
<1>4. ASSUME NEW t \in Emitters, EmitRow(t) PROVE NoneForgotten'
  <2>1. PICK e \in Endpoints, d \in Deliveries :
          /\ Insert(t, e, d)
          /\ row' = [row EXCEPT ![d] = [status |-> "open", endpoint |-> e,
                                        event |-> tx[t].event, attempts |-> 0]]
          /\ tx' = [tx EXCEPT ![t].todo = @ \ {e}, ![t].rows = @ \cup {d}]
          /\ \/ queue' = [queue EXCEPT ![d] = @ + 1] /\ UNCHANGED <<stranded, faults>>
             \/ Fault("broker_loss") /\ stranded' = stranded \cup {d} /\ UNCHANGED queue
    BY <1>4 DEF EmitRow
  <2>2. \A k \in Deliveries : k # d => row'[k] = row[k]
    BY <1>0, <2>1, RowEmitted
  <2>3. /\ \A k \in Deliveries : queue'[k] >= queue[k]
        /\ stranded \subseteq stranded' /\ (d \in stranded' \/ queue'[d] > 0)
    BY <1>0, <2>1 DEF TypeOK
  <2>4. UNCHANGED worker
    BY <1>4 DEF EmitRow, Emission
  <2> QED
    BY <1>0, <2>2, <2>3, <2>4, NoneKept
<1>5. ASSUME NEW t \in Emitters, EmitCommit(t) \/ EmitRollback(t) PROVE NoneForgotten'
  <2>1. PICK status \in {"pending", "gone"} : Close(t, status)
    BY <1>5 DEF EmitCommit, EmitRollback
  <2>2. \A d \in Deliveries : \/ row'[d] = row[d]
                              \/ row[d].status = "open" /\ row'[d].status \in {"pending", "gone"}
    BY <1>0, <2>1, RowsClosed DEF OwnInv, OpenRows
  <2>3. UNCHANGED <<queue, stranded, worker>>
    BY <2>1 DEF Close, Emission
  <2> QED
    BY <1>0, <2>2, <2>3, NoneKept
<1>6. ASSUME NEW w \in Workers, NEW d \in Deliveries, Taken(w, d)
      PROVE  /\ \A k \in Deliveries : k # d => queue'[k] = queue[k]
             /\ worker[w] = Idle
  BY <1>0, <1>6 DEF Taken, TypeOK
<1>7. ASSUME NEW w \in Workers, NEW d \in Deliveries, Taken(w, d), UNCHANGED worker, stranded \subseteq stranded',
             row'[d].status \in {"open", "pending"} => d \in stranded',
             \A k \in Deliveries : k # d => row'[k] = row[k]
      PROVE  NoneForgotten'
  <2> SUFFICES ASSUME NEW k \in Deliveries, row'[k].status \in {"open", "pending"}, k \notin stranded'
               PROVE  Waits(k)'
    BY DEF NoneForgotten, Waits
  <2>1. k # d /\ row'[k] = row[k] /\ queue'[k] = queue[k] /\ k \notin stranded
    BY <1>6, <1>7
  <2>2. Waits(k)
    BY <2>1 DEF NoneForgotten, Waits
  <2> QED
    BY <1>7, <2>1, <2>2 DEF Waits, Running
<1>8. ASSUME NEW w \in Workers, NEW d \in Deliveries, Discard(w, d) PROVE NoneForgotten'
  BY <1>7, <1>8 DEF Discard
<1>9. ASSUME NEW w \in Workers, NEW d \in Deliveries, Refuse(w, d) PROVE NoneForgotten'
  BY <1>0, <1>7, <1>9, RowRefused DEF Refuse
<1>10. ASSUME NEW w \in Workers, NEW d \in Deliveries, Attempt(w, d) PROVE NoneForgotten'
  <2>1. /\ worker'[w].pc = "posting" /\ worker'[w].d = d
        /\ \A v \in Workers : v # w => worker'[v] = worker[v]
    BY <1>0, <1>10, WorkersAre DEF Attempt
  <2>2. UNCHANGED <<row, stranded>> /\ Taken(w, d)
    BY <1>10 DEF Attempt
  <2> SUFFICES ASSUME NEW k \in Deliveries, row[k].status \in {"open", "pending"}, k \notin stranded
               PROVE  Waits(k)'
    BY <2>2 DEF NoneForgotten, Waits
  <2>3. CASE k = d
    BY <2>1, <2>3 DEF Waits, Running
  <2>4. CASE k # d
    <3>1. queue'[k] = queue[k] /\ worker[w] = Idle
      BY <1>6, <2>2, <2>4
    <3>2. \A v \in Running(k) : worker'[v] = worker[v]
      BY <2>1, <3>1 DEF Running, Idle
    <3>3. Waits(k)
      BY DEF NoneForgotten, Waits
    <3>4. \A v \in Running(k) : v \in Running(k)'
      BY <3>2 DEF Running
    <3> QED
      BY <3>1, <3>2, <3>3, <3>4 DEF Waits
  <2> QED
    BY <2>3, <2>4
<1>11. ASSUME NEW w \in Workers, NEW pc \in {"answered", "retrying", "done"}, NEW ok \in BOOLEAN,
              worker[w] # Idle
       PROVE  /\ [worker[w] EXCEPT !.pc = pc].d = worker[w].d /\ [worker[w] EXCEPT !.pc = pc].pc = pc
              /\ [worker[w] EXCEPT !.pc = pc, !.ok = ok].d = worker[w].d
              /\ [worker[w] EXCEPT !.pc = pc, !.ok = ok].pc = pc
  BY <1>0, <1>11, IdleJob DEF Job
<1>12. ASSUME NEW w \in Workers, Post(w) PROVE NoneForgotten'
  <2>0. worker[w] # Idle /\ UNCHANGED <<row, queue, stranded>>
    BY <1>12 DEF Post, Idle
  <2>1. PICK ok \in BOOLEAN : Step(w, [worker[w] EXCEPT !.pc = "answered", !.ok = ok])
    BY <1>12 DEF Post
  <2>a. /\ [worker[w] EXCEPT !.pc = "answered", !.ok = ok].pc = "answered"
        /\ [worker[w] EXCEPT !.pc = "answered", !.ok = ok].d = worker[w].d
    BY <1>11, <2>0
  <2>2. /\ worker'[w].pc = "answered" /\ worker'[w].d = worker[w].d
        /\ \A v \in Workers : v # w => worker'[v] = worker[v]
    BY <1>0, <2>a, <2>1, WorkersAre
  <2> QED
    BY <1>0, <2>0, <2>2, NoneKept
<1>13. ASSUME NEW w \in Workers, NEW status, NEW pc \in {"retrying", "done"}, Answered(w), RowAs(w, status),
              \/ status \in Final /\ pc = "done"
              \/ status = row[worker[w].d].status /\ worker[w].n < MaxAttempts /\ pc = "retrying",
              Step(w, [worker[w] EXCEPT !.pc = pc]), UNCHANGED <<queue, stranded>>
       PROVE  NoneForgotten'
  <2>0. worker[w] # Idle /\ worker[w].d \in Deliveries
    BY <1>0, <1>13, BusyJob, JobFields DEF Answered
  <2>1. /\ \A d \in Deliveries : d # worker[w].d => row'[d] = row[d]
        /\ row'[worker[w].d] = [row[worker[w].d] EXCEPT !.status = status, !.attempts = worker[w].n]
    BY <1>13, RowWritten
  <2>2. row'[worker[w].d].status = status
    BY <1>0, <2>0, <2>1 DEF TypeOK, Row
  <2>3. /\ worker'[w].pc = pc /\ worker'[w].d = worker[w].d
        /\ \A v \in Workers : v # w => worker'[v] = worker[v]
    <3>1. [worker[w] EXCEPT !.pc = pc].pc = pc /\ [worker[w] EXCEPT !.pc = pc].d = worker[w].d
      BY <1>11, <1>13, <2>0
    <3> QED
      BY <1>0, <1>13, <3>1, WorkersAre
  <2>4. \A d \in Deliveries : row'[d].status \in {"open", "pending"} => row[d].status \in {"open", "pending"}
    BY <1>13, <2>1, <2>2 DEF Final
  <2>5. \A v \in Workers : \/ worker'[v] = worker[v]
                           \/ worker'[v].pc \notin {"idle", "done"} /\ worker'[v].d = worker[v].d
                           \/ row'[worker[v].d].status \notin {"open", "pending"}
    BY <1>13, <2>2, <2>3 DEF Final
  <2> QED
    BY <1>0, <1>13, <2>4, <2>5, NoneKept
<1>14. ASSUME NEW w \in Workers, Delivered(w) PROVE NoneForgotten'
  <2>1. "delivered" \in Final
    BY DEF Final
  <2> QED
    BY <1>13, <1>14, <2>1 DEF Delivered
<1>15. ASSUME NEW w \in Workers, Exhausted(w) PROVE NoneForgotten'
  <2>1. "failed" \in Final
    BY DEF Final
  <2> QED
    BY <1>13, <1>15, <2>1 DEF Exhausted
<1>16. ASSUME NEW w \in Workers, AttemptFailed(w) PROVE NoneForgotten'
  BY <1>13, <1>16 DEF AttemptFailed
<1>17. ASSUME NEW w \in Workers, RowDeleted(w) \/ Acknowledge(w) PROVE NoneForgotten'
  <2>1. Step(w, Idle) /\ UNCHANGED <<row, queue, stranded>>
    BY <1>17 DEF RowDeleted, Acknowledge
  <2>2. \A v \in Workers : v # w => worker'[v] = worker[v]
    BY <1>0, <2>1, WorkersAre
  <2>3. worker[w].pc = "done" \/ row'[worker[w].d].status = "gone"
    BY <1>17, <2>1 DEF RowDeleted, Acknowledge
  <2> QED
    BY <1>0, <2>1, <2>2, <2>3, NoneKept
<1>18. ASSUME NEW w \in Workers, Retry(w) \/ Death(w) PROVE NoneForgotten'
  <2>0. worker[w] # Idle /\ UNCHANGED row
    BY <1>18 DEF Retry, Death, Idle
  <2>1. worker[w].d \in Deliveries
    BY <1>0, <2>0, IdleJob, JobFields
  <2>2. /\ \A k \in Deliveries : queue'[k] >= queue[k]
        /\ stranded \subseteq stranded' /\ (worker[w].d \in stranded' \/ queue'[worker[w].d] > 0)
    BY <1>0, <1>18, <2>1 DEF Retry, Death, TypeOK
  <2>3. \A v \in Workers : v # w => worker'[v] = worker[v]
    BY <1>0, <1>18, WorkersAre DEF Retry, Death
  <2> QED
    BY <1>0, <2>0, <2>2, <2>3, NoneKept
<1>19. CASE RedisLost
  <2> SUFFICES ASSUME NEW k \in Deliveries, row[k].status \in {"open", "pending"}, k \notin stranded'
               PROVE  Waits(k)'
    BY <1>19 DEF NoneForgotten, Waits, RedisLost
  <2>1. k \notin stranded /\ ~(queue[k] > 0)
    BY <1>19 DEF RedisLost
  <2>2. Waits(k)
    BY <2>1 DEF NoneForgotten, Waits
  <2> QED
    BY <1>19, <2>1, <2>2 DEF RedisLost, Waits, Running
<1>20. CASE Redeliver
  <2>1. \A k \in Deliveries : queue'[k] >= queue[k]
    BY <1>0, <1>20 DEF Redeliver, TypeOK
  <2> QED
    BY <1>0, <1>20, <2>1, NoneKept DEF Redeliver, Delivery
<1> QED
  BY <1>1, <1>2, <1>3, <1>4, <1>5, <1>8, <1>9, <1>10, <1>12, <1>14, <1>15, <1>16, <1>17, <1>18,
     <1>19, <1>20 DEF Next, Act, Work, Finish

-----------------------------------------------------------------------------
(* Theorems                                                                *)

Inv == WellInv /\ OwnInv /\ AttemptInv /\ NoneForgotten

LEMMA StutterInv == Inv /\ UNCHANGED vars => Inv'
<1> SUFFICES ASSUME Inv, UNCHANGED vars PROVE Inv'
  OBVIOUS
<1>1. WellInv'
  BY DEF Inv, vars, WellInv, TypeOK, Unspent
<1>2. OwnInv'
  BY DEF Inv, vars, OwnInv, OpenRows, Unseen, Running
<1>3. AttemptInv'
  <2>1. \A d \in Deliveries : /\ Running(d)' = Running(d) /\ Copies(d)' = Copies(d)
                              /\ Paid(d)' = Paid(d)
    BY DEF vars, Running, Copies, Paid, Owed
  <2> QED
    BY <2>1 DEF Inv, vars, AttemptInv, Twice, Alone, Account
<1>4. NoneForgotten'
  BY DEF Inv, vars, NoneForgotten, Running
<1> QED
  BY <1>1, <1>2, <1>3, <1>4 DEF Inv

THEOREM Inductive == Spec => []Inv
<1>1. Init => Inv
  BY InitWell, InitOwn, InitAttempt, InitNone DEF Inv
<1>2. ASSUME Inv, Next PROVE Inv'
  <2>1. WellInv /\ OwnInv /\ AttemptInv /\ NoneForgotten
    BY <1>2 DEF Inv
  <2>2. WellInv'
    BY <1>2, <2>1, NextWell DEF OwnInv
  <2>3. OwnInv' /\ AttemptInv' /\ NoneForgotten'
    BY <1>2, <2>1, <2>2, NextOwn, NextAttempt, NextNone
  <2> QED
    BY <2>2, <2>3 DEF Inv
<1>3. Inv /\ [Next]_vars => Inv'
  BY <1>2, StutterInv
<1> QED
  BY <1>1, <1>3, PTL DEF Spec

(* In every state of every behaviour the variables have their types.       *)
THEOREM TypeCorrect == Spec => []TypeOK
<1>1. Inv => TypeOK
  BY DEF Inv, WellInv
<1> QED
  BY <1>1, Inductive, PTL

LEMMA InvBudget == Inv => BudgetHolds
<1> SUFFICES ASSUME Inv, NEW d \in Deliveries
             PROVE  /\ row[d].status = "delivered" => d \in accepted
                    /\ row[d].status \in Committed /\ d \notin duplicated =>
                          received[d] <= row[d].attempts + Cardinality(InFlight(d)) + faults
  BY DEF BudgetHolds
<1>0. TypeOK /\ Account
  BY DEF Inv, WellInv, AttemptInv
<1>1. IsFiniteSet(InFlight(d)) /\ Cardinality(InFlight(d)) \in Nat
  <2>1. IsFiniteSet(Running(d)) /\ InFlight(d) \subseteq Running(d)
    BY <1>0, Counted DEF InFlight
  <2> QED
    BY <2>1, FS_Subset, FS_CardinalityType
<1>2. ASSUME NEW w \in Running(d), worker[w].pc = "answered" PROVE Cardinality(InFlight(d)) >= 1
  <2>1. InFlight(d) # {}
    BY <1>2 DEF InFlight
  <2> QED
    BY <1>1, <2>1, FS_EmptySet
<1>3. received[d] \in Nat /\ row[d].attempts \in Nat /\ faults \in Nat
  BY <1>0 DEF TypeOK, Row
<1>4. ASSUME Paid(d) PROVE received[d] <= row[d].attempts + Cardinality(InFlight(d)) + faults
  BY <1>1, <1>2, <1>3, <1>4 DEF Paid, Owed
<1> QED
  BY <1>0, <1>4 DEF Account

(* Of a delivery whose job never ran twice at once the receiver sees no    *)
(* more POSTs than its budget, and "delivered" means it said so.           *)
THEOREM BudgetIsKept == Spec => []BudgetHolds
BY Inductive, InvBudget, PTL

(* A row that is not resolved has a job that will resolve it, unless a job *)
(* of it came to nothing.                                                  *)
THEOREM NoneIsForgotten == Spec => []NoneForgotten
<1>1. Inv => NoneForgotten
  BY DEF Inv
<1> QED
  BY <1>1, Inductive, PTL

(* What the run checks as an invariant.                                    *)
THEOREM WebhooksHold == Spec => []WebhooksInv
<1>1. TypeOK /\ BudgetHolds /\ NoneForgotten => WebhooksInv
  BY DEF WebhooksInv
<1> QED
  BY <1>1, TypeCorrect, BudgetIsKept, NoneIsForgotten, PTL

-----------------------------------------------------------------------------
(* One step leaves a resolved row alone.                                   *)
LEMMA ResolvedStep ==
    ASSUME Inv, Next, NEW d \in Deliveries, row[d].status \in Final, d \notin duplicated
    PROVE  row'[d] = row[d] \/ row'[d].status = "gone"
<1>0. TypeOK /\ WellInv /\ OwnInv /\ Twice /\ Alone
  BY DEF Inv, WellInv, AttemptInv
<1>1. ASSUME NEW e \in Endpoints, Delete(e) PROVE row'[d] = row[d] \/ row'[d].status = "gone"
  BY <1>0, <1>1, RowsDeleted
<1>2. ASSUME NEW t \in Emitters, EmitRow(t) PROVE row'[d] = row[d]
  <2>1. PICK e \in Endpoints, k \in Deliveries :
          /\ Insert(t, e, k)
          /\ row' = [row EXCEPT ![k] = [status |-> "open", endpoint |-> e,
                                        event |-> tx[t].event, attempts |-> 0]]
          /\ tx' = [tx EXCEPT ![t].todo = @ \ {e}, ![t].rows = @ \cup {k}]
    BY <1>2 DEF EmitRow
  <2>2. k # d
    BY <2>1 DEF Insert, Final
  <2> QED
    BY <1>0, <2>1, <2>2, RowEmitted
<1>3. ASSUME NEW t \in Emitters, EmitCommit(t) \/ EmitRollback(t) PROVE row'[d] = row[d]
  <2>1. PICK status \in {"pending", "gone"} : Close(t, status)
    BY <1>3 DEF EmitCommit, EmitRollback
  <2>2. d \notin tx[t].rows
    BY <1>0 DEF OwnInv, OpenRows, Final
  <2> QED
    BY <1>0, <2>1, <2>2, RowsClosed
<1>4. ASSUME NEW w \in Workers, NEW k \in Deliveries, Refuse(w, k) PROVE row'[d] = row[d]
  <2>1. k # d
    BY <1>4 DEF Refuse, Final
  <2> QED
    BY <1>0, <1>4, <2>1, RowRefused
<1>5. ASSUME NEW w \in Workers, Delivered(w) \/ Exhausted(w) \/ AttemptFailed(w) PROVE row'[d] = row[d]
  <2>1. PICK status \in Final \cup {row[worker[w].d].status} :
          /\ Answered(w) /\ RowAs(w, status)
          /\ status \in Final \/ (status = row[worker[w].d].status /\ worker[w].n < MaxAttempts)
    BY <1>5 DEF Delivered, Exhausted, AttemptFailed, Final
  <2>2. worker[w].d # d
    BY <1>0, <2>1 DEF Alone, Answered, Final
  <2> QED
    BY <1>0, <2>1, <2>2, RowWritten
<1>6. ASSUME UNCHANGED row PROVE row'[d] = row[d]
  BY <1>6
<1> QED
  BY <1>1, <1>2, <1>3, <1>4, <1>5, <1>6
  DEF Next, Act, Work, Finish, Create, Update, Emit, TestPing, EmitFails, Discard, Attempt, Post,
      RowDeleted, Retry, Acknowledge, Death, RedisLost, Redeliver

(* A delivery whose job never ran twice at once is resolved once.          *)
THEOREM ResolvedIsFinal == Spec => ResolvedOnce
<1>1. Inv /\ [Next]_vars =>
        [\A d \in Deliveries : row[d].status \in Final /\ d \notin duplicated =>
            row[d]' = row[d] \/ row[d].status' = "gone"]_vars
  BY ResolvedStep
<1> QED
  BY <1>1, Inductive, PTL DEF Spec, ResolvedOnce

-----------------------------------------------------------------------------
(* Bandit                                                                  *)

USE BanditAssumption

-----------------------------------------------------------------------------
(* The shape of a session, and what it did to its variants                 *)

PartRows == UNION {[V -> Variant] : V \in SUBSET Variants}
Session == [pc : {"closed", "read", "loaded", "written"}, msgs : SUBSET Messages,
            base : PartRows, row : PartRows, drops : SUBSET Variants,
            locks : SUBSET (Messages \cup Variants),
            outcome : {"none", "drafted", "pending"} \cup Outcomes]

Judged(r) == r.pc \in {"loaded", "written"}

SessionOK(s, r) ==
    /\ DOMAIN r.base = DOMAIN r.row
    /\ r.pc = "closed" => r.msgs = {}
    /\ ~Judged(r) => DOMAIN r.row = {}
    /\ Judged(r) => r.outcome \in Outcomes
    /\ s \in Settlers => r.pc # "read"
    /\ s \in Replies => r.drops = {} /\ (r.pc # "closed" => \E m \in Messages : r.msgs = {m})

(* The messages of M that were written from v.                             *)
Of(M, v) == {m \in M : message[m].variant = v}

(* v is changed by one for each message of the session, and not otherwise. *)
Raised(r, v) ==
    LET p == r.base[v]
        q == r.row[v]
        n == Cardinality(Of(r.msgs, v))
    IN  /\ q.state = p.state /\ q.active = p.active /\ q.skeleton = p.skeleton
        /\ q.alpha = IF r.outcome = "success" THEN p.alpha + n ELSE p.alpha
        /\ q.beta = IF r.outcome = "failure" THEN p.beta + n ELSE p.beta

Sent(m) == message[m].outcome \notin {"none", "drafted"}

Fits(r) ==
    /\ \A m \in r.msgs : Sent(m)
    /\ Judged(r) => DOMAIN r.row = VariantsOf(r.msgs) /\ \A v \in DOMAIN r.row : Raised(r, v)

SessionsTyped ==
    /\ session \in [Sessions -> Session]
    /\ \A s \in Sessions : SessionOK(s, session[s]) /\ Fits(session[s])

BanditTyped ==
    /\ variant \in [Variants -> Variant]
    /\ message \in [Messages -> Message]
    /\ SessionsTyped
    /\ gave \in [Messages -> Nat]
    /\ disturbed \subseteq Messages \cup Variants /\ mixed \subseteq Variants
    /\ skewed \in BOOLEAN /\ events \in 0..MaxEvents

(* One session at most works on x.                                         *)
OneHas(x) == \A s, t \in Sessions : s \in Has(x) /\ t \in Has(x) => s = t

MessageExact(m) ==
    /\ gave[m] <= 1 /\ (message[m].outcome \notin Outcomes => gave[m] = 0)
    /\ \A s \in Sessions : m \in session[s].msgs =>
          IF session[s].pc = "read" THEN session[s].outcome = message[m].outcome
          ELSE message[m].outcome = "pending"

ArmExact(v) ==
    /\ variant[v].alpha = 1 + Count(v, "success")
    /\ variant[v].beta = 1 + Count(v, "failure")
    /\ \A s \in Sessions : v \in DOMAIN session[s].row =>
          /\ session[s].base[v].alpha = variant[v].alpha
          /\ session[s].base[v].beta = variant[v].beta

LearnInv ==
    /\ \A m \in Messages : m \in disturbed => Sent(m) /\ message[m].variant \in disturbed
    /\ \A m \in Messages \ disturbed : OneHas(m) /\ MessageExact(m)
    /\ \A v \in Variants \ disturbed : OneHas(v) /\ ArmExact(v)

(* What the one settler is about to switch off is not all there is.        *)
ArmInv ==
    ~skewed =>
       /\ \A s, t \in Settlers : session[s].pc # "closed" /\ session[t].pc # "closed" => s = t
       /\ \A s \in Settlers : session[s].pc = "written" =>
             session[s].drops = {} \/ \E b \in Arms : b \notin session[s].drops

-----------------------------------------------------------------------------
(* Rows and sessions                                                       *)

LEMMA Who ==
    /\ Settlers \subseteq Sessions /\ Replies \subseteq Sessions
    /\ \A s \in Sessions : s \in Replies <=> s \notin Settlers
    /\ IsFiniteSet(Sessions)
BY DEF Sessions

LEMMA PartRowsAre ==
    ASSUME NEW f \in PartRows
    PROVE  /\ DOMAIN f \subseteq Variants /\ f \in [DOMAIN f -> Variant]
           /\ \A v \in DOMAIN f : f[v] \in Variant
BY DEF PartRows

LEMMA RowsArePart ==
    ASSUME NEW V \in SUBSET Variants, NEW f \in [V -> Variant]
    PROVE  f \in PartRows /\ DOMAIN f = V
BY DEF PartRows

LEMMA ClosedFits ==
    /\ Closed \in Session /\ \A s \in Sessions : SessionOK(s, Closed)
    /\ Closed.pc = "closed" /\ Closed.msgs = {} /\ DOMAIN Closed.row = {}
    /\ Closed.drops = {} /\ Fits(Closed)
<1>1. <<>> \in [{} -> Variant] /\ DOMAIN <<>> = {}
  OBVIOUS
<1>2. <<>> \in PartRows
  BY <1>1, RowsArePart
<1>3. /\ Closed.pc = "closed" /\ Closed.msgs = {} /\ Closed.base = <<>> /\ Closed.row = <<>>
      /\ Closed.drops = {}
  BY DEF Closed
<1>4. Closed \in Session
  BY <1>2 DEF Closed, Session
<1> QED
  BY <1>1, <1>3, <1>4 DEF SessionOK, Judged, Fits

LEMMA Fields ==
    ASSUME BanditTyped, NEW s \in Sessions
    PROVE  /\ session[s] \in Session /\ SessionOK(s, session[s]) /\ Fits(session[s])
           /\ session[s].msgs \subseteq Messages /\ session[s].drops \subseteq Variants
           /\ session[s].base \in PartRows /\ session[s].row \in PartRows
           /\ DOMAIN session[s].base = DOMAIN session[s].row
           /\ DOMAIN session[s].row \subseteq Variants
           /\ \A v \in DOMAIN session[s].row :
                 session[s].base[v] \in Variant /\ session[s].row[v] \in Variant
<1>1. session[s] \in Session /\ SessionOK(s, session[s]) /\ Fits(session[s])
  BY DEF BanditTyped, SessionsTyped
<1>2. /\ session[s].msgs \subseteq Messages /\ session[s].drops \subseteq Variants
      /\ session[s].base \in PartRows /\ session[s].row \in PartRows
  BY <1>1 DEF Session
<1> QED
  BY <1>1, <1>2, PartRowsAre DEF SessionOK

LEMMA OfIsFinite ==
    ASSUME NEW M \in SUBSET Messages, NEW v
    PROVE  /\ IsFiniteSet(Of(M, v)) /\ Cardinality(Of(M, v)) \in Nat
           /\ IsFiniteSet(M)
<1>1. Of(M, v) \subseteq Messages
  BY DEF Of
<1> QED
  BY <1>1, FS_Subset, FS_CardinalityType

LEMMA CountIsFinite ==
    ASSUME NEW v, NEW o
    PROVE  /\ IsFiniteSet({m \in Messages : message[m].outcome = o /\ message[m].variant = v})
           /\ Count(v, o) \in Nat
<1>1. {m \in Messages : message[m].outcome = o /\ message[m].variant = v} \subseteq Messages
  OBVIOUS
<1>2. IsFiniteSet({m \in Messages : message[m].outcome = o /\ message[m].variant = v})
  BY <1>1, FS_Subset
<1> QED
  BY <1>2, FS_CardinalityType DEF Count

LEMMA WrittenVariant ==
    ASSUME NEW o \in Variant, NEW b \in Variant, NEW r \in Variant
    PROVE  /\ Written(o, b, r) \in Variant
           /\ Written(o, b, r).state = IF r.state # b.state THEN r.state ELSE o.state
           /\ Written(o, b, r).active = IF r.active # b.active THEN r.active ELSE o.active
           /\ Written(o, b, r).alpha = IF r.alpha # b.alpha THEN r.alpha ELSE o.alpha
           /\ Written(o, b, r).beta = IF r.beta # b.beta THEN r.beta ELSE o.beta
BY DEF Written, Variant

(* What the other sessions see of a step of s.                             *)
Elsewhere(s) == \A t \in Sessions \ {s} : session'[t] = session[t]

-----------------------------------------------------------------------------
(* What the actions do to variants, messages and sessions                  *)

(* The messages already sent keep their variant.                           *)
SentStay ==
    /\ \A m \in Messages : Sent(m) => Sent(m)'
    /\ \A m \in Messages : Sent(m)' => message'[m].variant = message[m].variant

LEMMA FitsStays ==
    ASSUME NEW r \in Session, Fits(r), message' = message \/ SentStay
    PROVE  Fits(r)'
<1>1. r.msgs \subseteq Messages /\ \A m \in r.msgs : Sent(m) /\ m \in Messages
  BY DEF Session, Fits
<1>2. \A m \in r.msgs : Sent(m)' /\ message'[m].variant = message[m].variant
  BY <1>1 DEF SentStay, Sent
<1>3. VariantsOf(r.msgs)' = VariantsOf(r.msgs)
  BY <1>2 DEF VariantsOf
<1>4. \A v : Of(r.msgs, v)' = Of(r.msgs, v)
  BY <1>2 DEF Of
<1>5. \A v : Raised(r, v)' <=> Raised(r, v)
  BY <1>4 DEF Raised
<1> QED
  BY <1>2, <1>3, <1>5 DEF Fits, Judged

LEMMA NoneMove ==
    ASSUME BanditTyped, UNCHANGED session, message' = message \/ SentStay
    PROVE  SessionsTyped'
<1>1. session \in [Sessions -> Session]
  BY DEF BanditTyped, SessionsTyped
<1>2. ASSUME NEW s \in Sessions PROVE (SessionOK(s, session[s]) /\ Fits(session[s]))'
  <2>1. session[s] \in Session /\ SessionOK(s, session[s]) /\ Fits(session[s])
    BY Fields
  <2> DEFINE r == session[s]
  <2>2. session'[s] = r
    OBVIOUS
  <2> HIDE DEF r
  <2>3. r \in Session /\ SessionOK(s, r) /\ Fits(r)
    BY <2>1 DEF r
  <2> QED
    BY <2>1, FitsStays DEF SessionOK, Judged
<1> QED
  BY <1>1, <1>2 DEF SessionsTyped

LEMMA Keeps ==
    ASSUME NEW t \in Sessions, NEW q, session'[t] = q, SessionOK(t, q), Fits(q)'
    PROVE  (SessionOK(t, session[t]) /\ Fits(session[t]))'
BY DEF SessionOK, Judged, Fits, Raised, Of, Sent, VariantsOf

LEMMA OneMoves ==
    ASSUME BanditTyped, NEW s \in Sessions, NEW r \in Session, SessionOK(s, r), Fits(r), Put(s, r),
           message' = message \/ SentStay
    PROVE  SessionsTyped' /\ session'[s] = r /\ Elsewhere(s)
<1>1. session' = [session EXCEPT ![s] = r] /\ session \in [Sessions -> Session]
  BY DEF Put, BanditTyped, SessionsTyped
<1>2. session' \in [Sessions -> Session] /\ session'[s] = r /\ Elsewhere(s)
  BY <1>1 DEF Elsewhere
<1>3. Fits(r)'
  BY FitsStays
<1>4. ASSUME NEW t \in Sessions PROVE (SessionOK(t, session[t]) /\ Fits(session[t]))'
  <2>1. CASE t = s
    BY <1>2, <1>3, <2>1, Keeps
  <2>2. CASE t # s
    <3>1. PICK q \in Session : session[t] = q /\ SessionOK(t, q) /\ Fits(q)
      BY Fields
    <3>2. session'[t] = q
      BY <1>2, <2>2, <3>1 DEF Elsewhere
    <3>3. Fits(q)'
      BY <3>1, FitsStays
    <3> QED
      BY <3>1, <3>2, <3>3, Keeps
  <2> QED
    BY <2>1, <2>2
<1> QED
  BY <1>2, <1>4 DEF SessionsTyped

LEMMA Closes ==
    ASSUME BanditTyped, NEW s \in Sessions, Put(s, Closed), message' = message \/ SentStay
    PROVE  /\ SessionsTyped' /\ Elsewhere(s)
           /\ session'[s].pc = "closed" /\ session'[s].msgs = {} /\ DOMAIN session'[s].row = {}
<1>1. Closed \in Session /\ SessionOK(s, Closed) /\ Fits(Closed)
  BY ClosedFits
<1> QED
  BY <1>1, OneMoves, ClosedFits

LEMMA SettleDoes ==
    ASSUME BanditTyped, NEW s \in Sessions, NEW M \in SUBSET Messages, Settle(s, M)
    PROVE  /\ SessionsTyped' /\ Elsewhere(s) /\ s \in Settlers
           /\ session[s].pc = "closed" /\ session'[s].pc = "loaded"
           /\ session'[s].msgs = M /\ \A m \in M : message[m].outcome = "pending"
           /\ \A v \in DOMAIN session'[s].row : session'[s].base[v] = variant[v]
<1> DEFINE V == VariantsOf(M)
           old == [v \in V |-> variant[v]]
           new == [v \in V |-> [variant[v] EXCEPT
                      !.beta = @ + Cardinality({m \in M : message[m].variant = v})]]
           r == [Closed EXCEPT !.pc = "loaded", !.msgs = M, !.locks = M, !.outcome = "failure",
                               !.base = old, !.row = new]
<1>1. /\ s \in Settlers /\ session[s] = Closed /\ Put(s, r) /\ UNCHANGED message
      /\ \A m \in M : message[m].outcome = "pending"
  BY DEF Settle
<1>2. V \in SUBSET Variants
  BY DEF VariantsOf, BanditTyped, Message
<1>3. old \in [V -> Variant] /\ DOMAIN old = V /\ \A v \in V : old[v] = variant[v]
  BY <1>2 DEF BanditTyped
<1>4. ASSUME NEW v \in V
      PROVE  /\ new[v] \in Variant /\ new[v].alpha = old[v].alpha
             /\ new[v].beta = old[v].beta + Cardinality(Of(M, v))
             /\ new[v].state = old[v].state /\ new[v].active = old[v].active
             /\ new[v].skeleton = old[v].skeleton
  <2>1. Cardinality(Of(M, v)) \in Nat /\ variant[v] \in Variant
    BY <1>2, OfIsFinite DEF BanditTyped
  <2>2. new[v] = [variant[v] EXCEPT !.beta = @ + Cardinality(Of(M, v))]
    BY DEF Of
  <2>3. old[v] = variant[v]
    OBVIOUS
  <2> HIDE DEF new, old
  <2> QED
    BY <2>1, <2>2, <2>3 DEF Variant
<1>5. new \in [V -> Variant] /\ DOMAIN new = V
  BY <1>4
<1> HIDE DEF old, new, V
<1>6. old \in PartRows /\ new \in PartRows
  BY <1>2, <1>3, <1>5, RowsArePart
<1>7. /\ r \in Session /\ r.pc = "loaded" /\ r.msgs = M /\ r.base = old /\ r.row = new
      /\ r.outcome = "failure" /\ r.drops = {}
  BY <1>6, ClosedFits DEF Closed, Session, Outcomes
<1> HIDE DEF r
<1>8. SessionOK(s, r)
  BY <1>1, <1>3, <1>5, <1>7, Who DEF SessionOK, Judged, Outcomes
<1>9. \A v \in V : Raised(r, v)
  BY <1>4, <1>7 DEF Raised
<1>10. Fits(r)
  BY <1>1, <1>5, <1>7, <1>9 DEF Fits, Sent, Judged, V
<1>11. SessionsTyped' /\ session'[s] = r /\ Elsewhere(s)
  BY <1>1, <1>7, <1>8, <1>10, OneMoves
<1> QED
  BY <1>1, <1>3, <1>5, <1>7, <1>11, ClosedFits

LEMMA ReadDoes ==
    ASSUME BanditTyped, NEW s \in Sessions, NEW m \in Messages, ReplyRead(s, m)
    PROVE  /\ SessionsTyped' /\ Elsewhere(s) /\ s \in Replies
           /\ session'[s].pc = "read" /\ session'[s].msgs = {m}
           /\ session'[s].outcome = message[m].outcome /\ DOMAIN session'[s].row = {}
<1> DEFINE r == [Closed EXCEPT !.pc = "read", !.msgs = {m}, !.outcome = message[m].outcome]
<1>1. s \in Replies /\ Put(s, r) /\ UNCHANGED message /\ Sent(m) /\ s \notin Settlers
  BY Who DEF ReplyRead, Sent
<1>2. message[m].outcome \in {"none", "drafted", "pending"} \cup Outcomes
  BY DEF BanditTyped, Message, Outcomes
<1>3. /\ r \in Session /\ r.pc = "read" /\ r.msgs = {m} /\ r.base = Closed.base
      /\ r.row = Closed.row /\ r.outcome = message[m].outcome /\ r.drops = {}
  BY <1>2, ClosedFits DEF Closed, Session
<1> HIDE DEF r
<1>4. SessionOK(s, r) /\ Fits(r) /\ DOMAIN r.row = {}
  BY <1>1, <1>3, ClosedFits DEF SessionOK, Judged, Fits
<1> QED
  BY <1>1, <1>3, <1>4, OneMoves

LEMMA RecordDoes ==
    ASSUME BanditTyped, NEW s \in Sessions, Record(s)
    PROVE  /\ SessionsTyped' /\ Elsewhere(s) /\ s \in Replies /\ session[s].pc = "read"
           /\ \/ /\ session'[s].pc = "closed" /\ session'[s].msgs = {}
                 /\ DOMAIN session'[s].row = {}
              \/ /\ session'[s].pc = "loaded" /\ session'[s].msgs = session[s].msgs
                 /\ session[s].outcome = "pending"
                 /\ \A v \in DOMAIN session'[s].row : session'[s].base[v] = variant[v]
<1>1. s \in Replies /\ session[s].pc = "read" /\ UNCHANGED message /\ s \notin Settlers
  BY Who DEF Record
<1>2. CASE Put(s, Closed)
  BY <1>1, <1>2, Closes
<1>3. CASE ~Put(s, Closed)
  <2>1. PICK v \in VariantsOf(session[s].msgs), won \in BOOLEAN :
           Put(s, [session[s] EXCEPT !.pc = "loaded",
                  !.outcome = IF won THEN "success" ELSE "failure",
                  !.base = [x \in {v} |-> variant[x]],
                  !.row = [x \in {v} |-> IF won THEN [variant[x] EXCEPT !.alpha = @ + 1]
                                                ELSE [variant[x] EXCEPT !.beta = @ + 1]]])
    BY <1>3 DEF Record
  <2> DEFINE old == [x \in {v} |-> variant[x]]
             new == [x \in {v} |-> IF won THEN [variant[x] EXCEPT !.alpha = @ + 1]
                                          ELSE [variant[x] EXCEPT !.beta = @ + 1]]
             o == IF won THEN "success" ELSE "failure"
             r == [session[s] EXCEPT !.pc = "loaded", !.outcome = o, !.base = old, !.row = new]
  <2>2. session[s].outcome = "pending"
    BY <1>3 DEF Record
  <2>3. session[s] \in Session /\ SessionOK(s, session[s]) /\ Fits(session[s])
    BY Fields
  <2>4. PICK m \in Messages : session[s].msgs = {m}
    BY <1>1, <2>3 DEF SessionOK
  <2>5. v = message[m].variant /\ v \in Variants /\ variant[v] \in Variant
    BY <2>1, <2>4 DEF VariantsOf, BanditTyped, Message
  <2>6. Of({m}, v) = {m} /\ Cardinality(Of({m}, v)) = 1 /\ VariantsOf({m}) = {v}
    <3>1. Of({m}, v) = {m} /\ VariantsOf({m}) = {v}
      BY <2>5 DEF Of, VariantsOf
    <3>2. Cardinality({m}) = 1
      BY FS_Singleton
    <3> QED
      BY <3>1, <3>2
  <2>7. old \in [{v} -> Variant] /\ DOMAIN old = {v} /\ old[v] = variant[v]
    BY <2>5
  <2>8. new[v] = IF won THEN [variant[v] EXCEPT !.alpha = @ + 1]
                        ELSE [variant[v] EXCEPT !.beta = @ + 1]
    OBVIOUS
  <2>9. /\ new[v] \in Variant /\ new[v].state = variant[v].state
        /\ new[v].active = variant[v].active /\ new[v].skeleton = variant[v].skeleton
        /\ new[v].alpha = IF won THEN variant[v].alpha + 1 ELSE variant[v].alpha
        /\ new[v].beta = IF won THEN variant[v].beta ELSE variant[v].beta + 1
    BY <2>5, <2>8 DEF Variant
  <2>10. new \in [{v} -> Variant] /\ DOMAIN new = {v}
    BY <2>9
  <2> HIDE DEF old, new
  <2>11. old \in PartRows /\ new \in PartRows
    BY <2>5, <2>7, <2>10, RowsArePart
  <2>12. /\ r \in Session /\ r.pc = "loaded" /\ r.msgs = session[s].msgs /\ r.base = old
         /\ r.row = new /\ r.outcome = o /\ r.drops = session[s].drops
    BY <2>3, <2>11 DEF Session, Outcomes
  <2>13. Put(s, r)
    BY <2>1 DEF old, new
  <2> HIDE DEF r
  <2>14. SessionOK(s, r)
    BY <1>1, <2>3, <2>4, <2>7, <2>10, <2>12 DEF SessionOK, Judged, Outcomes
  <2>15. Raised(r, v)
    BY <2>4, <2>6, <2>7, <2>9, <2>12 DEF Raised
  <2>16. Fits(r)
    BY <2>3, <2>4, <2>6, <2>10, <2>12, <2>15 DEF Fits
  <2>17. SessionsTyped' /\ session'[s] = r /\ Elsewhere(s)
    BY <1>1, <2>12, <2>13, <2>14, <2>16, OneMoves
  <2> QED
    BY <1>1, <2>2, <2>7, <2>10, <2>12, <2>17
<1> QED
  BY <1>2, <1>3

LEMMA WriteDoes ==
    ASSUME BanditTyped, NEW s \in Sessions, SettleWrite(s) \/ ReplyWrite(s)
    PROVE  /\ SessionsTyped' /\ Elsewhere(s)
           /\ session[s].pc = "loaded" /\ session'[s].pc = "written"
           /\ session'[s].msgs = session[s].msgs /\ session'[s].base = session[s].base
           /\ session'[s].row = session[s].row
           /\ s \in Settlers => SettleWrite(s) /\ session'[s].drops \subseteq Hopeless(s)
<1>1. session[s] \in Session /\ SessionOK(s, session[s]) /\ Fits(session[s])
  BY Fields
<1>2. DOMAIN session[s].row \subseteq Variants /\ session[s].msgs \subseteq Messages
  BY Fields
<1>3. ASSUME NEW L \in SUBSET (Messages \cup Variants), NEW D \in SUBSET Variants,
             s \in Replies => D = {}, session[s].pc = "loaded", UNCHANGED message,
             Put(s, [session[s] EXCEPT !.pc = "written", !.locks = L, !.drops = D])
      PROVE  /\ SessionsTyped' /\ Elsewhere(s) /\ session'[s].pc = "written"
             /\ session'[s].msgs = session[s].msgs /\ session'[s].base = session[s].base
             /\ session'[s].row = session[s].row /\ session'[s].drops = D
  <2> DEFINE r == [session[s] EXCEPT !.pc = "written", !.locks = L, !.drops = D]
  <2>1. /\ r \in Session /\ r.pc = "written" /\ r.msgs = session[s].msgs
        /\ r.base = session[s].base /\ r.row = session[s].row
        /\ r.outcome = session[s].outcome /\ r.drops = D
    BY <1>1 DEF Session
  <2>2. Put(s, r)
    BY <1>3
  <2> HIDE DEF r
  <2>3. SessionOK(s, r)
    BY <1>1, <1>3, <2>1 DEF SessionOK, Judged
  <2>4. \A v : Raised(r, v) <=> Raised(session[s], v)
    BY <2>1 DEF Raised
  <2>5. Fits(r)
    BY <1>1, <1>3, <2>1, <2>4 DEF Fits, Judged
  <2> QED
    BY <1>3, <2>1, <2>2, <2>3, <2>5, OneMoves
<1>4. CASE SettleWrite(s)
  <2> DEFINE touched == DOMAIN session[s].row \cup Hopeless(s)
             L == session[s].locks \cup touched
             D == {v \in Hopeless(s) : v \in DOMAIN session[s].base => session[s].base[v].active}
  <2>1. /\ s \in Settlers /\ session[s].pc = "loaded" /\ UNCHANGED message
        /\ Put(s, [session[s] EXCEPT !.pc = "written", !.locks = @ \cup touched, !.drops = D])
    BY <1>4 DEF SettleWrite
  <2>2. Hopeless(s) \subseteq Variants
    BY DEF Hopeless, Arms
  <2>3. L \in SUBSET (Messages \cup Variants) /\ D \in SUBSET Variants
    BY <1>1, <1>2, <2>2 DEF Session
  <2>4. Put(s, [session[s] EXCEPT !.pc = "written", !.locks = L, !.drops = D])
    BY <2>1
  <2>5. D \subseteq Hopeless(s) /\ s \notin Replies
    BY <2>1, Who
  <2> HIDE DEF D, L
  <2> QED
    BY <1>3, <1>4, <2>1, <2>3, <2>4, <2>5
<1>5. CASE ReplyWrite(s)
  <2> DEFINE touched == DOMAIN session[s].row \cup session[s].msgs
  <2>1. /\ s \in Replies /\ s \notin Settlers /\ session[s].pc = "loaded" /\ UNCHANGED message
        /\ Put(s, [session[s] EXCEPT !.pc = "written", !.locks = touched])
    BY <1>5, Who DEF ReplyWrite
  <2>2. touched \in SUBSET (Messages \cup Variants)
    BY <1>2
  <2>3. session[s].drops = {}
    BY <1>1, <2>1 DEF SessionOK
  <2> HIDE DEF touched
  <2>4. [session[s] EXCEPT !.pc = "written", !.locks = touched]
           = [session[s] EXCEPT !.pc = "written", !.locks = touched, !.drops = {}]
    BY <1>1, <2>3 DEF Session
  <2> QED
    BY <1>3, <2>1, <2>2, <2>4
<1> QED
  BY <1>4, <1>5

LEMMA CommitDoes ==
    ASSUME BanditTyped, NEW s \in Sessions, SettleCommit(s) \/ ReplyCommit(s)
    PROVE  /\ session[s].pc = "written" /\ session[s].outcome \in Outcomes /\ UNCHANGED events
           /\ DOMAIN session[s].row = VariantsOf(session[s].msgs)
           /\ \A m \in Messages :
                 IF m \in session[s].msgs
                 THEN /\ message'[m] = [message[m] EXCEPT !.outcome = session[s].outcome]
                      /\ gave'[m] = gave[m] + 1
                 ELSE message'[m] = message[m] /\ gave'[m] = gave[m]
           /\ \A v \in Variants \ DOMAIN session[s].row :
                 variant'[v].alpha = variant[v].alpha /\ variant'[v].beta = variant[v].beta
           /\ \A v \in DOMAIN session[s].row :
                 /\ session[s].base[v].alpha = variant[v].alpha
                 /\ session[s].base[v].beta = variant[v].beta
                 => /\ variant'[v].alpha = session[s].row[v].alpha
                    /\ variant'[v].beta = session[s].row[v].beta
           /\ \A v \in Arms \ session[s].drops : v \in Arms'
           /\ variant' \in [Variants -> Variant] /\ message' \in [Messages -> Message]
           /\ gave' \in [Messages -> Nat] /\ mixed' \subseteq Variants
           /\ SentStay /\ SessionsTyped' /\ Elsewhere(s)
           /\ session'[s].pc = "closed" /\ session'[s].msgs = {} /\ DOMAIN session'[s].row = {}
<1> DEFINE M == session[s].msgs
           o == session[s].outcome
           New(v) == LET r == IF v \in DOMAIN session[s].row
                              THEN Written(variant[v], session[s].base[v], session[s].row[v])
                              ELSE variant[v]
                     IN  IF v \in session[s].drops THEN [r EXCEPT !.active = FALSE] ELSE r
<1>1. session[s].pc = "written" /\ Commit(s)
  BY DEF SettleCommit, ReplyCommit
<1>2. /\ session[s] \in Session /\ SessionOK(s, session[s]) /\ Fits(session[s])
      /\ M \subseteq Messages /\ DOMAIN session[s].row \subseteq Variants
  BY Fields
<1>3. o \in Outcomes
  BY <1>1, <1>2 DEF SessionOK, Judged
<1>4. /\ DOMAIN session[s].row = VariantsOf(M)
      /\ \A v \in DOMAIN session[s].row : Raised(session[s], v)
  BY <1>1, <1>2 DEF Fits, Judged
<1>5. /\ message' = [m \in Messages |-> IF m \in M THEN [message[m] EXCEPT !.outcome = o]
                                                   ELSE message[m]]
      /\ gave' = [m \in Messages |-> IF m \in M THEN gave[m] + 1 ELSE gave[m]]
      /\ Put(s, Closed) /\ UNCHANGED events
  BY <1>1, <1>3 DEF Commit
<1>6. variant' = [v \in Variants |-> New(v)]
  BY <1>1, <1>3 DEF Commit
<1>7. mixed' \subseteq mixed \cup {message[m].variant : m \in Messages}
  BY <1>1, <1>2, <1>3 DEF Commit
<1>8. message' \in [Messages -> Message] /\ SentStay
  <2>1. ASSUME NEW m \in Messages
        PROVE  /\ message[m] \in Message /\ message'[m] \in Message
               /\ message'[m].variant = message[m].variant
               /\ message'[m].outcome = IF m \in M THEN o ELSE message[m].outcome
    BY <1>3, <1>5 DEF BanditTyped, Message, Outcomes
  <2> QED
    BY <1>3, <1>5, <2>1 DEF SentStay, Sent, Outcomes
<1>9. gave' \in [Messages -> Nat] /\ mixed' \subseteq Variants
  BY <1>5, <1>7 DEF BanditTyped, Message
<1>10. ASSUME NEW v \in Variants
       PROVE  /\ New(v) \in Variant /\ New(v).state = variant[v].state
              /\ v \notin session[s].drops => New(v).active = variant[v].active
              /\ v \notin DOMAIN session[s].row =>
                    New(v).alpha = variant[v].alpha /\ New(v).beta = variant[v].beta
              /\ /\ v \in DOMAIN session[s].row
                 /\ session[s].base[v].alpha = variant[v].alpha
                 /\ session[s].base[v].beta = variant[v].beta
                 => /\ New(v).alpha = session[s].row[v].alpha
                    /\ New(v).beta = session[s].row[v].beta
  <2> DEFINE b == session[s].base[v]
             q == session[s].row[v]
             r == IF v \in DOMAIN session[s].row THEN Written(variant[v], b, q) ELSE variant[v]
  <2>1. variant[v] \in Variant
    BY DEF BanditTyped
  <2>2. /\ r \in Variant /\ r.state = variant[v].state /\ r.active = variant[v].active
        /\ v \notin DOMAIN session[s].row =>
              r.alpha = variant[v].alpha /\ r.beta = variant[v].beta
        /\ /\ v \in DOMAIN session[s].row
           /\ b.alpha = variant[v].alpha /\ b.beta = variant[v].beta
           => r.alpha = q.alpha /\ r.beta = q.beta
    <3>1. CASE v \notin DOMAIN session[s].row
      BY <2>1, <3>1
    <3>2. CASE v \in DOMAIN session[s].row
      <4>1. b \in Variant /\ q \in Variant
        BY <3>2, Fields
      <4>2. q.state = b.state /\ q.active = b.active
        BY <1>4, <3>2 DEF Raised
      <4>3. r = Written(variant[v], b, q)
        BY <3>2
      <4> HIDE DEF b, q, r
      <4> QED
        BY <2>1, <3>2, <4>1, <4>2, <4>3, WrittenVariant
    <3> QED
      BY <3>1, <3>2
  <2>3. New(v) = IF v \in session[s].drops THEN [r EXCEPT !.active = FALSE] ELSE r
    OBVIOUS
  <2> HIDE DEF r, New
  <2>4. /\ New(v) \in Variant /\ New(v).state = r.state /\ New(v).alpha = r.alpha
        /\ New(v).beta = r.beta
        /\ v \notin session[s].drops => New(v).active = r.active
    BY <2>2, <2>3 DEF Variant
  <2> QED
    BY <2>2, <2>4
<1> HIDE DEF New
<1>11. \A v \in Variants : variant'[v] = New(v)
  BY <1>6
<1>12. \A v \in Arms \ session[s].drops : v \in Arms'
  BY <1>10, <1>11 DEF Arms
<1>13. variant' \in [Variants -> Variant]
  BY <1>6, <1>10
<1>14. /\ \A m \in Messages :
             IF m \in session[s].msgs
             THEN /\ message'[m] = [message[m] EXCEPT !.outcome = session[s].outcome]
                  /\ gave'[m] = gave[m] + 1
             ELSE message'[m] = message[m] /\ gave'[m] = gave[m]
  BY <1>5
<1>15. /\ SessionsTyped' /\ Elsewhere(s)
       /\ session'[s].pc = "closed" /\ session'[s].msgs = {} /\ DOMAIN session'[s].row = {}
  BY <1>5, <1>8, Closes
<1> QED
  BY <1>1, <1>2, <1>3, <1>4, <1>5, <1>8, <1>9, <1>10, <1>11, <1>12, <1>13, <1>14, <1>15

-----------------------------------------------------------------------------
(* The four kinds of step                                                  *)

RowsMove ==
    /\ UNCHANGED <<message, session, gave, mixed>>
    /\ variant' \in [Variants -> Variant]
    /\ \A v \in Variants :
          variant'[v].alpha = variant[v].alpha /\ variant'[v].beta = variant[v].beta

MessageMoves(m) ==
    /\ UNCHANGED <<variant, session, gave, mixed>>
    /\ message' \in [Messages -> Message] /\ SentStay
    /\ ~Sent(m) /\ message'[m].outcome \notin Outcomes
    /\ \A k \in Messages \ {m} : message'[k] = message[k]

Asks(s) ==
    \/ \E M \in SUBSET Messages : Settle(s, M)
    \/ \E m \in Messages : ReplyRead(s, m)
    \/ SettleWrite(s) \/ Record(s) \/ ReplyWrite(s) \/ Die(s)

(* What a session takes up is as the rows are now, or as it had it.        *)
Follows(s) ==
    /\ UNCHANGED <<variant, message, gave, mixed>>
    /\ SessionsTyped' /\ Elsewhere(s)
    /\ \A m \in session'[s].msgs :
          IF session'[s].pc = "read" THEN session'[s].outcome = message[m].outcome
          ELSE \/ message[m].outcome = "pending"
               \/ /\ m \in session[s].msgs
                  /\ session[s].pc = "read" => session[s].outcome = "pending"
    /\ \A v \in DOMAIN session'[s].row :
          \/ session'[s].base[v] = variant[v]
          \/ v \in DOMAIN session[s].row /\ session'[s].base[v] = session[s].base[v]

LEMMA RowActs ==
    ASSUME BanditTyped, NEW v \in Variants, AddVariant(v) \/ EditSkeleton(v) \/ Toggle(v)
    PROVE  RowsMove /\ events' \in 0..MaxEvents
<1>1. UNCHANGED <<message, session, gave, mixed>>
  BY DEF AddVariant, EditSkeleton, Toggle, Quiet
<1>2. events' \in 0..MaxEvents
  BY DEF AddVariant, EditSkeleton, Toggle, BanditTyped
<1>3. PICK r \in Variant : /\ variant' = [variant EXCEPT ![v] = r]
                           /\ r.alpha = variant[v].alpha /\ r.beta = variant[v].beta
  <2>1. variant[v] \in Variant /\ variant \in [Variants -> Variant]
    BY DEF BanditTyped
  <2>2. CASE AddVariant(v)
    <3> DEFINE r == [variant[v] EXCEPT !.state = "live"]
    <3>1. variant' = [variant EXCEPT ![v] = r]
      BY <2>1, <2>2 DEF AddVariant
    <3>2. r \in Variant /\ r.alpha = variant[v].alpha /\ r.beta = variant[v].beta
      BY <2>1 DEF Variant
    <3> HIDE DEF r
    <3> QED
      BY <3>1, <3>2
  <2>3. CASE EditSkeleton(v)
    <3> DEFINE r == [variant[v] EXCEPT !.skeleton = @ + 1]
    <3>1. variant' = [variant EXCEPT ![v] = r]
      BY <2>1, <2>3 DEF EditSkeleton
    <3>2. r \in Variant /\ r.alpha = variant[v].alpha /\ r.beta = variant[v].beta
      BY <2>1 DEF Variant
    <3> HIDE DEF r
    <3> QED
      BY <3>1, <3>2
  <2>4. CASE Toggle(v)
    <3> DEFINE x == ~variant[v].active
               r == [variant[v] EXCEPT !.active = x]
    <3>1. variant' = [variant EXCEPT ![v] = r] /\ x \in BOOLEAN
      BY <2>1, <2>4 DEF Toggle
    <3> HIDE DEF x
    <3>2. r \in Variant /\ r.alpha = variant[v].alpha /\ r.beta = variant[v].beta
      BY <2>1, <3>1 DEF Variant
    <3> HIDE DEF r
    <3> QED
      BY <3>1, <3>2
  <2> QED
    BY <2>2, <2>3, <2>4
<1> QED
  BY <1>1, <1>2, <1>3 DEF RowsMove, BanditTyped

LEMMA MessageActs ==
    ASSUME BanditTyped, NEW m \in Messages, Draft(m) \/ Send(m)
    PROVE  MessageMoves(m) /\ UNCHANGED events
<1>1. UNCHANGED <<variant, session, gave, mixed, events>>
  BY DEF Draft, Send, Quiet
<1>2. message[m].outcome \in {"none", "drafted"} /\ ~Sent(m)
  BY DEF Draft, Send, Sent
<1>3. PICK r \in Message : /\ message' = [message EXCEPT ![m] = r]
                           /\ r.outcome \notin Outcomes
                           /\ r.outcome = "pending" => r.variant = message[m].variant
                           /\ r.outcome \in {"drafted", "pending"}
  <2>1. message[m] \in Message
    BY DEF BanditTyped
  <2>2. CASE Draft(m)
    <3>1. PICK v \in Arms : message' = [message EXCEPT ![m] = [message[m] EXCEPT
             !.outcome = "drafted", !.variant = v, !.skeleton = variant[v].skeleton]]
      <4>1. PICK v \in Arms : message' = [message EXCEPT ![m].outcome = "drafted",
                  ![m].variant = v, ![m].skeleton = variant[v].skeleton]
        BY <2>2 DEF Draft
      <4> QED
        BY <2>1, <4>1 DEF BanditTyped
    <3>2. v \in Variants /\ variant[v].skeleton \in Nat
      BY DEF Arms, BanditTyped, Variant
    <3> DEFINE r == [message[m] EXCEPT !.outcome = "drafted", !.variant = v,
                                       !.skeleton = variant[v].skeleton]
    <3>3. message' = [message EXCEPT ![m] = r]
      BY <3>1
    <3>4. r \in Message /\ r.outcome = "drafted"
      BY <2>1, <3>2 DEF Message
    <3> HIDE DEF r
    <3> QED
      BY <3>3, <3>4 DEF Outcomes
  <2>3. CASE Send(m)
    <3> DEFINE r == [message[m] EXCEPT !.outcome = "pending"]
    <3>1. message' = [message EXCEPT ![m] = r]
      BY <2>1, <2>3 DEF Send
    <3>2. r \in Message /\ r.outcome = "pending" /\ r.variant = message[m].variant
      BY <2>1 DEF Message
    <3> HIDE DEF r
    <3> QED
      BY <3>1, <3>2 DEF Outcomes
  <2> QED
    BY <2>2, <2>3
<1>4. /\ message' \in [Messages -> Message] /\ message'[m] = r
      /\ \A k \in Messages \ {m} : message'[k] = message[k]
  BY <1>3 DEF BanditTyped
<1>5. SentStay
  BY <1>2, <1>3, <1>4 DEF SentStay, Sent
<1> QED
  BY <1>1, <1>2, <1>3, <1>4, <1>5 DEF MessageMoves

LEMMA Asked ==
    ASSUME BanditTyped, NEW s \in Sessions, Asks(s)
    PROVE  Follows(s) /\ events' \in 0..MaxEvents
<1>1. UNCHANGED <<variant, message, gave, mixed>> /\ events' \in 0..MaxEvents
  <2>1. events \in 0..MaxEvents
    BY DEF BanditTyped
  <2>2. ASSUME NEW M \in SUBSET Messages, Settle(s, M)
        PROVE  UNCHANGED <<variant, message, gave, mixed, events>>
    BY <2>2 DEF Settle
  <2>3. ASSUME NEW m \in Messages, ReplyRead(s, m)
        PROVE  UNCHANGED <<variant, message, gave, mixed, events>>
    BY <2>3 DEF ReplyRead
  <2>4. ASSUME SettleWrite(s) \/ ReplyWrite(s)
        PROVE  UNCHANGED <<variant, message, gave, mixed, events>>
    BY <2>4 DEF SettleWrite, ReplyWrite
  <2>5. Record(s) => UNCHANGED <<variant, message, gave, mixed, events>>
    BY DEF Record
  <2>6. Die(s) => UNCHANGED <<variant, message, gave, mixed>> /\ events' \in 0..MaxEvents
    BY <2>1 DEF Die
  <2> QED
    BY <2>1, <2>2, <2>3, <2>4, <2>5, <2>6 DEF Asks
<1>2. ASSUME NEW M \in SUBSET Messages, Settle(s, M) PROVE Follows(s)
  BY <1>1, <1>2, SettleDoes DEF Follows
<1>3. ASSUME NEW m \in Messages, ReplyRead(s, m) PROVE Follows(s)
  BY <1>1, <1>3, ReadDoes DEF Follows
<1>4. ASSUME Record(s) PROVE Follows(s)
  BY <1>1, <1>4, RecordDoes DEF Follows
<1>5. ASSUME SettleWrite(s) \/ ReplyWrite(s) PROVE Follows(s)
  BY <1>1, <1>5, WriteDoes DEF Follows
<1>6. ASSUME Die(s) PROVE Follows(s)
  <2>1. Put(s, Closed)
    BY <1>6 DEF Die
  <2> QED
    BY <1>1, <2>1, Closes DEF Follows
<1> QED
  BY <1>1, <1>2, <1>3, <1>4, <1>5, <1>6 DEF Asks

LEMMA Steps ==
    ASSUME BanditTyped, BanditAct
    PROVE  \/ RowsMove
           \/ \E m \in Messages : MessageMoves(m)
           \/ \E s \in Sessions : Asks(s) /\ Follows(s)
           \/ \E s \in Sessions : SettleCommit(s) \/ ReplyCommit(s)
<1>1. ASSUME NEW v \in Variants, AddVariant(v) \/ EditSkeleton(v) \/ Toggle(v) PROVE RowsMove
  BY <1>1, RowActs
<1>2. ASSUME NEW m \in Messages, Draft(m) \/ Send(m) PROVE MessageMoves(m)
  BY <1>2, MessageActs
<1>3. ASSUME NEW s \in Sessions, Asks(s) PROVE Follows(s)
  BY <1>3, Asked
<1>4. \/ \E v \in Variants : AddVariant(v) \/ EditSkeleton(v) \/ Toggle(v)
      \/ \E m \in Messages : Draft(m) \/ Send(m)
      \/ \E s \in Sessions : Asks(s) \/ SettleCommit(s) \/ ReplyCommit(s)
  BY DEF BanditAct, SessionWork, Asks
<1> QED
  BY <1>1, <1>2, <1>3, <1>4

LEMMA Keep ==
    ASSUME BanditTyped, BanditNext
    PROVE  /\ SentStay /\ SessionsTyped' /\ message' \in [Messages -> Message]
           /\ variant' \in [Variants -> Variant] /\ gave' \in [Messages -> Nat]
           /\ mixed' \subseteq Variants /\ events' \in 0..MaxEvents
<1>1. BanditAct
  BY DEF BanditNext
<1>2. message' = message => SentStay
  BY DEF SentStay, Sent
<1>3. events' \in 0..MaxEvents
  <2>1. ASSUME NEW v \in Variants, AddVariant(v) \/ EditSkeleton(v) \/ Toggle(v)
        PROVE  events' \in 0..MaxEvents
    BY <2>1, RowActs
  <2>2. ASSUME NEW m \in Messages, Draft(m) \/ Send(m) PROVE events' \in 0..MaxEvents
    BY <2>2, MessageActs DEF BanditTyped
  <2>3. ASSUME NEW s \in Sessions, Asks(s) PROVE events' \in 0..MaxEvents
    BY <2>3, Asked
  <2>4. ASSUME NEW s \in Sessions, SettleCommit(s) \/ ReplyCommit(s)
        PROVE  events' \in 0..MaxEvents
    BY <2>4, CommitDoes DEF BanditTyped
  <2>5. \/ \E v \in Variants : AddVariant(v) \/ EditSkeleton(v) \/ Toggle(v)
        \/ \E m \in Messages : Draft(m) \/ Send(m)
        \/ \E s \in Sessions : Asks(s) \/ SettleCommit(s) \/ ReplyCommit(s)
    BY <1>1 DEF BanditAct, SessionWork, Asks
  <2> QED
    BY <2>1, <2>2, <2>3, <2>4, <2>5
<1>4. CASE RowsMove
  <2>1. UNCHANGED <<message, session, gave, mixed>> /\ variant' \in [Variants -> Variant]
    BY <1>4 DEF RowsMove
  <2>2. SessionsTyped'
    BY <2>1, NoneMove
  <2> QED
    BY <1>2, <1>3, <2>1, <2>2 DEF BanditTyped
<1>5. ASSUME NEW m \in Messages, MessageMoves(m)
      PROVE  /\ SentStay /\ SessionsTyped' /\ message' \in [Messages -> Message]
             /\ UNCHANGED <<variant, gave, mixed>>
  BY <1>5, NoneMove DEF MessageMoves
<1>6. ASSUME NEW s \in Sessions, Follows(s)
      PROVE  SentStay /\ SessionsTyped' /\ UNCHANGED <<message, variant, gave, mixed>>
  BY <1>2, <1>6 DEF Follows
<1>7. ASSUME NEW s \in Sessions, SettleCommit(s) \/ ReplyCommit(s)
      PROVE  /\ SentStay /\ SessionsTyped' /\ message' \in [Messages -> Message]
             /\ variant' \in [Variants -> Variant] /\ gave' \in [Messages -> Nat]
             /\ mixed' \subseteq Variants
  BY <1>7, CommitDoes
<1>8. /\ message \in [Messages -> Message] /\ variant \in [Variants -> Variant]
      /\ gave \in [Messages -> Nat] /\ mixed \subseteq Variants
  BY DEF BanditTyped
<1> QED
  BY <1>1, <1>3, <1>4, <1>5, <1>6, <1>7, <1>8, Steps

-----------------------------------------------------------------------------
(* What was learned                                                        *)

LEMMA TwoClash == \A x \in Messages \cup Variants : x \notin Clash => OneHas(x)
<1> SUFFICES ASSUME NEW x \in Messages \cup Variants, x \notin Clash,
                    NEW s \in Sessions, NEW t \in Sessions, s \in Has(x), t \in Has(x), s # t
             PROVE  FALSE
  BY DEF OneHas
<1>1. Has(x) \subseteq Sessions /\ {s, t} \subseteq Has(x)
  BY DEF Has
<1>2. IsFiniteSet(Has(x))
  BY <1>1, Who, FS_Subset
<1>3. Cardinality({s, t}) = 2
  <2>1. Cardinality({s}) = 1 /\ IsFiniteSet({s})
    BY FS_Singleton
  <2>2. Cardinality({s} \cup {t}) = Cardinality({s}) + 1
    BY <2>1, FS_AddElement
  <2>3. {s, t} = {s} \cup {t}
    OBVIOUS
  <2> QED
    BY <2>1, <2>2, <2>3
<1>4. Cardinality({s, t}) <= Cardinality(Has(x)) /\ Cardinality(Has(x)) \in Nat
  BY <1>1, <1>2, FS_Subset, FS_CardinalityType
<1> QED
  BY <1>3, <1>4 DEF Clash

LEMMA Undisturbed ==
    ASSUME BanditTyped, LearnInv, BanditNext
    PROVE  /\ disturbed \subseteq disturbed' /\ disturbed' \subseteq Messages \cup Variants
           /\ \A m \in Messages : m \in disturbed' => Sent(m)' /\ message'[m].variant \in disturbed'
           /\ \A x \in Messages \cup Variants : x \notin disturbed' => OneHas(x)'
           /\ \A v \in Variants \ disturbed', m \in Messages :
                 message[m].variant = v => m \notin disturbed
<1>1. disturbed' = disturbed \cup Clash'
         \cup {message[m].variant : m \in {k \in Messages : k \in Clash'}}
  BY DEF BanditNext
<1>2. \A m \in Messages : message[m].variant \in Variants
  BY DEF BanditTyped, Message
<1>3. Clash' \subseteq Messages \cup Variants
  BY DEF Clash
<1>4. SentStay /\ SessionsTyped'
  BY Keep
<1>5. \A m \in Messages : m \in disturbed => Sent(m) /\ message[m].variant \in disturbed
  BY DEF LearnInv
<1>6. ASSUME NEW m \in Messages, m \in Clash' PROVE Sent(m)'
  <2>1. \A s \in Sessions : \A k \in session'[s].msgs : Sent(k)'
    BY <1>4 DEF SessionsTyped, Fits
  <2>2. \A s \in Sessions : DOMAIN session'[s].row \subseteq Variants
    BY <1>4, PartRowsAre DEF SessionsTyped, Session
  <2>3. PICK s \in Sessions : s \in Has(m)'
    <3>1. CASE Has(m)' = {}
      <4>1. Cardinality({}) = 0
        BY FS_EmptySet
      <4>2. Cardinality(Has(m)') > 1
        BY <1>6 DEF Clash
      <4> QED
        BY <3>1, <4>1, <4>2
    <3>2. Has(m)' \subseteq Sessions
      BY DEF Has
    <3> QED
      BY <3>1, <3>2
  <2>4. m \in session'[s].msgs
    BY <2>2, <2>3 DEF Has
  <2> QED
    BY <2>1, <2>4
<1>7. ASSUME NEW m \in Messages, m \in disturbed'
      PROVE  Sent(m)' /\ message'[m].variant \in disturbed'
  <2>1. m \in disturbed \/ m \in Clash'
    BY <1>1, <1>2, <1>7
  <2>2. Sent(m)'
    BY <1>4, <1>5, <1>6, <2>1 DEF SentStay
  <2>3. message[m].variant \in disturbed'
    BY <1>1, <1>5, <2>1
  <2> QED
    BY <1>4, <2>2, <2>3 DEF SentStay
<1>8. \A x \in Messages \cup Variants : x \notin disturbed' => OneHas(x)'
  <2>1. (\A x \in Messages \cup Variants : x \notin Clash => OneHas(x))'
    BY TwoClash, PTL
  <2> QED
    BY <1>1, <2>1
<1>9. disturbed \subseteq disturbed' /\ disturbed' \subseteq Messages \cup Variants
  BY <1>1, <1>2, <1>3 DEF BanditTyped
<1>10. \A v \in Variants \ disturbed', m \in Messages :
          message[m].variant = v => m \notin disturbed
  BY <1>5, <1>9
<1> QED
  BY <1>7, <1>8, <1>9, <1>10

LEMMA MessageStep ==
    ASSUME BanditTyped, LearnInv, BanditNext, NEW m \in Messages, m \notin disturbed'
    PROVE  MessageExact(m)'
<1>1. m \notin disturbed /\ BanditAct
  BY Undisturbed DEF BanditNext
<1>2. OneHas(m)
  BY <1>1 DEF LearnInv
<1>3. /\ gave[m] <= 1 /\ gave[m] \in Nat
      /\ message[m].outcome \notin Outcomes => gave[m] = 0
      /\ \A s \in Sessions : m \in session[s].msgs =>
            /\ session[s].pc = "read" => session[s].outcome = message[m].outcome
            /\ session[s].pc # "read" => message[m].outcome = "pending"
  BY <1>1 DEF LearnInv, MessageExact, BanditTyped
<1>4. CASE RowsMove
  <2>1. UNCHANGED <<message, session, gave>>
    BY <1>4 DEF RowsMove
  <2> QED
    BY <1>3, <2>1 DEF MessageExact
<1>5. ASSUME NEW k \in Messages, MessageMoves(k) PROVE MessageExact(m)'
  <2>1. UNCHANGED <<session, gave>> /\ ~Sent(k) /\ message'[k].outcome \notin Outcomes
    BY <1>5 DEF MessageMoves
  <2>2. CASE k # m
    <3>1. message'[m] = message[m]
      BY <1>5, <2>2 DEF MessageMoves
    <3> QED
      BY <1>3, <2>1, <3>1 DEF MessageExact
  <2>3. CASE k = m
    <3>1. \A s \in Sessions : m \notin session[s].msgs
      BY <2>1, <2>3, Fields DEF Fits
    <3>2. gave[m] = 0
      BY <1>3, <2>1, <2>3 DEF Sent, Outcomes
    <3> QED
      BY <2>1, <2>3, <3>1, <3>2 DEF MessageExact
  <2> QED
    BY <2>2, <2>3
<1>6. ASSUME NEW s \in Sessions, Follows(s) PROVE MessageExact(m)'
  <2>1. UNCHANGED <<message, gave>> /\ \A t \in Sessions \ {s} : session'[t] = session[t]
    BY <1>6 DEF Follows, Elsewhere
  <2>2. m \in session'[s].msgs =>
           IF session'[s].pc = "read" THEN session'[s].outcome = message[m].outcome
           ELSE \/ message[m].outcome = "pending"
                \/ /\ m \in session[s].msgs
                   /\ session[s].pc = "read" => session[s].outcome = "pending"
    BY <1>6 DEF Follows
  <2>3. m \in session'[s].msgs =>
           /\ session'[s].pc = "read" => session'[s].outcome = message[m].outcome
           /\ session'[s].pc # "read" => message[m].outcome = "pending"
    BY <1>3, <2>2
  <2> QED
    BY <1>3, <2>1, <2>3 DEF MessageExact
<1>7. ASSUME NEW s \in Sessions, SettleCommit(s) \/ ReplyCommit(s) PROVE MessageExact(m)'
  <2>1. /\ session[s].pc = "written" /\ session[s].outcome \in Outcomes
        /\ session'[s].msgs = {} /\ \A t \in Sessions \ {s} : session'[t] = session[t]
    BY <1>7, CommitDoes DEF Elsewhere
  <2>2. IF m \in session[s].msgs
        THEN /\ message'[m] = [message[m] EXCEPT !.outcome = session[s].outcome]
             /\ gave'[m] = gave[m] + 1
        ELSE message'[m] = message[m] /\ gave'[m] = gave[m]
    BY <1>7, CommitDoes
  <2>3. CASE m \notin session[s].msgs
    BY <1>3, <2>1, <2>2, <2>3 DEF MessageExact
  <2>4. CASE m \in session[s].msgs
    <3>1. message[m] \in Message
      BY DEF BanditTyped
    <3>2. message'[m].outcome \in Outcomes
      BY <2>1, <2>2, <2>4, <3>1 DEF Message
    <3>3. message[m].outcome = "pending" /\ gave[m] = 0
      BY <1>3, <2>1, <2>4 DEF Outcomes
    <3>4. \A t \in Sessions : m \notin session'[t].msgs
      BY <1>2, <2>1, <2>4 DEF OneHas, Has
    <3> QED
      BY <2>2, <2>4, <3>2, <3>3, <3>4 DEF MessageExact
  <2> QED
    BY <2>3, <2>4
<1> QED
  BY <1>1, <1>4, <1>5, <1>6, <1>7, Steps

(* A step that settles no message of v leaves v's counts alone.            *)
LEMMA SameCount ==
    ASSUME NEW v, NEW o,
           \A m \in Messages : message'[m].outcome = o /\ message'[m].variant = v
                           <=> message[m].outcome = o /\ message[m].variant = v
    PROVE  Count(v, o)' = Count(v, o)
<1>1. {m \in Messages : message'[m].outcome = o /\ message'[m].variant = v}
         = {m \in Messages : message[m].outcome = o /\ message[m].variant = v}
  OBVIOUS
<1> QED
  BY <1>1 DEF Count

(* A commit of M adds the messages of v among them to one of v's counts.   *)
LEMMA MoreCounted ==
    ASSUME NEW v, NEW o, NEW M \in SUBSET Messages,
           \A m \in Messages : message'[m].outcome = o /\ message'[m].variant = v
                 <=> \/ message[m].outcome = o /\ message[m].variant = v
                     \/ m \in Of(M, v),
           \A m \in Of(M, v) : message[m].outcome # o
    PROVE  Count(v, o)' = Count(v, o) + Cardinality(Of(M, v))
<1> DEFINE A == {m \in Messages : message[m].outcome = o /\ message[m].variant = v}
           B == Of(M, v)
<1>1. IsFiniteSet(A) /\ IsFiniteSet(B)
  BY CountIsFinite, OfIsFinite
<1>2. A \cap B = {}
  OBVIOUS
<1>3. {m \in Messages : message'[m].outcome = o /\ message'[m].variant = v} = A \cup B
  BY DEF Of
<1>4. Count(v, o)' = Cardinality(A \cup B) /\ Count(v, o) = Cardinality(A)
  BY <1>3 DEF Count
<1> HIDE DEF A, B
<1>5. Cardinality(A \cup B)
         = Cardinality(A) + Cardinality(B) - Cardinality(A \cap B)
  BY <1>1, FS_Union
<1>6. Cardinality(A \cap B) = 0
  BY <1>2, FS_EmptySet
<1>7. Cardinality(A) \in Nat /\ Cardinality(B) \in Nat
  BY <1>1, FS_CardinalityType
<1>8. Cardinality(A \cup B) = Cardinality(A) + Cardinality(B)
  BY <1>5, <1>6, <1>7
<1> QED
  BY <1>4, <1>8 DEF B

LEMMA CommitTeaches ==
    ASSUME BanditTyped, LearnInv, BanditNext, NEW s \in Sessions, SettleCommit(s) \/ ReplyCommit(s),
           NEW v \in Variants, v \notin disturbed'
    PROVE  ArmExact(v)'
<1>0. PICK o \in Outcomes, M \in SUBSET Messages :
         session[s].outcome = o /\ session[s].msgs = M
  BY CommitDoes, Fields
<1> DEFINE n == Cardinality(Of(M, v))
<1>1. v \notin disturbed /\ OneHas(v) /\ ArmExact(v)
  BY Undisturbed DEF LearnInv
<1>2. /\ session[s].pc = "written" /\ DOMAIN session[s].row = VariantsOf(M)
      /\ DOMAIN session'[s].row = {}
      /\ \A t \in Sessions \ {s} : session'[t] = session[t]
  BY <1>0, CommitDoes DEF Elsewhere
<1>3. \A m \in Messages :
         IF m \in M THEN message'[m] = [message[m] EXCEPT !.outcome = o]
         ELSE message'[m] = message[m]
  BY <1>0, CommitDoes
<1>4. Fits(session[s])
  BY Fields
<1>5. \A m \in Messages : message[m] \in Message
  BY DEF BanditTyped
<1>6. ASSUME NEW m \in Of(M, v) PROVE message[m].outcome = "pending" /\ m \in M
  <2>1. m \in M /\ m \in Messages /\ message[m].variant = v
    BY <1>4 DEF Of
  <2>2. m \notin disturbed
    BY <2>1, Undisturbed
  <2>3. MessageExact(m)
    BY <2>1, <2>2 DEF LearnInv
  <2> QED
    BY <1>0, <1>2, <2>1, <2>3 DEF MessageExact
<1>7. \A m \in Messages : m \in Of(M, v) <=> m \in M /\ message[m].variant = v
  BY DEF Of
<1>8. ASSUME NEW m \in Messages
      PROVE  /\ message'[m].variant = message[m].variant
             /\ message'[m].outcome = IF m \in M THEN o ELSE message[m].outcome
  BY <1>3, <1>5 DEF Message
<1>9. n \in Nat
  BY OfIsFinite
<1>10. Of(M, v) \subseteq M
  BY DEF Of
<1>11. Count(v, o)' = Count(v, o) + n
  <2>1. \A m \in Of(M, v) : message[m].outcome # o
    BY <1>0, <1>6 DEF Outcomes
  <2>2. \A m \in Messages : message'[m].outcome = o /\ message'[m].variant = v
              <=> \/ message[m].outcome = o /\ message[m].variant = v
                  \/ m \in Of(M, v)
    BY <1>7, <1>8
  <2> QED
    BY <2>1, <2>2, MoreCounted
<1>12. ASSUME NEW x \in Outcomes, x # o PROVE Count(v, x)' = Count(v, x)
  <2>1. \A m \in Messages : message'[m].outcome = x /\ message'[m].variant = v
                        <=> message[m].outcome = x /\ message[m].variant = v
    <3> SUFFICES ASSUME NEW m \in Messages
                 PROVE  message'[m].outcome = x /\ message'[m].variant = v
                    <=> message[m].outcome = x /\ message[m].variant = v
      OBVIOUS
    <3>1. CASE m \in Of(M, v)
      BY <1>2, <1>6, <1>8, <1>12, <3>1 DEF Outcomes
    <3>2. CASE m \notin Of(M, v)
      BY <1>7, <1>8, <3>2
    <3> QED
      BY <3>1, <3>2
  <2> QED
    BY <2>1, SameCount
<1>13. /\ variant[v].alpha = 1 + Count(v, "success")
       /\ variant[v].beta = 1 + Count(v, "failure")
       /\ Count(v, "success") \in Nat /\ Count(v, "failure") \in Nat
       /\ \A t \in Sessions : v \in DOMAIN session[t].row =>
             /\ session[t].base[v].alpha = variant[v].alpha
             /\ session[t].base[v].beta = variant[v].beta
  BY <1>1, CountIsFinite DEF ArmExact
<1>14. /\ variant'[v].alpha = IF o = "success" THEN variant[v].alpha + n ELSE variant[v].alpha
       /\ variant'[v].beta = IF o = "failure" THEN variant[v].beta + n ELSE variant[v].beta
  <2>1. CASE v \in DOMAIN session[s].row
    <3>1. Raised(session[s], v)
      BY <1>2, <1>4, <2>1 DEF Fits, Judged
    <3>2. /\ session[s].row[v].alpha = IF o = "success" THEN session[s].base[v].alpha + n
                                                       ELSE session[s].base[v].alpha
          /\ session[s].row[v].beta = IF o = "failure" THEN session[s].base[v].beta + n
                                                      ELSE session[s].base[v].beta
      BY <1>0, <3>1 DEF Raised
    <3>3. /\ session[s].base[v].alpha = variant[v].alpha
          /\ session[s].base[v].beta = variant[v].beta
      BY <1>13, <2>1
    <3>4. /\ variant'[v].alpha = session[s].row[v].alpha
          /\ variant'[v].beta = session[s].row[v].beta
      BY <2>1, <3>3, CommitDoes
    <3> QED
      BY <3>2, <3>3, <3>4
  <2>2. CASE v \notin DOMAIN session[s].row
    <3>1. variant'[v].alpha = variant[v].alpha /\ variant'[v].beta = variant[v].beta
      BY <2>2, CommitDoes
    <3>2. Of(M, v) = {}
      BY <1>2, <2>2 DEF Of, VariantsOf
    <3>3. n = 0
      BY <3>2, FS_EmptySet
    <3>4. variant[v] \in Variant
      BY DEF BanditTyped
    <3> QED
      BY <3>1, <3>3, <3>4 DEF Variant
  <2> QED
    BY <2>1, <2>2
<1>15. ASSUME NEW t \in Sessions, v \in DOMAIN session'[t].row
       PROVE  /\ session'[t].base[v].alpha = variant'[v].alpha
              /\ session'[t].base[v].beta = variant'[v].beta
  <2>1. t # s /\ session'[t] = session[t] /\ v \in DOMAIN session[t].row
    BY <1>2, <1>15
  <2>2. v \notin DOMAIN session[s].row
    BY <1>1, <2>1 DEF OneHas, Has
  <2>3. variant'[v].alpha = variant[v].alpha /\ variant'[v].beta = variant[v].beta
    BY <2>2, CommitDoes
  <2> QED
    BY <1>13, <2>1, <2>3
<1> HIDE DEF n
<1>16. /\ variant'[v].alpha = 1 + Count(v, "success")'
       /\ variant'[v].beta = 1 + Count(v, "failure")'
  <2>1. CASE o = "success"
    <3>1. Count(v, "failure")' = Count(v, "failure") /\ Count(v, "success")' = Count(v, "success") + n
      BY <1>11, <1>12, <2>1 DEF Outcomes
    <3> QED
      BY <1>9, <1>13, <1>14, <2>1, <3>1
  <2>2. CASE o = "failure"
    <3>1. Count(v, "success")' = Count(v, "success") /\ Count(v, "failure")' = Count(v, "failure") + n
      BY <1>11, <1>12, <2>2 DEF Outcomes
    <3> QED
      BY <1>9, <1>13, <1>14, <2>2, <3>1
  <2> QED
    BY <1>2, <2>1, <2>2 DEF Outcomes
<1> QED
  BY <1>15, <1>16 DEF ArmExact

LEMMA ArmStep ==
    ASSUME BanditTyped, LearnInv, BanditNext, NEW v \in Variants, v \notin disturbed'
    PROVE  ArmExact(v)'
<1>1. v \notin disturbed /\ BanditAct
  BY Undisturbed DEF BanditNext
<1>2. /\ variant[v].alpha = 1 + Count(v, "success")
      /\ variant[v].beta = 1 + Count(v, "failure")
      /\ \A t \in Sessions : v \in DOMAIN session[t].row =>
            /\ session[t].base[v].alpha = variant[v].alpha
            /\ session[t].base[v].beta = variant[v].beta
  BY <1>1 DEF LearnInv, ArmExact
<1>3. CASE RowsMove
  <2>1. UNCHANGED session /\ variant'[v].alpha = variant[v].alpha /\ variant'[v].beta = variant[v].beta
    BY <1>3 DEF RowsMove
  <2>2. Count(v, "success")' = Count(v, "success") /\ Count(v, "failure")' = Count(v, "failure")
    BY <1>3, SameCount DEF RowsMove
  <2> QED
    BY <1>2, <2>1, <2>2 DEF ArmExact
<1>4. ASSUME NEW m \in Messages, MessageMoves(m) PROVE ArmExact(v)'
  <2>1. /\ UNCHANGED <<session, variant>> /\ message'[m].outcome \notin Outcomes
        /\ message[m].outcome \notin Outcomes
        /\ \A k \in Messages \ {m} : message'[k] = message[k]
    BY <1>4 DEF MessageMoves, Sent, Outcomes
  <2>2. ASSUME NEW o \in Outcomes PROVE Count(v, o)' = Count(v, o)
    BY <2>1, SameCount
  <2>3. Count(v, "success")' = Count(v, "success") /\ Count(v, "failure")' = Count(v, "failure")
    BY <2>2 DEF Outcomes
  <2> QED
    BY <1>2, <2>1, <2>3 DEF ArmExact
<1>5. ASSUME NEW s \in Sessions, Follows(s) PROVE ArmExact(v)'
  <2>1. /\ UNCHANGED <<message, variant>>
        /\ \A t \in Sessions \ {s} : session'[t] = session[t]
        /\ v \in DOMAIN session'[s].row =>
              \/ session'[s].base[v] = variant[v]
              \/ v \in DOMAIN session[s].row /\ session'[s].base[v] = session[s].base[v]
    BY <1>5 DEF Follows, Elsewhere
  <2>2. Count(v, "success")' = Count(v, "success") /\ Count(v, "failure")' = Count(v, "failure")
    BY <2>1, SameCount
  <2> QED
    BY <1>2, <2>1, <2>2 DEF ArmExact
<1>6. ASSUME NEW s \in Sessions, SettleCommit(s) \/ ReplyCommit(s) PROVE ArmExact(v)'
  BY <1>6, CommitTeaches
<1> QED
  BY <1>1, <1>3, <1>4, <1>5, <1>6, Steps

LEMMA LearnStep ==
    ASSUME BanditTyped, LearnInv, BanditNext
    PROVE  LearnInv'
<1>1. \A m \in Messages : m \in disturbed' => Sent(m)' /\ message'[m].variant \in disturbed'
  BY Undisturbed
<1>2. \A m \in Messages \ disturbed' : OneHas(m)' /\ MessageExact(m)'
  BY Undisturbed, MessageStep
<1>3. \A v \in Variants \ disturbed' : OneHas(v)' /\ ArmExact(v)'
  BY Undisturbed, ArmStep
<1> QED
  BY <1>1, <1>2, <1>3 DEF LearnInv

LEMMA TypedKept ==
    ASSUME BanditTyped, LearnInv, BanditNext
    PROVE  BanditTyped'
<1>1. disturbed' \subseteq Messages \cup Variants
  BY Undisturbed
<1>2. skewed' \in BOOLEAN
  BY DEF BanditNext
<1> QED
  BY <1>1, <1>2, Keep DEF BanditTyped

-----------------------------------------------------------------------------
(* The best arm is not switched off                                        *)

LEMMA BehindIsTransitive ==
    ASSUME NEW a \in Variant, NEW b \in Variant, NEW c \in Variant,
           FarBehind(a, b), FarBehind(b, c)
    PROVE  FarBehind(a, c)
<1> DEFINE p == a.alpha
           q == a.alpha + a.beta
           r == b.alpha
           t == b.alpha + b.beta
           x == c.alpha
           y == c.alpha + c.beta
<1>1. /\ p \in Nat \ {0} /\ q \in Nat \ {0} /\ r \in Nat \ {0}
      /\ t \in Nat \ {0} /\ x \in Nat \ {0} /\ y \in Nat \ {0}
  BY DEF Variant
<1>2. 2 * p * t < r * q /\ 2 * r * y < x * t
  BY DEF FarBehind
<1> SUFFICES 2 * p * y < x * q
  BY DEF FarBehind
<1> HIDE DEF p, q, r, t, x, y
<1>3. (2 * p * t) * y < (r * q) * y
  BY <1>1, <1>2
<1>4. (2 * r * y) * q < (x * t) * q
  BY <1>1, <1>2
<1>5. 2 * ((2 * p * t) * y) < 2 * ((r * q) * y)
  BY <1>1, <1>3
<1>6. 2 * ((r * q) * y) = (2 * r * y) * q
  BY <1>1
<1>7. 2 * ((2 * p * t) * y) < (x * t) * q
  BY <1>1, <1>4, <1>5, <1>6
<1>8. (2 * (2 * p * y)) * t < (x * q) * t
  BY <1>1, <1>7
<1>9. 2 * (2 * p * y) < x * q
  BY <1>1, <1>8
<1> QED
  BY <1>1, <1>9

LEMMA NotBehindItself ==
    ASSUME NEW a \in Variant
    PROVE  ~FarBehind(a, a)
BY DEF FarBehind, Variant

(* A strict order on a finite set leaves some element with none above it.  *)
LEMMA Unbeaten ==
    ASSUME NEW S, IsFiniteSet(S), S # {}, NEW R,
           \A a \in S : <<a, a>> \notin R,
           \A a, b, c \in S : <<a, b>> \in R /\ <<b, c>> \in R => <<a, c>> \in R
    PROVE  \E b \in S : \A c \in S : <<b, c>> \notin R
<1> DEFINE Above(a) == {c \in S : <<a, c>> \in R}
           T == {Above(a) : a \in S}
<1>1. FiniteSubsetsOf(S) = SUBSET S
  BY FS_FiniteSubsetsOfFinite
<1>2. IsWellFoundedOn(StrictSubsetOrdering(S), SUBSET S)
  <2>1. IsWellFoundedOn(StrictSubsetOrdering(S), FiniteSubsetsOf(S))
    BY FS_StrictSubsetOrderingWellFounded
  <2> QED
    BY <1>1, <2>1
<1>3. T \subseteq SUBSET S /\ T # {}
  <2>1. PICK a \in S : TRUE
    OBVIOUS
  <2>2. Above(a) \in T
    OBVIOUS
  <2>3. \A c : Above(c) \subseteq S
    OBVIOUS
  <2> HIDE DEF Above
  <2> QED
    BY <2>2, <2>3
<1>4. PICK x \in T : \A y \in T : ~(<<y, x>> \in StrictSubsetOrdering(S))
  <2> HIDE DEF T
  <2> QED
    BY <1>2, <1>3, WFMin
<1>5. PICK b \in S : x = Above(b)
  OBVIOUS
<1>6. ASSUME NEW c \in S, <<b, c>> \in R PROVE FALSE
  <2>1. Above(c) \subseteq Above(b) /\ c \in Above(b) /\ c \notin Above(c)
    BY <1>6
  <2>2. Above(c) \in T /\ Above(c) \in SUBSET S /\ Above(b) \in SUBSET S
    OBVIOUS
  <2> HIDE DEF Above
  <2>3. <<Above(c), Above(b)>> \in StrictSubsetOrdering(S)
    BY <2>1, <2>2 DEF StrictSubsetOrdering
  <2> QED
    BY <1>4, <1>5, <2>2, <2>3
<1> QED
  BY <1>6

LEMMA GuardrailLeavesOne ==
    ASSUME BanditTyped, NEW s \in Sessions, Hopeless(s) # {}
    PROVE  \E b \in Arms : b \notin Hopeless(s)
<1> DEFINE R == {p \in Arms \X Arms : FarBehind(InSession(s, p[1]), InSession(s, p[2]))}
<1>1. Arms \subseteq Variants /\ Arms # {}
  BY DEF Arms, Hopeless
<1>2. \A v \in Arms : InSession(s, v) \in Variant
  BY <1>1, Fields DEF InSession, BanditTyped
<1>3. \A a, b \in Arms : <<a, b>> \in R <=> FarBehind(InSession(s, a), InSession(s, b))
  OBVIOUS
<1> HIDE DEF R
<1>4. \A a \in Arms : <<a, a>> \notin R
  BY <1>2, <1>3, NotBehindItself
<1>5. ASSUME NEW a \in Arms, NEW b \in Arms, NEW c \in Arms, <<a, b>> \in R, <<b, c>> \in R
      PROVE  <<a, c>> \in R
  <2>1. /\ InSession(s, a) \in Variant /\ InSession(s, b) \in Variant
        /\ InSession(s, c) \in Variant
        /\ FarBehind(InSession(s, a), InSession(s, b))
        /\ FarBehind(InSession(s, b), InSession(s, c))
    BY <1>2, <1>3, <1>5
  <2>2. FarBehind(InSession(s, a), InSession(s, c))
    BY <2>1, BehindIsTransitive
  <2> QED
    BY <1>3, <2>2
<1>6. IsFiniteSet(Arms)
  BY <1>1, FS_Subset
<1>7. PICK b \in Arms : \A c \in Arms : <<b, c>> \notin R
  BY <1>1, <1>4, <1>5, <1>6, Unbeaten
<1>8. b \notin Hopeless(s)
  BY <1>3, <1>7 DEF Hopeless
<1> QED
  BY <1>8

-----------------------------------------------------------------------------
(* Settlers and arms                                                       *)

(* The arms of the next state, whoever moves.                              *)
LEMMA ArmsKept ==
    ASSUME BanditTyped, BanditAct
    PROVE  \/ Arms \subseteq Arms'
           \/ \E v \in Variants : Toggle(v)
           \/ \E s \in Settlers : SettleCommit(s) /\ \A v \in Arms \ session[s].drops : v \in Arms'
<1>1. ASSUME NEW v \in Variants, AddVariant(v) \/ EditSkeleton(v) PROVE Arms \subseteq Arms'
  <2>1. variant[v] \in Variant /\ variant \in [Variants -> Variant]
    BY DEF BanditTyped
  <2>2. CASE AddVariant(v)
    <3>1. variant' = [variant EXCEPT ![v].state = "live"]
      BY <2>2 DEF AddVariant
    <3>2. \A x \in Variants : /\ variant'[x].active = variant[x].active
                              /\ variant'[x].state = variant[x].state \/ variant'[x].state = "live"
      BY <2>1, <3>1 DEF Variant
    <3> QED
      BY <3>2 DEF Arms
  <2>3. CASE EditSkeleton(v)
    <3>1. variant' = [variant EXCEPT ![v].skeleton = @ + 1]
      BY <2>3 DEF EditSkeleton
    <3>2. \A x \in Variants : /\ variant'[x].active = variant[x].active
                              /\ variant'[x].state = variant[x].state
      BY <2>1, <3>1 DEF BanditTyped, Variant
    <3> QED
      BY <3>2 DEF Arms
  <2> QED
    BY <1>1, <2>2, <2>3
<1>2. UNCHANGED variant => Arms \subseteq Arms'
  BY DEF Arms
<1>3. ASSUME NEW m \in Messages, Draft(m) \/ Send(m) PROVE Arms \subseteq Arms'
  BY <1>2, <1>3 DEF Draft, Send
<1>4. ASSUME NEW s \in Sessions, Asks(s) PROVE Arms \subseteq Arms'
  BY <1>2, <1>4, Asked DEF Follows
<1>5. ASSUME NEW s \in Sessions, SettleCommit(s)
      PROVE  s \in Settlers /\ \A v \in Arms \ session[s].drops : v \in Arms'
  BY <1>5, CommitDoes DEF SettleCommit
<1>6. ASSUME NEW s \in Sessions, ReplyCommit(s) PROVE Arms \subseteq Arms'
  <2>1. session[s].drops = {}
    BY <1>6, Fields DEF ReplyCommit, SessionOK
  <2>2. \A v \in Arms \ session[s].drops : v \in Arms'
    BY <1>6, CommitDoes
  <2> QED
    BY <2>1, <2>2
<1>7. \/ \E v \in Variants : AddVariant(v) \/ EditSkeleton(v) \/ Toggle(v)
      \/ \E m \in Messages : Draft(m) \/ Send(m)
      \/ \E s \in Sessions : Asks(s) \/ SettleCommit(s) \/ ReplyCommit(s)
  BY DEF BanditAct, SessionWork, Asks
<1> QED
  BY <1>1, <1>3, <1>4, <1>5, <1>6, <1>7

LEMMA OneSettler ==
    ASSUME BanditNext, ~skewed'
    PROVE  /\ ~skewed
           /\ \A s, t \in Settlers : session'[s] # Closed /\ session'[t] # Closed => s = t
           /\ \A s \in Settlers, v \in Variants : ~(session[s].pc = "written" /\ Toggle(v))
<1> DEFINE Open == {s \in Settlers : session'[s] # Closed}
<1>1. /\ ~skewed /\ ~(Cardinality(Open) > 1)
      /\ \A s \in Settlers, v \in Variants : ~(session[s].pc = "written" /\ Toggle(v))
  BY DEF BanditNext
<1>2. ASSUME NEW s \in Open, NEW t \in Open, s # t PROVE FALSE
  <2>1. Open \subseteq Sessions /\ {s, t} \subseteq Open
    BY DEF Sessions
  <2> HIDE DEF Open
  <2>2. IsFiniteSet(Open)
    BY <2>1, Who, FS_Subset
  <2>3. Cardinality({s}) = 1 /\ IsFiniteSet({s})
    BY FS_Singleton
  <2>4. Cardinality({s} \cup {t}) = Cardinality({s}) + 1
    BY <1>2, <2>3, FS_AddElement
  <2>5. {s, t} = {s} \cup {t}
    OBVIOUS
  <2>6. Cardinality({s, t}) = 2
    BY <2>3, <2>4, <2>5
  <2>7. Cardinality({s, t}) <= Cardinality(Open) /\ Cardinality(Open) \in Nat
    BY <2>1, <2>2, FS_Subset, FS_CardinalityType
  <2> QED
    BY <1>1, <2>6, <2>7
<1> QED
  BY <1>1, <1>2

LEMMA ArmStays ==
    ASSUME BanditTyped, ArmInv, BanditNext
    PROVE  ArmInv'
<1> SUFFICES ASSUME ~skewed' PROVE ArmInv'
  BY DEF ArmInv
<1>1. /\ ~skewed
      /\ \A s, t \in Settlers : session'[s] # Closed /\ session'[t] # Closed => s = t
      /\ \A s \in Settlers, v \in Variants : ~(session[s].pc = "written" /\ Toggle(v))
  BY OneSettler
<1>2. \A s, t \in Settlers : session'[s].pc # "closed" /\ session'[t].pc # "closed" => s = t
  BY <1>1, ClosedFits
<1>3. BanditAct
  BY DEF BanditNext
<1>4. ASSUME NEW s \in Settlers, session[s].pc = "written"
      PROVE  session[s].drops = {} \/ \E b \in Arms : b \notin session[s].drops
  BY <1>1, <1>4 DEF ArmInv
<1>5. \A s, t \in Settlers : session[s].pc # "closed" /\ session[t].pc # "closed" => s = t
  BY <1>1 DEF ArmInv
<1>6. ASSUME NEW s \in Settlers, session'[s].pc = "written", session'[s] # session[s]
      PROVE  session'[s].drops = {} \/ \E b \in Arms' : b \notin session'[s].drops
  <2>1. s \in Sessions
    BY Who
  <2>2. ASSUME NEW t \in Sessions, Elsewhere(t) PROVE t = s
    BY <1>6, <2>1, <2>2 DEF Elsewhere
  <2>3. SettleWrite(s)
    <3>1. ASSUME NEW m \in Messages, MessageMoves(m) PROVE FALSE
      BY <1>6, <3>1 DEF MessageMoves
    <3>2. ~RowsMove
      BY <1>6 DEF RowsMove
    <3>3. ASSUME NEW t \in Sessions, Asks(t), Follows(t) PROVE SettleWrite(s)
      <4>1. t = s
        BY <2>2, <3>3 DEF Follows
      <4>2. ~Record(s) /\ ~ReplyWrite(s) /\ \A m \in Messages : ~ReplyRead(s, m)
        BY <2>1, Who DEF Record, ReplyWrite, ReplyRead
      <4>3. \A M \in SUBSET Messages : ~Settle(s, M)
        BY <1>6, <2>1, SettleDoes
      <4>4. ~Die(s)
        <5>1. Die(s) => Put(s, Closed) /\ UNCHANGED message
          BY DEF Die
        <5> QED
          BY <1>6, <2>1, <5>1, Closes
      <4> QED
        BY <3>3, <4>1, <4>2, <4>3, <4>4 DEF Asks
    <3>4. ASSUME NEW t \in Sessions, SettleCommit(t) \/ ReplyCommit(t) PROVE FALSE
      BY <1>6, <2>2, <3>4, CommitDoes
    <3> QED
      BY <1>3, <3>1, <3>2, <3>3, <3>4, Steps
  <2>4. session'[s].drops \subseteq Hopeless(s)
    BY <2>1, <2>3, WriteDoes
  <2>5. UNCHANGED variant
    BY <2>3 DEF SettleWrite
  <2>6. Arms' = Arms
    BY <2>5 DEF Arms
  <2> QED
    BY <2>1, <2>4, <2>6, GuardrailLeavesOne
<1>7. ASSUME NEW s \in Settlers, session'[s].pc = "written", session'[s] = session[s]
      PROVE  session'[s].drops = {} \/ \E b \in Arms' : b \notin session'[s].drops
  <2>1. session[s].pc = "written" /\ session'[s].drops = session[s].drops
    BY <1>7
  <2>2. \A v \in Variants : ~Toggle(v)
    BY <1>1, <2>1
  <2>3. ASSUME NEW t \in Settlers, SettleCommit(t) PROVE FALSE
    <3>1. t \in Sessions /\ session[t].pc = "written" /\ session'[t].pc = "closed"
      BY <2>3, Who, CommitDoes DEF SettleCommit
    <3>2. t = s
      BY <1>5, <2>1, <3>1
    <3> QED
      BY <1>7, <3>1, <3>2
  <2>4. Arms \subseteq Arms'
    BY <1>3, <2>2, <2>3, ArmsKept
  <2> QED
    BY <1>4, <2>1, <2>4
<1>8. \A s \in Settlers : session'[s].pc = "written" =>
         session'[s].drops = {} \/ \E b \in Arms' : b \notin session'[s].drops
  BY <1>6, <1>7
<1> QED
  BY <1>2, <1>8 DEF ArmInv

LEMMA ArmRemainsStep ==
    ASSUME BanditTyped, ArmInv, BanditNext, Arms # {}, ~skewed'
    PROVE  Arms' # {} \/ \E v \in Variants : Toggle(v)
<1>1. BanditAct /\ ~skewed
  BY DEF BanditNext
<1>2. CASE Arms \subseteq Arms'
  BY <1>2
<1>3. ASSUME NEW s \in Settlers, SettleCommit(s),
             \A v \in Arms \ session[s].drops : v \in Arms'
      PROVE  Arms' # {}
  <2>1. session[s].drops = {} \/ \E b \in Arms : b \notin session[s].drops
    BY <1>1, <1>3 DEF ArmInv, SettleCommit
  <2> QED
    BY <1>3, <2>1
<1> QED
  BY <1>1, <1>2, <1>3, ArmsKept

-----------------------------------------------------------------------------
(* The theorems                                                            *)

BanditIInv == BanditTyped /\ LearnInv /\ ArmInv

LEMMA BanditStarts ==
    ASSUME BanditInit
    PROVE  BanditIInv
<1>1. /\ variant \in [Variants -> [state : {"unborn", "live"}, alpha : {1}, beta : {1},
                                   active : {TRUE}, skeleton : {0}]]
      /\ session = [s \in Sessions |-> Closed] /\ gave = [m \in Messages |-> 0]
      /\ disturbed = {} /\ skewed = FALSE /\ mixed = {} /\ events = 0
      /\ \A m \in Messages : message[m].outcome = "none"
  BY DEF BanditInit
<1>2. message \in [Messages -> Message]
  <2>1. (CHOOSE v \in Variants : TRUE) \in Variants
    OBVIOUS
  <2>2. message = [m \in Messages |-> [outcome |-> "none", skeleton |-> 0,
                                       variant |-> CHOOSE v \in Variants : TRUE]]
    BY DEF BanditInit
  <2> DEFINE first == CHOOSE v \in Variants : TRUE
  <2> HIDE DEF first
  <2>3. first \in Variants /\ message = [m \in Messages |-> [outcome |-> "none", skeleton |-> 0,
                                                             variant |-> first]]
    BY <2>1, <2>2 DEF first
  <2> QED
    BY <2>3 DEF Message
<1>3. /\ variant \in [Variants -> Variant]
      /\ \A v \in Variants : variant[v].alpha = 1 /\ variant[v].beta = 1
  <2>1. ASSUME NEW v \in Variants
        PROVE  variant[v] \in Variant /\ variant[v].alpha = 1 /\ variant[v].beta = 1
    <3>1. variant[v] \in [state : {"unborn", "live"}, alpha : {1}, beta : {1},
                          active : {TRUE}, skeleton : {0}]
      BY <1>1
    <3>2. /\ variant[v].state \in {"unborn", "live"} /\ variant[v].alpha = 1
          /\ variant[v].beta = 1 /\ variant[v].skeleton = 0
      BY <3>1
    <3>3. 1 \in Nat \ {0} /\ 0 \in Nat
      OBVIOUS
    <3>4. {1} \subseteq Nat \ {0} /\ {TRUE} \subseteq BOOLEAN /\ {0} \subseteq Nat
      OBVIOUS
    <3>5. variant[v] \in Variant
      BY <3>1, <3>4, Zenon DEF Variant
    <3> QED
      BY <3>2, <3>5
  <2> QED
    BY <1>1, <2>1
<1>4. /\ session \in [Sessions -> Session]
      /\ \A s \in Sessions : session[s] = Closed
  BY <1>1, ClosedFits
<1>5. BanditTyped
  <2>1. \A s \in Sessions : SessionOK(s, session[s]) /\ Fits(session[s])
    BY <1>4, ClosedFits
  <2>2. SessionsTyped
    BY <1>4, <2>1 DEF SessionsTyped
  <2>3. gave \in [Messages -> Nat] /\ events \in 0..MaxEvents /\ skewed \in BOOLEAN
    <3>1. gave \in [Messages -> Nat]
      BY <1>1
    <3>2. 0 \in 0..MaxEvents
      OBVIOUS
    <3> QED
      BY <1>1, <3>1, <3>2
  <2> QED
    BY <1>1, <1>2, <1>3, <2>2, <2>3 DEF BanditTyped
<1>6. \A v, o : o \in Outcomes => Count(v, o) = 0
  <2>1. ASSUME NEW v, NEW o \in Outcomes PROVE Count(v, o) = 0
    <3>1. {m \in Messages : message[m].outcome = o /\ message[m].variant = v} = {}
      BY <1>1 DEF Outcomes
    <3> QED
      BY <3>1, FS_EmptySet DEF Count
  <2> QED
    BY <2>1
<1>7. \A v : Count(v, "success") = 0 /\ Count(v, "failure") = 0
  BY <1>6 DEF Outcomes
<1>8. \A s \in Sessions : /\ session[s].pc = "closed" /\ session[s].msgs = {}
                          /\ DOMAIN session[s].row = {}
  BY <1>4, ClosedFits
<1>9. LearnInv
  <2>1. \A x : OneHas(x)
    BY <1>8 DEF OneHas, Has
  <2>2. \A m \in Messages : MessageExact(m)
    BY <1>1, <1>8 DEF MessageExact
  <2>3. \A v \in Variants : ArmExact(v)
    BY <1>3, <1>7, <1>8 DEF ArmExact
  <2> QED
    BY <1>1, <2>1, <2>2, <2>3 DEF LearnInv
<1>10. ArmInv
  BY <1>8, Who DEF ArmInv
<1> QED
  BY <1>5, <1>9, <1>10 DEF BanditIInv

LEMMA BanditStutter ==
    ASSUME BanditIInv, UNCHANGED banditVars
    PROVE  BanditIInv'
<1>1. UNCHANGED <<variant, message, session, gave, disturbed, skewed, mixed, events>>
  BY DEF banditVars
<1>2. BanditTyped'
  <2>1. BanditTyped
    BY DEF BanditIInv
  <2>2. SessionsTyped'
    BY <1>1, <2>1, NoneMove
  <2> QED
    BY <1>1, <2>1, <2>2 DEF BanditTyped
<1>3. LearnInv'
  BY <1>1 DEF BanditIInv, LearnInv, Sent, OneHas, Has, MessageExact, ArmExact, Count
<1>4. ArmInv'
  BY <1>1 DEF BanditIInv, ArmInv, Arms
<1> QED
  BY <1>2, <1>3, <1>4 DEF BanditIInv

LEMMA BanditKeeps ==
    ASSUME BanditIInv, [BanditNext]_banditVars
    PROVE  BanditIInv'
<1>1. CASE BanditNext
  BY <1>1, TypedKept, LearnStep, ArmStays DEF BanditIInv
<1>2. CASE UNCHANGED banditVars
  BY <1>2, BanditStutter
<1> QED
  BY <1>1, <1>2

LEMMA BanditIs == BanditIInv => BanditInv
<1> SUFFICES ASSUME BanditTyped, LearnInv PROVE BanditInv
  BY DEF BanditIInv
<1>1. ASSUME NEW s \in Sessions
      PROVE  /\ session[s].pc \in {"closed", "read", "loaded", "written"}
             /\ session[s].msgs \subseteq Messages /\ session[s].drops \subseteq Variants
             /\ DOMAIN session[s].base = DOMAIN session[s].row
             /\ \A v \in DOMAIN session[s].row :
                   {session[s].base[v], session[s].row[v]} \subseteq Variant
             /\ session[s].locks \subseteq Messages \cup Variants
  BY Fields DEF Session
<1>2. BanditTypeOK
  BY <1>1 DEF BanditTyped, BanditTypeOK
<1>3. PosteriorExact
  BY DEF LearnInv, ArmExact, PosteriorExact
<1>4. SettledOnce
  BY DEF LearnInv, MessageExact, SettledOnce
<1> QED
  BY <1>2, <1>3, <1>4 DEF BanditInv

(* The posterior of every arm that no two sessions worked on at once       *)
(* counts exactly the outcomes of its messages, and a message settles      *)
(* once, whatever the settlers, the polls and the operator do.             *)
THEOREM BanditStands == BanditSpec => []BanditInv
<1>1. BanditInit => BanditIInv
  BY BanditStarts
<1>2. BanditIInv /\ [BanditNext]_banditVars => BanditIInv'
  BY BanditKeeps
<1> QED
  BY <1>1, <1>2, BanditIs, PTL DEF BanditSpec

(* The guardrail leaves an arm on, unless the operator or a second settler *)
(* switches one off while a settler is at work.                            *)
THEOREM ArmsRemain == BanditSpec => ArmRemains
<1>1. BanditInit => BanditIInv
  BY BanditStarts
<1>2. BanditIInv /\ [BanditNext]_banditVars => BanditIInv'
  BY BanditKeeps
<1>3. BanditIInv /\ [BanditNext]_banditVars
         => [Arms # {} /\ ~skewed' => Arms' # {} \/ \E v \in Variants : Toggle(v)]_banditVars
  BY ArmRemainsStep DEF BanditIInv
<1> QED
  BY <1>1, <1>2, <1>3, PTL DEF BanditSpec, ArmRemains
=============================================================================
