------------------------------ MODULE Webhooks ------------------------------
(***************************************************************************)
(* Outbound webhooks: the endpoints API (api/routers/webhooks.py), the     *)
(* emission of events inside other handlers' transactions                  *)
(* (webhooks/events.py) and the delivery task (workers/tasks.py,           *)
(* webhooks/delivery.py).                                                  *)
(*                                                                         *)
(* A handler that emits inserts one webhook_deliveries row for each        *)
(* subscribed active endpoint and publishes its job at once, inside a      *)
(* transaction that is still open.  A worker loads the row, POSTs, and     *)
(* commits what came of it; a failed attempt is published again after a    *)
(* backoff.  Nothing sweeps pending rows (docs/operations.md), so a row    *)
(* whose job is gone stays pending: `stranded` records why.                *)
(***************************************************************************)
EXTENDS Naturals, FiniteSets

CONSTANTS Endpoints, Deliveries,     \* ids of rows
          Events,                    \* the registry of event types
          Ping,                      \* the synthetic event of the test button
          Emitters, Workers,         \* handlers that emit; Celery workers
          MaxAttempts,               \* webhook_max_attempts
          BackoffBase, BackoffCap,   \* the delays of a retry, and
          Visibility,                \* how long Redis waits for an answer
          Faults, MaxFaults,         \* what may go wrong, and how often
          MaxEdits                   \* bound on the PATCH requests

AllFaults == {"death", "broker_loss", "redelivery", "rollback"}

ASSUME WebhooksAssumption ==
    /\ Ping \notin Events /\ Endpoints # {} /\ IsFiniteSet(Workers)
    /\ MaxAttempts \in Nat \ {0}
    /\ BackoffBase \in Nat /\ BackoffCap \in Nat /\ Visibility \in Nat
    /\ Faults \subseteq AllFaults /\ MaxFaults \in Nat /\ MaxEdits \in Nat

VARIABLES endpoint,   \* webhook_endpoints
          row,        \* webhook_deliveries, those of open transactions too
          tx,         \* the transaction of each emitting handler
          queue,      \* copies of each delivery's job in Redis
          worker,     \* the job each worker runs
          received,   \* history: POSTs that reached the receiver
          accepted,   \* history: deliveries the receiver answered with 2xx
          stranded,   \* history: deliveries a job of which came to nothing
          duplicated, \* history: deliveries with two jobs at once
          faults, edits

vars == <<endpoint, row, tx, queue, worker, received, accepted, stranded,
          duplicated, faults, edits>>

Endpoint == [state : {"unborn", "live", "deleted"}, active : BOOLEAN,
             mask : SUBSET Events]

(* "open" is a row of a transaction that has not committed, "gone" one     *)
(* rolled back or deleted.                                                 *)
Row == [status : {"none", "open", "pending", "delivered", "failed", "gone"},
        endpoint : Endpoints, event : Events \cup {Ping}, attempts : 0..MaxAttempts]

Final == {"delivered", "failed"}
Committed == {"pending"} \cup Final

Tx == [pc : {"idle", "open", "broken"}, todo : SUBSET Endpoints,
       rows : SUBSET Deliveries, event : Events \cup {Ping}]
Job == [pc : {"posting", "answered", "retrying", "done"}, d : Deliveries,
        ok : BOOLEAN, n : 1..MaxAttempts]

NoTx == [pc |-> "idle", todo |-> {}, rows |-> {}, event |-> Ping]
Idle == [pc |-> "idle"]
Running(d) == {w \in Workers : worker[w].pc # "idle" /\ worker[w].d = d}
Copies(d) == queue[d] + Cardinality(Running(d))

TypeOK ==
    /\ endpoint \in [Endpoints -> Endpoint]
    /\ row \in [Deliveries -> Row]
    /\ tx \in [Emitters -> Tx]
    /\ queue \in [Deliveries -> Nat]
    /\ worker \in [Workers -> Job \cup {Idle}]
    /\ received \in [Deliveries -> Nat]
    /\ accepted \cup stranded \cup duplicated \subseteq Deliveries
    /\ faults \in 0..MaxFaults /\ edits \in 0..MaxEdits

Init ==
    /\ endpoint = [e \in Endpoints |-> [state |-> "unborn", active |-> TRUE, mask |-> {}]]
    /\ row = [d \in Deliveries |-> [status |-> "none", event |-> Ping, attempts |-> 0,
                                    endpoint |-> CHOOSE e \in Endpoints : TRUE]]
    /\ tx = [t \in Emitters |-> NoTx]
    /\ queue = [d \in Deliveries |-> 0]
    /\ worker = [w \in Workers |-> Idle]
    /\ received = [d \in Deliveries |-> 0]
    /\ accepted = {} /\ stranded = {} /\ duplicated = {} /\ faults = 0 /\ edits = 0

Fault(kind) == kind \in Faults /\ faults < MaxFaults /\ faults' = faults + 1

-----------------------------------------------------------------------------
(* The endpoints API.  A URL the guard rejects is a 422 that changes       *)
(* nothing; a mask is never empty.                                         *)

Api == <<tx, queue, worker, received, accepted, stranded, faults>>

Create(e) ==
    /\ endpoint[e].state = "unborn"
    /\ \E mask \in SUBSET Events \ {{}} :
          endpoint' = [endpoint EXCEPT ![e] = [state |-> "live", active |-> TRUE, mask |-> mask]]
    /\ UNCHANGED <<row, edits, Api>>

Update(e) ==
    /\ endpoint[e].state = "live"
    /\ edits < MaxEdits /\ edits' = edits + 1
    /\ \/ \E mask \in SUBSET Events \ {{}} : endpoint' = [endpoint EXCEPT ![e].mask = mask]
       \/ \E b \in BOOLEAN : endpoint' = [endpoint EXCEPT ![e].active = b]
    /\ UNCHANGED <<row, Api>>

(* The foreign key makes a deletion wait for open rows, and fail without   *)
(* effect if one committed after it listed them: it succeeds only when it  *)
(* removes every row of the endpoint.                                      *)
Delete(e) ==
    /\ endpoint[e].state = "live"
    /\ \A d \in Deliveries : row[d].endpoint = e => row[d].status # "open"
    /\ endpoint' = [endpoint EXCEPT ![e].state = "deleted"]
    /\ row' = [d \in Deliveries |-> IF row[d].endpoint = e /\ row[d].status \in Committed
                                    THEN [row[d] EXCEPT !.status = "gone"] ELSE row[d]]
    /\ UNCHANGED <<edits, Api>>

-----------------------------------------------------------------------------
(* Emission, in the transaction of a handler.                              *)

Subscribed(ev) ==
    {e \in Endpoints : endpoint[e].state = "live" /\ endpoint[e].active /\ ev \in endpoint[e].mask}

Emission == <<endpoint, worker, received, accepted, edits>>

(* emit_event lists the endpoints; an event outside the registry raises,   *)
(* and no caller names one.                                                *)
Emit(t) ==
    /\ tx[t].pc = "idle"
    /\ \E ev \in Events :
          /\ Subscribed(ev) # {}
          /\ tx' = [tx EXCEPT ![t] = [NoTx EXCEPT !.pc = "open", !.todo = Subscribed(ev),
                                                  !.event = ev]]
    /\ UNCHANGED <<row, queue, stranded, faults, Emission>>

(* The test button: one ping to one endpoint, whatever its mask and its    *)
(* active flag.                                                            *)
TestPing(t) ==
    /\ tx[t].pc = "idle"
    /\ \E e \in Endpoints :
          /\ endpoint[e].state = "live"
          /\ tx' = [tx EXCEPT ![t] = [NoTx EXCEPT !.pc = "open", !.todo = {e}]]
    /\ UNCHANGED <<row, queue, stranded, faults, Emission>>

Insert(t, e, d) ==
    /\ tx[t].pc = "open" /\ e \in tx[t].todo
    /\ row[d].status = "none"

(* One row is flushed and its job published; the publication may fail,     *)
(* which is logged.                                                        *)
EmitRow(t) ==
    \E e \in Endpoints, d \in Deliveries :
       /\ Insert(t, e, d) /\ endpoint[e].state = "live"
       /\ row' = [row EXCEPT ![d] = [status |-> "open", endpoint |-> e,
                                     event |-> tx[t].event, attempts |-> 0]]
       /\ tx' = [tx EXCEPT ![t].todo = @ \ {e}, ![t].rows = @ \cup {d}]
       /\ \/ /\ queue' = [queue EXCEPT ![d] = @ + 1]
             /\ UNCHANGED <<stranded, faults>>
          \/ /\ Fault("broker_loss")
             /\ stranded' = stranded \cup {d}
             /\ UNCHANGED queue
       /\ UNCHANGED Emission

(* The endpoint was deleted since it was listed: the insert violates the   *)
(* foreign key.  safe_emit swallows the exception, but a failed flush      *)
(* leaves the session's transaction unusable.                              *)
EmitFails(t) ==
    \E e \in Endpoints, d \in Deliveries :
       /\ Insert(t, e, d) /\ endpoint[e].state = "deleted"
       /\ tx' = [tx EXCEPT ![t].pc = "broken", ![t].todo = {}]
       /\ UNCHANGED <<row, queue, stranded, faults, Emission>>

Close(t, status) ==
    /\ row' = [d \in Deliveries |-> IF d \in tx[t].rows THEN [row[d] EXCEPT !.status = status]
                                    ELSE row[d]]
    /\ tx' = [tx EXCEPT ![t] = NoTx]
    /\ UNCHANGED <<queue, stranded, Emission>>

EmitCommit(t) == tx[t].pc = "open" /\ tx[t].todo = {} /\ Close(t, "pending") /\ UNCHANGED faults

(* The handler fails later on, or must because its session is unusable.    *)
EmitRollback(t) ==
    \/ tx[t].pc = "broken" /\ Close(t, "gone") /\ UNCHANGED faults
    \/ tx[t].pc = "open" /\ tx[t].todo = {} /\ Fault("rollback") /\ Close(t, "gone")

-----------------------------------------------------------------------------
(* deliver_webhook                                                         *)

Delivery == <<endpoint, tx, edits>>
Step(w, r) == worker' = [worker EXCEPT ![w] = r]

Taken(w, d) == worker[w] = Idle /\ queue[d] > 0 /\ queue' = [queue EXCEPT ![d] = @ - 1]

(* No row is visible yet, or any more, or it is resolved.                  *)
Discard(w, d) ==
    /\ Taken(w, d)
    /\ row[d].status # "pending"
    /\ stranded' = IF row[d].status = "open" THEN stranded \cup {d} ELSE stranded
    /\ UNCHANGED <<row, worker, received, accepted, faults, Delivery>>

Refuse(w, d) ==
    /\ Taken(w, d)
    /\ row[d].status = "pending" /\ ~endpoint[row[d].endpoint].active
    /\ row' = [row EXCEPT ![d].status = "failed"]
    /\ UNCHANGED <<worker, received, accepted, stranded, faults, Delivery>>

(* Mutant: the status of the row is not looked at.                         *)
AttemptAnyStatus(w, d) ==
    /\ Taken(w, d)
    /\ row[d].status \in Committed /\ row[d].attempts < MaxAttempts
    /\ endpoint[row[d].endpoint].active
    /\ Step(w, [pc |-> "posting", d |-> d, ok |-> FALSE, n |-> row[d].attempts + 1])
    /\ UNCHANGED <<row, received, accepted, stranded, faults, Delivery>>

(* attempts is raised in the session, not yet in the table.                *)
Attempt(w, d) ==
    /\ Taken(w, d)
    /\ row[d].status = "pending" /\ endpoint[row[d].endpoint].active
    /\ Step(w, [pc |-> "posting", d |-> d, ok |-> FALSE,
                n |-> row[d].attempts + 1])
    /\ UNCHANGED <<row, received, accepted, stranded, faults, Delivery>>

(* The address guard refuses or the POST does not arrive; it arrives and   *)
(* fails or its answer is lost; it arrives and is answered 2xx.            *)
Post(w) ==
    /\ worker[w].pc = "posting"
    /\ \E got, ok \in BOOLEAN :
          /\ ok => got
          /\ Step(w, [worker[w] EXCEPT !.pc = "answered", !.ok = ok])
          /\ received' = IF got THEN [received EXCEPT ![worker[w].d] = @ + 1] ELSE received
          /\ accepted' = IF ok THEN accepted \cup {worker[w].d} ELSE accepted
    /\ UNCHANGED <<row, queue, stranded, faults, Delivery>>

Answered(w) == worker[w].pc = "answered" /\ row[worker[w].d].status # "gone"

RowAs(w, status) ==
    row' = [row EXCEPT ![worker[w].d].status = status, ![worker[w].d].attempts = worker[w].n]

Delivered(w) ==
    /\ Answered(w) /\ worker[w].ok
    /\ RowAs(w, "delivered")
    /\ Step(w, [worker[w] EXCEPT !.pc = "done"])
    /\ UNCHANGED <<queue, received, accepted, stranded, faults, Delivery>>

(* Mutant: giving up compares with > and is never reached.                 *)
ExhaustedLate(w) ==
    /\ Answered(w) /\ ~worker[w].ok /\ worker[w].n > MaxAttempts
    /\ RowAs(w, "failed")
    /\ Step(w, [worker[w] EXCEPT !.pc = "done"])
    /\ UNCHANGED <<queue, received, accepted, stranded, faults, Delivery>>

Exhausted(w) ==
    /\ Answered(w) /\ ~worker[w].ok /\ worker[w].n >= MaxAttempts
    /\ RowAs(w, "failed")
    /\ Step(w, [worker[w] EXCEPT !.pc = "done"])
    /\ UNCHANGED <<queue, received, accepted, stranded, faults, Delivery>>

(* Mutant: attempts is raised but not committed before the retry.          *)
AttemptUncounted(w) ==
    /\ Answered(w) /\ ~worker[w].ok /\ worker[w].n < MaxAttempts
    /\ Step(w, [worker[w] EXCEPT !.pc = "retrying"])
    /\ UNCHANGED <<row, queue, received, accepted, stranded, faults, Delivery>>

(* Only the columns that changed are written: not the status.              *)
AttemptFailed(w) ==
    /\ Answered(w) /\ ~worker[w].ok /\ worker[w].n < MaxAttempts
    /\ RowAs(w, row[worker[w].d].status)
    /\ Step(w, [worker[w] EXCEPT !.pc = "retrying"])
    /\ UNCHANGED <<queue, received, accepted, stranded, faults, Delivery>>

(* The row was deleted meanwhile: the update matches nothing and raises.   *)
RowDeleted(w) ==
    /\ worker[w].pc = "answered" /\ row[worker[w].d].status = "gone"
    /\ Step(w, Idle)
    /\ UNCHANGED <<row, queue, received, accepted, stranded, faults, Delivery>>

Retry(w) ==
    /\ worker[w].pc = "retrying"
    /\ \/ /\ queue' = [queue EXCEPT ![worker[w].d] = @ + 1]
          /\ UNCHANGED <<stranded, faults>>
       \/ /\ Fault("broker_loss")
          /\ stranded' = stranded \cup {worker[w].d}
          /\ UNCHANGED queue
    /\ Step(w, [worker[w] EXCEPT !.pc = "done"])
    /\ UNCHANGED <<row, received, accepted, Delivery>>

Acknowledge(w) ==
    /\ worker[w].pc = "done"
    /\ Step(w, Idle)
    /\ UNCHANGED <<row, queue, received, accepted, stranded, faults, Delivery>>

-----------------------------------------------------------------------------
(* Faults.  A worker dies: its job is delivered again, or, when only its   *)
(* child process is killed, is acknowledged as failed.                     *)
Death(w) ==
    /\ worker[w] # Idle /\ Fault("death")
    /\ Step(w, Idle)
    /\ \/ queue' = [queue EXCEPT ![worker[w].d] = @ + 1] /\ UNCHANGED stranded
       \/ stranded' = stranded \cup {worker[w].d} /\ UNCHANGED queue
    /\ UNCHANGED <<row, received, accepted, Delivery>>

RedisLost ==
    /\ Fault("broker_loss")
    /\ \E d \in Deliveries : queue[d] > 0
    /\ stranded' = stranded \cup {d \in Deliveries : queue[d] > 0}
    /\ queue' = [d \in Deliveries |-> 0]
    /\ UNCHANGED <<row, worker, received, accepted, Delivery>>

Least(a, b) == IF a < b THEN a ELSE b
Backoff(attempt) == Least(BackoffBase * 2^(attempt - 1), BackoffCap)

(* A retry waits out its backoff unacknowledged; once that is as long as   *)
(* the broker waits, the broker delivers the job a second time.            *)
Redeliver ==
    /\ Fault("redelivery")
    /\ \E d \in Deliveries :
          /\ queue[d] > 0 /\ row[d].attempts > 0 /\ Backoff(row[d].attempts) >= Visibility
          /\ queue' = [queue EXCEPT ![d] = @ + 1]
    /\ UNCHANGED <<row, worker, received, accepted, stranded, Delivery>>

-----------------------------------------------------------------------------
Work(w) ==
    \/ \E d \in Deliveries : Discard(w, d) \/ Refuse(w, d) \/ Attempt(w, d)
    \/ Post(w) \/ Delivered(w) \/ Exhausted(w) \/ AttemptFailed(w)
    \/ RowDeleted(w) \/ Retry(w) \/ Acknowledge(w)

Finish(t) == EmitRow(t) \/ EmitFails(t) \/ EmitCommit(t) \/ EmitRollback(t)

Act ==
    \/ \E e \in Endpoints : Create(e) \/ Update(e) \/ Delete(e)
    \/ \E t \in Emitters : Emit(t) \/ TestPing(t) \/ Finish(t)
    \/ \E w \in Workers : Work(w) \/ Death(w)
    \/ RedisLost \/ Redeliver

Next == Act /\ duplicated' = duplicated \cup {d \in Deliveries : Copies(d)' > 1}

(* Workers go on while there are jobs; handlers end their transactions.    *)
Spec == /\ Init /\ [][Next]_vars
        /\ \A w \in Workers : WF_vars(Work(w) /\ Next)
        /\ \A t \in Emitters : WF_vars(Finish(t) /\ Next)

-----------------------------------------------------------------------------
(* Properties                                                              *)

InFlight(d) == {w \in Running(d) : worker[w].pc \in {"posting", "answered"}}

(* deliver_webhook's docstring: the attempts counter on the row is the     *)
(* authority of the budget.  Of a delivery whose job never ran twice at    *)
(* once, the receiver has seen no more POSTs than the row counts, one for  *)
(* each running attempt and one for each worker that died; and a row is    *)
(* marked delivered only if the receiver answered 2xx.                     *)
BudgetHolds ==
    \A d \in Deliveries :
       /\ row[d].status = "delivered" => d \in accepted
       /\ row[d].status \in Committed /\ d \notin duplicated =>
             received[d] <= row[d].attempts + Cardinality(InFlight(d)) + faults

(* Nothing sweeps deliveries, so a row that is not resolved has its job in *)
(* the queue or in the hands of a worker that will decide or retry it,     *)
(* unless a job of it ran before the row was visible or was lost.          *)
NoneForgotten ==
    \A d \in Deliveries :
       row[d].status \in {"open", "pending"} /\ d \notin stranded =>
          queue[d] > 0 \/ \E w \in Running(d) : worker[w].pc # "done"

WebhooksInv == TypeOK /\ BudgetHolds /\ NoneForgotten

(* WebhookDelivery: pending -> delivered, or pending -> failed.  A row     *)
(* whose job never ran twice at once is resolved once, whatever the broker *)
(* delivers again later.                                                   *)
ResolvedOnce ==
    [][\A d \in Deliveries : row[d].status \in Final /\ d \notin duplicated =>
          row[d]' = row[d] \/ row[d].status' = "gone"]_vars

(* A pending row is resolved, or deleted with its endpoint, unless one of  *)
(* its jobs ran before its transaction committed or was lost: nothing is   *)
(* given up in silence, and no attempt is the last without a verdict.      *)
Settles ==
    \A d \in Deliveries :
       row[d].status = "pending" ~> row[d].status # "pending" \/ d \in stranded

(* webhooks.py, test_webhook: the mask and the active flag do not apply to *)
(* a ping.  The delivery task applies the flag all the same.               *)
PingsAreTried ==
    \A d \in Deliveries : row[d].status = "failed" /\ row[d].event = Ping => row[d].attempts > 0

(* webhooks/events.py: emission never breaks the emitting path.            *)
EmittersUnharmed == \A t \in Emitters : tx[t].pc # "broken"
=============================================================================
