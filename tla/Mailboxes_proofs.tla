-------------------------- MODULE Mailboxes_proofs ---------------------------
(***************************************************************************)
(* Proofs about Mailboxes, for every set of boxes, domains, senders, seeds *)
(* and polls, every cap, quota, threshold and budget.                      *)
(***************************************************************************)
EXTENDS Mailboxes, FiniteSetTheorems, TLAPS

USE MailboxesAssumption

-----------------------------------------------------------------------------
(* The shape of a session and of its rows                                  *)

PartRows == UNION {[B -> Row] : B \in SUBSET Boxes}
Db == [base : PartRows, row : PartRows, flushed : SUBSET Boxes, bumps : [Domains -> Nat]]
AnyBox == CHOOSE b \in Boxes : TRUE
SendPC == {"slot", "clear", "ready", "mailed"}
Session == [pc : {"closed", "open"} \cup SendPC, db : Db, box : Boxes \cup {AnyBox},
            todo : SUBSET Seeds]

(* A session writes the health and the bounces of a row, and nothing else  *)
(* of it before the statement that commits; it never takes a pause back.   *)
Writes(base, row) ==
    /\ row.state = base.state /\ row.sent = base.sent /\ row.stage = base.stage
    /\ row.limit = base.limit /\ row.hard >= base.hard
    /\ base.health = "paused" => row.health = "paused"

DbOK(db) ==
    /\ DOMAIN db.base = DOMAIN db.row /\ db.flushed \subseteq DOMAIN db.row
    /\ \A b \in DOMAIN db.row : Writes(db.base[b], db.row[b])
    /\ \A b \in DOMAIN db.row \ db.flushed : db.row[b] = db.base[b]

SessionOK(s, r) ==
    /\ DbOK(r.db)
    /\ r.pc = "closed" => DOMAIN r.db.row = {} /\ r.todo = {}
    /\ s \notin Pollers => r.db.flushed = {}
    /\ s \notin Pollers \/ r.pc = "closed" => \A d \in Domains : r.db.bumps[d] = 0
    /\ r.pc \in SendPC => s \in Sending /\ r.box \in DOMAIN r.db.row

SessionsTyped ==
    /\ session \in [Sessions -> Session]
    /\ \A s \in Sessions : SessionOK(s, session[s])

Typed ==
    /\ box \in [Boxes -> Row]
    /\ stat \in [Domains -> [sends : Nat, bounces : Nat]]
    /\ slot \subseteq Boxes
    /\ placement \in [status : {"none", "running", "complete", "failed"},
                      result : [Seeds -> Result]]
    /\ SessionsTyped
    /\ mailed \in [Boxes -> Nat] /\ uncounted \in [Boxes -> Nat]
    /\ bounced \in [Boxes -> Nat] /\ passes \in [Boxes -> Nat]
    /\ mails \in [Seeds -> Nat]
    /\ disturbed \in [sent : SUBSET Boxes, health : SUBSET Boxes] /\ excused \subseteq Boxes
    /\ died \in Nat /\ left \in [Bounded -> Nat]

(* One session of S at most has the row of b.                              *)
Alone(S, b) == \A s, t \in S : b \in Holds(s) /\ b \in Holds(t) => s = t

Counting == Sending \cup {Resetter}
Judging == Pollers \cup {Resetter}

SentExact(b) ==
    /\ \A s \in Counting : b \in Holds(s) => session[s].db.base[b].sent = box[b].sent
    /\ mailed[b] = box[b].sent + Cardinality(Unrecorded(b)) + uncounted[b]

SlotExact(b) ==
    /\ passes[b] <= 1
    /\ \A s \in Sending : session[s].pc = "clear" /\ session[s].box = b => b \notin slot

Picked(s) ==
    session[s].pc \in {"slot", "clear", "ready"} =>
        LET r == session[s].db.row[session[s].box] IN r.sent < Cap(r)

SentInv ==
    /\ \A b \in Boxes \ disturbed.sent : Alone(Counting, b) /\ SentExact(b) /\ SlotExact(b)
    /\ \A b \in Boxes \ slot : passes[b] = 0
    /\ \A s \in Sending : Picked(s)

HealthExact(b) ==
    /\ \A s \in Judging : b \in Holds(s) =>
          /\ session[s].db.base[b].hard = box[b].hard
          /\ session[s].db.base[b].health = box[b].health
    /\ bounced[b] = box[b].hard

HealthInv == \A b \in Boxes \ disturbed.health : Alone(Judging, b) /\ HealthExact(b)

Answered(e) ==
    LET r == placement.result[e] IN r.delivered \/ r.error \/ r.verdict = "marked"

SeedsInv ==
    /\ \A e \in Seeds : mails[e] <= 1 + died
    /\ \A e \in Seeds : placement.result[e].delivered => mails[e] > 0
    /\ placement.status = "complete" => \A e \in Seeds : Answered(e)
    /\ session[Placer].pc = "closed" => \/ placement.status \in {"complete", "failed"}
                                        \/ \A e \in Seeds : mails[e] <= died
    /\ session[Placer].pc # "closed" =>
          /\ placement.status = "running"
          /\ \A e \in Seeds \ session[Placer].todo : Answered(e)
          /\ \A e \in session[Placer].todo :
                mails[e] <= IF session[Placer].pc = "mailed" /\ e = Seed THEN 1 + died ELSE died
          /\ session[Placer].pc \in SendPC => session[Placer].todo # {}
          /\ session[Placer].pc = "mailed" => mails[Seed] > 0

After(s, b) == BoxAfter(session[s].db)[b].health

(* The commit of s takes the bounces of d to the threshold.                *)
Reaches(s, d) ==
    /\ Threshold > 0 /\ session[s].db.bumps[d] > 0
    /\ stat[d].bounces + session[s].db.bumps[d] >= Threshold

PauseInv ==
    /\ \A d \in Domains, s, t \in Pollers :
          session[s].db.bumps[d] > 0 /\ session[t].db.bumps[d] > 0 => s = t
    /\ PauseHolds
    /\ \A s \in Pollers : \A b \in Live : Reaches(s, DomainOf[b]) =>
          After(s, b) = "paused" \/ b \in excused \cup disturbed.health

Ind == Typed /\ SentInv /\ HealthInv /\ SeedsInv /\ PauseInv

-----------------------------------------------------------------------------
(* Rows and sessions                                                       *)

LEMMA WrittenRow ==
    ASSUME NEW o \in Row, NEW b \in Row, NEW r \in Row
    PROVE  /\ Written(o, b, r) \in Row
           /\ Written(o, b, r).state = IF r.state # b.state THEN r.state ELSE o.state
           /\ Written(o, b, r).sent = IF r.sent # b.sent THEN r.sent ELSE o.sent
           /\ Written(o, b, r).hard = IF r.hard # b.hard THEN r.hard ELSE o.hard
           /\ Written(o, b, r).stage = IF r.stage # b.stage THEN r.stage ELSE o.stage
           /\ Written(o, b, r).health = IF r.health # b.health THEN r.health ELSE o.health
           /\ Written(o, b, r).limit = IF r.limit # b.limit THEN r.limit ELSE o.limit
BY DEF Written, Row

LEMMA PartRowsAre ==
    ASSUME NEW f \in PartRows
    PROVE  /\ DOMAIN f \subseteq Boxes /\ f \in [DOMAIN f -> Row]
           /\ \A b \in DOMAIN f : f[b] \in Row
BY DEF PartRows

LEMMA RowsArePart ==
    ASSUME NEW B \in SUBSET Boxes, NEW f \in [B -> Row]
    PROVE  f \in PartRows /\ DOMAIN f = B
BY DEF PartRows

LEMMA SomeBox == AnyBox = CHOOSE b \in Boxes : TRUE
BY DEF AnyBox

LEMMA Nothing ==
    /\ NoRows \in Db /\ NoRows.base = <<>> /\ NoRows.row = <<>> /\ NoRows.flushed = {}
    /\ DOMAIN NoRows.base = {} /\ DOMAIN NoRows.row = {}
    /\ NoRows.bumps = [d \in Domains |-> 0]
<1>1. <<>> \in [{} -> Row] /\ DOMAIN <<>> = {}
  OBVIOUS
<1>2. <<>> \in PartRows
  BY <1>1, RowsArePart
<1> QED
  BY <1>1, <1>2 DEF NoRows, Db

LEMMA ClosedFits ==
    /\ Closed \in Session /\ \A s \in Sessions : SessionOK(s, Closed)
    /\ Closed.pc = "closed" /\ Closed.db = NoRows /\ Closed.todo = {}
<1>1. /\ Closed.pc = "closed" /\ Closed.db = NoRows /\ Closed.todo = {}
      /\ Closed.box = AnyBox
  BY SomeBox DEF Closed
<1>2. Closed \in Session
  BY <1>1, Nothing, SomeBox DEF Closed, Session
<1> QED
  BY <1>1, <1>2, Nothing DEF SessionOK, DbOK, SendPC

LEMMA LoadedFits ==
    ASSUME Typed, NEW B \in SUBSET Boxes
    PROVE  /\ Loaded(B) \in Db /\ Loaded(B).base = [b \in B |-> box[b]]
           /\ Loaded(B).row = [b \in B |-> box[b]] /\ Loaded(B).flushed = {}
           /\ Loaded(B).bumps = [d \in Domains |-> 0]
<1>1. [b \in B |-> box[b]] \in [B -> Row]
  BY DEF Typed
<1>2. [b \in B |-> box[b]] \in PartRows
  BY <1>1, RowsArePart
<1> QED
  BY <1>2, Nothing DEF Loaded, NoRows, Db

(* What the other sessions see of a step of s.                              *)
Elsewhere(s) == \A t \in Sessions \ {s} : session'[t] = session[t]

LEMMA OneMoves ==
    ASSUME Typed, NEW s \in Sessions, NEW r \in Session, SessionOK(s, r), Step(s, r)
    PROVE  SessionsTyped' /\ session'[s] = r /\ Elsewhere(s)
<1>1. session' = [session EXCEPT ![s] = r] /\ session \in [Sessions -> Session]
  BY DEF Step, Typed, SessionsTyped
<1>2. session' \in [Sessions -> Session] /\ session'[s] = r /\ Elsewhere(s)
  BY <1>1 DEF Elsewhere
<1>3. \A t \in Sessions : SessionOK(t, session'[t])
  BY <1>2 DEF Elsewhere, Typed, SessionsTyped
<1> QED
  BY <1>2, <1>3 DEF SessionsTyped

LEMMA Closes ==
    ASSUME Typed, NEW s \in Sessions, Step(s, Closed)
    PROVE  /\ SessionsTyped' /\ Elsewhere(s)
           /\ session'[s].pc = "closed" /\ session'[s].db = NoRows /\ session'[s].todo = {}
BY OneMoves, ClosedFits

LEMMA Fields ==
    ASSUME Typed, NEW s \in Sessions
    PROVE  /\ session[s] \in Session /\ SessionOK(s, session[s])
           /\ session[s].db \in Db /\ session[s].db.base \in PartRows
           /\ session[s].db.row \in PartRows /\ session[s].db.flushed \subseteq Holds(s)
           /\ session[s].db.bumps \in [Domains -> Nat] /\ session[s].todo \subseteq Seeds
           /\ session[s].box \in Boxes \cup {AnyBox}
           /\ Holds(s) = DOMAIN session[s].db.row /\ Holds(s) = DOMAIN session[s].db.base
           /\ Holds(s) \subseteq Boxes
           /\ \A b \in Holds(s) : session[s].db.base[b] \in Row /\ session[s].db.row[b] \in Row
<1>1. session[s] \in Session /\ SessionOK(s, session[s])
  BY DEF Typed, SessionsTyped
<1>2. session[s].db \in Db /\ session[s].todo \subseteq Seeds /\ session[s].box \in Boxes \cup {AnyBox}
  BY <1>1 DEF Session
<1>3. /\ session[s].db.base \in PartRows /\ session[s].db.row \in PartRows
      /\ session[s].db.bumps \in [Domains -> Nat]
  BY <1>2 DEF Db
<1> QED
  BY <1>1, <1>2, <1>3, PartRowsAre DEF Holds, SessionOK, DbOK

(* A session that goes on to another step of the sending, its rows as they *)
(* are, and the placement run that goes on to another seed.                *)
LEMMA GoesOn ==
    ASSUME Typed, NEW s \in Sending, NEW pc \in {"open"} \cup SendPC,
           pc \in SendPC => session[s].pc \in SendPC,
           NEW T \in SUBSET Seeds, Step(s, [At(s, pc) EXCEPT !.todo = T])
    PROVE  /\ SessionsTyped' /\ Elsewhere(s)
           /\ session'[s].pc = pc /\ session'[s].db = session[s].db
           /\ session'[s].box = session[s].box /\ session'[s].todo = T
<1> DEFINE r == [At(s, pc) EXCEPT !.todo = T]
<1>0. s \in Sessions /\ s \notin Pollers
  BY DEF Sessions, Sending
<1>1. session[s] \in Session /\ SessionOK(s, session[s])
  BY <1>0, Fields
<1>2. /\ r \in Session /\ r.pc = pc /\ r.db = session[s].db
      /\ r.box = session[s].box /\ r.todo = T
  BY <1>1 DEF At, Session, SendPC
<1> HIDE DEF r
<1>3. SessionOK(s, r)
  BY <1>0, <1>1, <1>2 DEF SessionOK, DbOK, SendPC
<1> QED
  BY <1>0, <1>2, <1>3, OneMoves DEF r

LEMMA StepsOn ==
    ASSUME Typed, NEW s \in Sending, NEW pc \in {"open"} \cup SendPC,
           pc \in SendPC => session[s].pc \in SendPC, Step(s, At(s, pc))
    PROVE  /\ SessionsTyped' /\ Elsewhere(s)
           /\ session'[s].pc = pc /\ session'[s].db = session[s].db
           /\ session'[s].box = session[s].box /\ session'[s].todo = session[s].todo
<1> DEFINE r == At(s, pc)
<1>0. s \in Sessions /\ s \notin Pollers
  BY DEF Sessions, Sending
<1>1. session[s] \in Session /\ SessionOK(s, session[s])
  BY <1>0, Fields
<1>2. /\ r \in Session /\ r.pc = pc /\ r.db = session[s].db
      /\ r.box = session[s].box /\ r.todo = session[s].todo
  BY <1>1 DEF At, Session, SendPC
<1> HIDE DEF r
<1>3. SessionOK(s, r)
  BY <1>0, <1>1, <1>2 DEF SessionOK, DbOK, SendPC
<1> QED
  BY <1>0, <1>2, <1>3, OneMoves DEF r

-----------------------------------------------------------------------------
(* What each action does to the sessions                                   *)

LEMMA StartDoes ==
    ASSUME Typed, NEW s \in Sending, Start(s)
    PROVE  /\ SessionsTyped' /\ Elsewhere(s) /\ s \in Senders
           /\ session[s].pc = "closed" /\ session'[s].pc = "open"
           /\ session'[s].db = session[s].db /\ session'[s].todo = session[s].todo
<1>1. Step(s, At(s, "open")) /\ session[s].pc = "closed" /\ s \in Senders
  BY ClosedFits DEF Start
<1> QED
  BY <1>1, StepsOn DEF Start, SendPC

LEMMA ReadSlotDoes ==
    ASSUME Typed, NEW s \in Sending, ReadSlot(s)
    PROVE  /\ SessionsTyped' /\ Elsewhere(s)
           /\ session[s].pc = "slot" /\ session'[s].pc = "clear"
           /\ session'[s].db = session[s].db /\ session'[s].todo = session[s].todo
           /\ session'[s].box = session[s].box /\ session[s].box \notin slot
<1>1. Step(s, At(s, "clear")) /\ session[s].pc = "slot"
  BY ClosedFits DEF ReadSlot
<1> QED
  BY <1>1, StepsOn DEF ReadSlot, SendPC

LEMMA TakeSlotDoes ==
    ASSUME Typed, NEW s \in Sending, TakeSlot(s)
    PROVE  /\ SessionsTyped' /\ Elsewhere(s)
           /\ session[s].pc = "clear" /\ session'[s].pc = "ready"
           /\ session'[s].db = session[s].db /\ session'[s].todo = session[s].todo
           /\ session'[s].box = session[s].box
<1>1. Step(s, At(s, "ready")) /\ session[s].pc = "clear"
  BY ClosedFits DEF TakeSlot
<1> QED
  BY <1>1, StepsOn DEF TakeSlot, SendPC

LEMMA DeliverDoes ==
    ASSUME Typed, NEW s \in Sending, Deliver(s)
    PROVE  /\ SessionsTyped' /\ Elsewhere(s)
           /\ session[s].pc = "ready" /\ session'[s].pc = "mailed"
           /\ session'[s].db = session[s].db /\ session'[s].todo = session[s].todo
           /\ session'[s].box = session[s].box
<1>1. Step(s, At(s, "mailed")) /\ session[s].pc = "ready"
  BY ClosedFits DEF Deliver
<1> QED
  BY <1>1, StepsOn DEF Deliver, SendPC

LEMMA PickDoes ==
    ASSUME Typed, NEW s \in Sending, Pick(s)
    PROVE  /\ SessionsTyped' /\ Elsewhere(s)
           /\ session[s].pc = "open" /\ session'[s].pc = "slot"
           /\ session'[s].todo = session[s].todo
           /\ s = Placer => session[s].todo # {}
           /\ session'[s].box \in Pickable(s)
           /\ session'[s].box \in Holds(s) => session'[s].db = session[s].db
           /\ session'[s].box \notin Holds(s) =>
                 /\ Holds(s)' = {session'[s].box}
                 /\ session'[s].db.row[session'[s].box] = box[session'[s].box]
                 /\ session'[s].db.base[session'[s].box] = box[session'[s].box]
<1>0. /\ s \in Sessions /\ s \notin Pollers /\ session[s].pc = "open"
      /\ s = Placer => session[s].todo # {}
  BY DEF Sessions, Sending, Pick
<1>1. PICK b \in Pickable(s) : Step(s, [At(s, "slot") EXCEPT !.box = b,
                                   !.db = IF b \in Holds(s) THEN @ ELSE Loaded({b})])
  BY DEF Pick
<1>2. b \in Boxes
  BY DEF Pickable, Live
<1> DEFINE r == [At(s, "slot") EXCEPT !.box = b, !.db = IF b \in Holds(s) THEN @ ELSE Loaded({b})]
<1>3. session[s] \in Session /\ SessionOK(s, session[s])
  BY <1>0, Fields
<1>4. /\ Loaded({b}) \in Db /\ Loaded({b}).base = [x \in {b} |-> box[x]]
      /\ Loaded({b}).row = [x \in {b} |-> box[x]] /\ Loaded({b}).flushed = {}
      /\ Loaded({b}).bumps = [d \in Domains |-> 0]
  BY <1>2, LoadedFits
<1>5. /\ r \in Session /\ r.pc = "slot" /\ r.box = b /\ r.todo = session[s].todo
      /\ r.db = IF b \in Holds(s) THEN session[s].db ELSE Loaded({b})
  BY <1>2, <1>3, <1>4 DEF At, Session, SendPC
<1> HIDE DEF r
<1>6. Writes(box[b], box[b])
  BY <1>2 DEF Typed, Row, Writes
<1>7. SessionOK(s, r)
  <2>1. CASE b \in Holds(s)
    BY <1>0, <1>3, <1>5, <2>1 DEF SessionOK, DbOK, SendPC, Holds
  <2>2. CASE b \notin Holds(s)
    <3>1. /\ r.db.base = [x \in {b} |-> box[x]] /\ r.db.row = [x \in {b} |-> box[x]]
          /\ r.db.flushed = {} /\ r.db.bumps = [d \in Domains |-> 0]
      BY <1>4, <1>5, <2>2
    <3>2. /\ DOMAIN r.db.base = {b} /\ DOMAIN r.db.row = {b} /\ r.db.base[b] = box[b]
          /\ r.db.row[b] = box[b] /\ \A d \in Domains : r.db.bumps[d] = 0
      BY <3>1
    <3> QED
      BY <1>0, <1>5, <1>6, <3>1, <3>2 DEF SessionOK, DbOK, SendPC
  <2> QED
    BY <2>1, <2>2
<1>8. SessionsTyped' /\ session'[s] = r /\ Elsewhere(s)
  BY <1>0, <1>1, <1>5, <1>7, OneMoves DEF r
<1>9. b \notin Holds(s) => Holds(s)' = {b} /\ r.db.row[b] = box[b] /\ r.db.base[b] = box[b]
  BY <1>4, <1>5, <1>8 DEF Holds
<1> QED
  BY <1>0, <1>5, <1>8, <1>9

(* The placement run has a seed in hand.                                    *)
LEMMA SeedInHand ==
    ASSUME Typed, session[Placer].todo # {}
    PROVE  Seed \in session[Placer].todo /\ Seed \in Seeds
<1>1. Placer \in Sessions
  BY DEF Sessions, Sending
<1>2. session[Placer].todo \subseteq Seeds
  BY <1>1, Fields
<1> QED
  BY <1>2 DEF Seed

GaveUp(s) ==
    /\ SessionsTyped' /\ Elsewhere(s)
    /\ s # Placer => /\ session'[s].pc = "closed" /\ session'[s].db = NoRows
                     /\ UNCHANGED placement
    /\ s = Placer => /\ session'[s].pc = "open" /\ session'[s].db = session[s].db
                     /\ session'[s].todo = session[s].todo \ {Seed}
                     /\ session[s].todo # {} /\ Recorded(FALSE)

LEMMA GivesUpDoes ==
    ASSUME Typed, NEW s \in Sending, GivesUp(s)
    PROVE  GaveUp(s)
<1>0. s \in Sessions
  BY DEF Sessions, Sending
<1>1. CASE s # Placer
  BY <1>0, <1>1, Closes DEF GivesUp, GaveUp
<1>2. CASE s = Placer
  <2>1. /\ session[s].todo # {} /\ Recorded(FALSE)
        /\ Step(s, [At(s, "open") EXCEPT !.todo = @ \ {Seed}])
    BY <1>2 DEF GivesUp
  <2>2. session[s] \in Session /\ session[s].todo \in SUBSET Seeds
    BY <1>0, Fields
  <2>3. Step(s, [At(s, "open") EXCEPT !.todo = session[s].todo \ {Seed}])
    BY <2>1, <2>2 DEF At, Session
  <2> DEFINE T == session[s].todo \ {Seed}
  <2>4. T \in SUBSET Seeds /\ Step(s, [At(s, "open") EXCEPT !.todo = T])
    BY <2>2, <2>3
  <2> HIDE DEF T
  <2>5. /\ SessionsTyped' /\ Elsewhere(s)
        /\ session'[s].pc = "open" /\ session'[s].db = session[s].db
        /\ session'[s].todo = T
    BY <2>4, GoesOn DEF SendPC
  <2> QED
    BY <1>2, <2>1, <2>5 DEF T, GaveUp
<1> QED
  BY <1>1, <1>2

LEMMA BlockedDoes ==
    ASSUME Typed, NEW s \in Sending, Blocked(s)
    PROVE  GaveUp(s) /\ session[s].pc \in {"open", "slot", "ready"}
BY GivesUpDoes DEF Blocked

(* A mail left and will not be counted.                                    *)
LEMMA LostReplyDoes ==
    ASSUME Typed, NEW s \in Sending, LostReply(s)
    PROVE  /\ GaveUp(s) /\ session[s].pc = "ready"
           /\ session[s].box \in Holds(s) /\ session[s].box \in Boxes
           /\ mailed' = [mailed EXCEPT ![session[s].box] = @ + 1]
           /\ uncounted' = [uncounted EXCEPT ![session[s].box] = @ + 1]
<1>1. s \in Sessions /\ session[s].pc = "ready"
  BY DEF Sessions, Sending, LostReply
<1>2. session[s].box \in Holds(s) /\ session[s].box \in Boxes
  BY <1>1, Fields DEF SessionOK, SendPC, Holds
<1> QED
  BY <1>1, <1>2, GivesUpDoes DEF LostReply, Out

(* What a finalize writes: one more mail than the row was loaded with, and *)
(* nothing else.                                                           *)
Ends(s) ==
    session'[s].pc = "closed" /\ session'[s].db = NoRows /\ UNCHANGED placement

NextSeed ==
    /\ session'[Placer].pc = "open" /\ Holds(Placer)' = Holds(Placer)
    /\ session'[Placer].todo = session[Placer].todo \ {Seed} /\ Recorded(TRUE)
    /\ \A b \in Holds(Placer) \ {session[Placer].box} :
          /\ session'[Placer].db.row[b] = session[Placer].db.row[b]
          /\ session'[Placer].db.base[b] = session[Placer].db.base[b]
    /\ LET b == session[Placer].box
       IN  /\ session'[Placer].db.base[b].sent = session[Placer].db.base[b].sent + 1
           /\ session'[Placer].db.row[b].sent = session[Placer].db.row[b].sent + 1

LEMMA FinalizeDoes ==
    ASSUME Typed, NEW s \in Sending, Finalize(s)
    PROVE  /\ SessionsTyped' /\ Elsewhere(s) /\ session[s].pc = "mailed"
           /\ s # Placer => Ends(s)
           /\ s = Placer => NextSeed
           /\ session[s].box \in Holds(s) /\ session[s].box \in Boxes
           /\ \A b \in Boxes \ {session[s].box} : box'[b] = box[b]
           /\ LET b == session[s].box
              IN  /\ box'[b] \in Row
                  /\ box'[b].sent = session[s].db.base[b].sent + 1
                  /\ box'[b].state = box[b].state /\ box'[b].hard = box[b].hard
                  /\ box'[b].health = box[b].health
           /\ stat' \in [Domains -> [sends : Nat, bounces : Nat]]
           /\ \A d \in Domains : stat'[d].bounces = stat[d].bounces
<1> DEFINE b == session[s].box
           q == session[s].db.row[b]
           p == session[s].db.base[b]
           r == [q EXCEPT !.sent = @ + 1]
<1>0. s \in Sessions /\ s \notin Pollers /\ session[s].pc = "mailed"
  BY DEF Sessions, Sending, Finalize
<1>1. session[s] \in Session /\ SessionOK(s, session[s])
  BY <1>0, Fields
<1>2. b \in Holds(s) /\ b \in Boxes /\ p \in Row /\ q \in Row /\ session[s].db.flushed = {}
  BY <1>0, <1>1, Fields DEF SessionOK, DbOK, SendPC, Holds
<1>3. q = p
  BY <1>1, <1>2 DEF SessionOK, DbOK, Holds
<1>4. /\ box' = [box EXCEPT ![b] = Written(@, p, r)]
      /\ stat' = [stat EXCEPT ![DomainOf[b]].sends = @ + 1]
  BY DEF Finalize
<1>5. /\ r \in Row /\ r.sent = p.sent + 1 /\ r.state = p.state /\ r.hard = p.hard
      /\ r.health = p.health /\ r.stage = p.stage /\ r.limit = p.limit /\ r.sent # p.sent
  BY <1>2, <1>3 DEF Row
<1>6. box \in [Boxes -> Row] /\ stat \in [Domains -> [sends : Nat, bounces : Nat]]
  BY DEF Typed
<1>7. ASSUME s # Placer PROVE SessionsTyped' /\ Elsewhere(s) /\ Ends(s)
  <2>1. Step(s, Closed) /\ UNCHANGED placement
    BY <1>7 DEF Finalize
  <2> QED
    BY <1>0, <1>7, <2>1, Closes DEF Ends
<1>8. ASSUME s = Placer PROVE SessionsTyped' /\ Elsewhere(s) /\ NextSeed
  <2> DEFINE n == [At(s, "open") EXCEPT !.todo = @ \ {Seed}, !.db.row[b] = r, !.db.base[b] = r]
  <2>1. Step(s, n) /\ Recorded(TRUE)
    BY <1>8 DEF Finalize
  <2>2. session[s].db \in Db /\ session[s].todo \subseteq Seeds
    BY <1>0, Fields
  <2>3. /\ n.pc = "open" /\ n.box = b /\ n.todo = session[s].todo \ {Seed}
        /\ n.db = [session[s].db EXCEPT !.row[b] = r, !.base[b] = r]
    <3> HIDE DEF r
    <3>1. n.pc = "open" /\ n.box = b
      BY <1>1 DEF At, Session
    <3>2. n.todo = session[s].todo \ {Seed}
      BY <1>1 DEF At, Session
    <3>3. n.db = [session[s].db EXCEPT !.row[b] = r, !.base[b] = r]
      BY <1>1 DEF At, Session
    <3> QED
      BY <3>1, <3>2, <3>3
  <2>4. /\ n.db.row = [session[s].db.row EXCEPT ![b] = r]
        /\ n.db.base = [session[s].db.base EXCEPT ![b] = r]
        /\ n.db.flushed = {} /\ n.db.bumps = session[s].db.bumps
        /\ n.db = [base |-> n.db.base, row |-> n.db.row, flushed |-> n.db.flushed,
                   bumps |-> n.db.bumps]
    <3> HIDE DEF n, r
    <3> DEFINE d == session[s].db
    <3>1. d = [base |-> d.base, row |-> d.row, flushed |-> d.flushed, bumps |-> d.bumps]
      BY <2>2 DEF Db
    <3>2. n.db = [d EXCEPT !.row[b] = r, !.base[b] = r]
      BY <2>3
    <3> HIDE DEF d
    <3>3. n.db = [base |-> [d.base EXCEPT ![b] = r], row |-> [d.row EXCEPT ![b] = r],
                  flushed |-> d.flushed, bumps |-> d.bumps]
      BY <3>1, <3>2
    <3>4. d.flushed = {}
      BY <1>2 DEF d
    <3> QED
      BY <3>3, <3>4 DEF d
  <2> HIDE DEF n
  <2>5. session[s].db.row \in [Holds(s) -> Row] /\ session[s].db.base \in [Holds(s) -> Row]
    BY <1>0, Fields, PartRowsAre
  <2> DEFINE nr == n.db.row
             nb == n.db.base
  <2>6. nr \in [Holds(s) -> Row] /\ nb \in [Holds(s) -> Row]
    BY <1>2, <1>5, <2>4, <2>5
  <2>7. nr[b] = r /\ nb[b] = r
    BY <1>2, <2>4, <2>5
  <2>8. \A o \in Holds(s) \ {b} : nr[o] = session[s].db.row[o] /\ nb[o] = session[s].db.base[o]
    BY <2>4, <2>5
  <2>9. Holds(s) \subseteq Boxes /\ DOMAIN nr = Holds(s) /\ DOMAIN nb = Holds(s)
    BY <1>0, <2>6, Fields
  <2>10. nr \in PartRows /\ nb \in PartRows
    BY <2>6, <2>9, RowsArePart
  <2>11. n.db \in Db
    BY <2>2, <2>4, <2>10 DEF Db
  <2>12. n \in Session
    <3> HIDE DEF r
    <3> QED
      BY <1>1, <2>2, <2>3, <2>11 DEF n, At, Session
  <2>13. Writes(r, r)
    BY <1>5 DEF Writes, Row
  <2>14. SessionOK(s, n)
    <3>1. DOMAIN n.db.base = DOMAIN n.db.row /\ n.db.flushed \subseteq DOMAIN n.db.row
      BY <2>4, <2>9
    <3>2. \A o \in Holds(s) : /\ Writes(nb[o], nr[o]) /\ nr[o] = nb[o]
      <4> HIDE DEF r, nr, nb
      <4>1. \A o \in Holds(s) : /\ Writes(session[s].db.base[o], session[s].db.row[o])
                               /\ session[s].db.row[o] = session[s].db.base[o]
        BY <1>1, <1>2 DEF SessionOK, DbOK, Holds
      <4> QED
        BY <2>7, <2>8, <2>13, <4>1
    <3>3. n.pc = "open" /\ \A d \in Domains : n.db.bumps[d] = 0
      BY <1>0, <1>1, <2>3, <2>4 DEF SessionOK, DbOK
    <3> QED
      BY <1>0, <2>4, <2>9, <3>1, <3>2, <3>3 DEF SessionOK, DbOK, SendPC
  <2>15. SessionsTyped' /\ session'[s] = n /\ Elsewhere(s)
    BY <1>0, <2>1, <2>12, <2>14, OneMoves DEF n
  <2>16. Holds(s)' = Holds(s)
    BY <2>9, <2>15 DEF Holds
  <2> QED
    BY <1>0, <1>2, <1>3, <1>5, <1>8, <2>1, <2>3, <2>7, <2>8, <2>15, <2>16 DEF NextSeed
<1>9. /\ box'[b] = Written(box[b], p, r) /\ box[b] \in Row
      /\ \A o \in Boxes \ {b} : box'[o] = box[o]
  BY <1>2, <1>4, <1>6
<1>10. /\ box'[b] \in Row /\ box'[b].sent = p.sent + 1 /\ box'[b].state = box[b].state
       /\ box'[b].hard = box[b].hard /\ box'[b].health = box[b].health
  <2> HIDE DEF p, q, r
  <2> QED
    BY <1>2, <1>5, <1>9, WrittenRow
<1>11. /\ stat' \in [Domains -> [sends : Nat, bounces : Nat]]
       /\ \A d \in Domains : stat'[d].bounces = stat[d].bounces
  BY <1>2, <1>4, <1>6
<1> QED
  BY <1>0, <1>2, <1>7, <1>8, <1>9, <1>10, <1>11

LEMMA PlacementDoes ==
    ASSUME Typed, RunPlacement \/ PlacementDone
    PROVE  /\ SessionsTyped' /\ Elsewhere(Placer)
           /\ session'[Placer].db = session[Placer].db \/ session'[Placer].db = NoRows
           /\ session'[Placer].pc \in {"closed", "open"}
           /\ session'[Placer].pc = "open" =>
                 /\ session'[Placer].todo =
                       {e \in Seeds : placement.result[e].verdict = "pending"}
                 /\ UNCHANGED placement
<1>0. Placer \in Sending /\ Placer \in Sessions
  BY DEF Sessions, Sending
<1>1. CASE RunPlacement /\ session' = session
  <2>1. session'[Placer].pc = "closed" /\ session'[Placer].db = session[Placer].db
    BY <1>1, ClosedFits DEF RunPlacement
  <2>2. SessionsTyped' /\ Elsewhere(Placer)
    BY <1>1 DEF Typed, SessionsTyped, Elsewhere
  <2> QED
    BY <2>1, <2>2
<1>2. CASE RunPlacement /\ session' # session
  <2> DEFINE T == {e \in Seeds : placement.result[e].verdict = "pending"}
  <2>1. Step(Placer, [At(Placer, "open") EXCEPT !.todo = T]) /\ UNCHANGED placement
    BY <1>2 DEF RunPlacement
  <2>2. T \in SUBSET Seeds
    OBVIOUS
  <2> HIDE DEF T
  <2>3. /\ SessionsTyped' /\ Elsewhere(Placer) /\ session'[Placer].pc = "open"
        /\ session'[Placer].db = session[Placer].db /\ session'[Placer].todo = T
    BY <1>0, <2>1, <2>2, GoesOn DEF SendPC
  <2> QED
    BY <2>1, <2>3 DEF T
<1>3. CASE PlacementDone
  BY <1>0, <1>3, Closes DEF PlacementDone
<1> QED
  BY <1>1, <1>2, <1>3

(* A transaction is begun and reads every mailbox there is.                *)
LEMMA ReadsAll ==
    ASSUME Typed, NEW s \in Judging, session[s].pc = "closed",
           Step(s, [At(s, "open") EXCEPT !.db = Loaded(Live)])
    PROVE  /\ SessionsTyped' /\ Elsewhere(s) /\ session'[s].pc = "open"
           /\ session'[s].db.base = [b \in Live |-> box[b]]
           /\ session'[s].db.row = [b \in Live |-> box[b]] /\ Holds(s)' = Live
           /\ session'[s].db.flushed = {}
           /\ \A d \in Domains : session'[s].db.bumps[d] = 0
<1> DEFINE r == [At(s, "open") EXCEPT !.db = Loaded(Live)]
<1>0. s \in Sessions /\ s \notin Sending
  BY DEF Judging, Sessions, Sending
<1>1. session[s] \in Session /\ SessionOK(s, session[s])
  BY <1>0, Fields
<1>2. Live \in SUBSET Boxes
  BY DEF Live
<1>3. /\ Loaded(Live) \in Db /\ Loaded(Live).base = [b \in Live |-> box[b]]
      /\ Loaded(Live).row = [b \in Live |-> box[b]] /\ Loaded(Live).flushed = {}
      /\ Loaded(Live).bumps = [d \in Domains |-> 0]
  BY <1>2, LoadedFits
<1>4. r \in Session /\ r.pc = "open" /\ r.db = Loaded(Live)
  BY <1>1, <1>3 DEF At, Session
<1> HIDE DEF r
<1>5. \A b \in Live : Writes(box[b], box[b])
  BY <1>2 DEF Typed, Row, Writes
<1>6. DbOK(r.db)
  BY <1>3, <1>4, <1>5 DEF DbOK
<1>7. SessionOK(s, r)
  BY <1>3, <1>4, <1>6 DEF SessionOK, SendPC
<1>8. SessionsTyped' /\ session'[s] = r /\ Elsewhere(s)
  BY <1>0, <1>4, <1>7, OneMoves DEF r
<1>9. Holds(s)' = Live
  BY <1>3, <1>4, <1>8 DEF Holds
<1> QED
  BY <1>3, <1>4, <1>8, <1>9

LEMMA PollDoes ==
    ASSUME Typed, NEW s \in Pollers, Poll(s)
    PROVE  /\ SessionsTyped' /\ Elsewhere(s) /\ session'[s].pc = "open"
           /\ session'[s].db.base = [b \in Live |-> box[b]]
           /\ session'[s].db.row = [b \in Live |-> box[b]] /\ Holds(s)' = Live
           /\ session'[s].db.flushed = {}
           /\ \A d \in Domains : session'[s].db.bumps[d] = 0
BY ReadsAll, ClosedFits DEF Poll, Judging

LEMMA ResetStartDoes ==
    ASSUME Typed, ResetStart
    PROVE  /\ SessionsTyped' /\ Elsewhere(Resetter) /\ session'[Resetter].pc = "open"
           /\ session'[Resetter].db.base = [b \in Live |-> box[b]]
           /\ session'[Resetter].db.row = [b \in Live |-> box[b]] /\ Holds(Resetter)' = Live
BY ReadsAll, ClosedFits DEF ResetStart, Judging

-----------------------------------------------------------------------------
(* What a bounce makes of the rows of a poll                                *)

LEMMA DegradedRow ==
    ASSUME NEW r \in Row
    PROVE  /\ Degraded(r) \in Row /\ Degraded(r).hard = r.hard + 1
           /\ Degraded(r).state = r.state /\ Degraded(r).sent = r.sent
           /\ Degraded(r).stage = r.stage /\ Degraded(r).limit = r.limit
           /\ r.health = "paused" => Degraded(r).health = "paused"
<1> DEFINE h == IF r.hard + 1 >= 2 /\ r.health # "paused" THEN "degraded" ELSE r.health
<1>1. h \in {"ok", "degraded", "paused"} /\ (r.health = "paused" => h = "paused")
  BY DEF Row
<1>2. Degraded(r) = [r EXCEPT !.hard = @ + 1, !.health = h]
  BY DEF Degraded, Row
<1> HIDE DEF h
<1> DEFINE D == Degraded(r)
<1>3. /\ D.hard = r.hard + 1 /\ D.health = h /\ D.state = r.state /\ D.sent = r.sent
      /\ D.stage = r.stage /\ D.limit = r.limit
  BY <1>2 DEF Row
<1> DEFINE C == [r EXCEPT !.hard = @ + 1]
<1>4. C \in Row
  BY DEF Row
<1>5. D = [C EXCEPT !.health = h]
  BY <1>2
<1> HIDE DEF C, D
<1>6. D \in Row
  BY <1>1, <1>4, <1>5 DEF Row
<1> QED
  BY <1>1, <1>3, <1>6 DEF D

(* The row of b is counted up, and so is its domain.                       *)
Counted(db, b) ==
    [Change(db, b, Degraded(db.row[b])) EXCEPT !.bumps[DomainOf[b]] = @ + 1]

LEMMA CountedFits ==
    ASSUME NEW db \in Db, DbOK(db), NEW b \in DOMAIN db.row
    PROVE  /\ Counted(db, b) \in Db /\ DbOK(Counted(db, b))
           /\ Counted(db, b).base = db.base
           /\ Counted(db, b).row = [db.row EXCEPT ![b] = Degraded(db.row[b])]
           /\ Counted(db, b).flushed = db.flushed \cup {b}
           /\ Counted(db, b).bumps = [db.bumps EXCEPT ![DomainOf[b]] = @ + 1]
           /\ DOMAIN Counted(db, b).row = DOMAIN db.row
<1> DEFINE q == Degraded(db.row[b])
           n == Counted(db, b)
<1>1. /\ db.row \in PartRows /\ db.base \in PartRows /\ db.flushed \subseteq Boxes
      /\ db.bumps \in [Domains -> Nat]
  BY DEF Db
<1>2. /\ DOMAIN db.row \subseteq Boxes /\ b \in Boxes /\ db.row \in [DOMAIN db.row -> Row]
      /\ \A o \in DOMAIN db.row : db.row[o] \in Row /\ db.base[o] \in Row
  BY <1>1, PartRowsAre DEF DbOK
<1>3. /\ q \in Row /\ q.hard = db.row[b].hard + 1 /\ q.state = db.row[b].state
      /\ q.sent = db.row[b].sent /\ q.stage = db.row[b].stage /\ q.limit = db.row[b].limit
      /\ db.row[b].health = "paused" => q.health = "paused"
  BY <1>2, DegradedRow
<1> HIDE DEF q
<1>4. DomainOf[b] \in Domains
  BY <1>2
<1>5. /\ n.base = db.base /\ n.row = [db.row EXCEPT ![b] = q]
      /\ n.flushed = db.flushed \cup {b}
      /\ n.bumps = [db.bumps EXCEPT ![DomainOf[b]] = @ + 1]
  BY <1>2, <1>4 DEF Counted, Change, Db, q
<1>6. n.row \in [DOMAIN db.row -> Row]
  BY <1>2, <1>3, <1>5
<1>7. n.row \in PartRows /\ DOMAIN n.row = DOMAIN db.row
  BY <1>2, <1>6, RowsArePart
<1>8. n.bumps \in [Domains -> Nat] /\ n.flushed \subseteq Boxes
  BY <1>1, <1>2, <1>4, <1>5
<1>9. n \in Db
  BY <1>1, <1>5, <1>7, <1>8 DEF Counted, Change, Db
<1> HIDE DEF n
<1>10. Writes(db.base[b], db.row[b])
  BY DEF DbOK
<1>11. db.base[b].hard \in Nat /\ db.row[b].hard \in Nat
  BY <1>2 DEF Row
<1>12. Writes(db.base[b], q)
  BY <1>3, <1>10, <1>11 DEF Writes
<1>13. n.row[b] = q /\ \A o \in DOMAIN db.row \ {b} : n.row[o] = db.row[o]
  BY <1>2, <1>5
<1>14. DbOK(n)
  BY <1>5, <1>7, <1>12, <1>13 DEF DbOK
<1> QED
  BY <1>5, <1>7, <1>9, <1>14 DEF n, q

LEMMA PausedFits ==
    ASSUME Typed, NEW db \in Db, DbOK(db), NEW B \in SUBSET Boxes
    PROVE  /\ Paused(db, B) \in Db /\ DbOK(Paused(db, B))
           /\ Paused(db, B).bumps = db.bumps /\ Paused(db, B).flushed = db.flushed \cup B
           /\ DOMAIN Paused(db, B).row = B \cup DOMAIN db.row
           /\ \A b \in DOMAIN db.row : Paused(db, B).base[b] = db.base[b]
           /\ \A b \in DOMAIN db.row \ B : Paused(db, B).row[b] = db.row[b]
           /\ \A b \in B \ DOMAIN db.row : Paused(db, B).base[b] = box[b]
           /\ \A b \in B : Paused(db, B).row[b].health = "paused"
           /\ \A b \in B : Paused(db, B).row[b].hard =
                 IF b \in DOMAIN db.row THEN db.row[b].hard ELSE box[b].hard
<1> DEFINE row(b) == IF b \in DOMAIN db.row THEN db.row[b] ELSE box[b]
           B1 == B \cup DOMAIN db.row
           nb == [b \in B1 |-> IF b \in DOMAIN db.base THEN db.base[b] ELSE box[b]]
           nr == [b \in B1 |-> IF b \in B THEN [row(b) EXCEPT !.health = "paused"] ELSE row(b)]
           n == Paused(db, B)
<1>1. /\ db.row \in PartRows /\ db.base \in PartRows /\ db.flushed \subseteq Boxes
      /\ db.bumps \in [Domains -> Nat] /\ DOMAIN db.base = DOMAIN db.row
  BY DEF Db, DbOK
<1>2. /\ DOMAIN db.row \subseteq Boxes
      /\ \A o \in DOMAIN db.row : db.row[o] \in Row /\ db.base[o] \in Row
      /\ \A o \in Boxes : box[o] \in Row
  BY <1>1, PartRowsAre DEF Typed
<1>3. B1 \in SUBSET Boxes
  BY <1>2
<1>4. n.base = nb /\ n.row = nr /\ n.flushed = db.flushed \cup B /\ n.bumps = db.bumps
  BY DEF Paused, Db
<1>5. \A b \in B1 : row(b) \in Row
  BY <1>2
<1>6. \A b \in B1 : nb[b] \in Row /\ nr[b] \in Row
  BY <1>1, <1>2, <1>5 DEF Row
<1>7. nb \in [B1 -> Row] /\ nr \in [B1 -> Row]
  BY <1>6
<1>8. nb \in PartRows /\ nr \in PartRows
  <2> HIDE DEF nb, nr, B1
  <2> QED
    BY <1>3, <1>7, RowsArePart
<1>9. n \in Db
  BY <1>1, <1>3, <1>4, <1>8 DEF Paused, Db
<1>10. /\ \A b \in DOMAIN db.row : nb[b] = db.base[b]
       /\ \A b \in DOMAIN db.row \ B : nr[b] = db.row[b]
       /\ \A b \in B \ DOMAIN db.row : nb[b] = box[b]
  BY <1>1
<1>11. \A b \in B : /\ nr[b].health = "paused" /\ nr[b].hard = row(b).hard
                    /\ nr[b].state = row(b).state /\ nr[b].sent = row(b).sent
                    /\ nr[b].stage = row(b).stage /\ nr[b].limit = row(b).limit
  BY <1>5 DEF Row
<1>12. \A b \in DOMAIN db.row : Writes(db.base[b], db.row[b])
  BY DEF DbOK
<1>13. \A b \in B1 : Writes(nb[b], nr[b])
  <2> SUFFICES ASSUME NEW b \in B1 PROVE Writes(nb[b], nr[b])
    OBVIOUS
  <2>1. CASE b \in DOMAIN db.row
    <3>1. Writes(db.base[b], db.row[b]) /\ nb[b] = db.base[b] /\ row(b) = db.row[b]
      BY <1>10, <1>12, <2>1
    <3>2. b \notin B => nr[b] = db.row[b]
      BY <1>10, <2>1
    <3> HIDE DEF nb, nr, row, B1
    <3> QED
      BY <1>11, <3>1, <3>2 DEF Writes
  <2>2. CASE b \notin DOMAIN db.row
    <3>1. b \in B /\ nb[b] = box[b] /\ row(b) = box[b] /\ box[b].hard \in Nat
      BY <1>2, <1>10, <2>2 DEF Row
    <3> HIDE DEF nb, nr, row, B1
    <3> QED
      BY <1>11, <3>1 DEF Writes
  <2> QED
    BY <2>1, <2>2
<1>14. DOMAIN n.row = B1 /\ DOMAIN n.base = B1
  BY <1>4
<1>15. \A b \in B1 \ (db.flushed \cup B) : nr[b] = nb[b]
  BY <1>10 DEF DbOK
<1>16. DbOK(n)
  <2> HIDE DEF nb, nr, n
  <2> QED
    BY <1>4, <1>13, <1>14, <1>15 DEF DbOK
<1>17. \A b \in B : row(b).hard = IF b \in DOMAIN db.row THEN db.row[b].hard ELSE box[b].hard
  OBVIOUS
<1> HIDE DEF nb, nr, n, row
<1> QED
  BY <1>4, <1>9, <1>10, <1>11, <1>14, <1>16, <1>17 DEF n

(* A commit writes hard bounces and health, and nothing else of a box.     *)
LEMMA AfterRow ==
    ASSUME Typed, NEW db \in Db, DbOK(db), NEW b \in Boxes
    PROVE  /\ BoxAfter(db)[b] \in Row /\ BoxAfter(db)[b].state = box[b].state
           /\ BoxAfter(db)[b].sent = box[b].sent /\ BoxAfter(db)[b].limit = box[b].limit
           /\ BoxAfter(db)[b].stage = box[b].stage
           /\ BoxAfter(db)[b].hard = IF b \in db.flushed /\ db.row[b].hard # db.base[b].hard
                                     THEN db.row[b].hard ELSE box[b].hard
           /\ BoxAfter(db)[b].health =
                 IF b \in db.flushed /\ db.row[b].health # db.base[b].health
                 THEN db.row[b].health ELSE box[b].health
<1>1. BoxAfter(db)[b] = IF b \in db.flushed THEN Written(box[b], db.base[b], db.row[b]) ELSE box[b]
  BY DEF BoxAfter
<1>2. box[b] \in Row
  BY DEF Typed
<1>3. CASE b \in db.flushed
  <2>1. db.base[b] \in Row /\ db.row[b] \in Row /\ Writes(db.base[b], db.row[b])
    BY <1>3, PartRowsAre DEF Db, DbOK
  <2>2. /\ db.row[b].state = db.base[b].state /\ db.row[b].sent = db.base[b].sent
        /\ db.row[b].limit = db.base[b].limit /\ db.row[b].stage = db.base[b].stage
    BY <2>1 DEF Writes
  <2> QED
    BY <1>1, <1>2, <1>3, <2>1, <2>2, WrittenRow
<1>4. CASE b \notin db.flushed
  BY <1>1, <1>2, <1>4
<1> QED
  BY <1>3, <1>4

BounceFacts(s, b, d, db, n) ==
    /\ n \in Db /\ DbOK(n)
    /\ DOMAIN db.row \subseteq DOMAIN n.row /\ db.flushed \subseteq n.flushed
    /\ \A o \in DOMAIN db.row : n.base[o] = db.base[o]
    /\ \A o \in DOMAIN n.row \ DOMAIN db.row : n.base[o] = box[o]
    /\ n.bumps = [db.bumps EXCEPT ![d] = @ + 1]
    /\ \A o \in Boxes : DomainOf[o] # d =>
          /\ o \in DOMAIN n.row <=> o \in DOMAIN db.row
          /\ o \in n.flushed <=> o \in db.flushed
          /\ o \in DOMAIN db.row => n.row[o] = db.row[o]
    /\ Threshold > 0 /\ stat[d].bounces + n.bumps[d] >= Threshold =>
          \A o \in Live : DomainOf[o] = d =>
             \/ o \in n.flushed /\ n.row[o].health = "paused"
             \/ BoxAfter(n)[o].health = "paused"

LEMMA BouncedInDoes ==
    ASSUME Typed, NEW s \in Pollers, NEW db \in Db, DbOK(db), NEW b \in DOMAIN db.row
    PROVE  BounceFacts(s, b, DomainOf[b], db, BouncedIn(db, b))
<1> DEFINE d == DomainOf[b]
           c == Counted(db, b)
           n == BouncedIn(db, b)
           over == Threshold > 0 /\ stat[d].bounces + c.bumps[d] >= Threshold
           B == Unpaused(c, d)
<1>1. /\ c \in Db /\ DbOK(c) /\ c.base = db.base
      /\ c.row = [db.row EXCEPT ![b] = Degraded(db.row[b])]
      /\ c.flushed = db.flushed \cup {b}
      /\ c.bumps = [db.bumps EXCEPT ![d] = @ + 1]
      /\ DOMAIN c.row = DOMAIN db.row
  BY CountedFits
<1>2. n = IF over THEN Paused(c, B) ELSE c
  BY DEF BouncedIn, Counted
<1>3. \A o \in DOMAIN db.row \ {b} : c.row[o] = db.row[o]
  BY <1>1
<1>4. B \in SUBSET Boxes /\ B \subseteq Live /\ \A o \in B : DomainOf[o] = d
  BY DEF Unpaused, Live
<1>5. \A o \in Live : DomainOf[o] = d /\ o \notin B => BoxAfter(c)[o].health = "paused"
  BY DEF Unpaused
<1> HIDE DEF c, n, B
<1>6. CASE ~over
  <2>1. n = c
    BY <1>2, <1>6
  <2>2. ~(Threshold > 0 /\ stat[d].bounces + n.bumps[d] >= Threshold)
    BY <1>6, <2>1
  <2> HIDE DEF over
  <2> QED
    BY <1>1, <1>3, <2>1, <2>2 DEF BounceFacts, n
<1>7. CASE over
  <2>1. n = Paused(c, B)
    BY <1>2, <1>7
  <2>2. /\ n \in Db /\ DbOK(n)
        /\ n.bumps = c.bumps /\ n.flushed = c.flushed \cup B
        /\ DOMAIN n.row = B \cup DOMAIN c.row
        /\ \A o \in DOMAIN c.row : n.base[o] = c.base[o]
        /\ \A o \in DOMAIN c.row \ B : n.row[o] = c.row[o]
        /\ \A o \in B \ DOMAIN c.row : n.base[o] = box[o]
        /\ \A o \in B : n.row[o].health = "paused"
    BY <1>1, <1>4, <2>1, PausedFits
  <2>3. \A o \in Live \ B : BoxAfter(n)[o] = BoxAfter(c)[o]
    <3> SUFFICES ASSUME NEW o \in Live \ B PROVE BoxAfter(n)[o] = BoxAfter(c)[o]
      OBVIOUS
    <3>1. o \in Boxes /\ (o \in n.flushed <=> o \in c.flushed)
      BY <2>2 DEF Live
    <3>2. o \in c.flushed => n.base[o] = c.base[o] /\ n.row[o] = c.row[o]
      BY <1>1, <2>2 DEF DbOK
    <3> QED
      BY <3>1, <3>2 DEF BoxAfter
  <2>4. \A o \in Live : DomainOf[o] = d =>
           \/ o \in n.flushed /\ n.row[o].health = "paused"
           \/ BoxAfter(n)[o].health = "paused"
    BY <1>5, <2>2, <2>3
  <2>5. \A o \in Boxes : DomainOf[o] # d =>
           /\ o \in DOMAIN n.row <=> o \in DOMAIN db.row
           /\ o \in n.flushed <=> o \in db.flushed
           /\ o \in DOMAIN db.row => n.row[o] = db.row[o]
    BY <1>1, <1>3, <1>4, <2>2
  <2>6. /\ DOMAIN db.row \subseteq DOMAIN n.row /\ db.flushed \subseteq n.flushed
        /\ \A o \in DOMAIN db.row : n.base[o] = db.base[o]
        /\ \A o \in DOMAIN n.row \ DOMAIN db.row : n.base[o] = box[o]
        /\ n.bumps = [db.bumps EXCEPT ![d] = @ + 1]
    BY <1>1, <2>2
  <2> QED
    BY <2>2, <2>4, <2>5, <2>6 DEF BounceFacts, n
<1> QED
  BY <1>6, <1>7

LEMMA BounceDoes ==
    ASSUME Typed, NEW s \in Pollers, NEW b \in Boxes, Bounce(s, b)
    PROVE  /\ SessionsTyped' /\ Elsewhere(s)
           /\ session[s].pc = "open" /\ session'[s].pc = "open" /\ b \in Holds(s)
           /\ BounceFacts(s, b, DomainOf[b], session[s].db, session'[s].db)
           /\ LockedDomain(DomainOf[b]) \subseteq {s}
           /\ UNCHANGED box
<1> DEFINE db == BouncedIn(session[s].db, b)
           r == [session[s] EXCEPT !.db = db]
<1>0. s \in Sessions /\ s \notin Sending
  BY DEF Sessions, Sending
<1>1. /\ session[s].pc = "open" /\ b \in Holds(s) /\ LockedDomain(DomainOf[b]) \subseteq {s}
      /\ Step(s, r) /\ UNCHANGED box
  BY DEF Bounce, Unsent
<1>2. session[s] \in Session /\ SessionOK(s, session[s]) /\ session[s].db \in Db
  BY <1>0, Fields
<1>3. DbOK(session[s].db) /\ b \in DOMAIN session[s].db.row
  BY <1>1, <1>2 DEF SessionOK, Holds
<1>4. BounceFacts(s, b, DomainOf[b], session[s].db, db)
  BY <1>2, <1>3, BouncedInDoes
<1> HIDE DEF db
<1>5. db \in Db /\ DbOK(db)
  BY <1>4 DEF BounceFacts
<1>6. r \in Session /\ r.pc = "open" /\ r.db = db
  BY <1>1, <1>2, <1>5 DEF Session
<1> HIDE DEF r
<1>7. SessionOK(s, r)
  BY <1>5, <1>6 DEF SessionOK, SendPC
<1>8. SessionsTyped' /\ session'[s] = r /\ Elsewhere(s)
  BY <1>0, <1>1, <1>6, <1>7, OneMoves
<1> QED
  BY <1>1, <1>4, <1>6, <1>8

LEMMA PollCommitDoes ==
    ASSUME Typed, NEW s \in Pollers, PollCommit(s)
    PROVE  /\ SessionsTyped' /\ Elsewhere(s)
           /\ session'[s].pc = "closed" /\ session'[s].db = NoRows
           /\ box' = BoxAfter(session[s].db) /\ box' \in [Boxes -> Row]
           /\ bounced' \in [Boxes -> Nat]
           /\ stat' \in [Domains -> [sends : Nat, bounces : Nat]]
           /\ \A d \in Domains :
                 stat'[d].bounces = stat[d].bounces + session[s].db.bumps[d]
           /\ \A b \in Boxes : bounced'[b] = IF b \in Holds(s)
                 THEN bounced[b] + (session[s].db.row[b].hard - session[s].db.base[b].hard)
                 ELSE bounced[b]
           /\ excused' \subseteq Boxes
<1> DEFINE db == session[s].db
<1>0. s \in Sessions
  BY DEF Sessions
<1>1. SessionsTyped' /\ Elsewhere(s) /\ session'[s].pc = "closed" /\ session'[s].db = NoRows
  BY <1>0, Closes DEF PollCommit
<1>2. SessionOK(s, session[s]) /\ db \in Db /\ db.bumps \in [Domains -> Nat]
  BY <1>0, Fields
<1>3. DbOK(db)
  BY <1>2 DEF SessionOK
<1>4. box' = BoxAfter(db)
  BY DEF PollCommit
<1>5. \A b \in Boxes : BoxAfter(db)[b] \in Row
  BY <1>2, <1>3, AfterRow
<1>6. box' \in [Boxes -> Row]
  BY <1>4, <1>5 DEF BoxAfter
<1>7. \A b \in Boxes : bounced'[b] = IF b \in Holds(s)
         THEN bounced[b] + (db.row[b].hard - db.base[b].hard) ELSE bounced[b]
  BY DEF PollCommit
<1>8. \A b \in Holds(s) : db.row[b].hard \in Nat /\ db.base[b].hard \in Nat
  BY <1>0, Fields DEF Row
<1>9. \A b \in Holds(s) : db.row[b].hard >= db.base[b].hard
  BY <1>3 DEF DbOK, Writes, Holds
<1>10. \A b \in Boxes : bounced[b] \in Nat
  BY DEF Typed
<1> HIDE DEF db
<1>11. \A b \in Boxes : bounced'[b] \in Nat
  BY <1>7, <1>8, <1>9, <1>10
<1>12. bounced' \in [Boxes -> Nat]
  BY <1>11 DEF PollCommit
<1>13. stat' = [d \in Domains |-> [stat[d] EXCEPT !.bounces = @ + db.bumps[d]]]
  BY DEF PollCommit, db
<1>14. \A d \in Domains : stat[d] \in [sends : Nat, bounces : Nat] /\ db.bumps[d] \in Nat
  BY <1>2 DEF Typed
<1>15. /\ stat' \in [Domains -> [sends : Nat, bounces : Nat]]
       /\ \A d \in Domains : stat'[d].bounces = stat[d].bounces + db.bumps[d]
  BY <1>13, <1>14
<1>16. excused' \subseteq Boxes
  BY DEF PollCommit, Typed
<1> QED
  BY <1>1, <1>4, <1>6, <1>7, <1>12, <1>15, <1>16 DEF db

LEMMA FreshRow ==
    ASSUME NEW r \in Row
    PROVE  /\ Fresh(r) \in Row /\ Fresh(r).sent = 0 /\ Fresh(r).hard = 0
           /\ Fresh(r).health = IF r.health = "degraded" THEN "ok" ELSE r.health
           /\ Fresh(r).state = r.state /\ Fresh(r).limit = r.limit
<1> DEFINE h == IF r.health = "degraded" THEN "ok" ELSE r.health
           g == IF r.stage < 4 THEN r.stage + 1 ELSE r.stage
           A1 == [r EXCEPT !.sent = 0, !.hard = 0]
           A2 == [A1 EXCEPT !.health = h]
           A3 == [A2 EXCEPT !.stage = g]
<1>1. h \in {"ok", "degraded", "paused"} /\ g \in 0..4
  BY DEF Row
<1>2. Fresh(r) = [r EXCEPT !.sent = 0, !.hard = 0, !.health = h, !.stage = g]
  BY DEF Fresh, Row
<1> HIDE DEF h, g
<1>3. Fresh(r) = A3
  BY <1>2
<1>4. A1 \in Row /\ A1.sent = 0 /\ A1.hard = 0 /\ A1.state = r.state /\ A1.limit = r.limit
  BY DEF Row
<1> HIDE DEF A1
<1>5. /\ A2 \in Row /\ A2.sent = 0 /\ A2.hard = 0 /\ A2.state = r.state /\ A2.limit = r.limit
      /\ A2.health = h
  BY <1>1, <1>4 DEF Row
<1> HIDE DEF A2
<1>6. /\ A3 \in Row /\ A3.sent = 0 /\ A3.hard = 0 /\ A3.state = r.state /\ A3.limit = r.limit
      /\ A3.health = h
  BY <1>1, <1>5 DEF Row
<1> QED
  BY <1>3, <1>6 DEF h

LEMMA ResetCommitDoes ==
    ASSUME Typed, ResetCommit
    PROVE  /\ SessionsTyped' /\ Elsewhere(Resetter)
           /\ session'[Resetter].pc = "closed" /\ session'[Resetter].db = NoRows
           /\ box' \in [Boxes -> Row]
           /\ \A b \in Boxes \ Holds(Resetter) : box'[b] = box[b]
           /\ \A b \in Holds(Resetter) :
                 LET p == session[Resetter].db.base[b]
                     h == IF p.health = "degraded" THEN "ok" ELSE p.health
                 IN  /\ box'[b].state = box[b].state
                     /\ box'[b].sent = IF p.sent # 0 THEN 0 ELSE box[b].sent
                     /\ box'[b].hard = IF p.hard # 0 THEN 0 ELSE box[b].hard
                     /\ box'[b].health = IF h # p.health THEN h ELSE box[b].health
           /\ mailed' \in [Boxes -> Nat] /\ uncounted' \in [Boxes -> Nat]
           /\ bounced' \in [Boxes -> Nat]
<1>0. Resetter \in Sessions /\ Resetter \notin Pollers
  BY DEF Sessions
<1>1. /\ SessionsTyped' /\ Elsewhere(Resetter)
      /\ session'[Resetter].pc = "closed" /\ session'[Resetter].db = NoRows
  BY <1>0, Closes DEF ResetCommit
<1>2. \A b \in Holds(Resetter) :
         /\ b \in Boxes /\ session[Resetter].db.base[b] \in Row
         /\ session[Resetter].db.row[b] = session[Resetter].db.base[b]
  <2>1. SessionOK(Resetter, session[Resetter])
    BY <1>0, Fields
  <2>2. \A b \in Holds(Resetter) : session[Resetter].db.row[b] = session[Resetter].db.base[b]
    BY <1>0, <2>1 DEF SessionOK, DbOK, Holds
  <2> QED
    BY <1>0, <2>2, Fields
<1>3. \A b \in Boxes : box[b] \in Row
  BY DEF Typed
<1>4. /\ box' = [b \in Boxes |-> IF b \notin Holds(Resetter) THEN box[b]
           ELSE Written(box[b], session[Resetter].db.base[b], Fresh(session[Resetter].db.row[b]))]
      /\ mailed' = [b \in Boxes |-> IF b \in Holds(Resetter) THEN 0 ELSE mailed[b]]
      /\ uncounted' = [b \in Boxes |-> IF b \in Holds(Resetter) THEN 0 ELSE uncounted[b]]
      /\ bounced' = [b \in Boxes |-> IF b \in Holds(Resetter) THEN 0 ELSE bounced[b]]
  BY DEF ResetCommit
<1>5. ASSUME NEW b \in Holds(Resetter)
      PROVE  LET p == session[Resetter].db.base[b]
                 h == IF p.health = "degraded" THEN "ok" ELSE p.health
             IN  /\ box'[b].state = box[b].state
                 /\ box'[b].sent = IF p.sent # 0 THEN 0 ELSE box[b].sent
                 /\ box'[b].hard = IF p.hard # 0 THEN 0 ELSE box[b].hard
                 /\ box'[b].health = IF h # p.health THEN h ELSE box[b].health
                 /\ box'[b] \in Row
  <2> DEFINE p == session[Resetter].db.base[b]
             f == Fresh(p)
  <2>1. p \in Row /\ box[b] \in Row /\ box'[b] = Written(box[b], p, f)
    BY <1>2, <1>3, <1>4
  <2>2. /\ f \in Row /\ f.sent = 0 /\ f.hard = 0 /\ f.state = p.state
        /\ f.health = IF p.health = "degraded" THEN "ok" ELSE p.health
    BY <2>1, FreshRow
  <2> HIDE DEF p, f
  <2>3. /\ box'[b] \in Row
        /\ box'[b].state = IF f.state # p.state THEN f.state ELSE box[b].state
        /\ box'[b].sent = IF f.sent # p.sent THEN f.sent ELSE box[b].sent
        /\ box'[b].hard = IF f.hard # p.hard THEN f.hard ELSE box[b].hard
        /\ box'[b].health = IF f.health # p.health THEN f.health ELSE box[b].health
    BY <2>1, <2>2, WrittenRow
  <2> QED
    BY <2>2, <2>3 DEF p
<1>6. \A b \in Boxes \ Holds(Resetter) : box'[b] = box[b]
  BY <1>4
<1>7. box' \in [Boxes -> Row]
  BY <1>3, <1>4, <1>5, <1>6
<1>8. /\ mailed' \in [Boxes -> Nat] /\ uncounted' \in [Boxes -> Nat]
      /\ bounced' \in [Boxes -> Nat]
  BY <1>4 DEF Typed
<1> QED
  BY <1>1, <1>5, <1>6, <1>7, <1>8

LEMMA NewDayDoes ==
    ASSUME Typed, NewDay
    PROVE  /\ SessionsTyped'
           /\ \A s \in Sessions :
                 /\ session'[s].pc = session[s].pc /\ session'[s].box = session[s].box
                 /\ session'[s].todo = session[s].todo
                 /\ session'[s].db.base = session[s].db.base
                 /\ session'[s].db.row = session[s].db.row
                 /\ session'[s].db.flushed = session[s].db.flushed
                 /\ \A d \in Domains : session'[s].db.bumps[d] = 0
<1> DEFINE zero == [d \in Domains |-> 0]
<1>1. session' = [s \in Sessions |-> [session[s] EXCEPT !.db.bumps = zero]]
  BY DEF NewDay
<1>2. zero \in [Domains -> Nat] /\ \A d \in Domains : zero[d] = 0
  OBVIOUS
<1> HIDE DEF zero
<1>3. ASSUME NEW s \in Sessions
      PROVE  /\ session'[s] \in Session
             /\ session'[s].pc = session[s].pc /\ session'[s].box = session[s].box
             /\ session'[s].todo = session[s].todo
             /\ session'[s].db.base = session[s].db.base
             /\ session'[s].db.row = session[s].db.row
             /\ session'[s].db.flushed = session[s].db.flushed
             /\ session'[s].db.bumps = zero
  <2> DEFINE r == session[s]
             db == session[s].db
             n == [db EXCEPT !.bumps = zero]
  <2>1. r \in Session /\ db \in Db
    BY Fields
  <2>2. /\ n \in Db /\ n.bumps = zero /\ n.base = db.base /\ n.row = db.row
        /\ n.flushed = db.flushed
    BY <1>2, <2>1 DEF Db
  <2>3. session'[s] = [r EXCEPT !.db = n]
    BY <1>1
  <2> HIDE DEF r, n
  <2>4. /\ session'[s] \in Session /\ session'[s].pc = r.pc /\ session'[s].box = r.box
        /\ session'[s].todo = r.todo /\ session'[s].db = n
    BY <2>1, <2>2, <2>3 DEF Session
  <2> QED
    BY <2>2, <2>4 DEF r
<1>4. session' \in [Sessions -> Session]
  BY <1>1, <1>3
<1>5. \A s \in Sessions : SessionOK(s, session'[s])
  <2> SUFFICES ASSUME NEW s \in Sessions PROVE SessionOK(s, session'[s])
    OBVIOUS
  <2>1. SessionOK(s, session[s])
    BY Fields
  <2> QED
    BY <1>2, <1>3, <2>1 DEF SessionOK, DbOK
<1> QED
  BY <1>2, <1>3, <1>4, <1>5 DEF SessionsTyped

-----------------------------------------------------------------------------
(* The budget, the placement results, and the operator's edits              *)

LEMMA Spends ==
    ASSUME Typed, NEW k \in Bounded, k # "event", Spend(k)
    PROVE  left' \in [Bounded -> Nat]
<1>1. left \in [Bounded -> Nat] /\ "event" \in Bounded
  BY DEF Typed, Bounded
<1>2. left[k] > 0 /\ (k \in Events => left["event"] > 0)
  BY DEF Spend
<1>4. left' = [left EXCEPT ![k] = @ - 1, !["event"] = IF k \in Events THEN @ - 1 ELSE @]
  BY DEF Spend
<1> QED
  BY <1>1, <1>2, <1>4

PlacementTyped ==
    placement \in [status : {"none", "running", "complete", "failed"},
                   result : [Seeds -> Result]]

LEMMA RecordedDoes ==
    ASSUME Typed, Seed \in Seeds, NEW delivered \in BOOLEAN, Recorded(delivered)
    PROVE  /\ PlacementTyped' /\ placement'.status = placement.status
           /\ \A e \in Seeds \ {Seed} : placement'.result[e] = placement.result[e]
           /\ placement'.result[Seed].error = ~delivered
           /\ placement'.result[Seed].delivered = (placement.result[Seed].delivered \/ delivered)
           /\ placement'.result[Seed].verdict = placement.result[Seed].verdict
<1> DEFINE e == Seed
           res == placement.result
           q == res[e]
           n == [q EXCEPT !.error = ~delivered, !.delivered = @ \/ delivered]
<1>1. res \in [Seeds -> Result] /\ q \in Result /\ PlacementTyped
  BY DEF Typed, PlacementTyped
<1>2. /\ n \in Result /\ n.error = ~delivered /\ n.delivered = (q.delivered \/ delivered)
      /\ n.verdict = q.verdict
  BY <1>1 DEF Result
<1>3. /\ placement'.result = [res EXCEPT ![e] = n]
      /\ placement'.status = placement.status
  BY <1>1 DEF Recorded, PlacementTyped
<1> HIDE DEF n, e
<1>4. placement'.result \in [Seeds -> Result] /\ placement'.result[e] = n
  BY <1>1, <1>2, <1>3 DEF e
<1>5. PlacementTyped'
  BY <1>1, <1>3, <1>4 DEF Recorded, PlacementTyped
<1> QED
  BY <1>1, <1>2, <1>3, <1>4, <1>5 DEF e

LEMMA MarkDoes ==
    ASSUME Typed, NEW m \in Seeds, Mark(m)
    PROVE  /\ PlacementTyped' /\ placement'.status = placement.status
           /\ \A e \in Seeds \ {m} : placement'.result[e] = placement.result[e]
           /\ placement'.result[m].verdict = "marked"
           /\ placement'.result[m].delivered = placement.result[m].delivered
<1> DEFINE q == placement.result[m]
           n == [q EXCEPT !.verdict = "marked"]
<1>1. placement.result \in [Seeds -> Result] /\ q \in Result /\ PlacementTyped
  BY DEF Typed, PlacementTyped
<1>2. n \in Result /\ n.verdict = "marked" /\ n.delivered = q.delivered
  BY <1>1 DEF Result
<1>3. /\ placement'.result = [placement.result EXCEPT ![m] = n]
      /\ placement'.status = placement.status
  BY <1>1 DEF Mark, PlacementTyped
<1> HIDE DEF n
<1>4. placement'.result \in [Seeds -> Result] /\ placement'.result[m] = n
  BY <1>1, <1>2, <1>3
<1>5. PlacementTyped'
  BY <1>1, <1>3, <1>4 DEF Mark, PlacementTyped
<1> QED
  BY <1>1, <1>2, <1>3, <1>4, <1>5

LEMMA AddDoes ==
    ASSUME Typed, NEW b \in Boxes, AddMailbox(b)
    PROVE  /\ box' \in [Boxes -> Row] /\ \A o \in Boxes \ {b} : box'[o] = box[o]
           /\ box'[b].sent = box[b].sent /\ box'[b].hard = box[b].hard
           /\ box'[b].health = box[b].health
           /\ excused' = excused \cup {b}
<1>1. box \in [Boxes -> Row] /\ box[b] \in Row
  BY DEF Typed
<1>2. box' = [box EXCEPT ![b].state = "live"] /\ excused' = excused \cup {b}
  BY DEF AddMailbox
<1> QED
  BY <1>1, <1>2 DEF Row

LEMMA EditDoes ==
    ASSUME Typed, NEW b \in Boxes, Edit(b)
    PROVE  /\ box' \in [Boxes -> Row] /\ \A o \in Boxes \ {b} : box'[o] = box[o]
           /\ box'[b].sent = box[b].sent /\ box'[b].hard = box[b].hard
           /\ box'[b].state = box[b].state
           /\ \/ box'[b].health = "paused" /\ excused' = excused \ {b}
              \/ excused' = excused \cup {b}
              \/ box'[b].health = box[b].health /\ excused' = excused
<1>1. box \in [Boxes -> Row] /\ box[b] \in Row
  BY DEF Typed
<1>2. \/ \E h \in {"ok", "degraded", "paused"} :
            /\ box' = [box EXCEPT ![b].health = h]
            /\ excused' = IF h = "paused" THEN excused \ {b} ELSE excused \cup {b}
      \/ (\E n \in DailyLimits : box' = [box EXCEPT ![b].limit = n]) /\ excused' = excused
  BY DEF Edit
<1>3. ASSUME NEW h \in {"ok", "degraded", "paused"},
             box' = [box EXCEPT ![b].health = h],
             excused' = IF h = "paused" THEN excused \ {b} ELSE excused \cup {b}
      PROVE  /\ box' \in [Boxes -> Row] /\ \A o \in Boxes \ {b} : box'[o] = box[o]
             /\ box'[b].sent = box[b].sent /\ box'[b].hard = box[b].hard
             /\ box'[b].state = box[b].state
             /\ \/ box'[b].health = "paused" /\ excused' = excused \ {b}
                \/ excused' = excused \cup {b}
  BY <1>1, <1>3 DEF Row
<1>4. ASSUME NEW n \in DailyLimits, box' = [box EXCEPT ![b].limit = n], excused' = excused
      PROVE  /\ box' \in [Boxes -> Row] /\ \A o \in Boxes \ {b} : box'[o] = box[o]
             /\ box'[b].sent = box[b].sent /\ box'[b].hard = box[b].hard
             /\ box'[b].state = box[b].state
             /\ box'[b].health = box[b].health /\ excused' = excused
  BY <1>1, <1>4 DEF Row
<1> QED
  BY <1>2, <1>3, <1>4

-----------------------------------------------------------------------------
(* Types                                                                   *)

LEMMA SendersTyped ==
    ASSUME Typed, NEW s \in Sending,
           \/ Start(s) \/ Pick(s) \/ ReadSlot(s) \/ TakeSlot(s) \/ Blocked(s)
           \/ LostReply(s) \/ Deliver(s) \/ Finalize(s)
    PROVE  /\ box' \in [Boxes -> Row]
           /\ stat' \in [Domains -> [sends : Nat, bounces : Nat]]
           /\ slot' \subseteq Boxes /\ PlacementTyped' /\ SessionsTyped'
           /\ mailed' \in [Boxes -> Nat] /\ uncounted' \in [Boxes -> Nat]
           /\ bounced' \in [Boxes -> Nat] /\ passes' \in [Boxes -> Nat]
           /\ mails' \in [Seeds -> Nat]
           /\ excused' \subseteq Boxes /\ left' \in [Bounded -> Nat]
<1>0. s \in Sessions /\ PlacementTyped
  BY DEF Sessions, Sending, Typed, PlacementTyped
<1>1. CASE Start(s)
  BY <1>0, <1>1, StartDoes DEF Start, Others, Typed, PlacementTyped
<1>2. CASE Pick(s)
  BY <1>0, <1>2, PickDoes DEF Pick, Others, Typed, PlacementTyped
<1>3. CASE ReadSlot(s)
  BY <1>0, <1>3, ReadSlotDoes DEF ReadSlot, Others, Typed, PlacementTyped
<1>4. CASE TakeSlot(s)
  <2>1. session[s].box \in Boxes
    BY <1>0, <1>4, Fields DEF TakeSlot, SessionOK, SendPC, Holds
  <2>2. slot' \subseteq Boxes /\ passes' \in [Boxes -> Nat]
    BY <1>4, <2>1 DEF TakeSlot, Typed
  <2> QED
    BY <1>0, <1>4, <2>2, TakeSlotDoes DEF TakeSlot, Others, Typed, PlacementTyped
<1>5. ASSUME GaveUp(s) PROVE PlacementTyped'
  <2>1. CASE s # Placer
    BY <1>0, <1>5, <2>1 DEF GaveUp, PlacementTyped
  <2>2. CASE s = Placer
    <3>1. Recorded(FALSE) /\ Seed \in Seeds
      BY <1>5, <2>2, SeedInHand DEF GaveUp
    <3> QED
      BY <3>1, RecordedDoes
  <2> QED
    BY <2>1, <2>2
<1>6. CASE Blocked(s)
  BY <1>0, <1>5, <1>6, BlockedDoes DEF Blocked, Others, Typed, GaveUp
<1>8. ASSUME session[s].box \in Boxes, Out(s)
      PROVE  /\ mailed' \in [Boxes -> Nat] /\ mails' \in [Seeds -> Nat]
             /\ left' \in [Bounded -> Nat]
  <2>1. mailed' \in [Boxes -> Nat]
    BY <1>8 DEF Out, Typed
  <2>2. mails \in [Seeds -> Nat] /\ (mails' = mails \/ mails' = [mails EXCEPT ![Seed] = @ + 1])
    BY <1>8 DEF Out, Typed
  <2>3. left' \in [Bounded -> Nat]
    BY <1>8, Spends DEF Out, Bounded
  <2> QED
    BY <2>1, <2>2, <2>3
<1>9. CASE LostReply(s)
  <2>1. session[s].box \in Boxes /\ GaveUp(s) /\ Out(s)
    BY <1>9, LostReplyDoes DEF LostReply
  <2>2. uncounted' \in [Boxes -> Nat]
    BY <1>9, LostReplyDoes DEF Typed
  <2> QED
    BY <1>5, <1>8, <1>9, <2>1, <2>2 DEF LostReply, Typed, GaveUp
<1>10. CASE Deliver(s)
  <2>1. session[s].box \in Boxes
    BY <1>0, <1>10, Fields DEF Deliver, SessionOK, SendPC, Holds
  <2> QED
    BY <1>0, <1>8, <1>10, <2>1, DeliverDoes DEF Deliver, Others, Typed, PlacementTyped
<1>7. CASE Finalize(s)
  <2>1. /\ SessionsTyped' /\ stat' \in [Domains -> [sends : Nat, bounces : Nat]]
        /\ session[s].box \in Boxes /\ box'[session[s].box] \in Row
        /\ \A b \in Boxes \ {session[s].box} : box'[b] = box[b]
    BY <1>7, FinalizeDoes
  <2>2. box' \in [Boxes -> Row]
    <3>1. box \in [Boxes -> Row]
      BY DEF Typed
    <3>2. \A b \in Boxes : box'[b] \in Row
      BY <2>1, <3>1
    <3>3. \E x : box' = [box EXCEPT ![session[s].box] = x]
      BY <1>7 DEF Finalize
    <3> QED
      BY <3>1, <3>2, <3>3
  <2>3. PlacementTyped'
    <3>1. CASE s # Placer
      BY <1>0, <1>7, <3>1 DEF Finalize, PlacementTyped
    <3>2. CASE s = Placer
      <4>1. Recorded(TRUE)
        BY <1>7, <3>2, FinalizeDoes DEF NextSeed
      <4>2. CASE Seed \in Seeds
        BY <4>1, <4>2, RecordedDoes
      <4>3. CASE Seed \notin Seeds
        BY <1>0, <4>1, <4>3 DEF Recorded, PlacementTyped
      <4> QED
        BY <4>2, <4>3
    <3> QED
      BY <3>1, <3>2
  <2> QED
    BY <1>7, <2>1, <2>2, <2>3 DEF Finalize, Others, Typed
<1> QED
  BY <1>1, <1>2, <1>3, <1>4, <1>6, <1>7, <1>9, <1>10

LEMMA OthersTyped ==
    ASSUME Typed,
           \/ \E b \in Boxes : SlotExpires(b) \/ AddMailbox(b) \/ Edit(b)
           \/ StartPlacement \/ RunPlacement \/ PlacementDone \/ \E e \in Seeds : Mark(e)
           \/ \E s \in Pollers : Poll(s) \/ PollCommit(s) \/ \E b \in Boxes : Bounce(s, b)
           \/ ResetStart \/ ResetCommit \/ NewDay
           \/ \E s \in Sessions : Die(s)
    PROVE  /\ box' \in [Boxes -> Row]
           /\ stat' \in [Domains -> [sends : Nat, bounces : Nat]]
           /\ slot' \subseteq Boxes /\ PlacementTyped' /\ SessionsTyped'
           /\ mailed' \in [Boxes -> Nat] /\ uncounted' \in [Boxes -> Nat]
           /\ bounced' \in [Boxes -> Nat] /\ passes' \in [Boxes -> Nat]
           /\ mails' \in [Seeds -> Nat]
           /\ excused' \subseteq Boxes /\ left' \in [Bounded -> Nat]
<1>0. PlacementTyped /\ SessionsTyped
  BY DEF Typed, PlacementTyped
<1>00. session' = session => SessionsTyped'
  BY <1>0 DEF SessionsTyped
<1>01. placement' = placement => PlacementTyped'
  BY <1>0 DEF PlacementTyped
<1>1. ASSUME NEW b \in Boxes, SlotExpires(b) PROVE
        /\ slot' \subseteq Boxes /\ PlacementTyped' /\ SessionsTyped' /\ passes' \in [Boxes -> Nat]
        /\ UNCHANGED <<box, stat, mailed, uncounted, bounced, mails, excused, left>>
  BY <1>00, <1>01, <1>1 DEF SlotExpires, Others, Typed
<1>2. ASSUME NEW b \in Boxes, AddMailbox(b) PROVE
        /\ box' \in [Boxes -> Row] /\ PlacementTyped' /\ SessionsTyped'
        /\ excused' \subseteq Boxes /\ left' \in [Bounded -> Nat]
        /\ UNCHANGED <<stat, slot, mailed, uncounted, bounced, passes, mails>>
  <2>1. left' \in [Bounded -> Nat]
    BY <1>2, Spends DEF AddMailbox, Bounded, Events
  <2> QED
    BY <1>00, <1>01, <1>2, <2>1, AddDoes DEF AddMailbox, Unsent, Typed
<1>3. ASSUME NEW b \in Boxes, Edit(b) PROVE
        /\ box' \in [Boxes -> Row] /\ PlacementTyped' /\ SessionsTyped'
        /\ excused' \subseteq Boxes /\ left' \in [Bounded -> Nat]
        /\ UNCHANGED <<stat, slot, mailed, uncounted, bounced, passes, mails>>
  <2>1. left' \in [Bounded -> Nat]
    BY <1>3, Spends DEF Edit, Bounded, Events
  <2> QED
    BY <1>00, <1>01, <1>3, <2>1, EditDoes DEF Edit, Unsent, Typed
<1>4. ASSUME StartPlacement PROVE
        /\ PlacementTyped' /\ SessionsTyped' /\ left' \in [Bounded -> Nat]
        /\ UNCHANGED <<box, stat, slot, mailed, uncounted, bounced, passes, mails, excused>>
  <2>1. left' \in [Bounded -> Nat]
    BY <1>4, Spends DEF StartPlacement, Bounded, Events
  <2> QED
    BY <1>0, <1>00, <1>4, <2>1 DEF StartPlacement, Sent, Others, PlacementTyped
<1>5. ASSUME RunPlacement \/ PlacementDone PROVE
        /\ PlacementTyped' /\ SessionsTyped'
        /\ UNCHANGED <<box, stat, slot, mailed, uncounted, bounced, passes, mails, excused, left>>
  BY <1>0, <1>01, <1>5, PlacementDoes DEF RunPlacement, PlacementDone, Sent, Others, PlacementTyped
<1>6. ASSUME NEW e \in Seeds, Mark(e) PROVE
        /\ PlacementTyped' /\ SessionsTyped'
        /\ UNCHANGED <<box, stat, slot, mailed, uncounted, bounced, passes, mails, excused, left>>
  BY <1>00, <1>6, MarkDoes DEF Mark, Sent, Others
<1>7. ASSUME NEW s \in Pollers, Poll(s) PROVE
        /\ PlacementTyped' /\ SessionsTyped'
        /\ UNCHANGED <<box, stat, slot, mailed, uncounted, bounced, passes, mails, excused, left>>
  BY <1>01, <1>7, PollDoes DEF Poll, Unsent, Others
<1>8. ASSUME NEW s \in Pollers, PollCommit(s) PROVE
        /\ PlacementTyped' /\ SessionsTyped' /\ box' \in [Boxes -> Row]
        /\ stat' \in [Domains -> [sends : Nat, bounces : Nat]]
        /\ bounced' \in [Boxes -> Nat] /\ excused' \subseteq Boxes
        /\ UNCHANGED <<slot, mailed, uncounted, passes, mails, left>>
  BY <1>01, <1>8, PollCommitDoes DEF PollCommit, Unsent
<1>9. ASSUME NEW s \in Pollers, NEW b \in Boxes, Bounce(s, b) PROVE
        /\ PlacementTyped' /\ SessionsTyped' /\ left' \in [Bounded -> Nat]
        /\ UNCHANGED <<box, stat, slot, mailed, uncounted, bounced, passes, mails, excused>>
  <2>1. left' \in [Bounded -> Nat]
    BY <1>9, Spends DEF Bounce, Bounded
  <2> QED
    BY <1>01, <1>9, <2>1, BounceDoes DEF Bounce, Unsent, Others
<1>10. ASSUME ResetStart PROVE
        /\ PlacementTyped' /\ SessionsTyped' /\ left' \in [Bounded -> Nat]
        /\ UNCHANGED <<box, stat, slot, mailed, uncounted, bounced, passes, mails, excused>>
  <2>1. left' \in [Bounded -> Nat]
    BY <1>10, Spends DEF ResetStart, Bounded, Events
  <2> QED
    BY <1>01, <1>10, <2>1, ResetStartDoes DEF ResetStart, Unsent, Others
<1>11. ASSUME ResetCommit PROVE
        /\ PlacementTyped' /\ SessionsTyped' /\ box' \in [Boxes -> Row]
        /\ mailed' \in [Boxes -> Nat] /\ uncounted' \in [Boxes -> Nat]
        /\ bounced' \in [Boxes -> Nat]
        /\ UNCHANGED <<stat, slot, passes, mails, excused, left>>
  BY <1>01, <1>11, ResetCommitDoes DEF ResetCommit
<1>12. ASSUME NewDay PROVE
        /\ PlacementTyped' /\ SessionsTyped' /\ left' \in [Bounded -> Nat]
        /\ stat' \in [Domains -> [sends : Nat, bounces : Nat]]
        /\ UNCHANGED <<box, slot, mailed, uncounted, bounced, passes, mails, excused>>
  <2>1. left' \in [Bounded -> Nat]
    BY <1>12, Spends DEF NewDay, Bounded, Events
  <2>2. stat' \in [Domains -> [sends : Nat, bounces : Nat]]
    BY <1>12 DEF NewDay
  <2> QED
    BY <1>01, <1>12, <2>1, <2>2, NewDayDoes DEF NewDay, Unsent, Others
<1>13. ASSUME NEW s \in Sessions, Die(s) PROVE
        /\ PlacementTyped' /\ SessionsTyped' /\ left' \in [Bounded -> Nat]
        /\ uncounted' \in [Boxes -> Nat]
        /\ UNCHANGED <<box, stat, slot, mailed, bounced, passes, mails, excused>>
  <2>1. left' \in [Bounded -> Nat]
    BY <1>13, Spends DEF Die, Bounded, Events
  <2>2. session[s].pc = "mailed" => session[s].box \in Boxes
    BY <1>13, Fields DEF SessionOK, SendPC, Holds
  <2>3. uncounted' \in [Boxes -> Nat]
    BY <1>13, <2>2 DEF Die, Typed
  <2> QED
    BY <1>01, <1>13, <2>1, <2>3, Closes DEF Die, Unsent
<1>14. /\ box \in [Boxes -> Row] /\ stat \in [Domains -> [sends : Nat, bounces : Nat]]
       /\ slot \subseteq Boxes /\ mailed \in [Boxes -> Nat] /\ uncounted \in [Boxes -> Nat]
       /\ bounced \in [Boxes -> Nat]
       /\ passes \in [Boxes -> Nat] /\ mails \in [Seeds -> Nat] /\ excused \subseteq Boxes
       /\ left \in [Bounded -> Nat]
  BY DEF Typed
<1>15. CASE \E b \in Boxes : SlotExpires(b) \/ AddMailbox(b) \/ Edit(b)
  BY <1>1, <1>2, <1>3, <1>14, <1>15
<1>16. CASE StartPlacement \/ RunPlacement \/ PlacementDone \/ \E e \in Seeds : Mark(e)
  BY <1>4, <1>5, <1>6, <1>14, <1>16
<1>17. CASE \E s \in Pollers : Poll(s) \/ PollCommit(s) \/ \E b \in Boxes : Bounce(s, b)
  BY <1>7, <1>8, <1>9, <1>14, <1>17
<1>18. CASE ResetStart \/ ResetCommit \/ NewDay \/ \E s \in Sessions : Die(s)
  BY <1>10, <1>11, <1>12, <1>13, <1>14, <1>18
<1> QED
  BY <1>15, <1>16, <1>17, <1>18

LEMMA HistoryTyped ==
    ASSUME Typed, Next
    PROVE  /\ disturbed' \in [sent : SUBSET Boxes, health : SUBSET Boxes] /\ died' \in Nat
           /\ disturbed.sent \subseteq disturbed'.sent
           /\ disturbed.health \subseteq disturbed'.health
           /\ died <= died'
<1>1. disturbed.sent \subseteq Boxes /\ disturbed.health \subseteq Boxes /\ died \in Nat
  BY DEF Typed
<1>2. \A S : Overlap(S) \subseteq Boxes
  BY DEF Overlap
<1> QED
  BY <1>1, <1>2 DEF Next

LEMMA TypedStep == Typed /\ Next => Typed'
<1> SUFFICES ASSUME Typed, Next PROVE Typed'
  OBVIOUS
<1>1. Act
  BY DEF Next
<1>2. /\ box' \in [Boxes -> Row]
      /\ stat' \in [Domains -> [sends : Nat, bounces : Nat]]
      /\ slot' \subseteq Boxes /\ PlacementTyped' /\ SessionsTyped'
      /\ mailed' \in [Boxes -> Nat] /\ uncounted' \in [Boxes -> Nat]
      /\ bounced' \in [Boxes -> Nat] /\ passes' \in [Boxes -> Nat] /\ mails' \in [Seeds -> Nat]
      /\ excused' \subseteq Boxes /\ left' \in [Bounded -> Nat]
  <2>1. CASE \E s \in Sending : \/ Start(s) \/ Pick(s) \/ ReadSlot(s) \/ TakeSlot(s)
                                \/ Blocked(s) \/ LostReply(s) \/ Deliver(s) \/ Finalize(s)
    BY <2>1, SendersTyped
  <2>2. CASE \/ \E b \in Boxes : SlotExpires(b) \/ AddMailbox(b) \/ Edit(b)
             \/ StartPlacement \/ RunPlacement \/ PlacementDone \/ \E e \in Seeds : Mark(e)
             \/ \E s \in Pollers : Poll(s) \/ PollCommit(s) \/ \E b \in Boxes : Bounce(s, b)
             \/ ResetStart \/ ResetCommit \/ NewDay
             \/ \E s \in Sessions : Die(s)
    BY <2>2, OthersTyped
  <2> QED
    BY <1>1, <2>1, <2>2 DEF Act
<1> QED
  BY <1>2, HistoryTyped DEF Typed, PlacementTyped

LEMMA TypedInit == Init => Typed
<1> SUFFICES ASSUME Init PROVE Typed
  OBVIOUS
<1>1. box \in [Boxes -> Row]
  BY DEF Init, Row
<1>2. \A s \in Sessions : session[s] = Closed
  BY DEF Init
<1>3. SessionsTyped
  BY <1>2, ClosedFits DEF Init, SessionsTyped
<1>4. placement \in [status : {"none", "running", "complete", "failed"},
                     result : [Seeds -> Result]]
  BY DEF Init, Result
<1> QED
  BY <1>1, <1>3, <1>4 DEF Init, Typed

LEMMA TypedStutter == Typed /\ UNCHANGED vars => Typed'
BY DEF Typed, vars, SessionsTyped

LEMMA TypedGives == Typed => TypeOK
<1> SUFFICES ASSUME Typed PROVE TypeOK
  OBVIOUS
<1>1. ASSUME NEW s \in Sessions
      PROVE  /\ session[s].pc \in {"closed", "open", "slot", "clear", "ready", "mailed"}
             /\ Holds(s) \subseteq Boxes /\ DOMAIN session[s].db.base = Holds(s)
             /\ \A b \in Holds(s) : session[s].db.row[b] \in Row /\ session[s].db.base[b] \in Row
             /\ session[s].db.flushed \subseteq Holds(s) /\ session[s].todo \subseteq Seeds
             /\ session[s].pc \in {"slot", "clear", "ready", "mailed"} =>
                   session[s].box \in Holds(s)
  <2>1. session[s] \in Session /\ SessionOK(s, session[s])
    BY Fields
  <2>2. session[s].pc \in {"closed", "open", "slot", "clear", "ready", "mailed"}
    BY <2>1 DEF Session, SendPC
  <2>3. session[s].pc \in SendPC => session[s].box \in Holds(s)
    BY <2>1 DEF SessionOK, Holds
  <2> QED
    BY <2>2, <2>3, Fields DEF SendPC
<1> QED
  BY <1>1 DEF Typed, TypeOK

(* Every mailbox, counter and session keeps its shape: a session that runs *)
(* holds the rows it works on, a locked row is one it loaded, and health   *)
(* and bounces are all a poll changes of a row (SQLAlchemy sessions).      *)
THEOREM MailboxesTyped == Spec => []TypeOK
BY TypedGives, TypedInit, TypedStep, TypedStutter, PTL DEF Spec

-----------------------------------------------------------------------------
(* Of a box that is not disturbed, one session at most has the row          *)

LEMMA OneAtMost ==
    ASSUME NEW S, IsFiniteSet(S), ~(Cardinality(S) > 1), NEW x \in S, NEW y \in S
    PROVE  x = y
<1> SUFFICES ASSUME x # y PROVE FALSE
  OBVIOUS
<1>1. IsFiniteSet(S \ {x}) /\ Cardinality(S \ {x}) = Cardinality(S) - 1
  BY FS_RemoveElement
<1>2. Cardinality(S) \in Nat /\ Cardinality(S \ {x}) \in Nat
  BY <1>1, FS_CardinalityType
<1>3. Cardinality(S \ {x}) # 0
  BY <1>1, FS_EmptySet
<1> QED
  BY <1>1, <1>2, <1>3

LEMMA Finite == IsFiniteSet(Counting) /\ IsFiniteSet(Judging)
<1>1. IsFiniteSet(Senders \cup {Placer})
  BY FS_AddElement
<1>2. IsFiniteSet((Senders \cup {Placer}) \cup {Resetter}) /\ IsFiniteSet(Pollers \cup {Resetter})
  BY <1>1, FS_AddElement
<1> QED
  BY <1>2 DEF Counting, Judging, Sending

LEMMA AloneAfter ==
    ASSUME NEW S, IsFiniteSet(S), NEW b \in Boxes, b \notin Overlap(S)
    PROVE  Alone(S, b)' /\ (Edit(b) => \A s \in S : b \notin Holds(s))
<1>1. ~(Cardinality({s \in S : b \in Holds(s)'}) > 1)
  BY DEF Overlap
<1>2. IsFiniteSet({s \in S : b \in Holds(s)'})
  BY FS_Subset
<1>3. ASSUME NEW s \in S, NEW t \in S, b \in Holds(s)', b \in Holds(t)' PROVE s = t
  BY <1>1, <1>2, <1>3, OneAtMost
<1> QED
  BY <1>3 DEF Alone, Overlap

LEMMA Undisturbed ==
    ASSUME Typed, Next
    PROVE  /\ \A b \in Boxes \ disturbed'.sent :
                 /\ b \in Boxes \ disturbed.sent /\ Alone(Counting, b)'
                 /\ Edit(b) => \A s \in Counting : b \notin Holds(s)
           /\ \A b \in Boxes \ disturbed'.health :
                 /\ b \in Boxes \ disturbed.health /\ Alone(Judging, b)'
                 /\ Edit(b) => \A s \in Judging : b \notin Holds(s)
<1>1. /\ disturbed'.sent = disturbed.sent \cup Overlap(Counting)
      /\ disturbed'.health = disturbed.health \cup Overlap(Judging)
  BY DEF Next, Counting, Judging
<1>2. ASSUME NEW b \in Boxes \ disturbed'.sent
      PROVE  b \in Boxes \ disturbed.sent /\ b \notin Overlap(Counting)
  BY <1>1
<1>3. ASSUME NEW b \in Boxes \ disturbed'.health
      PROVE  b \in Boxes \ disturbed.health /\ b \notin Overlap(Judging)
  BY <1>1
<1> QED
  BY <1>2, <1>3, AloneAfter, Finite

-----------------------------------------------------------------------------
(* Mails are counted                                                       *)

LEMMA SentInit == Init => SentInv
<1> SUFFICES ASSUME Init PROVE SentInv
  OBVIOUS
<1>1. \A s \in Sessions : session[s].pc = "closed" /\ Holds(s) = {}
  BY ClosedFits, Nothing DEF Init, Holds
<1>2. Sending \subseteq Sessions /\ Counting \subseteq Sessions
  BY DEF Sending, Counting, Sessions
<1>3. \A b \in Boxes : Cardinality(Unrecorded(b)) = 0
  <2>1. \A b \in Boxes : Unrecorded(b) = {}
    BY <1>1, <1>2 DEF Unrecorded
  <2> QED
    BY <2>1, FS_EmptySet
<1>4. \A b \in Boxes : mailed[b] = 0 /\ uncounted[b] = 0 /\ box[b].sent = 0 /\ passes[b] = 0
  BY DEF Init
<1>5. \A b \in Boxes : SentExact(b)
  BY <1>1, <1>2, <1>3, <1>4 DEF SentExact
<1>6. \A b \in Boxes : Alone(Counting, b) /\ SlotExact(b)
  BY <1>1, <1>2, <1>4 DEF Alone, SlotExact
<1>7. \A s \in Sending : Picked(s)
  BY <1>1, <1>2 DEF Picked
<1> QED
  BY <1>4, <1>5, <1>6, <1>7 DEF SentInv

LEMMA Who ==
    /\ Sending \subseteq Sessions /\ Counting \subseteq Sessions /\ Judging \subseteq Sessions
    /\ Sending \subseteq Counting /\ Pollers \subseteq Judging /\ Resetter \notin Sending
    /\ Resetter \in Counting /\ Resetter \in Judging /\ Resetter \notin Pollers
    /\ Sending \cap Judging = {} /\ Pollers \cap Counting = {} /\ Placer \in Sending
    /\ Pollers \subseteq Sessions /\ Counting = Sending \cup {Resetter}
BY DEF Sending, Counting, Judging, Sessions

(* A sending session with a box in hand has its row.                       *)
LEMMA InHand ==
    ASSUME Typed, NEW s \in Sessions, session[s].pc \in SendPC
    PROVE  session[s].box \in Holds(s) /\ session[s].box \in Boxes /\ s \in Sending
<1>1. SessionOK(s, session[s]) /\ Holds(s) \subseteq Boxes
  BY Fields
<1> QED
  BY <1>1 DEF SessionOK, Holds

(* Of an undisturbed box, nobody but the session that has the row has a    *)
(* mail to record.                                                         *)
LEMMA NoneRecords ==
    ASSUME Typed, NEW b \in Boxes, Alone(Counting, b), NEW s \in Counting, b \in Holds(s),
           session[s].pc # "mailed"
    PROVE  Unrecorded(b) = {}
<1>1. \A t \in Sending : session[t].pc = "mailed" /\ session[t].box = b => b \in Holds(t)
  BY InHand, Who DEF SendPC
<1> QED
  BY <1>1, Who DEF Unrecorded, Alone

LEMMA OneRecords ==
    ASSUME Typed, NEW b \in Boxes, Alone(Counting, b), NEW s \in Sending,
           session[s].pc = "mailed", session[s].box = b
    PROVE  Unrecorded(b) = {s}
<1>1. \A t \in Sending : session[t].pc = "mailed" /\ session[t].box = b => b \in Holds(t)
  BY InHand, Who DEF SendPC
<1> QED
  BY <1>1, Who DEF Unrecorded, Alone

LEMMA Counts ==
    /\ Cardinality({}) = 0 /\ \A s : Cardinality({s}) = 1
BY FS_EmptySet, FS_Singleton

(* Steps that leave the senders, their boxes and the counts alone.         *)
SendingStays ==
    /\ \A s \in Counting :
          /\ session'[s].pc = session[s].pc /\ session'[s].box = session[s].box
          /\ session'[s].db.base = session[s].db.base /\ session'[s].db.row = session[s].db.row
    /\ \A b \in Boxes : box'[b].sent = box[b].sent
    /\ UNCHANGED <<mailed, uncounted, slot, passes>>

LEMMA SentStays ==
    ASSUME Typed, SentInv, SendingStays, disturbed.sent \subseteq disturbed'.sent
    PROVE  SentInv'
<1>1. \A s \in Counting : Holds(s)' = Holds(s)
  BY DEF SendingStays, Holds
<1>2. \A b \in Boxes : Unrecorded(b)' = Unrecorded(b)
  BY Who DEF SendingStays, Unrecorded
<1>3. ASSUME NEW b \in Boxes \ disturbed'.sent
      PROVE  Alone(Counting, b)' /\ SentExact(b)' /\ SlotExact(b)'
  <2>1. Alone(Counting, b) /\ SentExact(b) /\ SlotExact(b) /\ b \in Boxes
    BY <1>3 DEF SentInv
  <2>2. Alone(Counting, b)'
    BY <1>1, <2>1 DEF Alone
  <2>3. \A s \in Counting : b \in Holds(s)' => session'[s].db.base[b].sent = box'[b].sent
    BY <1>1, <2>1 DEF SentExact, SendingStays
  <2>4. mailed'[b] = box'[b].sent + Cardinality(Unrecorded(b)') + uncounted'[b]
    BY <1>2, <2>1 DEF SentExact, SendingStays
  <2>5. SentExact(b)'
    BY <2>3, <2>4 DEF SentExact
  <2>6. SlotExact(b)'
    BY <2>1, Who DEF SlotExact, SendingStays
  <2> QED
    BY <2>2, <2>5, <2>6
<1>4. \A s \in Sending : Picked(s)'
  BY Who DEF SentInv, Picked, SendingStays
<1>5. \A b \in Boxes \ slot' : passes'[b] = 0
  BY DEF SentInv, SendingStays
<1> QED
  BY <1>3, <1>4, <1>5 DEF SentInv

(* A session goes on, or ends, with no mail to record any more: it keeps   *)
(* its rows or drops them, and a mail that left or was not yet recorded    *)
(* will not be counted.                                                    *)
Recording(s, b) == session[s].pc = "mailed" /\ session[s].box = b

Passes(s) ==
    /\ Elsewhere(s) /\ session'[s].pc \in {"closed", "open"}
    /\ \/ Holds(s)' = {}
       \/ session'[s].db.base = session[s].db.base /\ session'[s].db.row = session[s].db.row
    /\ UNCHANGED <<box, slot, passes>>
    /\ \A b \in Boxes : \E n \in {0, 1} :
          /\ uncounted'[b] = uncounted[b] + n
          /\ mailed'[b] = IF Recording(s, b) THEN mailed[b] + n - 1 ELSE mailed[b] + n

LEMMA SentPasses ==
    ASSUME Typed, SentInv, Next, NEW s \in Counting, Passes(s)
    PROVE  SentInv'
<1>0. s \in Sessions /\ \A t \in Sessions \ {s} : session'[t] = session[t]
  BY Who DEF Passes, Elsewhere
<1>1. \A t \in Counting, b \in Boxes : b \in Holds(t)' =>
         b \in Holds(t) /\ session'[t].db.base[b] = session[t].db.base[b]
  BY <1>0, Who DEF Passes, Holds
<1>2. ASSUME NEW b \in Boxes \ disturbed'.sent
      PROVE  Alone(Counting, b)' /\ SentExact(b)' /\ SlotExact(b)'
  <2>1. Alone(Counting, b)' /\ Alone(Counting, b) /\ SentExact(b) /\ SlotExact(b) /\ b \in Boxes
    BY <1>2, Undisturbed DEF SentInv
  <2>2. \A t \in Counting : b \in Holds(t)' => session'[t].db.base[b].sent = box'[b].sent
    BY <1>1, <2>1 DEF SentExact, Passes
  <2>3. box[b].sent \in Nat /\ box'[b].sent = box[b].sent /\ mailed[b] \in Nat /\ uncounted[b] \in Nat
    BY <2>1 DEF Typed, Row, Passes
  <2>4. PICK n \in {0, 1} :
          /\ uncounted'[b] = uncounted[b] + n
          /\ mailed'[b] = IF Recording(s, b) THEN mailed[b] + n - 1 ELSE mailed[b] + n
    BY <2>1 DEF Passes
  <2>5. mailed'[b] = box'[b].sent + Cardinality(Unrecorded(b)') + uncounted'[b]
    <3>1. CASE Recording(s, b)
      <4>1. s \in Sending
        BY <1>0, <3>1, InHand DEF Recording, SendPC
      <4>2. Unrecorded(b) = {s}
        BY <2>1, <3>1, <4>1, OneRecords DEF Recording
      <4>3. Unrecorded(b)' = {}
        BY <1>0, <4>2, Who DEF Unrecorded, Passes
      <4>4. Cardinality(Unrecorded(b)) = 1 /\ Cardinality(Unrecorded(b)') = 0
        BY <4>2, <4>3, Counts
      <4>5. mailed[b] = box[b].sent + 1 + uncounted[b]
        BY <2>1, <4>4 DEF SentExact
      <4>6. mailed'[b] = mailed[b] + n - 1
        BY <2>4, <3>1
      <4> QED
        BY <2>3, <2>4, <4>4, <4>5, <4>6
    <3>2. CASE ~Recording(s, b)
      <4>1. Unrecorded(b)' = Unrecorded(b)
        BY <1>0, <3>2, Who DEF Unrecorded, Passes, Recording
      <4> DEFINE c == Cardinality(Unrecorded(b))
      <4>2. mailed[b] = box[b].sent + c + uncounted[b]
        BY <2>1 DEF SentExact
      <4>3. c \in Nat
        <5>1. IsFiniteSet(Unrecorded(b))
          BY Finite, Who, FS_Subset DEF Unrecorded
        <5> QED
          BY <5>1, FS_CardinalityType
      <4>4. Cardinality(Unrecorded(b)') = c
        BY <4>1
      <4> HIDE DEF c
      <4>5. mailed'[b] = mailed[b] + n
        BY <2>4, <3>2
      <4> QED
        BY <2>3, <2>4, <4>2, <4>3, <4>4, <4>5
    <3> QED
      BY <3>1, <3>2
  <2>6. SentExact(b)'
    BY <2>2, <2>5 DEF SentExact
  <2>7. SlotExact(b)'
    BY <1>0, <2>1, Who DEF SlotExact, Passes
  <2> QED
    BY <2>1, <2>6, <2>7
<1>3. \A t \in Sending : Picked(t)'
  BY <1>0, Who DEF SentInv, Picked, Passes
<1>4. \A b \in Boxes \ slot' : passes'[b] = 0
  BY DEF SentInv, Passes
<1> QED
  BY <1>2, <1>3, <1>4 DEF SentInv

(* A sender goes on with the box it has: to the slot, and on to the mail.  *)
Advances(s, from, to) ==
    /\ Elsewhere(s) /\ session[s].pc = from /\ session'[s].pc = to
    /\ session'[s].db = session[s].db /\ session'[s].box = session[s].box

LEMMA AdvancesHolds ==
    ASSUME Typed, NEW s \in Sending, NEW from, NEW to, Advances(s, from, to), from \in SendPC
    PROVE  /\ \A t \in Counting : Holds(t)' = Holds(t) /\ session'[t].db = session[t].db
           /\ \A t \in Sending \ {s} : session'[t] = session[t]
           /\ session[s].box \in Boxes /\ session[s].box \in Holds(s)
BY InHand, Who DEF Advances, Elsewhere, Holds

LEMMA SentReads ==
    ASSUME Typed, SentInv, Next, NEW s \in Sending, ReadSlot(s)
    PROVE  SentInv'
<1>0. /\ Advances(s, "slot", "clear") /\ session[s].box \notin slot
      /\ UNCHANGED <<box, slot, mailed, uncounted, passes>>
  BY ReadSlotDoes DEF Advances, ReadSlot, Others
<1>1. /\ \A t \in Counting : Holds(t)' = Holds(t) /\ session'[t].db = session[t].db
      /\ \A t \in Sending \ {s} : session'[t] = session[t]
  BY <1>0, AdvancesHolds DEF SendPC
<1>2. ASSUME NEW b \in Boxes \ disturbed'.sent
      PROVE  Alone(Counting, b)' /\ SentExact(b)' /\ SlotExact(b)'
  <2>1. Alone(Counting, b)' /\ Alone(Counting, b) /\ SentExact(b) /\ SlotExact(b) /\ b \in Boxes
    BY <1>2, Undisturbed DEF SentInv
  <2>2. Unrecorded(b)' = Unrecorded(b)
    BY <1>0, <1>1 DEF Unrecorded, Advances
  <2>3. SentExact(b)'
    BY <1>0, <1>1, <2>1, <2>2 DEF SentExact
  <2>4. SlotExact(b)'
    BY <1>0, <1>1, <2>1 DEF SlotExact, Advances
  <2> QED
    BY <2>1, <2>3, <2>4
<1>3. \A t \in Sending : Picked(t)'
  BY <1>0, <1>1, Who DEF SentInv, Picked, Advances
<1>4. \A b \in Boxes \ slot' : passes'[b] = 0
  BY <1>0 DEF SentInv
<1> QED
  BY <1>2, <1>3, <1>4 DEF SentInv

LEMMA SentTakes ==
    ASSUME Typed, SentInv, Next, NEW s \in Sending, TakeSlot(s)
    PROVE  SentInv'
<1> DEFINE x == session[s].box
<1>0. Advances(s, "clear", "ready") /\ UNCHANGED <<box, mailed, uncounted>>
  BY TakeSlotDoes DEF Advances, TakeSlot, Others
<1>1. /\ \A t \in Counting : Holds(t)' = Holds(t) /\ session'[t].db = session[t].db
      /\ \A t \in Sending \ {s} : session'[t] = session[t]
      /\ x \in Boxes /\ x \in Holds(s)
  BY <1>0, AdvancesHolds DEF SendPC
<1>2. slot' = slot \cup {x} /\ passes' = [passes EXCEPT ![x] = @ + 1] /\ passes \in [Boxes -> Nat]
  BY DEF TakeSlot, Typed
<1>3. passes'[x] = passes[x] + 1 /\ \A b \in Boxes \ {x} : passes'[b] = passes[b]
  BY <1>1, <1>2
<1>4. ASSUME NEW b \in Boxes \ disturbed'.sent
      PROVE  Alone(Counting, b)' /\ SentExact(b)' /\ SlotExact(b)'
  <2>1. Alone(Counting, b)' /\ Alone(Counting, b) /\ SentExact(b) /\ SlotExact(b) /\ b \in Boxes
    BY <1>4, Undisturbed DEF SentInv
  <2>2. Unrecorded(b)' = Unrecorded(b)
    BY <1>0, <1>1 DEF Unrecorded, Advances
  <2>3. SentExact(b)'
    BY <1>0, <1>1, <2>1, <2>2 DEF SentExact
  <2>4. SlotExact(b)'
    <3>1. CASE b # x
      BY <1>0, <1>1, <1>2, <1>3, <2>1, <3>1 DEF SlotExact, Advances
    <3>2. CASE b = x
      <4>1. b \notin slot /\ passes[b] = 0
        BY <1>0, <2>1, <3>2 DEF SlotExact, Advances, SentInv
      <4>2. ASSUME NEW t \in Sending, session'[t].pc = "clear", session'[t].box = b
            PROVE  FALSE
        <5>1. t # s /\ session[t].pc = "clear" /\ session[t].box = b
          BY <1>0, <1>1, <4>2 DEF Advances
        <5>2. b \in Holds(t)
          BY <5>1, InHand, Who DEF SendPC
        <5> QED
          BY <1>1, <2>1, <3>2, <5>1, <5>2, Who DEF Alone
      <4> QED
        BY <1>3, <3>2, <4>1, <4>2 DEF SlotExact
    <3> QED
      BY <3>1, <3>2
  <2> QED
    BY <2>1, <2>3, <2>4
<1>5. \A t \in Sending : Picked(t)'
  BY <1>0, <1>1, Who DEF SentInv, Picked, Advances
<1>6. \A b \in Boxes \ slot' : passes'[b] = 0
  BY <1>2, <1>3 DEF SentInv
<1> QED
  BY <1>4, <1>5, <1>6 DEF SentInv

LEMMA SentDelivers ==
    ASSUME Typed, SentInv, Next, NEW s \in Sending, Deliver(s)
    PROVE  SentInv'
<1> DEFINE x == session[s].box
<1>0. Advances(s, "ready", "mailed") /\ UNCHANGED <<box, slot, passes, uncounted>>
  BY DeliverDoes DEF Advances, Deliver, Others
<1>1. /\ \A t \in Counting : Holds(t)' = Holds(t) /\ session'[t].db = session[t].db
      /\ \A t \in Sending \ {s} : session'[t] = session[t]
      /\ x \in Boxes /\ x \in Holds(s)
  BY <1>0, AdvancesHolds DEF SendPC
<1>2. mailed' = [mailed EXCEPT ![x] = @ + 1] /\ mailed \in [Boxes -> Nat] /\ Typed'
  BY TypedStep DEF Deliver, Out, Typed
<1>3. mailed'[x] = mailed[x] + 1 /\ \A b \in Boxes \ {x} : mailed'[b] = mailed[b]
  BY <1>1, <1>2
<1>4. ASSUME NEW b \in Boxes \ disturbed'.sent
      PROVE  Alone(Counting, b)' /\ SentExact(b)' /\ SlotExact(b)'
  <2>1. Alone(Counting, b)' /\ Alone(Counting, b) /\ SentExact(b) /\ SlotExact(b) /\ b \in Boxes
    BY <1>4, Undisturbed DEF SentInv
  <2>2. mailed'[b] = box'[b].sent + Cardinality(Unrecorded(b)') + uncounted'[b]
    <3>1. CASE b # x
      <4>1. Unrecorded(b)' = Unrecorded(b)
        BY <1>0, <1>1, <3>1 DEF Unrecorded, Advances
      <4> QED
        BY <1>0, <1>3, <2>1, <3>1, <4>1 DEF SentExact
    <3>2. CASE b = x
      <4>1. Unrecorded(b) = {}
        BY <1>0, <1>1, <2>1, <3>2, NoneRecords, Who DEF Advances
      <4>2. Unrecorded(b)' = {s}
        BY <1>0, <1>1, <3>2, <4>1 DEF Unrecorded, Advances
      <4>3. box[b].sent \in Nat /\ uncounted[b] \in Nat
        BY <2>1 DEF Typed, Row
      <4>4. Cardinality(Unrecorded(b)) = 0 /\ Cardinality(Unrecorded(b)') = 1
        BY <4>1, <4>2, Counts
      <4> QED
        BY <1>0, <1>3, <2>1, <3>2, <4>3, <4>4 DEF SentExact
    <3> QED
      BY <3>1, <3>2
  <2>3. SentExact(b)'
    BY <1>0, <1>1, <2>1, <2>2 DEF SentExact
  <2>4. SlotExact(b)'
    BY <1>0, <1>1, <2>1 DEF SlotExact, Advances
  <2> QED
    BY <2>1, <2>3, <2>4
<1>5. \A t \in Sending : Picked(t)'
  BY <1>0, <1>1, Who DEF SentInv, Picked, Advances
<1>6. \A b \in Boxes \ slot' : passes'[b] = 0
  BY <1>0 DEF SentInv
<1> QED
  BY <1>4, <1>5, <1>6 DEF SentInv

LEMMA SentPicks ==
    ASSUME Typed, SentInv, Next, NEW s \in Sending, Pick(s)
    PROVE  SentInv'
<1> DEFINE x == session'[s].box
<1>0. /\ Elsewhere(s) /\ session[s].pc = "open" /\ session'[s].pc = "slot" /\ x \in Pickable(s)
      /\ x \in Holds(s) => session'[s].db = session[s].db
      /\ x \notin Holds(s) => /\ Holds(s)' = {x} /\ session'[s].db.row[x] = box[x]
                              /\ session'[s].db.base[x] = box[x]
      /\ UNCHANGED <<box, slot, mailed, uncounted, passes>>
  BY PickDoes DEF Pick, Others
<1>1. \A t \in Counting \ {s} : session'[t] = session[t]
  BY <1>0, Who DEF Elsewhere
<1>2. \A t \in Counting, b \in Boxes : b \in Holds(t)' =>
         \/ session'[t].db.base[b] = box[b]
         \/ b \in Holds(t) /\ session'[t].db.base[b] = session[t].db.base[b]
  <2>1. \A t \in Counting \ {s} : Holds(t)' = Holds(t)
    BY <1>1 DEF Holds
  <2>2. x \in Holds(s) => Holds(s)' = Holds(s)
    BY <1>0 DEF Holds
  <2>3. ASSUME NEW t \in Counting, NEW b \in Boxes, b \in Holds(t)'
        PROVE  \/ session'[t].db.base[b] = box[b]
               \/ b \in Holds(t) /\ session'[t].db.base[b] = session[t].db.base[b]
    <3>1. CASE t # s
      BY <1>1, <2>1, <2>3, <3>1
    <3>2. CASE t = s /\ x \in Holds(s)
      BY <1>0, <2>2, <2>3, <3>2
    <3>3. CASE t = s /\ x \notin Holds(s)
      BY <1>0, <2>3, <3>3
    <3> QED
      BY <3>1, <3>2, <3>3
  <2> QED
    BY <2>3
<1>3. \A b \in Boxes : Unrecorded(b)' = Unrecorded(b)
  BY <1>0, <1>1, Who DEF Unrecorded
<1>4. ASSUME NEW b \in Boxes \ disturbed'.sent
      PROVE  Alone(Counting, b)' /\ SentExact(b)' /\ SlotExact(b)'
  <2>1. Alone(Counting, b)' /\ Alone(Counting, b) /\ SentExact(b) /\ SlotExact(b) /\ b \in Boxes
    BY <1>4, Undisturbed DEF SentInv
  <2>2. SentExact(b)'
    BY <1>0, <1>2, <1>3, <2>1 DEF SentExact
  <2>3. SlotExact(b)'
    BY <1>0, <1>1, <2>1, Who DEF SlotExact
  <2> QED
    BY <2>1, <2>2, <2>3
<1>5. Picked(s)'
  <2>1. InSession(s, x).sent < Cap(InSession(s, x))
    BY <1>0 DEF Pickable
  <2>2. session'[s].db.row[x] = InSession(s, x)
    BY <1>0 DEF InSession
  <2> QED
    BY <2>1, <2>2 DEF Picked
<1>6. \A t \in Sending \ {s} : Picked(t)'
  BY <1>1, Who DEF SentInv, Picked
<1>7. \A b \in Boxes \ slot' : passes'[b] = 0
  BY <1>0 DEF SentInv
<1> QED
  BY <1>4, <1>5, <1>6, <1>7 DEF SentInv

LEMMA SentFinalizes ==
    ASSUME Typed, SentInv, Next, NEW s \in Sending, Finalize(s)
    PROVE  SentInv'
<1> DEFINE x == session[s].box
<1>0. /\ Elsewhere(s) /\ session[s].pc = "mailed" /\ x \in Boxes /\ x \in Holds(s)
      /\ \A b \in Boxes \ {x} : box'[b] = box[b]
      /\ box'[x].sent = session[s].db.base[x].sent + 1
      /\ UNCHANGED <<slot, mailed, uncounted, passes>>
  BY FinalizeDoes DEF Finalize, Others
<1>1. /\ session'[s].pc \in {"closed", "open"} /\ Holds(s)' \subseteq Holds(s)
      /\ \A b \in Holds(s)' \ {x} : session'[s].db.base[b] = session[s].db.base[b]
      /\ x \in Holds(s)' => session'[s].db.base[x].sent = session[s].db.base[x].sent + 1
  <2>1. CASE s # Placer
    BY <2>1, FinalizeDoes, Nothing DEF Ends, Holds
  <2>2. CASE s = Placer
    <3>1. NextSeed /\ session[s].pc = "mailed"
      BY <2>2, FinalizeDoes
    <3> QED
      BY <2>2, <3>1 DEF NextSeed
  <2> QED
    BY <2>1, <2>2
<1> HIDE DEF x
<1>2. \A t \in Counting \ {s} : session'[t] = session[t] /\ Holds(t)' = Holds(t)
  BY <1>0, Who DEF Elsewhere, Holds
<1>3. ASSUME NEW b \in Boxes \ disturbed'.sent
      PROVE  Alone(Counting, b)' /\ SentExact(b)' /\ SlotExact(b)'
  <2>1. Alone(Counting, b)' /\ Alone(Counting, b) /\ SentExact(b) /\ SlotExact(b) /\ b \in Boxes
    BY <1>3, Undisturbed DEF SentInv
  <2>2. ASSUME b # x PROVE SentExact(b)'
    <3>1. Unrecorded(b)' = Unrecorded(b)
      BY <1>0, <1>1, <1>2, <2>2, Who DEF Unrecorded, x
    <3>2. \A t \in Counting : b \in Holds(t)' => session'[t].db.base[b].sent = box'[b].sent
      BY <1>0, <1>1, <1>2, <2>1, <2>2 DEF SentExact
    <3>3. mailed'[b] = box'[b].sent + Cardinality(Unrecorded(b)') + uncounted'[b]
      BY <1>0, <2>1, <2>2, <3>1 DEF SentExact
    <3> QED
      BY <3>2, <3>3 DEF SentExact
  <2>3. ASSUME b = x PROVE SentExact(b)'
    <3>1. Unrecorded(b) = {s}
      BY <1>0, <2>1, <2>3, OneRecords DEF x
    <3>2. Unrecorded(b)' = {}
      BY <1>1, <1>2, <3>1, Who DEF Unrecorded
    <3>3. Cardinality(Unrecorded(b)) = 1 /\ Cardinality(Unrecorded(b)') = 0
      BY <3>1, <3>2, Counts
    <3>4. session[s].db.base[b].sent = box[b].sent /\ box[b].sent \in Nat /\ uncounted[b] \in Nat
      BY <1>0, <2>1, <2>3, Who DEF SentExact, Typed, Row
    <3>5. mailed'[b] = box'[b].sent + Cardinality(Unrecorded(b)') + uncounted'[b]
      BY <1>0, <2>1, <2>3, <3>3, <3>4 DEF SentExact
    <3>6. ASSUME NEW t \in Counting, b \in Holds(t)'
          PROVE  session'[t].db.base[b].sent = box'[b].sent
      <4>1. t = s
        BY <1>0, <1>2, <2>1, <2>3, <3>6, Who DEF Alone
      <4> QED
        BY <1>0, <1>1, <2>3, <3>6, <4>1
    <3> QED
      BY <3>5, <3>6 DEF SentExact
  <2>4. SlotExact(b)'
    BY <1>0, <1>1, <1>2, <2>1, Who DEF SlotExact
  <2> QED
    BY <2>1, <2>2, <2>3, <2>4
<1>4. \A t \in Sending : Picked(t)'
  BY <1>1, <1>2, Who DEF SentInv, Picked
<1>5. \A b \in Boxes \ slot' : passes'[b] = 0
  BY <1>0 DEF SentInv
<1> QED
  BY <1>3, <1>4, <1>5 DEF SentInv

LEMMA SentExpires ==
    ASSUME Typed, SentInv, Next, NEW x \in Boxes, SlotExpires(x)
    PROVE  SentInv'
<1>0. /\ slot' = slot \ {x} /\ passes' = [passes EXCEPT ![x] = 0]
      /\ passes \in [Boxes -> Nat] /\ UNCHANGED <<box, session, mailed, uncounted>>
  BY DEF SlotExpires, Others, Typed
<1>1. passes'[x] = 0 /\ \A b \in Boxes \ {x} : passes'[b] = passes[b]
  BY <1>0
<1>2. ASSUME NEW b \in Boxes \ disturbed'.sent
      PROVE  Alone(Counting, b)' /\ SentExact(b)' /\ SlotExact(b)'
  <2>1. Alone(Counting, b)' /\ Alone(Counting, b) /\ SentExact(b) /\ SlotExact(b) /\ b \in Boxes
    BY <1>2, Undisturbed DEF SentInv
  <2>2. SentExact(b)'
    BY <1>0, <2>1 DEF SentExact, Unrecorded, Holds
  <2>3. SlotExact(b)'
    BY <1>0, <1>1, <2>1 DEF SlotExact
  <2> QED
    BY <2>1, <2>2, <2>3
<1>3. \A t \in Sending : Picked(t)'
  BY <1>0 DEF SentInv, Picked
<1>4. \A b \in Boxes \ slot' : passes'[b] = 0
  BY <1>0, <1>1 DEF SentInv
<1> QED
  BY <1>2, <1>3, <1>4 DEF SentInv

LEMMA SentResetStarts ==
    ASSUME Typed, SentInv, Next, ResetStart
    PROVE  SentInv'
<1>0. /\ Elsewhere(Resetter) /\ session'[Resetter].db.base = [b \in Live |-> box[b]]
      /\ Holds(Resetter)' = Live /\ UNCHANGED <<box, slot, mailed, uncounted, passes>>
  BY ResetStartDoes DEF ResetStart, Unsent, Others
<1>1. \A t \in Sending : session'[t] = session[t] /\ Holds(t)' = Holds(t)
  BY <1>0, Who DEF Elsewhere, Holds
<1>2. ASSUME NEW b \in Boxes \ disturbed'.sent
      PROVE  Alone(Counting, b)' /\ SentExact(b)' /\ SlotExact(b)'
  <2>1. Alone(Counting, b)' /\ Alone(Counting, b) /\ SentExact(b) /\ SlotExact(b) /\ b \in Boxes
    BY <1>2, Undisturbed DEF SentInv
  <2>2. Unrecorded(b)' = Unrecorded(b)
    BY <1>1 DEF Unrecorded
  <2>3. SentExact(b)'
    BY <1>0, <1>1, <2>1, <2>2, Who DEF SentExact
  <2>4. SlotExact(b)'
    BY <1>0, <1>1, <2>1 DEF SlotExact
  <2> QED
    BY <2>1, <2>3, <2>4
<1>3. \A t \in Sending : Picked(t)'
  BY <1>1 DEF SentInv, Picked
<1>4. \A b \in Boxes \ slot' : passes'[b] = 0
  BY <1>0 DEF SentInv
<1> QED
  BY <1>2, <1>3, <1>4 DEF SentInv

LEMMA SentResetCommits ==
    ASSUME Typed, SentInv, Next, ResetCommit
    PROVE  SentInv'
<1> DEFINE H == Holds(Resetter)
<1>0. /\ Elsewhere(Resetter) /\ session'[Resetter].db = NoRows
      /\ \A b \in Boxes \ H : box'[b] = box[b]
      /\ \A b \in H : box'[b].sent = IF session[Resetter].db.base[b].sent # 0 THEN 0
                                     ELSE box[b].sent
      /\ \A b \in Boxes : /\ mailed'[b] = IF b \in H THEN 0 ELSE mailed[b]
                          /\ uncounted'[b] = IF b \in H THEN 0 ELSE uncounted[b]
      /\ session[Resetter].pc = "open" /\ UNCHANGED <<slot, passes>>
  BY ResetCommitDoes DEF ResetCommit
<1>1. \A t \in Sending : session'[t] = session[t] /\ Holds(t)' = Holds(t)
  BY <1>0, Who DEF Elsewhere, Holds
<1>2. Holds(Resetter)' = {}
  BY <1>0, Nothing DEF Holds
<1> HIDE DEF H
<1>3. ASSUME NEW b \in Boxes \ disturbed'.sent
      PROVE  Alone(Counting, b)' /\ SentExact(b)' /\ SlotExact(b)'
  <2>1. Alone(Counting, b)' /\ Alone(Counting, b) /\ SentExact(b) /\ SlotExact(b) /\ b \in Boxes
    BY <1>3, Undisturbed DEF SentInv
  <2>2. Unrecorded(b)' = Unrecorded(b)
    BY <1>1 DEF Unrecorded
  <2>3. ASSUME b \in H PROVE SentExact(b)'
    <3>1. session[Resetter].db.base[b].sent = box[b].sent
      BY <2>1, <2>3, Who DEF SentExact, H
    <3>2. box'[b].sent = 0 /\ mailed'[b] = 0 /\ uncounted'[b] = 0
      BY <1>0, <2>1, <2>3, <3>1
    <3>3. Unrecorded(b) = {}
      BY <1>0, <2>1, <2>3, NoneRecords, Who DEF H
    <3>4. Cardinality(Unrecorded(b)') = 0
      BY <2>2, <3>3, Counts
    <3>5. \A t \in Counting : b \notin Holds(t)'
      BY <1>1, <1>2, <2>1, <2>3, Who DEF Alone, H
    <3> QED
      BY <3>2, <3>4, <3>5 DEF SentExact
  <2>4. ASSUME b \notin H PROVE SentExact(b)'
    <3>1. box'[b] = box[b] /\ mailed'[b] = mailed[b] /\ uncounted'[b] = uncounted[b]
      BY <1>0, <2>1, <2>4
    <3>2. \A t \in Counting : b \in Holds(t)' => session'[t].db.base[b].sent = box'[b].sent
      BY <1>1, <1>2, <2>1, <3>1, Who DEF SentExact
    <3>3. mailed'[b] = box'[b].sent + Cardinality(Unrecorded(b)') + uncounted'[b]
      BY <2>1, <2>2, <3>1 DEF SentExact
    <3> QED
      BY <3>2, <3>3 DEF SentExact
  <2>5. SlotExact(b)'
    BY <1>0, <1>1, <2>1 DEF SlotExact
  <2> QED
    BY <2>1, <2>3, <2>4, <2>5
<1>4. \A t \in Sending : Picked(t)'
  BY <1>1 DEF SentInv, Picked
<1>5. \A b \in Boxes \ slot' : passes'[b] = 0
  BY <1>0 DEF SentInv
<1> QED
  BY <1>3, <1>4, <1>5 DEF SentInv

(* Whatever a poll, a reset, an operator or a death does.                   *)
LEMMA PollsStay ==
    ASSUME Typed, NEW s \in Pollers, Elsewhere(s)
    PROVE  \A t \in Counting : session'[t] = session[t]
BY Who DEF Elsewhere

LEMMA SentStep ==
    ASSUME Typed, SentInv, Next
    PROVE  SentInv'
<1>0. disturbed.sent \subseteq disturbed'.sent
  BY HistoryTyped
<1>00. mailed \in [Boxes -> Nat] /\ uncounted \in [Boxes -> Nat]
  BY DEF Typed
<1>01. ASSUME NEW s \in Counting, session[s].pc # "mailed", UNCHANGED <<mailed, uncounted>>
       PROVE  \A b \in Boxes : \E n \in {0, 1} :
                /\ uncounted'[b] = uncounted[b] + n
                /\ mailed'[b] = IF Recording(s, b) THEN mailed[b] + n - 1 ELSE mailed[b] + n
  <2>1. ASSUME NEW b \in Boxes PROVE uncounted'[b] = uncounted[b] + 0 /\ mailed'[b] = mailed[b] + 0
    BY <1>00, <1>01
  <2> QED
    BY <1>01, <2>1 DEF Recording
<1>1. ASSUME NEW s \in Sending, Start(s) PROVE SentInv'
  <2>1. Passes(s)
    BY <1>1, <1>01, StartDoes, Who DEF Passes, Start, Others
  <2> QED
    BY <2>1, SentPasses, Who
<1>2. ASSUME NEW s \in Sending, GaveUp(s), UNCHANGED <<box, slot, passes>>,
             \A b \in Boxes : \E n \in {0, 1} :
                /\ uncounted'[b] = uncounted[b] + n
                /\ mailed'[b] = IF Recording(s, b) THEN mailed[b] + n - 1 ELSE mailed[b] + n
      PROVE SentInv'
  <2>1. Elsewhere(s) /\ session'[s].pc \in {"closed", "open"}
    BY <1>2 DEF GaveUp
  <2>2. Holds(s)' = {} \/ session'[s].db = session[s].db
    BY <1>2, Nothing DEF GaveUp, Holds
  <2>3. Passes(s)
    BY <1>2, <2>1, <2>2 DEF Passes
  <2> QED
    BY <2>3, SentPasses, Who
<1>20. ASSUME NEW s \in Sending, Blocked(s) PROVE SentInv'
  <2>1. /\ GaveUp(s) /\ session[s].pc # "mailed"
        /\ UNCHANGED <<box, slot, passes, mailed, uncounted>>
    BY <1>20, BlockedDoes DEF Blocked, Others
  <2> QED
    BY <1>2, <1>01, <2>1, Who
<1>21. ASSUME NEW s \in Sending, LostReply(s) PROVE SentInv'
  <2> DEFINE x == session[s].box
  <2>1. /\ GaveUp(s) /\ session[s].pc = "ready" /\ x \in Boxes
        /\ mailed' = [mailed EXCEPT ![x] = @ + 1] /\ uncounted' = [uncounted EXCEPT ![x] = @ + 1]
        /\ UNCHANGED <<box, slot, passes>>
    BY <1>21, LostReplyDoes DEF LostReply
  <2> HIDE DEF x
  <2>2. ASSUME NEW b \in Boxes
        PROVE  \E n \in {0, 1} : uncounted'[b] = uncounted[b] + n /\ mailed'[b] = mailed[b] + n
    <3>1. CASE b = x
      BY <1>00, <2>1, <3>1
    <3>2. CASE b # x
      <4>1. uncounted'[b] = uncounted[b] + 0 /\ mailed'[b] = mailed[b] + 0
        BY <1>00, <2>1, <3>2
      <4> QED
        BY <4>1
    <3> QED
      BY <3>1, <3>2
  <2>3. \A b \in Boxes : ~Recording(s, b)
    BY <2>1 DEF Recording
  <2> QED
    BY <1>2, <2>1, <2>2, <2>3
<1>3. ASSUME RunPlacement \/ PlacementDone PROVE SentInv'
  <2>1. session[Placer].pc # "mailed"
    BY <1>3, ClosedFits DEF RunPlacement, PlacementDone
  <2>2. UNCHANGED <<box, mailed, uncounted, slot, passes>>
    BY <1>3 DEF RunPlacement, PlacementDone, Sent, Others
  <2>3. Holds(Placer)' = {} \/ session'[Placer].db = session[Placer].db
    BY <1>3, PlacementDoes, Nothing DEF Holds
  <2>4. Passes(Placer)
    BY <1>3, <1>01, <2>1, <2>2, <2>3, PlacementDoes, Who DEF Passes
  <2> QED
    BY <2>4, SentPasses, Who
<1>4. ASSUME NEW s \in Counting, Die(s) PROVE SentInv'
  <2> DEFINE x == session[s].box
  <2>1. Elsewhere(s) /\ session'[s].pc = "closed" /\ session'[s].db = NoRows
    BY <1>4, Closes, Who DEF Die
  <2>2. Holds(s)' = {} /\ UNCHANGED <<box, mailed, slot, passes>>
    BY <1>4, <2>1, Nothing DEF Die, Unsent, Holds
  <2>3. uncounted' = IF session[s].pc = "mailed" THEN [uncounted EXCEPT ![x] = @ + 1] ELSE uncounted
    BY <1>4 DEF Die
  <2>4. ASSUME NEW b \in Boxes
        PROVE  \E n \in {0, 1} :
                 /\ uncounted'[b] = uncounted[b] + n
                 /\ mailed'[b] = IF Recording(s, b) THEN mailed[b] + n - 1 ELSE mailed[b] + n
    <3>1. CASE Recording(s, b)
      <4>1. uncounted'[b] = uncounted[b] + 1
        BY <1>00, <2>3, <3>1 DEF Recording
      <4>2. mailed'[b] = mailed[b] + 1 - 1
        BY <1>00, <2>2
      <4> QED
        BY <3>1, <4>1, <4>2
    <3>2. CASE ~Recording(s, b)
      <4>1. uncounted'[b] = uncounted[b] + 0
        BY <1>00, <2>3, <3>2 DEF Recording
      <4>2. mailed'[b] = mailed[b] + 0
        BY <1>00, <2>2
      <4> QED
        BY <3>2, <4>1, <4>2
    <3> QED
      BY <3>1, <3>2
  <2>5. Passes(s)
    BY <2>1, <2>2, <2>4 DEF Passes
  <2> QED
    BY <2>5, SentPasses
<1>5. ASSUME NEW s \in Pollers, Elsewhere(s), \A b \in Boxes : box'[b].sent = box[b].sent,
             UNCHANGED <<mailed, uncounted, slot, passes>>
      PROVE  SentInv'
  <2>1. SendingStays
    BY <1>5, PollsStay DEF SendingStays
  <2> QED
    BY <1>0, <2>1, SentStays
<1>6. ASSUME NEW s \in Pollers, Poll(s) \/ PollCommit(s) \/ (\E b \in Boxes : Bounce(s, b)) \/ Die(s)
      PROVE  SentInv'
  <2>1. CASE Poll(s)
    BY <1>5, <2>1, PollDoes DEF Poll, Unsent, Others
  <2>2. CASE PollCommit(s)
    <3>1. session[s].db \in Db /\ DbOK(session[s].db)
      BY Fields, Who DEF SessionOK
    <3>2. \A b \in Boxes : box'[b].sent = box[b].sent
      BY <2>2, <3>1, PollCommitDoes, AfterRow
    <3> QED
      BY <1>5, <2>2, <3>2, PollCommitDoes DEF PollCommit, Unsent
  <2>3. CASE \E b \in Boxes : Bounce(s, b)
    <3>1. PICK b \in Boxes : Bounce(s, b)
      BY <2>3
    <3> QED
      BY <1>5, <3>1, BounceDoes DEF Bounce, Unsent, Others
  <2>4. CASE Die(s)
    <3>1. session[s].pc # "mailed"
      BY InHand, Who DEF SendPC
    <3> QED
      BY <1>5, <2>4, <3>1, Closes, Who DEF Die, Unsent
  <2> QED
    BY <1>6, <2>1, <2>2, <2>3, <2>4
<1>7. ASSUME StartPlacement \/ (\E e \in Seeds : Mark(e))
             \/ (\E b \in Boxes : AddMailbox(b) \/ Edit(b))
      PROVE  SentInv'
  <2>1. UNCHANGED <<session, mailed, uncounted, slot, passes>>
    BY <1>7 DEF StartPlacement, Mark, AddMailbox, Edit, Sent, Unsent, Others
  <2>2. \A b \in Boxes : box'[b].sent = box[b].sent
    <3>1. CASE StartPlacement \/ (\E e \in Seeds : Mark(e))
      BY <3>1 DEF StartPlacement, Mark, Sent
    <3>2. ASSUME NEW b \in Boxes, AddMailbox(b) \/ Edit(b)
          PROVE  \A o \in Boxes : box'[o].sent = box[o].sent
      BY <3>2, AddDoes, EditDoes
    <3> QED
      BY <1>7, <3>1, <3>2
  <2>3. SendingStays
    BY <2>1, <2>2 DEF SendingStays
  <2> QED
    BY <1>0, <2>3, SentStays
<1>8. ASSUME NewDay PROVE SentInv'
  <2>1. SendingStays
    BY <1>8, NewDayDoes, Who DEF SendingStays, NewDay, Unsent, Others
  <2> QED
    BY <1>0, <2>1, SentStays
<1>9. Act
  BY DEF Next
<1>10. CASE \E s \in Sending : \/ Start(s) \/ Pick(s) \/ ReadSlot(s) \/ TakeSlot(s)
                               \/ Blocked(s) \/ LostReply(s) \/ Deliver(s) \/ Finalize(s)
  BY <1>1, <1>20, <1>21, <1>10, SentPicks, SentReads, SentTakes, SentDelivers, SentFinalizes
<1>11. CASE \/ \E b \in Boxes : SlotExpires(b) \/ AddMailbox(b) \/ Edit(b)
            \/ StartPlacement \/ RunPlacement \/ PlacementDone \/ \E e \in Seeds : Mark(e)
  BY <1>3, <1>7, <1>11, SentExpires
<1>12. CASE \E s \in Pollers : Poll(s) \/ PollCommit(s) \/ \E b \in Boxes : Bounce(s, b)
  BY <1>6, <1>12
<1>13. CASE ResetStart \/ ResetCommit \/ NewDay
  BY <1>8, <1>13, SentResetStarts, SentResetCommits
<1>14. CASE \E s \in Sessions : Die(s)
  BY <1>4, <1>6, <1>14 DEF Sessions, Counting
<1> QED
  BY <1>9, <1>10, <1>11, <1>12, <1>13, <1>14 DEF Act

LEMMA SentStutter ==
    ASSUME Typed, SentInv, UNCHANGED vars
    PROVE  SentInv'
<1>1. UNCHANGED <<session, box, mailed, uncounted, slot, passes, disturbed>>
  BY DEF vars
<1>2. SendingStays
  BY <1>1 DEF SendingStays
<1> QED
  BY <1>1, <1>2, SentStays

-----------------------------------------------------------------------------
(* Bounces are counted                                                     *)

LEMMA HealthInit == Init => HealthInv
<1> SUFFICES ASSUME Init PROVE HealthInv
  OBVIOUS
<1>1. \A s \in Judging : Holds(s) = {}
  BY ClosedFits, Nothing, Who DEF Init, Holds
<1>2. \A b \in Boxes : bounced[b] = 0 /\ box[b].hard = 0
  BY DEF Init
<1> QED
  BY <1>1, <1>2 DEF HealthInv, Alone, HealthExact

(* No row that a poll or the reset holds comes from elsewhere, and no box  *)
(* of one of them changes.                                                 *)
HealthKept ==
    /\ \A s \in Judging, b \in Boxes : b \in Holds(s)' =>
          \/ b \in Holds(s) /\ session'[s].db.base[b] = session[s].db.base[b]
          \/ session'[s].db.base[b] = box[b]
    /\ \A b \in Boxes \ disturbed'.health :
          /\ box'[b].hard = box[b].hard /\ bounced'[b] = bounced[b]
          /\ box'[b].health = box[b].health \/ \A s \in Judging : b \notin Holds(s)'

LEMMA HealthKeeps ==
    ASSUME Typed, HealthInv, Next, HealthKept
    PROVE  HealthInv'
<1> SUFFICES ASSUME NEW b \in Boxes \ disturbed'.health
             PROVE  Alone(Judging, b)' /\ HealthExact(b)'
  BY DEF HealthInv
<1>1. Alone(Judging, b)' /\ HealthExact(b) /\ b \in Boxes
  BY Undisturbed DEF HealthInv
<1> QED
  BY <1>1 DEF HealthExact, HealthKept

LEMMA HealthPollCommits ==
    ASSUME Typed, HealthInv, Next, NEW s \in Pollers, PollCommit(s)
    PROVE  HealthInv'
<1> DEFINE db == session[s].db
<1>0. /\ Elsewhere(s) /\ session'[s].db = NoRows /\ box' = BoxAfter(db)
      /\ \A b \in Boxes : bounced'[b] = IF b \in Holds(s)
             THEN bounced[b] + (db.row[b].hard - db.base[b].hard) ELSE bounced[b]
  BY PollCommitDoes
<1>1. db \in Db /\ DbOK(db) /\ Holds(s) = DOMAIN db.row /\ s \in Judging
  BY Fields, Who DEF SessionOK
<1>2. Holds(s)' = {} /\ \A t \in Judging \ {s} : session'[t] = session[t] /\ Holds(t)' = Holds(t)
  BY <1>0, Nothing, Who DEF Elsewhere, Holds
<1> SUFFICES ASSUME NEW b \in Boxes \ disturbed'.health
             PROVE  Alone(Judging, b)' /\ HealthExact(b)'
  BY DEF HealthInv
<1>3. Alone(Judging, b)' /\ Alone(Judging, b) /\ HealthExact(b) /\ b \in Boxes
  BY Undisturbed DEF HealthInv
<1>4. /\ box'[b].hard = IF b \in db.flushed /\ db.row[b].hard # db.base[b].hard
                        THEN db.row[b].hard ELSE box[b].hard
      /\ box'[b].health = IF b \in db.flushed /\ db.row[b].health # db.base[b].health
                          THEN db.row[b].health ELSE box[b].health
  BY <1>0, <1>1, <1>3, AfterRow
<1>5. ASSUME b \in Holds(s) PROVE HealthExact(b)'
  <2>1. db.base[b].hard = box[b].hard /\ bounced[b] = box[b].hard
    BY <1>1, <1>3, <1>5 DEF HealthExact
  <2>2. b \notin db.flushed => db.row[b] = db.base[b]
    BY <1>1, <1>5 DEF DbOK
  <2>3. db.base[b].hard \in Nat /\ db.row[b].hard \in Nat
    BY <1>5, Fields, Who DEF Row
  <2>4. bounced'[b] = db.row[b].hard /\ box'[b].hard = db.row[b].hard
    <3>1. bounced'[b] = bounced[b] + (db.row[b].hard - db.base[b].hard)
      BY <1>0, <1>3, <1>5
    <3>2. box'[b].hard = db.row[b].hard
      <4>1. CASE b \in db.flushed /\ db.row[b].hard # db.base[b].hard
        BY <1>4, <4>1
      <4>2. CASE ~(b \in db.flushed /\ db.row[b].hard # db.base[b].hard)
        <5>1. db.row[b].hard = db.base[b].hard
          BY <2>2, <4>2
        <5> QED
          BY <1>4, <2>1, <4>2, <5>1
      <4> QED
        BY <4>1, <4>2
    <3>3. \A x, y \in Nat : x + (y - x) = y
      OBVIOUS
    <3> QED
      BY <2>1, <2>3, <3>1, <3>2, <3>3
  <2>5. \A t \in Judging : b \notin Holds(t)'
    BY <1>1, <1>2, <1>3, <1>5 DEF Alone
  <2> QED
    BY <2>4, <2>5 DEF HealthExact
<1>6. ASSUME b \notin Holds(s) PROVE HealthExact(b)'
  <2>1. b \notin db.flushed
    BY <1>1, <1>6 DEF DbOK
  <2>2. box'[b].hard = box[b].hard /\ box'[b].health = box[b].health /\ bounced'[b] = bounced[b]
    BY <1>0, <1>3, <1>4, <1>6, <2>1
  <2>3. \A t \in Judging : b \in Holds(t)' => /\ session'[t].db.base[b].hard = box'[b].hard
                                             /\ session'[t].db.base[b].health = box'[b].health
    BY <1>2, <1>3, <2>2 DEF HealthExact
  <2> QED
    BY <1>3, <2>2, <2>3 DEF HealthExact
<1> QED
  BY <1>3, <1>5, <1>6

LEMMA HealthResets ==
    ASSUME Typed, HealthInv, Next, ResetCommit
    PROVE  HealthInv'
<1> DEFINE H == Holds(Resetter)
           p(b) == session[Resetter].db.base[b]
<1>0. /\ Elsewhere(Resetter) /\ session'[Resetter].db = NoRows
      /\ \A b \in Boxes \ H : box'[b] = box[b]
      /\ \A b \in H : box'[b].hard = IF p(b).hard # 0 THEN 0 ELSE box[b].hard
      /\ \A b \in Boxes : bounced'[b] = IF b \in H THEN 0 ELSE bounced[b]
  BY ResetCommitDoes DEF ResetCommit
<1>1. /\ Holds(Resetter)' = {}
      /\ \A t \in Judging \ {Resetter} : session'[t] = session[t] /\ Holds(t)' = Holds(t)
  BY <1>0, Nothing, Who DEF Elsewhere, Holds
<1> SUFFICES ASSUME NEW b \in Boxes \ disturbed'.health
             PROVE  Alone(Judging, b)' /\ HealthExact(b)'
  BY DEF HealthInv
<1>2. Alone(Judging, b)' /\ Alone(Judging, b) /\ HealthExact(b) /\ b \in Boxes
  BY Undisturbed DEF HealthInv
<1>3. ASSUME b \in H PROVE HealthExact(b)'
  <2>1. p(b).hard = box[b].hard
    BY <1>2, <1>3, Who DEF HealthExact
  <2>2. bounced'[b] = 0 /\ box'[b].hard = 0
    BY <1>0, <1>2, <1>3, <2>1
  <2>3. \A t \in Judging : b \notin Holds(t)'
    BY <1>1, <1>2, <1>3, Who DEF Alone
  <2> QED
    BY <2>2, <2>3 DEF HealthExact
<1>4. ASSUME b \notin H PROVE HealthExact(b)'
  <2>1. box'[b] = box[b] /\ bounced'[b] = bounced[b]
    BY <1>0, <1>2, <1>4
  <2> QED
    BY <1>1, <1>2, <2>1 DEF HealthExact
<1> QED
  BY <1>2, <1>3, <1>4

LEMMA HealthStep ==
    ASSUME Typed, HealthInv, Next
    PROVE  HealthInv'
<1>1. ASSUME NEW s \in Sending, Elsewhere(s),
             \A b \in Boxes : box'[b].hard = box[b].hard /\ box'[b].health = box[b].health,
             UNCHANGED bounced
      PROVE  HealthInv'
  <2>1. \A t \in Judging : session'[t] = session[t]
    BY <1>1, Who DEF Elsewhere
  <2>2. HealthKept
    BY <1>1, <2>1 DEF HealthKept, Holds
  <2> QED
    BY <2>2, HealthKeeps
<1>2. ASSUME NEW s \in Sending, \/ Start(s) \/ Pick(s) \/ ReadSlot(s) \/ TakeSlot(s) \/ Blocked(s)
                                \/ LostReply(s) \/ Deliver(s)
      PROVE  HealthInv'
  <2>1. Elsewhere(s)
    BY <1>2, StartDoes, PickDoes, ReadSlotDoes, TakeSlotDoes, BlockedDoes, LostReplyDoes,
       DeliverDoes DEF GaveUp
  <2>2. UNCHANGED <<box, bounced>>
    BY <1>2 DEF Start, Pick, ReadSlot, TakeSlot, Blocked, LostReply, Deliver, Others
  <2> QED
    BY <1>1, <2>1, <2>2
<1>3. ASSUME NEW s \in Sending, Finalize(s) PROVE HealthInv'
  <2>1. Elsewhere(s) /\ UNCHANGED bounced
    BY <1>3, FinalizeDoes DEF Finalize, Others
  <2>2. \A b \in Boxes : box'[b].hard = box[b].hard /\ box'[b].health = box[b].health
    BY <1>3, FinalizeDoes
  <2> QED
    BY <1>1, <2>1, <2>2
<1>4. ASSUME \/ \E b \in Boxes : SlotExpires(b) \/ AddMailbox(b)
             \/ StartPlacement \/ \E e \in Seeds : Mark(e)
      PROVE  HealthInv'
  <2>1. UNCHANGED <<session, bounced>>
    BY <1>4 DEF SlotExpires, AddMailbox, StartPlacement, Mark, Sent, Unsent, Others
  <2>2. \A b \in Boxes : box'[b].hard = box[b].hard /\ box'[b].health = box[b].health
    <3>1. ASSUME NEW b \in Boxes, AddMailbox(b)
          PROVE  \A o \in Boxes : box'[o].hard = box[o].hard /\ box'[o].health = box[o].health
      BY <3>1, AddDoes
    <3>2. (\A b \in Boxes : ~AddMailbox(b)) => box' = box
      BY <1>4 DEF SlotExpires, StartPlacement, Mark, Sent, Others
    <3> QED
      BY <3>1, <3>2
  <2>3. HealthKept
    BY <2>1, <2>2 DEF HealthKept, Holds
  <2> QED
    BY <2>3, HealthKeeps
<1>5. ASSUME NEW x \in Boxes, Edit(x) PROVE HealthInv'
  <2>1. UNCHANGED <<session, bounced>>
    BY <1>5 DEF Edit, Unsent
  <2>2. \A b \in Boxes : box'[b].hard = box[b].hard
    BY <1>5, EditDoes
  <2>3. \A b \in Boxes \ disturbed'.health :
           box'[b].health = box[b].health \/ \A s \in Judging : b \notin Holds(s)'
    <3>1. \A b \in Boxes \ {x} : box'[b] = box[b]
      BY <1>5, EditDoes
    <3>2. x \in Boxes \ disturbed'.health => \A s \in Judging : x \notin Holds(s)
      BY <1>5, Undisturbed
    <3> QED
      BY <2>1, <3>1, <3>2 DEF Holds
  <2>4. HealthKept
    BY <2>1, <2>2, <2>3 DEF HealthKept, Holds
  <2> QED
    BY <2>4, HealthKeeps
<1>6. ASSUME RunPlacement \/ PlacementDone PROVE HealthInv'
  BY <1>1, <1>6, PlacementDoes, Who DEF RunPlacement, PlacementDone, Sent, Others
<1>7. ASSUME NEW s \in Judging, Elsewhere(s), UNCHANGED <<box, bounced>>,
             \A b \in Boxes : b \in Holds(s)' =>
                \/ b \in Holds(s) /\ session'[s].db.base[b] = session[s].db.base[b]
                \/ session'[s].db.base[b] = box[b]
      PROVE  HealthInv'
  <2>1. \A t \in Judging \ {s} : session'[t] = session[t] /\ Holds(t)' = Holds(t)
    BY <1>7, Who DEF Elsewhere, Holds
  <2>2. ASSUME NEW t \in Judging, NEW b \in Boxes, b \in Holds(t)'
        PROVE  \/ b \in Holds(t) /\ session'[t].db.base[b] = session[t].db.base[b]
               \/ session'[t].db.base[b] = box[b]
    BY <1>7, <2>1, <2>2
  <2>3. HealthKept
    BY <1>7, <2>2 DEF HealthKept
  <2> QED
    BY <2>3, HealthKeeps
<1>8. ASSUME NEW s \in Pollers, Poll(s) PROVE HealthInv'
  <2>1. /\ Elsewhere(s) /\ Holds(s)' = Live
        /\ session'[s].db.base = [b \in Live |-> box[b]]
    BY <1>8, PollDoes
  <2>2. \A b \in Boxes : b \in Holds(s)' => session'[s].db.base[b] = box[b]
    BY <2>1
  <2>3. UNCHANGED <<box, bounced>>
    BY <1>8 DEF Poll, Others
  <2> QED
    BY <1>7, <2>1, <2>2, <2>3, Who
<1>9. ASSUME ResetStart PROVE HealthInv'
  BY <1>7, <1>9, ResetStartDoes, Who DEF ResetStart, Unsent, Others
<1>10. ASSUME NEW s \in Pollers, NEW b \in Boxes, Bounce(s, b) PROVE HealthInv'
  <2>1. /\ Elsewhere(s) /\ BounceFacts(s, b, DomainOf[b], session[s].db, session'[s].db)
        /\ UNCHANGED <<box, bounced>>
    BY <1>10, BounceDoes DEF Bounce, Unsent, Others
  <2>2. ASSUME NEW o \in Boxes, o \in Holds(s)'
        PROVE  \/ o \in Holds(s) /\ session'[s].db.base[o] = session[s].db.base[o]
               \/ session'[s].db.base[o] = box[o]
    BY <2>1, <2>2 DEF BounceFacts, Holds
  <2> QED
    BY <1>7, <2>1, <2>2, Who
<1>11. ASSUME NewDay PROVE HealthInv'
  <2>1. HealthKept
    BY <1>11, NewDayDoes, Who DEF HealthKept, Holds, NewDay, Unsent, Others
  <2> QED
    BY <2>1, HealthKeeps
<1>12. ASSUME NEW s \in Sessions, Die(s) PROVE HealthInv'
  <2>1. Elsewhere(s) /\ session'[s].db = NoRows /\ UNCHANGED <<box, bounced>>
    BY <1>12, Closes DEF Die, Unsent, Others
  <2>2. Holds(s)' = {}
    BY <2>1, Nothing DEF Holds
  <2> QED
    BY <1>1, <1>7, <2>1, <2>2 DEF Sessions, Judging
<1>13. Act
  BY DEF Next
<1>14. CASE \E s \in Sending : \/ Start(s) \/ Pick(s) \/ ReadSlot(s) \/ TakeSlot(s)
                               \/ Blocked(s) \/ LostReply(s) \/ Deliver(s) \/ Finalize(s)
  BY <1>2, <1>3, <1>14
<1>15. CASE \/ \E b \in Boxes : SlotExpires(b) \/ AddMailbox(b) \/ Edit(b)
            \/ StartPlacement \/ RunPlacement \/ PlacementDone \/ \E e \in Seeds : Mark(e)
  BY <1>4, <1>5, <1>6, <1>15
<1>16. CASE \E s \in Pollers : Poll(s) \/ PollCommit(s) \/ \E b \in Boxes : Bounce(s, b)
  BY <1>8, <1>10, <1>16, HealthPollCommits
<1>17. CASE ResetStart \/ ResetCommit \/ NewDay
  BY <1>9, <1>11, <1>17, HealthResets
<1>18. CASE \E s \in Sessions : Die(s)
  BY <1>12, <1>18
<1> QED
  BY <1>13, <1>14, <1>15, <1>16, <1>17, <1>18 DEF Act

LEMMA HealthStutter == HealthInv /\ UNCHANGED vars => HealthInv'
<1> SUFFICES ASSUME HealthInv, UNCHANGED vars PROVE HealthInv'
  OBVIOUS
<1>1. UNCHANGED <<session, box, bounced, disturbed>>
  BY DEF vars
<1> QED
  BY <1>1 DEF HealthInv, Alone, HealthExact, Holds

-----------------------------------------------------------------------------
(* Seeds are mailed and answered                                           *)

LEMMA SeedsInit == Init => SeedsInv
<1> SUFFICES ASSUME Init PROVE SeedsInv
  OBVIOUS
<1>1. session[Placer].pc = "closed"
  BY ClosedFits, Who DEF Init
<1>2. /\ \A e \in Seeds : mails[e] = 0 /\ placement.result[e].delivered = FALSE
      /\ placement.status = "none" /\ died = 0
  BY DEF Init
<1> QED
  BY <1>1, <1>2 DEF SeedsInv

(* The placement run stays at its seed, and no seed loses its answer.      *)
SeedsStay ==
    /\ session'[Placer].todo = session[Placer].todo
    /\ \/ session'[Placer].pc = session[Placer].pc
       \/ /\ session[Placer].pc \in {"open", "slot", "clear"} /\ session[Placer].todo # {}
          /\ session'[Placer].pc \in {"slot", "clear", "ready"}
    /\ \/ placement'.status = placement.status
       \/ placement.status = "none" /\ placement'.status = "running"
    /\ \A e \in Seeds : /\ placement'.result[e].delivered = placement.result[e].delivered
                        /\ Answered(e) => Answered(e)'
    /\ UNCHANGED mails

LEMMA SeedsStaying ==
    ASSUME Typed, SeedsInv, SeedsStay, died' \in Nat, died <= died'
    PROVE  SeedsInv'
<1>1. died \in Nat /\ mails \in [Seeds -> Nat] /\ Seed' = Seed
  BY DEF Typed, SeedsStay, Seed
<1>2. session[Placer].todo \subseteq Seeds
  BY Fields, Who
<1>3. \A e \in Seeds : mails'[e] <= 1 + died'
  BY <1>1 DEF SeedsInv, SeedsStay
<1>4. \A e \in Seeds : placement'.result[e].delivered => mails'[e] > 0
  BY DEF SeedsInv, SeedsStay
<1>5. placement'.status = "complete" => \A e \in Seeds : Answered(e)'
  BY DEF SeedsInv, SeedsStay
<1>6. ASSUME session'[Placer].pc = "closed"
      PROVE  \/ placement'.status \in {"complete", "failed"}
             \/ \A e \in Seeds : mails'[e] <= died'
  <2>1. session[Placer].pc = "closed"
    BY <1>6 DEF SeedsStay
  <2>2. CASE placement.status \in {"complete", "failed"}
    BY <2>2 DEF SeedsStay
  <2>3. CASE \A e \in Seeds : mails[e] <= died
    BY <1>1, <2>3 DEF SeedsStay
  <2> QED
    BY <2>1, <2>2, <2>3 DEF SeedsInv
<1>7. ASSUME session'[Placer].pc # "closed"
      PROVE  /\ placement'.status = "running"
             /\ \A e \in Seeds \ session'[Placer].todo : Answered(e)'
             /\ \A e \in session'[Placer].todo :
                   mails'[e] <= IF session'[Placer].pc = "mailed" /\ e = Seed' THEN 1 + died'
                                ELSE died'
             /\ session'[Placer].pc \in SendPC => session'[Placer].todo # {}
             /\ session'[Placer].pc = "mailed" => mails'[Seed'] > 0
  <2>1. session[Placer].pc # "closed"
    BY <1>7 DEF SeedsStay
  <2>2. placement'.status = "running"
    BY <2>1 DEF SeedsInv, SeedsStay
  <2>3. \A e \in Seeds \ session'[Placer].todo : Answered(e)'
    BY <2>1 DEF SeedsInv, SeedsStay
  <2>4. session'[Placer].pc = "mailed" => session[Placer].pc = "mailed"
    BY DEF SeedsStay
  <2>5. ASSUME NEW e \in session'[Placer].todo
        PROVE  mails'[e] <= IF session'[Placer].pc = "mailed" /\ e = Seed' THEN 1 + died'
                            ELSE died'
    <3>1. e \in session[Placer].todo /\ e \in Seeds /\ mails'[e] = mails[e] /\ mails[e] \in Nat
      BY <1>1, <1>2, <2>5 DEF SeedsStay
    <3>2. mails[e] <= IF session[Placer].pc = "mailed" /\ e = Seed THEN 1 + died ELSE died
      BY <2>1, <3>1 DEF SeedsInv
    <3>3. session[Placer].pc = "mailed" => session'[Placer].pc = "mailed"
      BY DEF SeedsStay
    <3> QED
      BY <1>1, <3>1, <3>2, <3>3
  <2>6. session'[Placer].pc \in SendPC => session'[Placer].todo # {}
    BY <2>1 DEF SeedsInv, SeedsStay
  <2>7. session'[Placer].pc = "mailed" => mails'[Seed'] > 0
    BY <1>1, <2>1, <2>4 DEF SeedsInv, SeedsStay
  <2> QED
    BY <2>2, <2>3, <2>5, <2>6, <2>7
<1> QED
  BY <1>3, <1>4, <1>5, <1>6, <1>7 DEF SeedsInv

(* The seed in hand gets its outcome, and the run goes on to the next.     *)
LEMMA SeedsRecorded ==
    ASSUME Typed, SeedsInv, NEW delivered \in BOOLEAN, Recorded(delivered),
           session[Placer].pc # "closed", session[Placer].todo # {},
           delivered => session[Placer].pc = "mailed",
           session'[Placer].pc = "open", session'[Placer].todo = session[Placer].todo \ {Seed},
           UNCHANGED mails, died' \in Nat, died <= died'
    PROVE  SeedsInv'
<1>1. Seed \in session[Placer].todo /\ Seed \in Seeds
  BY SeedInHand
<1>2. /\ placement'.status = placement.status
      /\ \A e \in Seeds \ {Seed} : placement'.result[e] = placement.result[e]
      /\ placement'.result[Seed].error = ~delivered
      /\ placement'.result[Seed].delivered = (placement.result[Seed].delivered \/ delivered)
  BY <1>1, RecordedDoes
<1>3. died \in Nat /\ mails \in [Seeds -> Nat] /\ session[Placer].todo \subseteq Seeds
  BY Fields, Who DEF Typed
<1>4. placement'.status = "running"
  BY <1>2 DEF SeedsInv
<1>5. \A e \in Seeds : mails'[e] <= 1 + died'
  BY <1>3 DEF SeedsInv
<1>6. delivered => mails[Seed] > 0
  BY DEF SeedsInv
<1>7. ASSUME NEW e \in Seeds, placement'.result[e].delivered PROVE mails'[e] > 0
  <2>1. CASE e = Seed
    BY <1>2, <1>6, <1>7, <2>1 DEF SeedsInv
  <2>2. CASE e # Seed
    BY <1>2, <1>7, <2>2 DEF SeedsInv
  <2> QED
    BY <2>1, <2>2
<1>8. ASSUME NEW e \in Seeds \ session'[Placer].todo PROVE Answered(e)'
  <2>1. CASE e = Seed
    BY <1>2, <2>1 DEF Answered
  <2>2. CASE e # Seed
    <3>1. Answered(e)
      BY <1>8, <2>2 DEF SeedsInv
    <3> QED
      BY <1>2, <2>2, <3>1 DEF Answered
  <2> QED
    BY <2>1, <2>2
<1>9. ASSUME NEW e \in session'[Placer].todo PROVE mails'[e] <= died'
  <2>1. e \in session[Placer].todo /\ e # Seed /\ mails[e] \in Nat
    BY <1>3, <1>9
  <2>2. mails[e] <= died
    BY <2>1 DEF SeedsInv
  <2> QED
    BY <1>3, <2>1, <2>2
<1> QED
  BY <1>4, <1>5, <1>7, <1>8, <1>9 DEF SeedsInv, SendPC

LEMMA SeedsDelivers ==
    ASSUME Typed, SeedsInv, Deliver(Placer), died' \in Nat, died <= died'
    PROVE  SeedsInv'
<1>1. /\ session[Placer].pc = "ready" /\ session'[Placer].pc = "mailed"
      /\ session'[Placer].todo = session[Placer].todo
  BY DeliverDoes, Who
<1>2. session[Placer].todo # {}
  BY <1>1 DEF SeedsInv, SendPC
<1>3. Seed \in session[Placer].todo /\ Seed \in Seeds /\ Seed' = Seed
  BY <1>1, <1>2, SeedInHand DEF Seed
<1>4. died \in Nat /\ mails \in [Seeds -> Nat] /\ session[Placer].todo \subseteq Seeds
  BY Fields, Who DEF Typed
<1>5. mails' = [mails EXCEPT ![Seed] = @ + 1] /\ UNCHANGED placement
  BY DEF Deliver, Out
<1>6. /\ mails'[Seed] = mails[Seed] + 1 /\ mails[Seed] \in Nat
      /\ \A e \in Seeds \ {Seed} : mails'[e] = mails[e]
  BY <1>3, <1>4, <1>5
<1>7. placement.status = "running"
  BY <1>1 DEF SeedsInv
<1>8. \A e \in session[Placer].todo : mails[e] <= died
  BY <1>1 DEF SeedsInv
<1>9. mails'[Seed] <= 1 + died' /\ mails'[Seed] > 0
  BY <1>3, <1>4, <1>6, <1>8
<1>10. ASSUME NEW e \in Seeds PROVE mails'[e] <= 1 + died'
  <2>1. CASE e = Seed
    BY <1>9, <2>1
  <2>2. CASE e # Seed
    <3>1. mails'[e] = mails[e] /\ mails[e] \in Nat /\ mails[e] <= 1 + died
      BY <1>4, <1>6, <2>2 DEF SeedsInv
    <3> QED
      BY <1>4, <3>1
  <2> QED
    BY <2>1, <2>2
<1>11. \A e \in Seeds : placement'.result[e].delivered => mails'[e] > 0
  BY <1>5, <1>6, <1>9 DEF SeedsInv
<1>12. \A e \in Seeds \ session'[Placer].todo : Answered(e)'
  BY <1>1, <1>5 DEF SeedsInv, Answered
<1>13. ASSUME NEW e \in session'[Placer].todo, e # Seed PROVE mails'[e] <= died'
  <2>1. mails'[e] = mails[e] /\ mails[e] \in Nat /\ mails[e] <= died
    BY <1>1, <1>4, <1>6, <1>8, <1>13
  <2> QED
    BY <1>4, <2>1
<1> QED
  BY <1>1, <1>2, <1>3, <1>5, <1>7, <1>9, <1>10, <1>11, <1>12, <1>13 DEF SeedsInv

(* The mail to the seed in hand left, and the run takes it for an error.    *)
LEMMA SeedsLost ==
    ASSUME Typed, SeedsInv, LostReply(Placer), died' \in Nat, died <= died'
    PROVE  SeedsInv'
<1>1. /\ session[Placer].pc = "ready" /\ session'[Placer].pc = "open"
      /\ session'[Placer].todo = session[Placer].todo \ {Seed}
      /\ session[Placer].todo # {} /\ Recorded(FALSE)
  BY LostReplyDoes, Who DEF GaveUp
<1>2. Seed \in session[Placer].todo /\ Seed \in Seeds
  BY <1>1, SeedInHand
<1>3. /\ placement'.status = placement.status
      /\ \A e \in Seeds \ {Seed} : placement'.result[e] = placement.result[e]
      /\ placement'.result[Seed].error = ~FALSE
      /\ placement'.result[Seed].delivered = (placement.result[Seed].delivered \/ FALSE)
  BY <1>1, <1>2, RecordedDoes
<1>4. died \in Nat /\ mails \in [Seeds -> Nat] /\ session[Placer].todo \subseteq Seeds
  BY Fields, Who DEF Typed
<1>5. mails' = [mails EXCEPT ![Seed] = @ + 1]
  BY DEF LostReply, Out
<1>6. /\ mails'[Seed] = mails[Seed] + 1 /\ mails[Seed] \in Nat
      /\ \A e \in Seeds \ {Seed} : mails'[e] = mails[e]
  BY <1>2, <1>4, <1>5
<1>7. /\ placement'.status = "running" /\ \A e \in session[Placer].todo : mails[e] <= died
      /\ \A e \in Seeds \ session[Placer].todo : Answered(e)
  BY <1>1, <1>3 DEF SeedsInv
<1>8. ASSUME NEW e \in Seeds PROVE mails'[e] <= 1 + died'
  <2>1. CASE e = Seed
    BY <1>2, <1>4, <1>6, <1>7, <2>1
  <2>2. CASE e # Seed
    <3>1. mails'[e] = mails[e] /\ mails[e] \in Nat /\ mails[e] <= 1 + died
      BY <1>4, <1>6, <2>2 DEF SeedsInv
    <3> QED
      BY <1>4, <3>1
  <2> QED
    BY <2>1, <2>2
<1>9. ASSUME NEW e \in Seeds, placement'.result[e].delivered PROVE mails'[e] > 0
  <2>1. CASE e = Seed
    BY <1>6, <2>1
  <2>2. CASE e # Seed
    BY <1>3, <1>6, <1>9, <2>2 DEF SeedsInv
  <2> QED
    BY <2>1, <2>2
<1>10. ASSUME NEW e \in Seeds \ session'[Placer].todo PROVE Answered(e)'
  <2>1. CASE e = Seed
    BY <1>3, <2>1 DEF Answered
  <2>2. CASE e # Seed
    BY <1>1, <1>3, <1>7, <1>10, <2>2 DEF Answered
  <2> QED
    BY <2>1, <2>2
<1>11. ASSUME NEW e \in session'[Placer].todo PROVE mails'[e] <= died'
  <2>1. mails'[e] = mails[e] /\ mails[e] \in Nat /\ mails[e] <= died
    BY <1>1, <1>4, <1>6, <1>7, <1>11
  <2> QED
    BY <1>4, <2>1
<1> QED
  BY <1>1, <1>7, <1>8, <1>9, <1>10, <1>11 DEF SeedsInv, SendPC

LEMMA SeedsDies ==
    ASSUME Typed, SeedsInv, Next, Die(Placer)
    PROVE  SeedsInv'
<1>1. session[Placer] # Closed /\ UNCHANGED <<placement, mails>>
  BY DEF Die, Unsent
<1>2. died' = died + 1 /\ session'[Placer].pc = "closed"
  BY <1>1, Closes, Who DEF Next, Die
<1>3. died \in Nat /\ mails \in [Seeds -> Nat]
  BY DEF Typed
<1>4. \A e \in Seeds : mails'[e] <= died'
  BY <1>1, <1>2, <1>3 DEF SeedsInv
<1>5. \A e \in Seeds : mails'[e] <= 1 + died'
  BY <1>1, <1>2, <1>3, <1>4
<1>6. /\ \A e \in Seeds : placement'.result[e].delivered => mails'[e] > 0
      /\ placement'.status = "complete" => \A e \in Seeds : Answered(e)'
  BY <1>1 DEF SeedsInv, Answered
<1> QED
  BY <1>2, <1>4, <1>5, <1>6 DEF SeedsInv

LEMMA SeedsRuns ==
    ASSUME Typed, SeedsInv, RunPlacement \/ PlacementDone, died' \in Nat, died <= died'
    PROVE  SeedsInv'
<1>1. UNCHANGED mails /\ died \in Nat /\ mails \in [Seeds -> Nat]
  BY DEF RunPlacement, PlacementDone, Sent, Typed
<1>2. \A e \in Seeds : mails'[e] <= 1 + died'
  BY <1>1 DEF SeedsInv
<1>3. CASE PlacementDone
  <2>1. /\ session[Placer].pc = "open" /\ session[Placer].todo = {}
        /\ session'[Placer].pc = "closed"
    BY <1>3, Closes, Who DEF PlacementDone
  <2>2. placement'.status = "complete" /\ placement'.result = placement.result
    BY <1>3 DEF PlacementDone, Typed
  <2>3. \A e \in Seeds : Answered(e)'
    BY <2>1, <2>2 DEF SeedsInv, Answered
  <2> QED
    BY <1>1, <1>2, <2>1, <2>2, <2>3 DEF SeedsInv
<1>4. CASE RunPlacement
  <2>1. session[Placer].pc = "closed" /\ placement.status = "running"
    BY <1>4, ClosedFits DEF RunPlacement
  <2>2. \A e \in Seeds : mails[e] <= died
    BY <2>1 DEF SeedsInv
  <2>3. \A e \in Seeds : mails'[e] <= died'
    BY <1>1, <2>2
  <2>4. CASE session'[Placer].pc = "open"
    <3>1. /\ session'[Placer].todo = {e \in Seeds : placement.result[e].verdict = "pending"}
          /\ UNCHANGED placement
      BY <1>4, <2>4, PlacementDoes
    <3>2. \A e \in Seeds : placement.result[e].verdict \in {"pending", "marked"}
      BY DEF Typed, Result
    <3>3. \A e \in Seeds \ session'[Placer].todo : Answered(e)'
      BY <3>1, <3>2 DEF Answered
    <3> QED
      BY <1>1, <1>2, <2>1, <2>3, <2>4, <3>1, <3>3 DEF SeedsInv, SendPC
  <2>5. CASE session'[Placer].pc # "open"
    <3>1. session'[Placer].pc = "closed"
      BY <1>4, <2>5, PlacementDoes
    <3>2. placement'.result = placement.result /\ placement'.status \in {"running", "failed"}
      BY <1>4, <2>1 DEF RunPlacement, Typed
    <3> QED
      BY <1>1, <1>2, <2>1, <2>3, <3>1, <3>2 DEF SeedsInv
  <2> QED
    BY <2>4, <2>5
<1> QED
  BY <1>3, <1>4

LEMMA SeedsStep ==
    ASSUME Typed, SeedsInv, Next
    PROVE  SeedsInv'
<1>0. died' \in Nat /\ died <= died' /\ Placer \in Sending /\ Placer \in Sessions
  BY HistoryTyped, Who
<1>1. ASSUME session'[Placer] = session[Placer], UNCHANGED <<placement, mails>> PROVE SeedsInv'
  <2>1. SeedsStay
    BY <1>1 DEF SeedsStay, Answered
  <2> QED
    BY <1>0, <2>1, SeedsStaying
<1>2. ASSUME NEW s \in Sending, s # Placer,
             \/ Start(s) \/ Pick(s) \/ ReadSlot(s) \/ TakeSlot(s) \/ Blocked(s)
             \/ LostReply(s) \/ Deliver(s) \/ Finalize(s)
      PROVE  SeedsInv'
  <2>1. Elsewhere(s)
    BY <1>2, StartDoes, PickDoes, ReadSlotDoes, TakeSlotDoes, BlockedDoes, LostReplyDoes,
       DeliverDoes, FinalizeDoes DEF GaveUp
  <2>2. UNCHANGED mails
    BY <1>2 DEF Start, Pick, ReadSlot, TakeSlot, Blocked, LostReply, Deliver, Finalize, Out
  <2>3. UNCHANGED placement
    <3>1. CASE Blocked(s) \/ LostReply(s)
      BY <1>2, <3>1, BlockedDoes, LostReplyDoes DEF GaveUp
    <3>2. CASE Finalize(s)
      BY <1>2, <3>2, FinalizeDoes DEF Ends
    <3> QED
      BY <1>2, <3>1, <3>2 DEF Start, Pick, ReadSlot, TakeSlot, Deliver
  <2> QED
    BY <1>0, <1>1, <1>2, <2>1, <2>2, <2>3 DEF Elsewhere
<1>3. ASSUME Pick(Placer) \/ ReadSlot(Placer) \/ TakeSlot(Placer) PROVE SeedsInv'
  <2>1. /\ session[Placer].pc \in {"open", "slot", "clear"}
        /\ session'[Placer].pc \in {"slot", "clear", "ready"}
        /\ session'[Placer].todo = session[Placer].todo
    BY <1>0, <1>3, PickDoes, ReadSlotDoes, TakeSlotDoes
  <2>2. session[Placer].todo # {}
    <3>1. CASE Pick(Placer)
      BY <1>0, <3>1, PickDoes
    <3>2. CASE session[Placer].pc \in {"slot", "clear"}
      BY <3>2 DEF SeedsInv, SendPC
    <3> QED
      BY <1>0, <1>3, <3>1, <3>2, ReadSlotDoes, TakeSlotDoes
  <2>3. UNCHANGED <<placement, mails>>
    BY <1>3 DEF Pick, ReadSlot, TakeSlot
  <2>4. SeedsStay
    BY <2>1, <2>2, <2>3 DEF SeedsStay, Answered
  <2> QED
    BY <1>0, <2>4, SeedsStaying
<1>4. ASSUME Blocked(Placer) PROVE SeedsInv'
  <2>1. /\ session[Placer].pc # "closed" /\ session'[Placer].pc = "open"
        /\ session'[Placer].todo = session[Placer].todo \ {Seed}
        /\ session[Placer].todo # {} /\ Recorded(FALSE)
    BY <1>0, <1>4, BlockedDoes DEF GaveUp
  <2>2. UNCHANGED mails
    BY <1>4 DEF Blocked
  <2> QED
    BY <1>0, <2>1, <2>2, SeedsRecorded
<1>5. ASSUME Finalize(Placer) PROVE SeedsInv'
  <2>1. session[Placer].pc = "mailed" /\ NextSeed /\ UNCHANGED mails
    BY <1>0, <1>5, FinalizeDoes DEF Finalize
  <2>2. session[Placer].todo # {}
    BY <2>1 DEF SeedsInv, SendPC
  <2> QED
    BY <1>0, <2>1, <2>2, SeedsRecorded DEF NextSeed
<1>6. ~Start(Placer)
  BY DEF Start
<1>7. ASSUME StartPlacement \/ (\E e \in Seeds : Mark(e)) PROVE SeedsInv'
  <2>1. UNCHANGED <<session, mails>>
    BY <1>7 DEF StartPlacement, Mark, Sent
  <2>2. CASE StartPlacement
    <3>1. /\ placement'.result = placement.result
          /\ placement.status = "none" /\ placement'.status = "running"
      BY <2>2 DEF StartPlacement, Typed
    <3>2. SeedsStay
      BY <2>1, <3>1 DEF SeedsStay, Answered
    <3> QED
      BY <1>0, <3>2, SeedsStaying
  <2>3. ASSUME NEW m \in Seeds, Mark(m) PROVE SeedsInv'
    <3>1. /\ placement'.status = placement.status
          /\ \A e \in Seeds \ {m} : placement'.result[e] = placement.result[e]
          /\ placement'.result[m].verdict = "marked"
          /\ placement'.result[m].delivered = placement.result[m].delivered
      BY <2>3, MarkDoes
    <3>2. ASSUME NEW e \in Seeds
          PROVE  /\ placement'.result[e].delivered = placement.result[e].delivered
                 /\ Answered(e) => Answered(e)'
      <4>1. CASE e = m
        BY <3>1, <4>1 DEF Answered
      <4>2. CASE e # m
        BY <3>1, <4>2 DEF Answered
      <4> QED
        BY <4>1, <4>2
    <3>3. SeedsStay
      BY <2>1, <3>1, <3>2 DEF SeedsStay
    <3> QED
      BY <1>0, <3>3, SeedsStaying
  <2> QED
    BY <1>7, <2>2, <2>3
<1>8. ASSUME \E b \in Boxes : SlotExpires(b) \/ AddMailbox(b) \/ Edit(b) PROVE SeedsInv'
  BY <1>1, <1>8 DEF SlotExpires, AddMailbox, Edit, Unsent
<1>9. ASSUME NEW s \in Judging, Elsewhere(s), UNCHANGED <<placement, mails>> PROVE SeedsInv'
  BY <1>0, <1>1, <1>9, Who DEF Elsewhere
<1>10. ASSUME NEW s \in Pollers, Poll(s) \/ PollCommit(s) \/ (\E b \in Boxes : Bounce(s, b))
       PROVE  SeedsInv'
  <2>1. Elsewhere(s)
    BY <1>10, PollDoes, PollCommitDoes, BounceDoes
  <2>2. UNCHANGED <<placement, mails>>
    BY <1>10 DEF Poll, PollCommit, Bounce, Unsent
  <2> QED
    BY <1>9, <2>1, <2>2, Who
<1>11. ASSUME ResetStart \/ ResetCommit PROVE SeedsInv'
  <2>1. Elsewhere(Resetter)
    BY <1>11, ResetStartDoes, ResetCommitDoes
  <2>2. UNCHANGED <<placement, mails>>
    BY <1>11 DEF ResetStart, ResetCommit, Unsent
  <2> QED
    BY <1>9, <2>1, <2>2, Who
<1>12. ASSUME NewDay PROVE SeedsInv'
  <2>1. /\ session'[Placer].pc = session[Placer].pc
        /\ session'[Placer].todo = session[Placer].todo
    BY <1>0, <1>12, NewDayDoes
  <2>2. UNCHANGED <<placement, mails>>
    BY <1>12 DEF NewDay, Unsent
  <2>3. SeedsStay
    BY <2>1, <2>2 DEF SeedsStay, Answered
  <2> QED
    BY <1>0, <2>3, SeedsStaying
<1>13. ASSUME NEW s \in Sessions, Die(s), s # Placer PROVE SeedsInv'
  <2>1. Elsewhere(s) /\ UNCHANGED <<placement, mails>>
    BY <1>13, Closes DEF Die, Unsent
  <2> QED
    BY <1>0, <1>1, <1>13, <2>1 DEF Elsewhere
<1>14. Act
  BY DEF Next
<1>15. CASE \E s \in Sending : \/ Start(s) \/ Pick(s) \/ ReadSlot(s) \/ TakeSlot(s)
                               \/ Blocked(s) \/ LostReply(s) \/ Deliver(s) \/ Finalize(s)
  BY <1>0, <1>2, <1>3, <1>4, <1>5, <1>6, <1>15, SeedsDelivers, SeedsLost
<1>16. CASE \/ \E b \in Boxes : SlotExpires(b) \/ AddMailbox(b) \/ Edit(b)
            \/ StartPlacement \/ RunPlacement \/ PlacementDone \/ \E e \in Seeds : Mark(e)
  BY <1>0, <1>7, <1>8, <1>16, SeedsRuns
<1>17. CASE \E s \in Pollers : Poll(s) \/ PollCommit(s) \/ \E b \in Boxes : Bounce(s, b)
  BY <1>10, <1>17
<1>18. CASE ResetStart \/ ResetCommit \/ NewDay
  BY <1>11, <1>12, <1>18
<1>19. CASE \E s \in Sessions : Die(s)
  BY <1>13, <1>19, SeedsDies
<1> QED
  BY <1>14, <1>15, <1>16, <1>17, <1>18, <1>19 DEF Act

LEMMA SeedsStutter == SeedsInv /\ UNCHANGED vars => SeedsInv'
<1> SUFFICES ASSUME SeedsInv, UNCHANGED vars PROVE SeedsInv'
  OBVIOUS
<1>1. UNCHANGED <<session, placement, mails, died>> /\ Seed' = Seed
  BY DEF vars, Seed
<1> QED
  BY <1>1 DEF SeedsInv, Answered

-----------------------------------------------------------------------------
(* Pauses hold                                                             *)

LEMMA PauseInit == Init => PauseInv
<1> SUFFICES ASSUME Init PROVE PauseInv
  OBVIOUS
<1>1. \A d \in Domains : stat[d].bounces = 0
  BY DEF Init
<1>2. \A s \in Pollers : session[s].db = NoRows
  BY ClosedFits, Who DEF Init
<1>3. \A s \in Pollers, d \in Domains : session[s].db.bumps[d] = 0
  BY <1>2, Nothing
<1>4. PauseHolds
  BY <1>1 DEF PauseHolds
<1>5. \A s \in Pollers : \A b \in Live : ~Reaches(s, DomainOf[b])
  BY <1>3 DEF Reaches, Live
<1> QED
  BY <1>3, <1>4, <1>5 DEF PauseInv

(* What a box will be once the poll t commits.                             *)
AfterIs ==
    \A t \in Pollers, b \in Boxes :
       LET db == session[t].db
       IN  /\ b \in db.flushed => b \in Holds(t) /\ Writes(db.base[b], db.row[b])
           /\ After(t, b) = IF b \in db.flushed /\ db.row[b].health # db.base[b].health
                            THEN db.row[b].health ELSE box[b].health

LEMMA AfterPoll == Typed => AfterIs
<1> SUFFICES ASSUME Typed, NEW t \in Pollers, NEW b \in Boxes
    PROVE  LET db == session[t].db
           IN  /\ b \in db.flushed => b \in Holds(t) /\ Writes(db.base[b], db.row[b])
               /\ After(t, b) = IF b \in db.flushed /\ db.row[b].health # db.base[b].health
                                THEN db.row[b].health ELSE box[b].health
  BY DEF AfterIs
<1>1. session[t].db \in Db /\ DbOK(session[t].db) /\ Holds(t) = DOMAIN session[t].db.row
  BY Fields, Who DEF SessionOK
<1>2. b \in session[t].db.flushed =>
         b \in Holds(t) /\ Writes(session[t].db.base[b], session[t].db.row[b])
  BY <1>1 DEF DbOK
<1> QED
  BY <1>1, <1>2, AfterRow DEF After

(* A poll that read a box as paused does not revive it.                    *)
PausedSeen ==
    \A t \in Pollers, b \in Boxes \ disturbed.health :
       box[b].health = "paused" => After(t, b) = "paused"

LEMMA PausedIsSeen == Typed /\ HealthInv => PausedSeen
<1> SUFFICES ASSUME Typed, HealthInv, NEW t \in Pollers, NEW b \in Boxes \ disturbed.health,
                    box[b].health = "paused"
             PROVE  After(t, b) = "paused"
  BY DEF PausedSeen
<1>1. t \in Judging /\ b \in Boxes
  BY Who
<1>2. b \in Holds(t) => session[t].db.base[b].health = "paused"
  BY <1>1 DEF HealthInv, HealthExact
<1>3. AfterIs
  BY AfterPoll
<1> QED
  BY <1>1, <1>2, <1>3 DEF AfterIs, Writes

LEMMA SeenNext ==
    ASSUME Typed, HealthInv, Next
    PROVE  Typed' /\ HealthInv' /\ AfterIs' /\ PausedSeen'
<1>1. Typed' /\ HealthInv'
  BY TypedStep, HealthStep
<1>2. (Typed => AfterIs)'
  BY AfterPoll, PTL
<1>3. (Typed /\ HealthInv => PausedSeen)'
  BY PausedIsSeen, PTL
<1> QED
  BY <1>1, <1>2, <1>3

(* A pause is not taken back but by the operator.                          *)
BoxStays(b) ==
    \/ b \in disturbed'.health \/ b \in excused' \/ box'[b].health = "paused"
    \/ b \in Live /\ b \notin excused \cup disturbed.health /\ box[b].health # "paused"

LEMMA PausedBoxStays ==
    ASSUME Typed, Next, NEW b \in Boxes, b \in Live, b \in excused => b \in excused',
           box[b].health = "paused" => box'[b].health = "paused"
    PROVE  BoxStays(b)
BY HistoryTyped DEF BoxStays

LEMMA PauseStill ==
    ASSUME PauseInv, NEW d \in Domains, Threshold > 0, stat[d].bounces >= Threshold,
           NEW b \in Boxes, DomainOf[b] = d, BoxStays(b)
    PROVE  box'[b].health = "paused" \/ b \in excused' \cup disturbed'.health
BY DEF PauseInv, PauseHolds, BoxStays

LEMMA PendingStill ==
    ASSUME Typed, HealthInv, PauseInv, Next, NEW t \in Pollers, NEW b \in Boxes,
           session'[t].db = session[t].db, Reaches(t, DomainOf[b]), BoxStays(b)
    PROVE  After(t, b)' = "paused" \/ b \in excused' \cup disturbed'.health
<1>1. AfterIs /\ AfterIs' /\ PausedSeen'
  BY SeenNext, AfterPoll
<1>2. CASE box'[b].health = "paused"
  BY <1>1, <1>2 DEF PausedSeen
<1>3. CASE b \in Live /\ b \notin excused \cup disturbed.health /\ box[b].health # "paused"
  <2>1. After(t, b) = "paused"
    BY <1>3 DEF PauseInv
  <2>2. /\ b \in session[t].db.flushed
        /\ session[t].db.row[b].health # session[t].db.base[b].health
        /\ session[t].db.row[b].health = "paused"
    BY <1>1, <1>3, <2>1 DEF AfterIs
  <2> QED
    BY <1>1, <2>2 DEF AfterIs
<1> QED
  BY <1>2, <1>3 DEF BoxStays

(* The steps that leave the bounces of the day, and the transactions of    *)
(* the polls or all that they have not committed, as they are.             *)
Calm(t) ==
    session'[t].db = session[t].db \/ \A d \in Domains : session'[t].db.bumps[d] = 0

LEMMA PauseKeeps ==
    ASSUME Typed, HealthInv, PauseInv, Next, \A t \in Pollers : Calm(t),
           \A d \in Domains : stat'[d].bounces = stat[d].bounces,
           \A b \in Boxes : b \in Live' => BoxStays(b)
    PROVE  PauseInv'
<1>0. Live' \subseteq Boxes /\ \A b \in Boxes : DomainOf[b] \in Domains
  BY DEF Live
<1>1. \A t \in Pollers, d \in Domains : session'[t].db.bumps[d] > 0 =>
         session'[t].db = session[t].db
  BY DEF Calm
<1>2. \A d \in Domains, s, t \in Pollers :
         session'[s].db.bumps[d] > 0 /\ session'[t].db.bumps[d] > 0 => s = t
  BY <1>1 DEF PauseInv
<1>3. PauseHolds'
  BY <1>0, PauseStill DEF PauseHolds
<1>4. ASSUME NEW s \in Pollers, NEW b \in Live', Reaches(s, DomainOf[b])'
      PROVE  After(s, b)' = "paused" \/ b \in excused' \cup disturbed'.health
  <2>1. session'[s].db = session[s].db /\ b \in Boxes /\ BoxStays(b)
    BY <1>0, <1>1, <1>4 DEF Reaches
  <2>2. Reaches(s, DomainOf[b])
    BY <1>0, <1>4, <2>1 DEF Reaches
  <2> QED
    BY <2>1, <2>2, PendingStill
<1> QED
  BY <1>2, <1>3, <1>4 DEF PauseInv

LEMMA PauseQuiet ==
    ASSUME Typed, HealthInv, PauseInv, Next, \A t \in Pollers : Calm(t), UNCHANGED excused,
           \A d \in Domains : stat'[d].bounces = stat[d].bounces,
           \A b \in Boxes : box'[b].state = box[b].state /\ box'[b].health = box[b].health
    PROVE  PauseInv'
<1>1. ASSUME NEW b \in Boxes, b \in Live' PROVE BoxStays(b)
  <2>1. b \in Live
    BY <1>1 DEF Live
  <2> QED
    BY <2>1, PausedBoxStays
<1> QED
  BY <1>1, PauseKeeps

LEMMA NotPolls ==
    ASSUME Typed, NEW s \in Counting, Elsewhere(s)
    PROVE  \A t \in Pollers : Calm(t)
BY Who DEF Elsewhere, Calm

LEMMA OnePoll ==
    ASSUME Typed, NEW s \in Pollers, Elsewhere(s),
           \A d \in Domains : session'[s].db.bumps[d] = 0
    PROVE  \A t \in Pollers : Calm(t)
BY Who DEF Elsewhere, Calm

LEMMA PauseBounces ==
    ASSUME Typed, HealthInv, PauseInv, Next, NEW s \in Pollers, NEW x \in Boxes, Bounce(s, x)
    PROVE  PauseInv'
<1> DEFINE d == DomainOf[x]
           db == session[s].db
           n == session'[s].db
<1>1. /\ Elsewhere(s) /\ BounceFacts(s, x, d, db, n) /\ LockedDomain(d) \subseteq {s}
      /\ UNCHANGED <<box, stat, excused>> /\ d \in Domains
  BY BounceDoes DEF Bounce, Others
<1>2. /\ \A t \in Pollers \ {s} : session'[t] = session[t]
      /\ s \in Sessions /\ s \in Judging /\ Pollers \subseteq Sessions
  BY <1>1, Who DEF Elsewhere
<1>3. /\ db.bumps \in [Domains -> Nat] /\ n.bumps[d] = db.bumps[d] + 1
      /\ \A e \in Domains \ {d} : n.bumps[e] = db.bumps[e]
  BY <1>1, <1>2, Fields DEF BounceFacts
<1>4. ASSUME NEW t \in Pollers \ {s} PROVE session[t].db.bumps[d] = 0
  <2>1. session[t].db.bumps[d] \in Nat
    BY <1>1, <1>2, Fields
  <2> QED
    BY <1>1, <1>2, <2>1 DEF LockedDomain
<1>5. ASSUME NEW e \in Domains, NEW t \in Pollers, NEW u \in Pollers,
             session'[t].db.bumps[e] > 0, session'[u].db.bumps[e] > 0
      PROVE  t = u
  <2>1. CASE e = d
    BY <1>2, <1>4, <1>5, <2>1
  <2>2. CASE e # d
    <3>1. \A v \in Pollers : session'[v].db.bumps[e] = session[v].db.bumps[e]
      BY <1>2, <1>3, <2>2
    <3> QED
      BY <1>5, <3>1 DEF PauseInv
  <2> QED
    BY <2>1, <2>2
<1>6. Live' = Live /\ disturbed.health \subseteq disturbed'.health
  BY <1>1, HistoryTyped DEF Live
<1>7. PauseHolds'
  BY <1>1, <1>6 DEF PauseInv, PauseHolds
<1>8. \A b \in Live : b \in Boxes /\ BoxStays(b)
  BY <1>1, PausedBoxStays DEF Live
<1>9. AfterIs' /\ AfterIs /\ HealthInv'
  BY SeenNext, AfterPoll
<1>10. ASSUME NEW b \in Live, DomainOf[b] = d, Reaches(s, d)'
       PROVE  After(s, b)' = "paused" \/ b \in excused' \cup disturbed'.health
  <2>1. \/ b \in n.flushed /\ n.row[b].health = "paused"
        \/ BoxAfter(n)[b].health = "paused"
    BY <1>1, <1>10 DEF Reaches, BounceFacts
  <2>2. CASE b \in n.flushed /\ n.row[b].health = "paused"
    <3>1. b \in Holds(s)' /\ b \in Boxes
      BY <1>8, <1>9, <2>2 DEF AfterIs
    <3>2. b \notin disturbed'.health => n.base[b].health = box'[b].health
      BY <1>2, <1>9, <3>1 DEF HealthInv, HealthExact
    <3> QED
      BY <1>9, <2>2, <3>1, <3>2 DEF AfterIs
  <2>3. CASE BoxAfter(n)[b].health = "paused"
    <3>1. BoxAfter(n)[b] = (BoxAfter(session[s].db)[b])'
      BY <1>1, <1>8 DEF BoxAfter
    <3> QED
      BY <2>3, <3>1 DEF After
  <2> QED
    BY <2>1, <2>2, <2>3
<1>11. ASSUME NEW b \in Live, DomainOf[b] # d, Reaches(s, DomainOf[b])'
       PROVE  After(s, b)' = "paused" \/ b \in excused' \cup disturbed'.health
  <2>1. Reaches(s, DomainOf[b])
    BY <1>1, <1>3, <1>8, <1>11 DEF Reaches
  <2>2. After(s, b) = "paused" \/ b \in excused \cup disturbed.health
    BY <2>1 DEF PauseInv
  <2>3. /\ b \in n.flushed <=> b \in db.flushed
        /\ b \in DOMAIN db.row => n.row[b] = db.row[b] /\ n.base[b] = db.base[b]
    BY <1>1, <1>8, <1>11 DEF BounceFacts
  <2>4. After(s, b)' = After(s, b)
    BY <1>1, <1>8, <1>9, <2>3 DEF AfterIs, Holds
  <2> QED
    BY <1>1, <1>6, <2>2, <2>4
<1>12. ASSUME NEW t \in Pollers, t # s, NEW b \in Live, Reaches(t, DomainOf[b])'
       PROVE  After(t, b)' = "paused" \/ b \in excused' \cup disturbed'.health
  <2>1. session'[t].db = session[t].db /\ Reaches(t, DomainOf[b])
    BY <1>1, <1>2, <1>12 DEF Reaches
  <2> QED
    BY <1>8, <2>1, PendingStill
<1>13. \A t \in Pollers : \A b \in Live' : Reaches(t, DomainOf[b])' =>
          After(t, b)' = "paused" \/ b \in excused' \cup disturbed'.health
  BY <1>6, <1>10, <1>11, <1>12
<1> QED
  BY <1>5, <1>7, <1>13 DEF PauseInv

LEMMA PausePollCommits ==
    ASSUME Typed, HealthInv, PauseInv, Next, NEW s \in Pollers, PollCommit(s)
    PROVE  PauseInv'
<1> DEFINE db == session[s].db
<1>1. /\ Elsewhere(s) /\ session'[s].db = NoRows /\ box' = BoxAfter(db)
      /\ \A e \in Domains : stat'[e].bounces = stat[e].bounces + db.bumps[e]
      /\ excused' = excused \ {b \in Boxes : box'[b].health = "paused"}
  BY PollCommitDoes DEF PollCommit
<1>2. /\ db \in Db /\ DbOK(db) /\ s \in Sessions /\ Pollers \subseteq Sessions
      /\ db.bumps \in [Domains -> Nat]
  BY Fields, Who DEF SessionOK
<1>3. /\ \A t \in Pollers \ {s} : session'[t] = session[t]
      /\ \A e \in Domains : session'[s].db.bumps[e] = 0
  BY <1>1, <1>2, Nothing DEF Elsewhere
<1>4. /\ \A b \in Boxes : box'[b].state = box[b].state /\ box'[b].health = After(s, b)
      /\ \A b \in Boxes : DomainOf[b] \in Domains
      /\ \A e \in Domains : stat[e].bounces \in Nat
  BY <1>1, <1>2, AfterRow DEF After, Typed
<1>5. Live' = Live /\ Live \subseteq Boxes /\ disturbed.health \subseteq disturbed'.health
  BY <1>4, HistoryTyped DEF Live
<1>6. PausedSeen
  BY PausedIsSeen
<1>7. ASSUME NEW b \in Live PROVE BoxStays(b)
  <2>1. b \in disturbed.health => b \in disturbed'.health
    BY <1>5
  <2>2. b \notin disturbed.health /\ box[b].health = "paused" => box'[b].health = "paused"
    BY <1>4, <1>5, <1>6 DEF PausedSeen
  <2>3. b \in excused => b \in excused' \/ box'[b].health = "paused"
    BY <1>1, <1>5
  <2> QED
    BY <2>1, <2>2, <2>3 DEF BoxStays
<1>8. ASSUME NEW e \in Domains, Threshold > 0, stat'[e].bounces >= Threshold,
             NEW b \in Live, DomainOf[b] = e
      PROVE  box'[b].health = "paused" \/ b \in excused' \cup disturbed'.health
  <2>1. CASE db.bumps[e] > 0
    <3>1. Reaches(s, e)
      BY <1>1, <1>8, <2>1 DEF Reaches
    <3>2. After(s, b) = "paused" \/ b \in excused \cup disturbed.health
      BY <1>8, <3>1 DEF PauseInv
    <3> QED
      BY <1>1, <1>4, <1>5, <3>2
  <2>2. CASE ~(db.bumps[e] > 0)
    <3>1. db.bumps[e] = 0
      BY <1>2, <2>2
    <3>2. stat[e].bounces >= Threshold
      BY <1>1, <1>4, <1>8, <3>1
    <3> QED
      BY <1>5, <1>7, <1>8, <3>2, PauseStill
  <2> QED
    BY <2>1, <2>2
<1>9. PauseHolds'
  BY <1>5, <1>8 DEF PauseHolds
<1>10. ASSUME NEW e \in Domains, NEW t \in Pollers, NEW u \in Pollers,
              session'[t].db.bumps[e] > 0, session'[u].db.bumps[e] > 0
       PROVE  t = u
  <2>1. t # s /\ u # s
    BY <1>3, <1>10
  <2> QED
    BY <1>3, <1>10, <2>1 DEF PauseInv
<1>11. ASSUME NEW t \in Pollers, NEW b \in Live, Reaches(t, DomainOf[b])'
       PROVE  After(t, b)' = "paused" \/ b \in excused' \cup disturbed'.health
  <2>0. DomainOf[b] \in Domains
    BY <1>4, <1>5
  <2>1. t # s
    BY <1>3, <1>11, <2>0 DEF Reaches
  <2>2. session'[t] = session[t] /\ session[t].db.bumps[DomainOf[b]] > 0
    BY <1>3, <1>11, <2>1 DEF Reaches
  <2>3. db.bumps[DomainOf[b]] = 0
    <3>1. ~(db.bumps[DomainOf[b]] > 0)
      BY <2>0, <2>1, <2>2 DEF PauseInv
    <3> QED
      BY <1>2, <2>0, <3>1
  <2>4. stat'[DomainOf[b]].bounces = stat[DomainOf[b]].bounces
    BY <1>1, <1>4, <2>0, <2>3
  <2>5. Reaches(t, DomainOf[b])
    BY <1>11, <2>2, <2>4 DEF Reaches
  <2> QED
    BY <1>5, <1>7, <2>2, <2>5, PendingStill
<1> QED
  BY <1>5, <1>9, <1>10, <1>11 DEF PauseInv

LEMMA PauseResetCommits ==
    ASSUME Typed, HealthInv, PauseInv, Next, ResetCommit
    PROVE  PauseInv'
<1> DEFINE p(b) == session[Resetter].db.base[b]
<1>1. /\ Elsewhere(Resetter) /\ UNCHANGED <<stat, excused>>
      /\ \A b \in Boxes \ Holds(Resetter) : box'[b] = box[b]
      /\ \A b \in Holds(Resetter) :
            LET h == IF p(b).health = "degraded" THEN "ok" ELSE p(b).health
            IN  /\ box'[b].state = box[b].state
                /\ box'[b].health = IF h # p(b).health THEN h ELSE box[b].health
  BY ResetCommitDoes DEF ResetCommit
<1>2. \A t \in Pollers : Calm(t)
  BY <1>1, NotPolls, Who
<1>3. ASSUME NEW b \in Boxes, b \in Live' PROVE BoxStays(b)
  <2>1. b \in Live
    BY <1>1, <1>3 DEF Live
  <2>2. b \notin disturbed.health /\ b \in Holds(Resetter) => p(b).health = box[b].health
    BY Who DEF HealthInv, HealthExact
  <2>3. b \notin disturbed.health /\ box[b].health = "paused" => box'[b].health = "paused"
    BY <1>1, <2>2
  <2> QED
    BY <1>1, <2>1, <2>3, HistoryTyped DEF BoxStays
<1> QED
  BY <1>1, <1>2, <1>3, PauseKeeps

LEMMA PauseStep ==
    ASSUME Typed, HealthInv, PauseInv, Next
    PROVE  PauseInv'
<1>1. ASSUME NEW s \in Counting, Elsewhere(s), UNCHANGED <<box, stat, excused>> PROVE PauseInv'
  BY <1>1, NotPolls, PauseQuiet
<1>2. ASSUME NEW s \in Sending, \/ Start(s) \/ Pick(s) \/ ReadSlot(s) \/ TakeSlot(s) \/ Blocked(s)
                                \/ LostReply(s) \/ Deliver(s)
      PROVE  PauseInv'
  <2>1. Elsewhere(s)
    BY <1>2, StartDoes, PickDoes, ReadSlotDoes, TakeSlotDoes, BlockedDoes, LostReplyDoes,
       DeliverDoes DEF GaveUp
  <2>2. UNCHANGED <<box, stat, excused>>
    BY <1>2 DEF Start, Pick, ReadSlot, TakeSlot, Blocked, LostReply, Deliver, Others
  <2> QED
    BY <1>1, <2>1, <2>2, Who
<1>3. ASSUME NEW s \in Sending, Finalize(s) PROVE PauseInv'
  <2>1. Elsewhere(s) /\ UNCHANGED excused
    BY <1>3, FinalizeDoes DEF Finalize, Others
  <2>2. \A d \in Domains : stat'[d].bounces = stat[d].bounces
    BY <1>3, FinalizeDoes
  <2>3. \A b \in Boxes : box'[b].state = box[b].state /\ box'[b].health = box[b].health
    BY <1>3, FinalizeDoes
  <2> QED
    BY <2>1, <2>2, <2>3, NotPolls, PauseQuiet, Who
<1>4. ASSUME \/ \E b \in Boxes : SlotExpires(b)
             \/ StartPlacement \/ \E e \in Seeds : Mark(e)
      PROVE  PauseInv'
  <2>1. UNCHANGED <<session, box, stat, excused>>
    BY <1>4 DEF SlotExpires, StartPlacement, Mark, Sent, Others
  <2> QED
    BY <1>1, <2>1, Who DEF Elsewhere
<1>5. ASSUME NEW x \in Boxes, AddMailbox(x) \/ Edit(x) PROVE PauseInv'
  <2>1. UNCHANGED <<session, stat>>
    BY <1>5 DEF AddMailbox, Edit
  <2>2. \A b \in Boxes \ {x} : box'[b] = box[b]
    BY <1>5, AddDoes, EditDoes
  <2>3. ASSUME NEW b \in Boxes, b \in Live', b # x PROVE BoxStays(b)
    <3>1. b \in Live /\ box'[b] = box[b]
      BY <2>2, <2>3 DEF Live
    <3>2. b \in excused => b \in excused'
      BY <1>5, <2>3, AddDoes, EditDoes
    <3> QED
      BY <3>1, <3>2, PausedBoxStays
  <2>4. ASSUME x \in Live' PROVE BoxStays(x)
    <3>1. CASE AddMailbox(x)
      BY <3>1, AddDoes DEF BoxStays
    <3>2. CASE Edit(x)
      <4>1. x \in Live
        BY <3>2 DEF Edit, Live
      <4>2. \/ box'[x].health = "paused" \/ x \in excused'
            \/ box'[x].health = box[x].health /\ excused' = excused
        BY <3>2, EditDoes
      <4> QED
        BY <4>1, <4>2, PausedBoxStays DEF BoxStays
    <3> QED
      BY <1>5, <3>1, <3>2
  <2>5. \A t \in Pollers : Calm(t)
    BY <2>1 DEF Calm
  <2>6. \A b \in Boxes : b \in Live' => BoxStays(b)
    BY <2>3, <2>4
  <2> QED
    BY <2>1, <2>5, <2>6, PauseKeeps
<1>6. ASSUME RunPlacement \/ PlacementDone PROVE PauseInv'
  <2>1. UNCHANGED <<box, stat, excused>>
    BY <1>6 DEF RunPlacement, PlacementDone, Sent, Others
  <2> QED
    BY <1>1, <1>6, <2>1, PlacementDoes, Who
<1>7. ASSUME NEW s \in Pollers, Elsewhere(s), UNCHANGED <<box, stat, excused>>,
             \A d \in Domains : session'[s].db.bumps[d] = 0
      PROVE  PauseInv'
  BY <1>7, OnePoll, PauseQuiet
<1>8. ASSUME NEW s \in Pollers, Poll(s) PROVE PauseInv'
  <2>1. UNCHANGED <<box, stat, excused>>
    BY <1>8 DEF Poll, Others
  <2> QED
    BY <1>7, <1>8, <2>1, PollDoes
<1>9. ASSUME ResetStart PROVE PauseInv'
  <2>1. UNCHANGED <<box, stat, excused>>
    BY <1>9 DEF ResetStart, Others
  <2> QED
    BY <1>1, <1>9, <2>1, ResetStartDoes, Who
<1>10. ASSUME NewDay PROVE PauseInv'
  <2>1. \A d \in Domains : stat'[d].bounces = 0
    BY <1>10 DEF NewDay
  <2>2. \A s \in Pollers, d \in Domains : session'[s].db.bumps[d] = 0
    BY <1>10, NewDayDoes, Who
  <2>3. PauseHolds'
    BY <2>1 DEF PauseHolds
  <2>4. \A s \in Pollers : \A b \in Live' : ~Reaches(s, DomainOf[b])'
    BY <2>2 DEF Reaches, Live
  <2> QED
    BY <2>2, <2>3, <2>4 DEF PauseInv
<1>11. ASSUME NEW s \in Sessions, Die(s) PROVE PauseInv'
  <2>1. Elsewhere(s) /\ session'[s].db = NoRows /\ UNCHANGED <<box, stat, excused>>
    BY <1>11, Closes DEF Die, Others
  <2>2. \A d \in Domains : session'[s].db.bumps[d] = 0
    BY <2>1, Nothing
  <2>3. s \in Counting \/ s \in Pollers
    BY DEF Sessions, Counting
  <2> QED
    BY <1>1, <1>7, <2>1, <2>2, <2>3
<1>12. Act
  BY DEF Next
<1>13. CASE \E s \in Sending : \/ Start(s) \/ Pick(s) \/ ReadSlot(s) \/ TakeSlot(s)
                               \/ Blocked(s) \/ LostReply(s) \/ Deliver(s) \/ Finalize(s)
  BY <1>2, <1>3, <1>13
<1>14. CASE \/ \E b \in Boxes : SlotExpires(b) \/ AddMailbox(b) \/ Edit(b)
            \/ StartPlacement \/ RunPlacement \/ PlacementDone \/ \E e \in Seeds : Mark(e)
  BY <1>4, <1>5, <1>6, <1>14
<1>15. CASE \E s \in Pollers : Poll(s) \/ PollCommit(s) \/ \E b \in Boxes : Bounce(s, b)
  BY <1>8, <1>15, PauseBounces, PausePollCommits
<1>16. CASE ResetStart \/ ResetCommit \/ NewDay
  BY <1>9, <1>10, <1>16, PauseResetCommits
<1>17. CASE \E s \in Sessions : Die(s)
  BY <1>11, <1>17
<1> QED
  BY <1>12, <1>13, <1>14, <1>15, <1>16, <1>17 DEF Act

LEMMA PauseStutter == PauseInv /\ UNCHANGED vars => PauseInv'
<1> SUFFICES ASSUME PauseInv, UNCHANGED vars PROVE PauseInv'
  OBVIOUS
<1>1. UNCHANGED <<session, box, stat, excused, disturbed>>
  BY DEF vars
<1>2. Live' = Live /\ \A s, b : After(s, b)' = After(s, b)
  BY <1>1 DEF Live, After, BoxAfter
<1> QED
  BY <1>1, <1>2 DEF PauseInv, PauseHolds, Reaches

-----------------------------------------------------------------------------
(* What holds of every behaviour                                           *)

(* The inductive invariant: types, mails and bounces counted, seeds with    *)
(* their answers, and pauses that hold.                                    *)
THEOREM MailboxesStand == Spec => []Ind
<1>1. Init => Ind
  BY TypedInit, SentInit, HealthInit, SeedsInit, PauseInit DEF Ind
<1>2. Ind /\ Next => Ind'
  BY TypedStep, SentStep, HealthStep, SeedsStep, PauseStep DEF Ind
<1>3. Ind /\ UNCHANGED vars => Ind'
  BY TypedStutter, SentStutter, HealthStutter, SeedsStutter, PauseStutter DEF Ind
<1> QED
  BY <1>1, <1>2, <1>3, PTL DEF Spec

LEMMA IndCounts == Ind => MailboxesInv
<1> SUFFICES ASSUME Ind PROVE MailboxesInv
  OBVIOUS
<1>1. TypeOK
  BY TypedGives DEF Ind
<1>2. \A b \in Boxes \ disturbed.sent :
         mailed[b] = box[b].sent + Cardinality(Unrecorded(b)) + uncounted[b]
  BY DEF Ind, SentInv, SentExact
<1>3. \A b \in Boxes \ disturbed.health : bounced[b] = box[b].hard
  BY DEF Ind, HealthInv, HealthExact
<1>4. CountersExact
  BY <1>2, <1>3 DEF CountersExact
<1>5. SeedsAccounted
  BY DEF Ind, SeedsInv, SeedsAccounted, Answered
<1> QED
  BY <1>1, <1>4, <1>5 DEF MailboxesInv

(* Of a mailbox that no two sessions worked on at once, sent_today is short *)
(* of the mails that left by exactly those being recorded and those whose  *)
(* reply was lost or whose sender died, and hard_bounces_today is exact,   *)
(* through every retry, reset and death; a placement run mails each seed   *)
(* once unless it died (smtp.py, health.py, placement.py).                 *)
THEOREM MailboxesHold == Spec => []MailboxesInv
BY MailboxesStand, IndCounts, PTL

(* Once the bounces a domain has committed today reach the threshold, each *)
(* of its mailboxes is paused, whatever polls and the reset overlap, but   *)
(* for those the operator revived and those two of them changed at once    *)
(* (record_domain_bounce).                                                 *)
THEOREM PausesHold == Spec => []PauseHolds
<1>1. Ind => PauseHolds
  BY DEF Ind, PauseInv
<1> QED
  BY <1>1, MailboxesStand, PTL

LEMMA CapIsNat ==
    ASSUME NEW r \in Row
    PROVE  Cap(r) \in Nat
<1>0. r.stage \in 0..4 /\ r.limit \in DailyLimits /\ r.stage \in Nat
  BY DEF Row
<1>1. r.stage \in 0..4 /\ r.limit \in Nat /\ (~(r.stage >= 4) => WarmupCaps[r.stage] \in Nat)
  <2>1. ~(r.stage >= 4) => r.stage \in 0..3
    BY <1>0
  <2> QED
    BY <1>0, <2>1
<1> DEFINE full == IF r.stage >= 4 THEN r.limit ELSE Least(r.limit, WarmupCaps[r.stage])
<1>2. full \in Nat
  BY <1>1 DEF Least
<1> HIDE DEF full
<1>3. full \div 2 \in Nat
  BY <1>2
<1>4. Cap(r) = IF r.health # "degraded" THEN full ELSE IF full < 2 THEN 1 ELSE full \div 2
  BY DEF Cap, full
<1> QED
  BY <1>2, <1>3, <1>4

(* The mails of a mailbox pass the cap it was picked under by no more than *)
(* what lost replies and deaths left uncounted, and no two leave in one    *)
(* interval of its rate slot, unless two sessions had its row at once      *)
(* (effective_daily_limit, acquire_send_slot, sender/tasks).               *)
THEOREM CapsHold == Spec => CapHeld
<1> DEFINE Capped == \A s \in Sending :
                        LET b == session[s].box
                        IN  session[s].pc = "ready" /\ mailed'[b] > mailed[b]
                            /\ b \notin disturbed.sent' =>
                               mailed[b] < Cap(session[s].db.row[b]) + uncounted[b]
                               /\ passes[b] <= 1
<1>1. ASSUME Ind, Next, NEW s \in Sending, session[s].pc = "ready",
             session[s].box \notin disturbed'.sent
      PROVE  /\ mailed[session[s].box] <
                   Cap(session[s].db.row[session[s].box]) + uncounted[session[s].box]
             /\ passes[session[s].box] <= 1
  <2> DEFINE b == session[s].box
  <2>1. Typed /\ SentInv /\ s \in Counting /\ s \in Sessions
    BY <1>1, Who DEF Ind
  <2>2. b \in Boxes /\ b \in Holds(s)
    BY <1>1, <2>1, InHand DEF SendPC
  <2>3. b \in Boxes \ disturbed.sent
    BY <1>1, <2>1, <2>2, HistoryTyped
  <2>4. Alone(Counting, b) /\ SentExact(b) /\ SlotExact(b) /\ Picked(s)
    BY <2>1, <2>3 DEF SentInv
  <2>5. Unrecorded(b) = {}
    BY <1>1, <2>1, <2>2, <2>4, NoneRecords
  <2>6. Cardinality(Unrecorded(b)) = 0
    BY <2>5, Counts
  <2>7. box[b].sent \in Nat /\ uncounted[b] \in Nat
    BY <2>1, <2>2 DEF Typed, Row
  <2>8. mailed[b] = box[b].sent + uncounted[b]
    BY <2>4, <2>6, <2>7 DEF SentExact
  <2>9. session[s].db.row[b].sent = box[b].sent
    <3>1. session[s].db.base[b].sent = box[b].sent
      BY <2>1, <2>2, <2>4 DEF SentExact
    <3>2. DbOK(session[s].db) /\ b \in DOMAIN session[s].db.row
      BY <2>1, <2>2, Fields DEF SessionOK
    <3> QED
      BY <3>1, <3>2 DEF DbOK, Writes
  <2>10. session[s].db.row[b].sent < Cap(session[s].db.row[b])
    BY <1>1, <2>4 DEF Picked
  <2>11. Cap(session[s].db.row[b]) \in Nat
    BY <2>1, <2>2, Fields, CapIsNat
  <2>12. passes[b] <= 1
    BY <2>4 DEF SlotExact
  <2> HIDE DEF b
  <2>13. mailed[b] < Cap(session[s].db.row[b]) + uncounted[b]
    BY <2>7, <2>8, <2>9, <2>10, <2>11
  <2> QED
    BY <2>12, <2>13 DEF b
<1>2. Ind /\ Next => Capped
  BY <1>1
<1>3. Ind /\ UNCHANGED vars => Capped
  <2> SUFFICES ASSUME Ind, UNCHANGED vars, NEW s \in Sending, session[s].pc = "ready"
               PROVE  ~(mailed'[session[s].box] > mailed[session[s].box])
    OBVIOUS
  <2>1. session[s].box \in Boxes /\ Typed
    BY InHand, Who DEF Ind, SendPC
  <2>2. mailed[session[s].box] \in Nat /\ mailed' = mailed
    BY <2>1 DEF Typed, vars
  <2> QED
    BY <2>2
<1>4. Ind /\ [Next]_vars => [Capped]_vars
  BY <1>2, <1>3
<1> QED
  BY <1>4, MailboxesStand, PTL DEF Spec, CapHeld
=============================================================================
