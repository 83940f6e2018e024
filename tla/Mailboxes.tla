----------------------------- MODULE Mailboxes ------------------------------
(***************************************************************************)
(* The sending mailboxes of an organisation: who picks one, what counts    *)
(* against its daily cap, what degrades and pauses it, and what the daily  *)
(* reset gives back (sender/smtp.py, sender/limiter.py, sender/warmup.py,  *)
(* deliverability/health.py, deliverability/placement.py).                 *)
(*                                                                         *)
(* Sessions do not expire their rows at a commit (core/db.py): a sender, a *)
(* poll of the inboxes and the reset each change a row in memory that may  *)
(* be long out of date, and then write the columns that differ from what   *)
(* they had loaded, with the values they computed.  Only the rollup of a   *)
(* domain is incremented in the database.                                  *)
(***************************************************************************)
EXTENDS Naturals, FiniteSets

CONSTANTS Boxes, Domains, DomainOf,   \* mailboxes and their sending domains
          Senders,      \* jobs that send one mail: a sequence step or a reply
          Placer,       \* the job of a placement test
          Seeds,        \* seed addresses of the placement run
          Pollers,      \* executions of poll_inboxes that may overlap
          Resetter,     \* the execution of reset_daily_counters
          WarmupCaps,   \* the daily caps of the warmup stages 0..3
          DailyLimits,  \* daily limits an operator may choose
          FirstStage,   \* the warmup stage each box starts in
          Quota,        \* max_mailboxes of the organisation
          Threshold,    \* domain_pause_bounce_threshold, 0 is off
          Budgets       \* bounds: how often each thing may happen, and
                        \* how many of the events all together

Events == {"reset", "edit", "day", "death", "placement", "add"}
Bounded == {"mail", "bounce", "event"} \cup Events

ASSUME MailboxesAssumption ==
    /\ DomainOf \in [Boxes -> Domains]
    /\ WarmupCaps \in [0..3 -> Nat] /\ DailyLimits \subseteq Nat
    /\ FirstStage \in [Boxes -> 0..4] /\ Quota \in Nat /\ Threshold \in Nat
    /\ Budgets \subseteq [Bounded -> Nat]
    /\ Senders \cap Pollers = {} /\ Placer # Resetter
    /\ {Placer, Resetter} \cap (Senders \cup Pollers) = {}
    /\ IsFiniteSet(Senders) /\ IsFiniteSet(Pollers)

VARIABLES box,        \* mailboxes
          stat,       \* domain_stats: today's row of each domain
          slot,       \* the Redis keys sendslot:{mailbox} that have not expired
          placement,  \* the placement run and its results
          session,    \* the open sessions, their rows and their locks
          mailed,     \* history: mails sent since the counter was reset
          uncounted,  \* history: of those, the ones nobody will count: the reply
                      \* of the server was lost, or the sender died before it
                      \* had recorded the mail
          bounced,    \* history: bounces committed since the counter was reset
          mails,      \* history: how often each seed was mailed
          passes,     \* history: senders let through since the slot was free
          disturbed,  \* history: boxes two sessions worked on at once
          excused,    \* history: boxes revived, or added, after a pause
          died,       \* history: how often the placement job died
          left        \* what remains of the budget

vars == <<box, stat, slot, placement, session, mailed, uncounted, bounced, mails,
          passes, disturbed, excused, died, left>>

Sending == Senders \cup {Placer}
Sessions == Sending \cup Pollers \cup {Resetter}
Row == [state : {"unborn", "live"}, sent : Nat, hard : Nat, stage : 0..4,
        health : {"ok", "degraded", "paused"}, limit : DailyLimits]
Result == [delivered : BOOLEAN, error : BOOLEAN, verdict : {"pending", "marked"}]

(* base: the rows as loaded; row: as changed in memory; flushed: the rows  *)
(* written and so locked until the commit; bumps: uncommitted rollups.     *)
NoRows == [base |-> <<>>, row |-> <<>>, flushed |-> {}, bumps |-> [d \in Domains |-> 0]]
Closed == [pc |-> "closed", db |-> NoRows, box |-> CHOOSE b \in Boxes : TRUE, todo |-> {}]

Holds(s) == DOMAIN session[s].db.row
Live == {b \in Boxes : box[b].state = "live"}

(* A write waits for the sessions that hold the row, or the domain's row.  *)
Locked(b) == {s \in Sessions : b \in session[s].db.flushed}
LockedDomain(d) == {s \in Sessions : session[s].db.bumps[d] > 0}

TypeOK ==
    /\ box \in [Boxes -> Row]
    /\ stat \in [Domains -> [sends : Nat, bounces : Nat]]
    /\ slot \subseteq Boxes
    /\ placement.status \in {"none", "running", "complete", "failed"}
    /\ placement.result \in [Seeds -> Result]
    /\ \A s \in Sessions :
          /\ session[s].pc \in {"closed", "open", "slot", "clear", "ready", "mailed"}
          /\ Holds(s) \subseteq Boxes /\ DOMAIN session[s].db.base = Holds(s)
          /\ \A b \in Holds(s) : session[s].db.row[b] \in Row /\ session[s].db.base[b] \in Row
          /\ session[s].db.flushed \subseteq Holds(s) /\ session[s].todo \subseteq Seeds
          /\ session[s].pc \in {"slot", "clear", "ready", "mailed"} => session[s].box \in Holds(s)
    /\ mailed \in [Boxes -> Nat] /\ uncounted \in [Boxes -> Nat]
    /\ bounced \in [Boxes -> Nat] /\ passes \in [Boxes -> Nat]
    /\ mails \in [Seeds -> Nat]
    /\ disturbed.sent \cup disturbed.health \cup excused \subseteq Boxes
    /\ died \in Nat /\ left \in [Bounded -> Nat]

Init ==
    /\ \E live \in SUBSET Boxes, limit \in DailyLimits :
          box = [b \in Boxes |-> [state |-> IF b \in live THEN "live" ELSE "unborn", sent |-> 0,
                                  hard |-> 0, stage |-> FirstStage[b], health |-> "ok",
                                  limit |-> limit]]
    /\ stat = [d \in Domains |-> [sends |-> 0, bounces |-> 0]]
    /\ slot = {}
    /\ placement = [status |-> "none",
         result |-> [e \in Seeds |-> [delivered |-> FALSE, error |-> FALSE, verdict |-> "pending"]]]
    /\ session = [s \in Sessions |-> Closed]
    /\ mailed = [b \in Boxes |-> 0] /\ uncounted = mailed
    /\ bounced = mailed /\ passes = mailed
    /\ mails = [e \in Seeds |-> 0]
    /\ disturbed = [sent |-> {}, health |-> {}] /\ excused = {} /\ died = 0
    /\ left \in Budgets

Spend(k) ==
    /\ left[k] > 0 /\ (k \in Events => left["event"] > 0)
    /\ left' = [left EXCEPT ![k] = @ - 1, !["event"] = IF k \in Events THEN @ - 1 ELSE @]

-----------------------------------------------------------------------------
(* Rows in a session, and what a commit writes.                            *)

Least(a, b) == IF a < b THEN a ELSE b

(* effective_daily_limit, halved for a degraded box, and never below one.  *)
Cap(r) == LET full == IF r.stage >= 4 THEN r.limit ELSE Least(r.limit, WarmupCaps[r.stage])
          IN  IF r.health # "degraded" THEN full ELSE IF full < 2 THEN 1 ELSE full \div 2

Loaded(B) == [NoRows EXCEPT !.base = [b \in B |-> box[b]], !.row = [b \in B |-> box[b]]]

(* Only the columns that differ from what was loaded are written.          *)
Written(old, base, new) ==
    [c \in DOMAIN old |-> IF new[c] # base[c] THEN new[c] ELSE old[c]]

BoxAfter(db) ==
    [b \in Boxes |-> IF b \in db.flushed THEN Written(box[b], db.base[b], db.row[b]) ELSE box[b]]

Step(s, r) == session' = [session EXCEPT ![s] = r]
At(s, pc) == [session[s] EXCEPT !.pc = pc]

-----------------------------------------------------------------------------
(* Sending.                                                                *)

Others == <<bounced, excused, uncounted>>

Start(s) ==
    /\ s \in Senders /\ session[s] = Closed /\ left["mail"] > 0
    /\ Step(s, At(s, "open"))
    /\ UNCHANGED <<box, stat, slot, placement, mailed, mails, passes, left, Others>>

(* The rows of a query replace nothing the session already holds.          *)
InSession(s, b) == IF b \in Holds(s) THEN session[s].db.row[b] ELSE box[b]

(* Mutant: the cap is compared with <=.                                    *)
PickableFull(s) == {b \in Live : /\ box[b].health # "paused"
                                 /\ InSession(s, b).sent <= Cap(InSession(s, b))}

Pickable(s) == {b \in Live : /\ box[b].health # "paused"
                             /\ InSession(s, b).sent < Cap(InSession(s, b))}

(* pick_mailbox: the least used of the boxes with capacity; only the one   *)
(* picked stays in the session.                                            *)
Pick(s) ==
    /\ session[s].pc = "open" /\ s \in Sending
    /\ s = Placer => session[s].todo # {}
    /\ \E b \in Pickable(s) :
          /\ \A o \in Pickable(s) : box[b].sent <= box[o].sent
          /\ Step(s, [At(s, "slot") EXCEPT !.box = b, !.db = IF b \in Holds(s) THEN @ ELSE Loaded({b})])
    /\ UNCHANGED <<box, stat, slot, placement, mailed, mails, passes, left, Others>>

(* acquire_send_slot reads the key ...                                     *)
ReadSlot(s) ==
    /\ session[s].pc = "slot" /\ session[s].box \notin slot
    /\ Step(s, At(s, "clear"))
    /\ UNCHANGED <<box, stat, slot, placement, mailed, mails, passes, left, Others>>

(* ... and then sets it: 45 to 90 seconds.                                 *)
TakeSlot(s) ==
    /\ session[s].pc = "clear"
    /\ slot' = slot \cup {session[s].box}
    /\ passes' = [passes EXCEPT ![session[s].box] = @ + 1]
    /\ Step(s, At(s, "ready"))
    /\ UNCHANGED <<box, stat, placement, mailed, mails, left, Others>>

SlotExpires(b) ==
    /\ b \in slot /\ slot' = slot \ {b}
    /\ passes' = [passes EXCEPT ![b] = 0]
    /\ UNCHANGED <<box, stat, session, placement, mailed, mails, left, Others>>

(* The placement run takes its pending seeds one after the other; the      *)
(* result of each is committed.                                            *)
Seed == CHOOSE e \in session[Placer].todo : TRUE

Recorded(delivered) ==
    placement' = [placement EXCEPT !.result[Seed].error = ~delivered,
                                   !.result[Seed].delivered = @ \/ delivered]

(* A sender's job retries later, a placement run goes on with its next     *)
(* seed.                                                                   *)
GivesUp(s) ==
    \/ s # Placer /\ Step(s, Closed) /\ UNCHANGED placement
    \/ /\ s = Placer /\ session[s].todo # {}
       /\ Recorded(FALSE) /\ Step(s, [At(s, "open") EXCEPT !.todo = @ \ {Seed}])

(* No capacity, no slot, or the server refuses the mail.                   *)
Blocked(s) ==
    /\ \/ session[s].pc = "open" /\ s \in Sending /\ Pickable(s) = {}
       \/ session[s].pc = "slot" /\ session[s].box \in slot
       \/ session[s].pc = "ready"
    /\ GivesUp(s)
    /\ UNCHANGED <<box, stat, slot, mailed, mails, passes, left, Others>>

Out(s) ==
    /\ Spend("mail")
    /\ mailed' = [mailed EXCEPT ![session[s].box] = @ + 1]
    /\ mails' = IF s = Placer THEN [mails EXCEPT ![Seed] = @ + 1] ELSE mails

(* The server took the mail and the exchange raised all the same: handled  *)
(* as a refusal, so the box is not charged for it.                         *)
LostReply(s) ==
    /\ session[s].pc = "ready"
    /\ Out(s) /\ GivesUp(s)
    /\ uncounted' = [uncounted EXCEPT ![session[s].box] = @ + 1]
    /\ UNCHANGED <<box, stat, slot, passes, bounced, excused>>

Deliver(s) ==
    /\ session[s].pc = "ready" /\ Out(s)
    /\ Step(s, At(s, "mailed"))
    /\ UNCHANGED <<box, stat, slot, placement, passes, Others>>

(* Mutant: the mail is not counted against the box.                        *)
FinalizeUncounted(s) ==
    LET b == session[s].box
    IN  /\ session[s].pc = "mailed" /\ Locked(b) = {} /\ LockedDomain(DomainOf[b]) = {}
        /\ stat' = [stat EXCEPT ![DomainOf[b]].sends = @ + 1]
        /\ \/ s # Placer /\ Step(s, Closed) /\ UNCHANGED placement
           \/ /\ s = Placer /\ Recorded(TRUE)
              /\ Step(s, [At(s, "open") EXCEPT !.todo = @ \ {Seed}])
        /\ UNCHANGED <<box, slot, mailed, mails, passes, left, Others>>

(* sent_today is raised in the row as loaded, the rollup in the database;  *)
(* the placement run keeps its session, and the row of its last box.       *)
Finalize(s) ==
    LET b == session[s].box
        r == [session[s].db.row[b] EXCEPT !.sent = @ + 1]
    IN  /\ session[s].pc = "mailed" /\ Locked(b) = {} /\ LockedDomain(DomainOf[b]) = {}
        /\ box' = [box EXCEPT ![b] = Written(@, session[s].db.base[b], r)]
        /\ stat' = [stat EXCEPT ![DomainOf[b]].sends = @ + 1]
        /\ \/ s # Placer /\ Step(s, Closed) /\ UNCHANGED placement
           \/ /\ s = Placer /\ Recorded(TRUE)
              /\ Step(s, [At(s, "open") EXCEPT !.todo = @ \ {Seed},
                            !.db.row[b] = r, !.db.base[b] = r])
        /\ UNCHANGED <<slot, mailed, mails, passes, left, Others>>

-----------------------------------------------------------------------------
(* The placement run (deliverability/placement.py).                        *)

Sent == <<box, stat, slot, mailed, mails, passes, Others>>

(* Some box is not paused, and the campaign has an active variant.         *)
StartPlacement ==
    /\ placement.status = "none" /\ \E b \in Live : box[b].health # "paused"
    /\ placement' = [placement EXCEPT !.status = "running"]
    /\ Spend("placement")
    /\ UNCHANGED <<session, Sent>>

RunPlacement ==
    /\ placement.status = "running" /\ session[Placer] = Closed
    /\ \/ /\ Step(Placer, [At(Placer, "open") EXCEPT
                             !.todo = {e \in Seeds : placement.result[e].verdict = "pending"}])
          /\ UNCHANGED placement
       \/ placement' = [placement EXCEPT !.status = "failed"] /\ UNCHANGED session  \* no variant
    /\ UNCHANGED <<left, Sent>>

PlacementDone ==
    /\ session[Placer].pc = "open" /\ session[Placer].todo = {}
    /\ placement' = [placement EXCEPT !.status = "complete"]
    /\ Step(Placer, Closed)
    /\ UNCHANGED <<left, Sent>>

(* The operator looked into a seed's inbox.                                *)
Mark(e) ==
    /\ placement.status # "none" /\ placement.result[e].verdict = "pending"
    /\ placement' = [placement EXCEPT !.result[e].verdict = "marked"]
    /\ UNCHANGED <<session, left, Sent>>

-----------------------------------------------------------------------------
(* Bounces, in the one transaction of a poll.                              *)

Unsent == <<slot, placement, mailed, mails, passes>>

Poll(s) ==
    /\ s \in Pollers /\ session[s] = Closed /\ left["bounce"] > 0
    /\ Step(s, [At(s, "open") EXCEPT !.db = Loaded(Live)])
    /\ UNCHANGED <<box, stat, left, Unsent, Others>>

(* A second hard bounce degrades a box, a paused one excepted.             *)
Degraded(r) == [r EXCEPT !.hard = @ + 1,
                         !.health = IF r.hard + 1 >= 2 /\ @ # "paused" THEN "degraded" ELSE @]

Change(db, b, r) == [db EXCEPT !.row[b] = r, !.flushed = @ \cup {b}]

(* The boxes of a domain that the transaction reads as not paused ...      *)
Unpaused(db, d) == {b \in Live : DomainOf[b] = d /\ BoxAfter(db)[b].health # "paused"}

(* ... are loaded, unless the session has them, and paused.                *)
Paused(db, B) ==
    LET row(b) == IF b \in DOMAIN db.row THEN db.row[b] ELSE box[b]
        B1 == B \cup DOMAIN db.row
    IN  [db EXCEPT !.base = [b \in B1 |-> IF b \in DOMAIN db.base THEN db.base[b] ELSE box[b]],
                   !.row = [b \in B1 |-> IF b \in B THEN [row(b) EXCEPT !.health = "paused"] ELSE row(b)],
                   !.flushed = @ \cup B]

(* Mutant: the pause needs more bounces than the threshold.                *)
BouncedLate(db, b) ==
    LET d == DomainOf[b]
        after == [Change(db, b, Degraded(db.row[b])) EXCEPT !.bumps[d] = @ + 1]
    IN  IF Threshold > 0 /\ stat[d].bounces + after.bumps[d] > Threshold
        THEN Paused(after, Unpaused(after, d)) ELSE after

(* record_bounce and record_domain_bounce.                                 *)
BouncedIn(db, b) ==
    LET d == DomainOf[b]
        after == [Change(db, b, Degraded(db.row[b])) EXCEPT !.bumps[d] = @ + 1]
    IN  IF Threshold > 0 /\ stat[d].bounces + after.bumps[d] >= Threshold
        THEN Paused(after, Unpaused(after, d)) ELSE after

Bounce(s, b) ==
    /\ s \in Pollers /\ session[s].pc = "open" /\ b \in Holds(s)
    /\ Spend("bounce")
    /\ LET db == BouncedIn(session[s].db, b)
       IN  /\ \A o \in db.flushed : Locked(o) \subseteq {s}
           /\ LockedDomain(DomainOf[b]) \subseteq {s}
           /\ Step(s, [session[s] EXCEPT !.db = db])
    /\ UNCHANGED <<box, stat, Unsent, Others>>

PollCommit(s) ==
    /\ s \in Pollers /\ session[s].pc = "open"
    /\ box' = BoxAfter(session[s].db)
    /\ stat' = [d \in Domains |-> [stat[d] EXCEPT !.bounces = @ + session[s].db.bumps[d]]]
    /\ bounced' = [b \in Boxes |-> IF b \in Holds(s)
         THEN bounced[b] + (session[s].db.row[b].hard - session[s].db.base[b].hard) ELSE bounced[b]]
    /\ excused' = excused \ {b \in Boxes : box'[b].health = "paused"}
    /\ Step(s, Closed)
    /\ UNCHANGED <<left, uncounted, Unsent>>

-----------------------------------------------------------------------------
(* The daily reset, the operator, the calendar, and deaths.                *)

ResetStart ==
    /\ session[Resetter] = Closed /\ Spend("reset")
    /\ Step(Resetter, [At(Resetter, "open") EXCEPT !.db = Loaded(Live)])
    /\ UNCHANGED <<box, stat, Unsent, Others>>

Fresh(r) == [r EXCEPT !.sent = 0, !.hard = 0,
                      !.health = IF @ = "degraded" THEN "ok" ELSE @,
                      !.stage = IF @ < 4 THEN @ + 1 ELSE @]

ResetCommit ==
    /\ session[Resetter].pc = "open"
    /\ \A b \in Holds(Resetter) : Locked(b) = {}
    /\ box' = [b \in Boxes |-> IF b \notin Holds(Resetter) THEN box[b]
         ELSE Written(box[b], session[Resetter].db.base[b], Fresh(session[Resetter].db.row[b]))]
    /\ mailed' = [b \in Boxes |-> IF b \in Holds(Resetter) THEN 0 ELSE mailed[b]]
    /\ uncounted' = [b \in Boxes |-> IF b \in Holds(Resetter) THEN 0 ELSE uncounted[b]]
    /\ bounced' = [b \in Boxes |-> IF b \in Holds(Resetter) THEN 0 ELSE bounced[b]]
    /\ Step(Resetter, Closed)
    /\ UNCHANGED <<stat, slot, placement, mails, passes, excused, left>>

AddMailbox(b) ==
    /\ box[b].state = "unborn" /\ Cardinality(Live) < Quota
    /\ box' = [box EXCEPT ![b].state = "live"]
    /\ excused' = excused \cup {b} /\ Spend("add")
    /\ UNCHANGED <<stat, session, bounced, uncounted, Unsent>>

(* update_mailbox sets the health or the daily limit as it is told.        *)
Edit(b) ==
    /\ box[b].state = "live" /\ Locked(b) = {} /\ Spend("edit")
    /\ \/ \E h \in {"ok", "degraded", "paused"} :
             /\ box' = [box EXCEPT ![b].health = h]
             /\ excused' = IF h = "paused" THEN excused \ {b} ELSE excused \cup {b}
       \/ /\ \E n \in DailyLimits : box' = [box EXCEPT ![b].limit = n]
          /\ UNCHANGED excused
    /\ UNCHANGED <<stat, session, bounced, uncounted, Unsent>>

(* The next day's rows of domain_stats begin at zero.                      *)
NewDay ==
    /\ Spend("day")
    /\ stat' = [d \in Domains |-> [sends |-> 0, bounces |-> 0]]
    /\ session' = [s \in Sessions |-> [session[s] EXCEPT !.db.bumps = [d \in Domains |-> 0]]]
    /\ UNCHANGED <<box, Unsent, Others>>

(* A process dies, or its transaction fails, and its session is gone.      *)
Die(s) ==
    /\ session[s] # Closed /\ Spend("death")
    /\ Step(s, Closed)
    /\ uncounted' = IF session[s].pc = "mailed"
         THEN [uncounted EXCEPT ![session[s].box] = @ + 1] ELSE uncounted
    /\ UNCHANGED <<box, stat, Unsent, bounced, excused>>

-----------------------------------------------------------------------------
Act ==
    \/ \E s \in Sending : \/ Start(s) \/ Pick(s) \/ ReadSlot(s) \/ TakeSlot(s) \/ Blocked(s)
                          \/ LostReply(s) \/ Deliver(s) \/ Finalize(s)
    \/ \E b \in Boxes : SlotExpires(b) \/ AddMailbox(b) \/ Edit(b)
    \/ StartPlacement \/ RunPlacement \/ PlacementDone \/ \E e \in Seeds : Mark(e)
    \/ \E s \in Pollers : Poll(s) \/ PollCommit(s) \/ \E b \in Boxes : Bounce(s, b)
    \/ ResetStart \/ ResetCommit \/ NewDay
    \/ \E s \in Sessions : Die(s)

(* Two sessions of S hold the row of b at once, or one holds it while the  *)
(* operator changes it.                                                    *)
Overlap(S) == {b \in Boxes : \/ Cardinality({s \in S : b \in Holds(s)'}) > 1
                             \/ (\E s \in S : b \in Holds(s)) /\ Edit(b)}

Next ==
    /\ Act
    /\ disturbed' = [sent |-> disturbed.sent \cup Overlap(Sending \cup {Resetter}),
                     health |-> disturbed.health \cup Overlap(Pollers \cup {Resetter})]
    /\ died' = IF session[Placer] # Closed /\ Die(Placer) THEN died + 1 ELSE died

Spec == Init /\ [][Next]_vars

-----------------------------------------------------------------------------
(* Properties                                                              *)

Unrecorded(b) == {s \in Sending : session[s].pc = "mailed" /\ session[s].box = b}

(* The counters of a box that no two sessions worked on at once are exact: *)
(* sent_today is the mails that left since the reset but for the one being *)
(* recorded and those whose reply was lost or whose sender died, each of   *)
(* them once; hard_bounces_today is the bounces.                           *)
CountersExact ==
    \A b \in Boxes :
       /\ b \notin disturbed.sent =>
             mailed[b] = box[b].sent + Cardinality(Unrecorded(b)) + uncounted[b]
       /\ b \notin disturbed.health => bounced[b] = box[b].hard

(* The mails of an undisturbed box pass the cap it was picked under        *)
(* (warmup stage, halved when degraded) by no more than what lost replies  *)
(* and deaths left uncounted, and no two leave within one interval of its  *)
(* rate slot.                                                              *)
CapHeld ==
    [][\A s \in Sending :
          LET b == session[s].box
          IN  session[s].pc = "ready" /\ mailed'[b] > mailed[b] /\ b \notin disturbed.sent' =>
                 mailed[b] < Cap(session[s].db.row[b]) + uncounted[b] /\ passes[b] <= 1]_vars

(* health.py: once a domain's bounces of the day reach the threshold every *)
(* mailbox on it is paused, and stays so until the operator revives it.    *)
PauseHolds ==
    \A d \in Domains : Threshold > 0 /\ stat[d].bounces >= Threshold =>
       \A b \in Live : DomainOf[b] = d =>
          box[b].health = "paused" \/ b \in excused \cup disturbed.health

(* A placement run mails a seed once, and again only if it died meanwhile; *)
(* a complete run has an outcome for each seed it was to mail.             *)
SeedsAccounted ==
    /\ \A e \in Seeds : mails[e] <= 1 + died
    /\ placement.status = "complete" => \A e \in Seeds :
          LET r == placement.result[e]
          IN  (r.delivered => mails[e] > 0) /\ (r.delivered \/ r.error \/ r.verdict = "marked")

MailboxesInv == TypeOK /\ CountersExact /\ SeedsAccounted

(* health.py: un-pause is an explicit operator action, nothing automatic   *)
(* revives a paused domain; smtp.py: a straggler bounce must never demote  *)
(* a paused mailbox back into the sendable pool.                           *)
PausedStaysPaused ==
    [][\A b \in Boxes : box[b].health = "paused" /\ box[b].health' # "paused" => Edit(b)]_vars
=============================================================================
