------------------------------- MODULE Bandit --------------------------------
(***************************************************************************)
(* The bandit over copy variants (bandit/settle.py, bandit/thompson.py):   *)
(* every mail is a trial of the variant it was written from.  An hourly    *)
(* task settles the mails whose deadline passed as failures; the inbox     *)
(* poll records a classified reply, for a message row it read before it    *)
(* asked the classifier.  Both add to alpha or beta in memory.             *)
(***************************************************************************)
EXTENDS Naturals, FiniteSets

CONSTANTS Variants, Messages,
          Settlers,      \* executions of settle_bandit
          Replies,       \* polls that have a reply in hand
          MinTrials,     \* DEACTIVATE_MIN_TRIALS
          MaxEvents     \* bound on the edits of arms and the deaths

ASSUME BanditAssumption ==
    /\ Settlers \cap Replies = {} /\ Messages \cap Variants = {} /\ Variants # {}
    /\ IsFiniteSet(Messages) /\ IsFiniteSet(Variants) /\ IsFiniteSet(Settlers \cup Replies)
    /\ MinTrials \in Nat /\ MaxEvents \in Nat

VARIABLES variant,    \* variants of one sequence step
          message,    \* the outbound messages written from them
          session,    \* the open sessions of settlers and replies
          gave,       \* history: outcomes committed for each message
          disturbed,  \* history: messages and variants two sessions held at once
          skewed,     \* history: whether two settlers worked at once, or an arm
                      \* was switched while one had decided about another
          mixed,      \* history: variants credited for a skeleton they lost
          events

banditVars == <<variant, message, session, gave, disturbed, skewed, mixed, events>>

Sessions == Settlers \cup Replies
Variant == [state : {"unborn", "live"}, alpha : Nat \ {0}, beta : Nat \ {0},
            active : BOOLEAN, skeleton : Nat]
Message == [outcome : {"none", "drafted", "pending", "success", "failure"},
            variant : Variants, skeleton : Nat]
Outcomes == {"success", "failure"}

(* msgs: the outcome of each message the session loaded; base, row: its    *)
(* variants as loaded and as changed; drops: arms it switched off; locks:  *)
(* what it wrote, or selected for update, and did not commit.              *)
Closed == [pc |-> "closed", msgs |-> {}, base |-> <<>>, row |-> <<>>, drops |-> {},
           locks |-> {}, outcome |-> "none"]
Locks(x) == {s \in Sessions : x \in session[s].locks}

BanditTypeOK ==
    /\ variant \in [Variants -> Variant]
    /\ message \in [Messages -> Message]
    /\ \A s \in Sessions :
          /\ session[s].pc \in {"closed", "read", "loaded", "written"}
          /\ session[s].msgs \subseteq Messages /\ session[s].drops \subseteq Variants
          /\ DOMAIN session[s].base = DOMAIN session[s].row
          /\ \A v \in DOMAIN session[s].row : {session[s].base[v], session[s].row[v]} \subseteq Variant
          /\ session[s].locks \subseteq Messages \cup Variants
    /\ gave \in [Messages -> Nat]
    /\ disturbed \subseteq Messages \cup Variants /\ mixed \subseteq Variants
    /\ skewed \in BOOLEAN /\ events \in 0..MaxEvents

BanditInit ==
    /\ variant \in [Variants -> [state : {"unborn", "live"}, alpha : {1}, beta : {1},
                                 active : {TRUE}, skeleton : {0}]]
    /\ message = [m \in Messages |-> [outcome |-> "none", skeleton |-> 0,
                                      variant |-> CHOOSE v \in Variants : TRUE]]
    /\ session = [s \in Sessions |-> Closed]
    /\ gave = [m \in Messages |-> 0]
    /\ disturbed = {} /\ skewed = FALSE /\ mixed = {} /\ events = 0

-----------------------------------------------------------------------------
(* The arms and their messages.                                            *)

Arms == {v \in Variants : variant[v].state = "live" /\ variant[v].active}
Quiet == <<session, gave, mixed>>

AddVariant(v) ==
    /\ variant[v].state = "unborn"
    /\ variant' = [variant EXCEPT ![v].state = "live"]
    /\ UNCHANGED <<message, events, Quiet>>

Trials(r) == r.alpha + r.beta - 2

(* A skeleton is frozen once the arm has a recorded trial.                 *)
EditSkeleton(v) ==
    /\ variant[v].state = "live" /\ Trials(variant[v]) = 0 /\ Locks(v) = {}
    /\ events < MaxEvents /\ events' = events + 1
    /\ variant' = [variant EXCEPT ![v].skeleton = @ + 1]
    /\ UNCHANGED <<message, Quiet>>

Toggle(v) ==
    /\ variant[v].state = "live" /\ Locks(v) = {}
    /\ events < MaxEvents /\ events' = events + 1
    /\ variant' = [variant EXCEPT ![v].active = ~@]
    /\ UNCHANGED <<message, Quiet>>

(* The send task samples an active arm and has the copy written from its   *)
(* skeleton; it fails when there is none.                                  *)
Draft(m) ==
    /\ message[m].outcome = "none"
    /\ \E v \in Arms : message' = [message EXCEPT ![m].outcome = "drafted", ![m].variant = v,
                                                  ![m].skeleton = variant[v].skeleton]
    /\ UNCHANGED <<variant, events, Quiet>>

(* Its claim carries the pending outcome and a deadline, some days away.   *)
Send(m) ==
    /\ message[m].outcome = "drafted"
    /\ message' = [message EXCEPT ![m].outcome = "pending"]
    /\ UNCHANGED <<variant, events, Quiet>>

-----------------------------------------------------------------------------
Put(s, r) == session' = [session EXCEPT ![s] = r]
Written(old, base, new) ==
    [c \in DOMAIN old |-> IF new[c] # base[c] THEN new[c] ELSE old[c]]
VariantsOf(M) == {message[m].variant : m \in M}

(* A commit gives M the outcome of the session and writes its variants.    *)
Commit(s) ==
    LET M == IF session[s].outcome \in Outcomes THEN session[s].msgs ELSE {}
    IN  /\ message' = [m \in Messages |-> IF m \in M
             THEN [message[m] EXCEPT !.outcome = session[s].outcome] ELSE message[m]]
        /\ variant' = [v \in Variants |->
             LET r == IF v \in DOMAIN session[s].row
                      THEN Written(variant[v], session[s].base[v], session[s].row[v]) ELSE variant[v]
             IN  IF v \in session[s].drops THEN [r EXCEPT !.active = FALSE] ELSE r]
        /\ gave' = [m \in Messages |-> IF m \in M THEN gave[m] + 1 ELSE gave[m]]
        /\ mixed' = mixed \cup {message[m].variant : m \in {k \in M :
                       message[k].skeleton # variant[message[k].variant].skeleton}}
        /\ Put(s, Closed)
        /\ UNCHANGED events

(* Mutant: each variant is changed once, from what was loaded.             *)
SettleStale(s, M) ==
    LET V == VariantsOf(M)
    IN  /\ s \in Settlers /\ session[s] = Closed /\ M # {}
        /\ \A m \in M : message[m].outcome = "pending" /\ Locks(m) = {}
        /\ Put(s, [Closed EXCEPT !.pc = "loaded", !.msgs = M, !.locks = M, !.outcome = "failure",
              !.base = [v \in V |-> variant[v]],
              !.row = [v \in V |-> [variant[v] EXCEPT !.beta = @ + 1]]])
        /\ UNCHANGED <<variant, message, gave, mixed, events>>

(* settle_expired: the pending messages M whose deadline has passed and    *)
(* that are not locked are selected for update; the variants are loaded    *)
(* and changed in memory.                                                  *)
Settle(s, M) ==
    LET V == VariantsOf(M)
    IN  /\ s \in Settlers /\ session[s] = Closed /\ M # {}
        /\ \A m \in M : message[m].outcome = "pending" /\ Locks(m) = {}
        /\ Put(s, [Closed EXCEPT !.pc = "loaded", !.msgs = M, !.locks = M, !.outcome = "failure",
              !.base = [v \in V |-> variant[v]],
              !.row = [v \in V |-> [variant[v] EXCEPT
                        !.beta = @ + Cardinality({m \in M : message[m].variant = v})]]])
        /\ UNCHANGED <<variant, message, gave, mixed, events>>

InSession(s, v) == IF v \in DOMAIN session[s].row THEN session[s].row[v] ELSE variant[v]

(* mean(a) < mean(b) / 2, without division.                                *)
FarBehind(a, b) == 2 * a.alpha * (b.alpha + b.beta) < b.alpha * (a.alpha + a.beta)

(* Mutant: the best mean is looked for among all arms.                     *)
HopelessOfAll(s) ==
    {v \in Arms : /\ Trials(InSession(s, v)) >= MinTrials
                  /\ \E b \in Variants : variant[b].state = "live" /\ FarBehind(InSession(s, v), InSession(s, b))}

(* apply_deactivation_guardrail                                            *)
Hopeless(s) ==
    {v \in Arms : /\ Trials(InSession(s, v)) >= MinTrials
                  /\ \E b \in Arms : FarBehind(InSession(s, v), InSession(s, b))}

(* The variants are written, then the guardrail runs; a row the session    *)
(* loaded as inactive is not written when it is switched off again.        *)
SettleWrite(s) ==
    LET touched == DOMAIN session[s].row \cup Hopeless(s)
    IN  /\ s \in Settlers /\ session[s].pc = "loaded"
        /\ \A v \in touched : Locks(v) = {}
        /\ Put(s, [session[s] EXCEPT !.pc = "written", !.locks = @ \cup touched,
              !.drops = {v \in Hopeless(s) : v \in DOMAIN session[s].base => session[s].base[v].active}])
        /\ UNCHANGED <<variant, message, gave, mixed, events>>

SettleCommit(s) == s \in Settlers /\ session[s].pc = "written" /\ Commit(s)

-----------------------------------------------------------------------------
(* A poll finds the message a reply answers, and asks the classifier.      *)
ReplyRead(s, m) ==
    /\ s \in Replies /\ session[s] = Closed
    /\ message[m].outcome \notin {"none", "drafted"}
    /\ Put(s, [Closed EXCEPT !.pc = "read", !.msgs = {m}, !.outcome = message[m].outcome])
    /\ UNCHANGED <<variant, message, gave, mixed, events>>

(* record_reply_outcome: already settled; an out-of-office or a bounce;    *)
(* any human answer is a success, an unsubscription a failure.             *)
Record(s) ==
    /\ s \in Replies /\ session[s].pc = "read"
    /\ \/ Put(s, Closed)
       \/ /\ session[s].outcome = "pending"
          /\ \E v \in VariantsOf(session[s].msgs), won \in BOOLEAN :
                Put(s, [session[s] EXCEPT !.pc = "loaded",
                  !.outcome = IF won THEN "success" ELSE "failure",
                  !.base = [x \in {v} |-> variant[x]],
                  !.row = [x \in {v} |-> IF won THEN [variant[x] EXCEPT !.alpha = @ + 1]
                                                ELSE [variant[x] EXCEPT !.beta = @ + 1]]])
    /\ UNCHANGED <<variant, message, gave, mixed, events>>

ReplyWrite(s) ==
    LET touched == DOMAIN session[s].row \cup session[s].msgs
    IN  /\ s \in Replies /\ session[s].pc = "loaded"
        /\ \A x \in touched : Locks(x) = {}
        /\ Put(s, [session[s] EXCEPT !.pc = "written", !.locks = touched])
        /\ UNCHANGED <<variant, message, gave, mixed, events>>

ReplyCommit(s) == s \in Replies /\ session[s].pc = "written" /\ Commit(s)

(* A process dies, or its transaction is rolled back (a deadlock, say).    *)
Die(s) ==
    /\ session[s] # Closed /\ events < MaxEvents /\ events' = events + 1
    /\ Put(s, Closed)
    /\ UNCHANGED <<variant, message, gave, mixed>>

-----------------------------------------------------------------------------
SessionWork(s) == (\E M \in SUBSET Messages : Settle(s, M)) \/ SettleWrite(s) \/ SettleCommit(s) \/ Record(s) \/ ReplyWrite(s) \/ ReplyCommit(s)

BanditAct ==
    \/ \E v \in Variants : AddVariant(v) \/ EditSkeleton(v) \/ Toggle(v)
    \/ \E m \in Messages : Draft(m) \/ Send(m)
    \/ \E s \in Sessions : SessionWork(s) \/ Die(s) \/ \E m \in Messages : ReplyRead(s, m)

Has(x) == {s \in Sessions : x \in session[s].msgs \cup DOMAIN session[s].row}
Clash == {x \in Messages \cup Variants : Cardinality(Has(x)) > 1}

BanditNext ==
    /\ BanditAct
    /\ disturbed' = disturbed \cup Clash'
         \cup {message[m].variant : m \in {k \in Messages : k \in Clash'}}
    /\ skewed' = \/ skewed \/ Cardinality({s \in Settlers : session[s]' # Closed}) > 1
                 \/ \E s \in Settlers, v \in Variants : session[s].pc = "written" /\ Toggle(v)

BanditSpec == BanditInit /\ [][BanditNext]_banditVars

-----------------------------------------------------------------------------
(* Properties                                                              *)

Count(v, outcome) ==
    Cardinality({m \in Messages : message[m].outcome = outcome /\ message[m].variant = v})

(* The learning loop learns what happened: an arm that no two sessions     *)
(* worked on at once has one success in alpha, and one failure in beta,    *)
(* for each of its messages with that outcome.                             *)
PosteriorExact ==
    \A v \in Variants \ disturbed :
       /\ variant[v].alpha = 1 + Count(v, "success")
       /\ variant[v].beta = 1 + Count(v, "failure")

(* A message settles once, unless a reply was being classified while the   *)
(* settler had it: record_reply_outcome, "already settled".                *)
SettledOnce == \A m \in Messages \ disturbed : gave[m] <= 1

BanditInv == BanditTypeOK /\ PosteriorExact /\ SettledOnce

(* The guardrail never switches off the last arm of a step, unless the     *)
(* operator or a second settler switches another off at the same time.     *)
ArmRemains ==
    [][Arms # {} /\ ~skewed' => Arms' # {} \/ \E v \in Variants : Toggle(v)]_banditVars

(* campaigns.py, update_variant: the posterior measured replies to this    *)
(* exact skeleton.  Mails sent but not settled are not asked about.        *)
PosteriorMeasuresCopy == mixed = {}
=============================================================================
