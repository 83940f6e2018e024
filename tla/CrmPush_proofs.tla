--------------------------- MODULE CrmPush_proofs ---------------------------
(***************************************************************************)
(* Proofs about CrmPush, for every set of connections, leads, activities   *)
(* and runs and every bound: no run loses an activity it could have seen,  *)
(* and none is pushed twice while runs do not disturb each other.          *)
(***************************************************************************)
EXTENDS CrmPush, FiniteSetTheorems, TLAPS

USE CrmPushAssumption

-----------------------------------------------------------------------------
(* Runs *)

LEMMA BusyRun ==
    ASSUME TypeOK, NEW r \in Runs, run[r] # Idle
    PROVE  run[r] \in Busy
BY DEF TypeOK

LEMMA BusyPc ==
    ASSUME TypeOK, NEW r \in Runs, run[r].pc \in {"next", "pushing"}
    PROVE  run[r] \in Busy /\ run[r] # Idle
BY DEF TypeOK, Idle

LEMMA FreshRun ==
    ASSUME TypeOK, NEW C \in SUBSET Connections, C # {}
    PROVE  [pc |-> "next", conns |-> C, loaded |-> C, until |-> 0, todo |-> {},
            since |-> [c \in Connections |-> connection[c].watermark],
            moved |-> [c \in Connections |-> 0], c |-> CHOOSE c \in C : TRUE] \in Busy
<1>1. (CHOOSE c \in C : TRUE) \in Connections
  OBVIOUS
<1>2. \A c \in Connections : connection[c].watermark \in Time
  BY DEF TypeOK, Connection
<1>3. 0 \in Time
  BY DEF Time
<1> QED
  BY <1>1, <1>2, <1>3 DEF Busy

(* A step of a run changes that run only.                                  *)
LEMMA RunsAre ==
    ASSUME TypeOK, NEW r \in Runs, NEW new, run' = [run EXCEPT ![r] = new]
    PROVE  run'[r] = new /\ \A s \in Runs : s # r => run'[s] = run[s]
BY DEF TypeOK

LEMMA RunsType ==
    ASSUME TypeOK, NEW r \in Runs, NEW new \in Busy, run' = [run EXCEPT ![r] = new],
           new.conns \subseteq new.loaded
    PROVE  /\ run' \in [Runs -> Busy \cup {Idle}]
           /\ \A s \in Runs : run'[s].conns \subseteq run'[s].loaded
BY DEF TypeOK

LEMMA FinalType ==
    ASSUME TypeOK, NEW r \in Runs, run' = [run EXCEPT ![r] = Idle]
    PROVE  /\ run' \in [Runs -> Busy \cup {Idle}]
           /\ \A s \in Runs : run'[s].conns \subseteq run'[s].loaded
BY DEF TypeOK, Idle

-----------------------------------------------------------------------------
(* Types *)

LEMMA InitType == Init => TypeOK
<1> SUFFICES ASSUME Init PROVE TypeOK
  OBVIOUS
<1>0. 0 \in Time
  BY DEF Time
<1>1. connection \in [Connections -> Connection]
  <2>1. [active : {TRUE}, watermark : {0}, links : SUBSET Leads] \subseteq Connection
    BY <1>0 DEF Connection
  <2> QED
    BY <2>1 DEF Init
<1>2. activity \in [Activities -> Activity]
  <2>1. [state : {"none"}, lead : Leads, at : {0}] \subseteq Activity
    BY <1>0 DEF Activity
  <2> QED
    BY <2>1 DEF Init
<1>3. /\ run \in [Runs -> Busy \cup {Idle}]
      /\ \A r \in Runs : run[r].conns \subseteq run[r].loaded
  BY DEF Init, Idle
<1>4. pushed \in [Pairs -> Nat] /\ clock \in Time
  BY DEF Init, Time
<1> QED
  BY <1>1, <1>2, <1>3, <1>4 DEF Init, TypeOK

LEMMA DisturbedType ==
    ASSUME TypeOK, Next PROVE disturbed' \subseteq Connections
BY DEF TypeOK, Next

LEMMA LoadType ==
    ASSUME TypeOK, NEW r \in Runs, NEW C \in SUBSET Connections, Load(r, C)
    PROVE  run' \in [Runs -> Busy \cup {Idle}] /\ \A s \in Runs : run'[s].conns \subseteq run'[s].loaded
<1> DEFINE new == [pc |-> "next", conns |-> C, loaded |-> C, until |-> 0, todo |-> {},
                   since |-> [c \in Connections |-> connection[c].watermark],
                   moved |-> [c \in Connections |-> 0], c |-> CHOOSE c \in C : TRUE]
<1>1. new \in Busy
  BY FreshRun DEF Load
<1>2. run' = [run EXCEPT ![r] = new] /\ new.conns \subseteq new.loaded
  BY DEF Load
<1> HIDE DEF new
<1> QED
  BY <1>1, <1>2, RunsType

LEMMA NextType ==
    ASSUME TypeOK, Next PROVE TypeOK'
<1>d. disturbed' \subseteq Connections
  BY DisturbedType
<1>o. ASSUME UNCHANGED run
      PROVE  run' \in [Runs -> Busy \cup {Idle}] /\ \A s \in Runs : run'[s].conns \subseteq run'[s].loaded
  BY <1>o DEF TypeOK
<1>1. CASE Advance
  <2>1. clock' \in Time
    BY <1>1 DEF Advance, TypeOK, Time
  <2> QED
    BY <1>1, <1>d, <1>o, <2>1 DEF Advance, Outside, TypeOK
<1>2. ASSUME NEW a \in Activities, Stamp(a) PROVE TypeOK'
  <2>1. activity' \in [Activities -> Activity]
    BY <1>2 DEF Stamp, TypeOK, Activity
  <2> QED
    BY <1>2, <1>d, <1>o, <2>1 DEF Stamp, Outside, TypeOK
<1>3. ASSUME NEW a \in Activities, Commit(a) PROVE TypeOK'
  <2>1. activity' \in [Activities -> Activity]
    BY <1>3 DEF Commit, TypeOK, Activity
  <2>2. late' \subseteq Pairs
    BY <1>3 DEF Commit, TypeOK, Pairs
  <2> QED
    BY <1>3, <1>d, <1>o, <2>1, <2>2 DEF Commit, Outside, TypeOK
<1>4. ASSUME NEW c \in Connections, NEW l \in Leads, Link(c, l) PROVE TypeOK'
  <2>1. connection' \in [Connections -> Connection]
    BY <1>4 DEF Link, TypeOK, Connection
  <2>2. late' \subseteq Pairs
    BY <1>4 DEF Link, TypeOK, Pairs
  <2> QED
    BY <1>4, <1>d, <1>o, <2>1, <2>2 DEF Link, Outside, TypeOK
<1>5. ASSUME NEW c \in Connections, Toggle(c) PROVE TypeOK'
  <2>1. connection' \in [Connections -> Connection]
    BY <1>5 DEF Toggle, TypeOK, Connection
  <2>2. toggles' \in 0..MaxToggles
    BY <1>5 DEF Toggle, TypeOK
  <2> QED
    BY <1>5, <1>d, <1>o, <2>1, <2>2 DEF Toggle, Outside, TypeOK
<1>6. ASSUME NEW r \in Runs, NEW C \in SUBSET Connections, Load(r, C) PROVE TypeOK'
  BY <1>6, <1>d, LoadType DEF Load, Env, TypeOK
<1>7. ASSUME NEW r \in Runs, Collect(r) PROVE TypeOK'
  <2>1. PICK c \in run[r].conns :
          run' = [run EXCEPT ![r].pc = "pushing", ![r].c = c, ![r].conns = @ \ {c},
                             ![r].until = clock, ![r].todo = Collected(c, run[r].since[c], clock)]
    BY <1>7 DEF Collect
  <2> DEFINE new == [run[r] EXCEPT !.pc = "pushing", !.c = c, !.conns = @ \ {c},
                                   !.until = clock, !.todo = Collected(c, run[r].since[c], clock)]
  <2>2. run' = [run EXCEPT ![r] = new]
    BY <2>1 DEF TypeOK
  <2>3. run[r] \in Busy
    BY <1>7, BusyPc DEF Collect
  <2>4. Collected(c, run[r].since[c], clock) \subseteq Activities /\ clock \in Time
    BY DEF Collected, TypeOK
  <2>5. new \in Busy /\ new.conns \subseteq new.loaded
    BY <2>3, <2>4 DEF Busy, TypeOK
  <2> HIDE DEF new
  <2> QED
    BY <1>7, <1>d, <2>2, <2>5, RunsType DEF Collect, Env, TypeOK
<1>8. ASSUME NEW r \in Runs, ClientFails(r) PROVE TypeOK'
  <2>1. PICK c \in run[r].conns : run' = [run EXCEPT ![r].conns = @ \ {c}]
    BY <1>8 DEF ClientFails
  <2> DEFINE new == [run[r] EXCEPT !.conns = @ \ {c}]
  <2>2. run' = [run EXCEPT ![r] = new]
    BY <2>1 DEF TypeOK
  <2>3. run[r] \in Busy
    BY <1>8, BusyPc DEF ClientFails
  <2>4. new \in Busy /\ new.conns \subseteq new.loaded
    BY <2>3 DEF Busy, TypeOK
  <2>5. faults' \in 0..MaxFaults
    BY <1>8 DEF ClientFails, TypeOK
  <2> HIDE DEF new
  <2> QED
    BY <1>8, <1>d, <2>2, <2>4, <2>5, RunsType DEF ClientFails, Env, TypeOK
<1>9. ASSUME NEW r \in Runs, Push(r) PROVE TypeOK'
  <2>1. PICK a \in run[r].todo :
          /\ run' = [run EXCEPT ![r].todo = @ \ {a}]
          /\ tried' = tried \cup {<<run[r].c, a>>}
          /\ \/ pushed' = [pushed EXCEPT ![<<run[r].c, a>>] = @ + 1] /\ UNCHANGED faults
             \/ /\ faults < MaxFaults /\ faults' = faults + 1
                /\ pushed' \in {pushed, [pushed EXCEPT ![<<run[r].c, a>>] = @ + 1]}
    BY <1>9 DEF Push
  <2> DEFINE new == [run[r] EXCEPT !.todo = @ \ {a}]
  <2>2. run' = [run EXCEPT ![r] = new]
    BY <2>1 DEF TypeOK
  <2>3. run[r] \in Busy
    BY <1>9, BusyPc DEF Push
  <2>4. new \in Busy /\ new.conns \subseteq new.loaded
    BY <2>3 DEF Busy, TypeOK
  <2>5. <<run[r].c, a>> \in Pairs
    BY <2>3 DEF Busy, Pairs
  <2>6. pushed' \in [Pairs -> Nat] /\ tried' \subseteq Pairs /\ faults' \in 0..MaxFaults
    BY <2>1, <2>5 DEF TypeOK
  <2> HIDE DEF new
  <2> QED
    BY <1>9, <1>d, <2>2, <2>4, <2>6, RunsType DEF Push, Env, TypeOK
<1>10. ASSUME NEW r \in Runs, Move(r) PROVE TypeOK'
  <2> DEFINE new == [run[r] EXCEPT !.pc = "next", !.moved = [@ EXCEPT ![run[r].c] = run[r].until]]
  <2>2. run' = [run EXCEPT ![r] = new]
    BY <1>10 DEF Move, TypeOK
  <2>3. run[r] \in Busy
    BY <1>10, BusyPc DEF Move
  <2>4. new \in Busy /\ new.conns \subseteq new.loaded
    BY <2>3 DEF Busy, TypeOK
  <2> HIDE DEF new
  <2> QED
    BY <1>10, <1>d, <2>2, <2>4, RunsType DEF Move, Env, TypeOK
<1>11. ASSUME NEW r \in Runs, Finish(r) PROVE TypeOK'
  <2>1. run[r] \in Busy
    BY <1>11, BusyPc DEF Finish
  <2>2. connection' \in [Connections -> Connection]
    BY <1>11, <2>1 DEF Finish, TypeOK, Connection, Busy
  <2>3. run' = [run EXCEPT ![r] = Idle]
    BY <1>11 DEF Finish
  <2> QED
    BY <1>11, <1>d, <2>2, <2>3, FinalType DEF Finish, Env, TypeOK
<1>12. ASSUME NEW r \in Runs, Die(r) PROVE TypeOK'
  <2>1. run' = [run EXCEPT ![r] = Idle]
    BY <1>12 DEF Die
  <2>2. faults' \in 0..MaxFaults
    BY <1>12 DEF Die, TypeOK
  <2> QED
    BY <1>12, <1>d, <2>1, <2>2, FinalType DEF Die, Env, TypeOK
<1>13. ASSUME NEW r \in Ticks, Tick(r) PROVE TypeOK'
  BY <1>13, <1>6 DEF Tick, Runs
<1>14. ASSUME NEW r \in Buttons, SyncNow(r) PROVE TypeOK'
  BY <1>14, <1>6 DEF SyncNow, Runs
<1> QED
  BY <1>1, <1>2, <1>3, <1>4, <1>5, <1>7, <1>8, <1>9, <1>10, <1>11, <1>12, <1>13, <1>14
  DEF Next, Act, Work

(* In every state of every behaviour the variables have their types.       *)
THEOREM TypeCorrect == Spec => []TypeOK
<1>1. TypeOK /\ UNCHANGED vars => TypeOK'
  BY DEF vars, TypeOK
<1>2. TypeOK /\ [Next]_vars => TypeOK'
  BY <1>1, NextType
<1> QED
  BY InitType, <1>2, PTL DEF Spec

-----------------------------------------------------------------------------
(* The watermark covers *)

(* An activity that must still be tried lies before every boundary drawn,  *)
(* or in the list of the run that drew it.                                 *)
Missing(c, a) ==
    /\ activity[a].state = "committed" /\ activity[a].lead \in connection[c].links
    /\ <<c, a>> \notin tried \cup late

Ahead(r, c, a) ==
    /\ activity[a].at > run[r].since[c]
    /\ run[r].moved[c] = 0 \/ activity[a].at > run[r].moved[c]
    /\ run[r].pc = "pushing" /\ run[r].c = c => a \in run[r].todo \/ activity[a].at > run[r].until

AheadInv ==
    \A c \in Connections, a \in Activities : Missing(c, a) =>
       /\ activity[a].at > connection[c].watermark
       /\ \A r \in Runs : run[r] # Idle => Ahead(r, c, a)

LEMMA Numbers ==
    ASSUME TypeOK
    PROVE  /\ \A a \in Activities : activity[a].at \in Nat
           /\ \A c \in Connections : connection[c].watermark \in Nat
           /\ clock \in Nat
           /\ \A r \in Runs : run[r] # Idle =>
                 /\ run[r].until \in Nat /\ run[r].c \in Connections
                 /\ \A c \in Connections : run[r].since[c] \in Nat /\ run[r].moved[c] \in Nat
BY DEF TypeOK, Time, Activity, Connection, Busy

LEMMA InitAhead == Init => AheadInv
BY DEF Init, AheadInv, Missing

(* What no boundary passed is ahead of all of them.                        *)
LEMMA NotPassed ==
    ASSUME TypeOK, NEW c \in Connections, NEW a \in Activities, ~Passed(c, activity[a].at)
    PROVE  /\ activity[a].at > connection[c].watermark
           /\ \A r \in Runs : run[r] # Idle => Ahead(r, c, a)
BY Numbers DEF Passed, Ahead

(* What the rest of the system does leaves the runs alone.                 *)
LEMMA OutsideAhead ==
    ASSUME TypeOK, AheadInv, UNCHANGED <<run, tried>>, late \subseteq late',
           \A c \in Connections : connection'[c].watermark = connection[c].watermark,
           \A c \in Connections, a \in Activities : Missing(c, a)' =>
              activity'[a].at = activity[a].at /\ (Missing(c, a) \/ ~Passed(c, activity[a].at))
    PROVE  AheadInv'
<1> SUFFICES ASSUME NEW c \in Connections, NEW a \in Activities, Missing(c, a)'
             PROVE  /\ activity'[a].at > connection'[c].watermark
                    /\ \A r \in Runs : run'[r] # Idle => Ahead(r, c, a)'
  BY DEF AheadInv
<1>1. /\ activity[a].at > connection[c].watermark
      /\ \A r \in Runs : run[r] # Idle => Ahead(r, c, a)
  BY NotPassed DEF AheadInv
<1> QED
  BY <1>1 DEF Ahead

LEMMA StampAhead ==
    ASSUME TypeOK, AheadInv, NEW a \in Activities, Stamp(a) PROVE AheadInv'
<1>1. \A b \in Activities : activity'[b].state = "committed" => activity'[b] = activity[b]
  BY DEF Stamp, TypeOK
<1>2. UNCHANGED <<run, tried, late, connection>>
  BY DEF Stamp, Outside
<1>3. \A c \in Connections, b \in Activities : Missing(c, b)' =>
         activity'[b].at = activity[b].at /\ Missing(c, b)
  BY <1>1, <1>2 DEF Missing
<1> QED
  BY <1>2, <1>3, OutsideAhead

LEMMA CommitAhead ==
    ASSUME TypeOK, AheadInv, NEW a \in Activities, Commit(a) PROVE AheadInv'
<1>1. \A b \in Activities : /\ activity'[b].at = activity[b].at /\ activity'[b].lead = activity[b].lead
                            /\ b # a => activity'[b].state = activity[b].state
  BY DEF Commit, TypeOK, Activity
<1>2. UNCHANGED <<run, tried, connection>> /\ late \subseteq late'
  BY DEF Commit, Outside
<1>3. \A c \in Connections : Passed(c, activity[a].at) => <<c, a>> \in late'
  BY DEF Commit
<1>4. \A c \in Connections, b \in Activities : Missing(c, b)' =>
         activity'[b].at = activity[b].at /\ (Missing(c, b) \/ ~Passed(c, activity[b].at))
  BY <1>1, <1>2, <1>3 DEF Missing
<1> QED
  BY <1>2, <1>4, OutsideAhead

LEMMA LinkAhead ==
    ASSUME TypeOK, AheadInv, NEW k \in Connections, NEW l \in Leads, Link(k, l) PROVE AheadInv'
<1>1. UNCHANGED <<run, tried, activity>> /\ late \subseteq late'
  BY DEF Link, Outside
<1>2. \A c \in Connections : /\ connection'[c].watermark = connection[c].watermark
                             /\ connection'[c].links \subseteq connection[c].links
                                   \cup (IF c = k THEN {l} ELSE {})
  BY DEF Link, TypeOK, Connection
<1>3. \A b \in Activities : activity[b].lead = l /\ activity[b].state = "committed"
                               /\ Passed(k, activity[b].at) => <<k, b>> \in late'
  BY DEF Link
<1>4. \A c \in Connections, b \in Activities : Missing(c, b)' =>
         activity'[b].at = activity[b].at /\ (Missing(c, b) \/ ~Passed(c, activity[b].at))
  BY <1>1, <1>2, <1>3 DEF Missing
<1> QED
  BY <1>1, <1>2, <1>4, OutsideAhead

LEMMA ToggleAhead ==
    ASSUME TypeOK, AheadInv, NEW k \in Connections, Toggle(k) PROVE AheadInv'
<1>1. UNCHANGED <<run, tried, activity, late>>
  BY DEF Toggle, Outside
<1>2. \A c \in Connections : /\ connection'[c].watermark = connection[c].watermark
                             /\ connection'[c].links = connection[c].links
  BY DEF Toggle, TypeOK, Connection
<1>3. \A c \in Connections, b \in Activities : Missing(c, b)' =>
         activity'[b].at = activity[b].at /\ Missing(c, b)
  BY <1>1, <1>2 DEF Missing
<1> QED
  BY <1>1, <1>2, <1>3, OutsideAhead

(* A step of run r keeps what is ahead of the others.                      *)
LEMMA RunAhead ==
    ASSUME TypeOK, AheadInv, NEW r \in Runs, NEW new, run' = [run EXCEPT ![r] = new],
           UNCHANGED <<activity, late>>, tried \subseteq tried',
           \A c \in Connections : connection'[c].links = connection[c].links,
           \A c \in Connections, a \in Activities : Missing(c, a) /\ Missing(c, a)' =>
              /\ activity[a].at > connection'[c].watermark
              /\ run'[r] # Idle => Ahead(r, c, a)'
    PROVE  AheadInv'
<1> SUFFICES ASSUME NEW c \in Connections, NEW a \in Activities, Missing(c, a)'
             PROVE  /\ activity'[a].at > connection'[c].watermark
                    /\ \A s \in Runs : run'[s] # Idle => Ahead(s, c, a)'
  BY DEF AheadInv
<1>1. Missing(c, a)
  BY DEF Missing
<1>2. ASSUME NEW s \in Runs, s # r, run'[s] # Idle PROVE Ahead(s, c, a)'
  <2>1. run'[s] = run[s]
    BY <1>2, RunsAre
  <2> QED
    BY <1>1, <1>2, <2>1 DEF AheadInv, Ahead
<1> QED
  BY <1>1, <1>2

LEMMA LoadAhead ==
    ASSUME TypeOK, AheadInv, NEW r \in Runs, NEW C \in SUBSET Connections, Load(r, C)
    PROVE  AheadInv'
<1> DEFINE new == [pc |-> "next", conns |-> C, loaded |-> C, until |-> 0, todo |-> {},
                   since |-> [c \in Connections |-> connection[c].watermark],
                   moved |-> [c \in Connections |-> 0], c |-> CHOOSE c \in C : TRUE]
<1>1. run' = [run EXCEPT ![r] = new] /\ UNCHANGED <<connection, activity, tried, late>>
  BY DEF Load, Env
<1>2. /\ \A c \in Connections : new.since[c] = connection[c].watermark /\ new.moved[c] = 0
      /\ new.pc = "next"
  OBVIOUS
<1> HIDE DEF new
<1>3. run'[r] = new
  BY <1>1, RunsAre
<1>4. ASSUME NEW c \in Connections, NEW a \in Activities, Missing(c, a)
      PROVE  activity[a].at > connection'[c].watermark /\ Ahead(r, c, a)'
  BY <1>1, <1>2, <1>3, <1>4 DEF AheadInv, Ahead
<1> QED
  BY <1>1, <1>4, RunAhead

LEMMA CollectAhead ==
    ASSUME TypeOK, AheadInv, NEW r \in Runs, Collect(r) PROVE AheadInv'
<1>0. run[r] \in Busy /\ run[r] # Idle
  BY BusyPc DEF Collect
<1>1. PICK k \in run[r].conns :
        run' = [run EXCEPT ![r].pc = "pushing", ![r].c = k, ![r].conns = @ \ {k},
                           ![r].until = clock, ![r].todo = Collected(k, run[r].since[k], clock)]
  BY DEF Collect
<1> DEFINE new == [run[r] EXCEPT !.pc = "pushing", !.c = k, !.conns = @ \ {k},
                                 !.until = clock, !.todo = Collected(k, run[r].since[k], clock)]
<1>2. run' = [run EXCEPT ![r] = new] /\ UNCHANGED <<connection, activity, tried, late>>
  BY <1>1 DEF TypeOK, Collect, Env
<1>3. /\ new.since = run[r].since /\ new.moved = run[r].moved /\ new.c = k
      /\ new.until = clock /\ new.todo = Collected(k, run[r].since[k], clock)
  BY <1>0 DEF Busy
<1> HIDE DEF new
<1>4. run'[r] = new
  BY <1>2, RunsAre
<1>5. ASSUME NEW c \in Connections, NEW a \in Activities, Missing(c, a)
      PROVE  activity[a].at > connection'[c].watermark /\ Ahead(r, c, a)'
  <2>1. activity[a].at > connection[c].watermark /\ Ahead(r, c, a)
    BY <1>0, <1>5 DEF AheadInv
  <2>2. c = k => a \in new.todo \/ activity[a].at > clock
    BY <1>3, <1>5, <2>1, Numbers DEF Collected, Missing, Ahead
  <2> QED
    BY <1>2, <1>3, <1>4, <2>1, <2>2 DEF Ahead
<1> QED
  BY <1>2, <1>5, RunAhead

LEMMA ClientFailsAhead ==
    ASSUME TypeOK, AheadInv, NEW r \in Runs, ClientFails(r) PROVE AheadInv'
<1>0. run[r] \in Busy /\ run[r] # Idle
  BY BusyPc DEF ClientFails
<1>1. PICK k \in run[r].conns : run' = [run EXCEPT ![r].conns = @ \ {k}]
  BY DEF ClientFails
<1> DEFINE new == [run[r] EXCEPT !.conns = @ \ {k}]
<1>2. run' = [run EXCEPT ![r] = new] /\ UNCHANGED <<connection, activity, tried, late>>
  BY <1>1 DEF TypeOK, ClientFails, Env
<1>3. /\ new.since = run[r].since /\ new.moved = run[r].moved /\ new.c = run[r].c
      /\ new.pc = run[r].pc /\ new.until = run[r].until /\ new.todo = run[r].todo
  BY <1>0 DEF Busy
<1> HIDE DEF new
<1>4. run'[r] = new
  BY <1>2, RunsAre
<1>5. ASSUME NEW c \in Connections, NEW a \in Activities, Missing(c, a)
      PROVE  activity[a].at > connection'[c].watermark /\ Ahead(r, c, a)'
  BY <1>0, <1>2, <1>3, <1>4, <1>5 DEF AheadInv, Ahead
<1> QED
  BY <1>2, <1>5, RunAhead

LEMMA PushAhead ==
    ASSUME TypeOK, AheadInv, NEW r \in Runs, Push(r) PROVE AheadInv'
<1>0. run[r] \in Busy /\ run[r] # Idle
  BY BusyPc DEF Push
<1>1. PICK b \in run[r].todo : /\ run' = [run EXCEPT ![r].todo = @ \ {b}]
                              /\ tried' = tried \cup {<<run[r].c, b>>}
  BY DEF Push
<1> DEFINE new == [run[r] EXCEPT !.todo = @ \ {b}]
<1>2. run' = [run EXCEPT ![r] = new] /\ UNCHANGED <<connection, activity, late>>
  BY <1>1 DEF TypeOK, Push, Env
<1>3. /\ new.since = run[r].since /\ new.moved = run[r].moved /\ new.c = run[r].c
      /\ new.pc = run[r].pc /\ new.until = run[r].until /\ new.todo = run[r].todo \ {b}
  BY <1>0 DEF Busy
<1> HIDE DEF new
<1>4. run'[r] = new
  BY <1>2, RunsAre
<1>5. ASSUME NEW c \in Connections, NEW a \in Activities, Missing(c, a), Missing(c, a)'
      PROVE  activity[a].at > connection'[c].watermark /\ Ahead(r, c, a)'
  <2>1. activity[a].at > connection[c].watermark /\ Ahead(r, c, a)
    BY <1>0, <1>5 DEF AheadInv
  <2>2. ~(c = run[r].c /\ a = b)
    BY <1>1, <1>5 DEF Missing
  <2> QED
    BY <1>2, <1>3, <1>4, <2>1, <2>2 DEF Ahead
<1> QED
  BY <1>1, <1>2, <1>5, RunAhead

LEMMA MoveAhead ==
    ASSUME TypeOK, AheadInv, NEW r \in Runs, Move(r) PROVE AheadInv'
<1>0. run[r] \in Busy /\ run[r] # Idle
  BY BusyPc DEF Move
<1> DEFINE new == [run[r] EXCEPT !.pc = "next", !.moved = [@ EXCEPT ![run[r].c] = run[r].until]]
<1>1. UNCHANGED <<connection, activity, tried, late>>
  BY DEF Move, Env
<1>2. run' = [run EXCEPT ![r] = new]
  BY DEF TypeOK, Move
<1>3. /\ new.since = run[r].since /\ new.pc = "next" /\ run[r].c \in Connections
      /\ \A c \in Connections : new.moved[c] = IF c = run[r].c THEN run[r].until ELSE run[r].moved[c]
  BY <1>0 DEF Busy
<1> HIDE DEF new
<1>4. run'[r] = new
  BY <1>2, RunsAre
<1>5. ASSUME NEW c \in Connections, NEW a \in Activities, Missing(c, a)
      PROVE  activity[a].at > connection'[c].watermark /\ Ahead(r, c, a)'
  <2>1. activity[a].at > connection[c].watermark /\ Ahead(r, c, a)
    BY <1>0, <1>5 DEF AheadInv
  <2>2. c = run[r].c => activity[a].at > run[r].until
    BY <2>1 DEF Move, Ahead
  <2> QED
    BY <1>1, <1>3, <1>4, <2>1, <2>2 DEF Ahead
<1> QED
  BY <1>1, <1>2, <1>5, RunAhead

LEMMA FinishAhead ==
    ASSUME TypeOK, AheadInv, NEW r \in Runs, Finish(r) PROVE AheadInv'
<1>0. run[r] \in Busy /\ run[r] # Idle
  BY BusyPc DEF Finish
<1>1. /\ run' = [run EXCEPT ![r] = Idle] /\ UNCHANGED <<activity, tried, late>>
      /\ \A c \in Connections :
            /\ connection'[c].links = connection[c].links
            /\ connection'[c].watermark = IF run[r].moved[c] > 0 THEN run[r].moved[c]
                                          ELSE connection[c].watermark
  BY DEF Finish, Env, TypeOK, Connection
<1>2. run'[r] = Idle
  BY <1>1, RunsAre
<1>3. ASSUME NEW c \in Connections, NEW a \in Activities, Missing(c, a)
      PROVE  activity[a].at > connection'[c].watermark
  <2>1. activity[a].at > connection[c].watermark /\ Ahead(r, c, a)
    BY <1>0, <1>3 DEF AheadInv
  <2> QED
    BY <1>0, <1>1, <2>1, Numbers DEF Ahead
<1> QED
  BY <1>1, <1>2, <1>3, RunAhead

LEMMA DieAhead ==
    ASSUME TypeOK, AheadInv, NEW r \in Runs, Die(r) PROVE AheadInv'
<1>1. run' = [run EXCEPT ![r] = Idle] /\ UNCHANGED <<connection, activity, tried, late>>
  BY DEF Die, Env
<1>2. run'[r] = Idle
  BY <1>1, RunsAre
<1>3. ASSUME NEW c \in Connections, NEW a \in Activities, Missing(c, a)
      PROVE  activity[a].at > connection'[c].watermark
  BY <1>1, <1>3 DEF AheadInv
<1> QED
  BY <1>1, <1>2, <1>3, RunAhead

LEMMA NextAhead ==
    ASSUME TypeOK, AheadInv, Next PROVE AheadInv'
<1>1. CASE Advance
  <2>1. UNCHANGED <<connection, activity, run, tried, late>>
    BY <1>1 DEF Advance, Outside
  <2> QED
    BY <2>1 DEF AheadInv, Missing, Ahead
<1>2. ASSUME NEW r \in Ticks, Tick(r) PROVE AheadInv'
  BY <1>2, LoadAhead DEF Tick, Runs
<1>3. ASSUME NEW r \in Buttons, SyncNow(r) PROVE AheadInv'
  BY <1>3, LoadAhead DEF SyncNow, Runs
<1> QED
  BY <1>1, <1>2, <1>3, StampAhead, CommitAhead, LinkAhead, ToggleAhead, CollectAhead,
     ClientFailsAhead, PushAhead, MoveAhead, FinishAhead, DieAhead
  DEF Next, Act, Work

(* What lies behind a watermark was tried, or became visible too late.     *)
THEOREM Covers == Spec => []WatermarkCovers
<1> DEFINE Inv == TypeOK /\ AheadInv
<1>1. Inv /\ UNCHANGED vars => Inv'
  BY DEF vars, TypeOK, AheadInv, Missing, Ahead
<1>2. Inv /\ [Next]_vars => Inv'
  BY <1>1, NextType, NextAhead
<1>3. Init => Inv
  BY InitType, InitAhead
<1>4. Inv => WatermarkCovers
  BY Numbers DEF AheadInv, Missing, WatermarkCovers
<1> HIDE DEF Inv
<1> QED
  BY <1>2, <1>3, <1>4, PTL DEF Spec

-----------------------------------------------------------------------------
(* Numbers keep their order *)

(* What a run knows was the clock once, and only grows from its watermark. *)
InOrder(r) ==
    /\ \A c \in Connections :
          /\ run[r].since[c] <= clock
          /\ \/ run[r].moved[c] = 0
             \/ /\ run[r].since[c] <= run[r].moved[c] /\ run[r].moved[c] <= clock
                /\ c \in run[r].loaded
          /\ c \in run[r].conns => run[r].moved[c] = 0
    /\ run[r].pc = "pushing" =>
          /\ run[r].c \in run[r].loaded /\ run[r].c \notin run[r].conns
          /\ run[r].moved[run[r].c] = 0
          /\ 1 <= run[r].until /\ run[r].until <= clock /\ run[r].since[run[r].c] <= run[r].until
          /\ \A a \in run[r].todo : activity[a].state = "committed" /\ activity[a].at <= run[r].until

OrderInv ==
    /\ 1 <= clock
    /\ \A c \in Connections : connection[c].watermark <= clock
    /\ \A r \in Runs : run[r] # Idle => InOrder(r)

LEMMA InitOrder == Init => OrderInv
<1> SUFFICES ASSUME Init PROVE OrderInv
  OBVIOUS
<1>1. ASSUME NEW c \in Connections PROVE connection[c].watermark = 0
  <2>1. connection[c] \in [active : {TRUE}, watermark : {0}, links : SUBSET Leads]
    BY <1>1 DEF Init
  <2> QED
    BY <2>1
<1> QED
  BY <1>1 DEF Init, OrderInv

LEMMA OutsideOrder ==
    ASSUME TypeOK, OrderInv, UNCHANGED run, clock' \in {clock, clock + 1},
           \A c \in Connections : connection'[c].watermark = connection[c].watermark,
           \A a \in Activities : activity[a].state = "committed" => activity'[a] = activity[a]
    PROVE  OrderInv'
<1>1. clock \in Nat /\ clock <= clock'
  BY Numbers
<1>2. 1 <= clock' /\ \A c \in Connections : connection'[c].watermark <= clock'
  BY <1>1, Numbers DEF OrderInv
<1>3. ASSUME NEW r \in Runs, run[r] # Idle PROVE InOrder(r)'
  <2>1. run[r] \in Busy /\ InOrder(r) /\ clock' \in Nat
    BY <1>1, <1>3, BusyRun DEF OrderInv
  <2>2. \A a \in run[r].todo : a \in Activities
    BY <2>1 DEF Busy
  <2>3. \A c \in Connections : run[r].since[c] \in Nat /\ run[r].moved[c] \in Nat
    BY <1>3, Numbers
  <2>4. run[r].until \in Nat
    BY <1>3, Numbers
  <2>5. \A c \in Connections :
          /\ run[r].since[c] <= clock'
          /\ \/ run[r].moved[c] = 0
             \/ /\ run[r].since[c] <= run[r].moved[c] /\ run[r].moved[c] <= clock'
                /\ c \in run[r].loaded
    BY <1>1, <2>1, <2>3 DEF InOrder
  <2>6. run[r].pc = "pushing" => run[r].until <= clock'
    BY <1>1, <2>1, <2>4 DEF InOrder
  <2> QED
    BY <2>1, <2>2, <2>5, <2>6 DEF InOrder
<1> QED
  BY <1>2, <1>3 DEF OrderInv

(* A step of run r keeps the others in order.                              *)
LEMMA RunOrder ==
    ASSUME TypeOK, OrderInv, NEW r \in Runs, NEW new, run' = [run EXCEPT ![r] = new],
           UNCHANGED <<clock, activity>>,
           \A c \in Connections : connection'[c].watermark <= clock,
           new # Idle => InOrder(r)'
    PROVE  OrderInv'
<1>1. ASSUME NEW s \in Runs, s # r, run'[s] # Idle PROVE InOrder(s)'
  <2>1. run'[s] = run[s]
    BY <1>1, RunsAre
  <2> QED
    BY <1>1, <2>1 DEF OrderInv, InOrder
<1>2. run'[r] = new
  BY RunsAre
<1> QED
  BY <1>1, <1>2 DEF OrderInv

LEMMA LoadOrder ==
    ASSUME TypeOK, OrderInv, NEW r \in Runs, NEW C \in SUBSET Connections, Load(r, C)
    PROVE  OrderInv'
<1> DEFINE new == [pc |-> "next", conns |-> C, loaded |-> C, until |-> 0, todo |-> {},
                   since |-> [c \in Connections |-> connection[c].watermark],
                   moved |-> [c \in Connections |-> 0], c |-> CHOOSE c \in C : TRUE]
<1>1. run' = [run EXCEPT ![r] = new] /\ UNCHANGED <<clock, connection, activity>>
  BY DEF Load, Env
<1>2. /\ \A c \in Connections : new.since[c] = connection[c].watermark /\ new.moved[c] = 0
      /\ new.pc = "next"
  OBVIOUS
<1> HIDE DEF new
<1>3. run'[r] = new
  BY <1>1, RunsAre
<1>4. InOrder(r)'
  BY <1>1, <1>2, <1>3 DEF OrderInv, InOrder
<1> QED
  BY <1>1, <1>4, RunOrder DEF OrderInv

LEMMA CollectOrder ==
    ASSUME TypeOK, OrderInv, NEW r \in Runs, Collect(r) PROVE OrderInv'
<1>0. run[r] \in Busy /\ run[r] # Idle /\ InOrder(r)
  BY BusyPc DEF Collect, OrderInv
<1>1. PICK k \in run[r].conns :
        run' = [run EXCEPT ![r].pc = "pushing", ![r].c = k, ![r].conns = @ \ {k},
                           ![r].until = clock, ![r].todo = Collected(k, run[r].since[k], clock)]
  BY DEF Collect
<1> DEFINE new == [run[r] EXCEPT !.pc = "pushing", !.c = k, !.conns = @ \ {k},
                                 !.until = clock, !.todo = Collected(k, run[r].since[k], clock)]
<1>2. run' = [run EXCEPT ![r] = new] /\ UNCHANGED <<clock, connection, activity>>
  BY <1>1 DEF TypeOK, Collect, Env
<1>3. /\ new.since = run[r].since /\ new.moved = run[r].moved /\ new.c = k
      /\ new.conns = run[r].conns \ {k} /\ new.loaded = run[r].loaded
      /\ new.until = clock /\ new.todo = Collected(k, run[r].since[k], clock)
  BY <1>0 DEF Busy
<1> HIDE DEF new
<1>4. run'[r] = new
  BY <1>2, RunsAre
<1>5. k \in run[r].loaded /\ k \in Connections
  BY <1>0, <1>1 DEF TypeOK, Busy
<1>6. \A a \in new.todo : activity[a].state = "committed" /\ activity[a].at <= clock
  BY <1>3 DEF Collected
<1>7. InOrder(r)'
  BY <1>0, <1>2, <1>3, <1>4, <1>5, <1>6, Numbers DEF InOrder, OrderInv
<1> QED
  BY <1>2, <1>7, RunOrder DEF OrderInv

LEMMA ClientFailsOrder ==
    ASSUME TypeOK, OrderInv, NEW r \in Runs, ClientFails(r) PROVE OrderInv'
<1>0. run[r] \in Busy /\ run[r] # Idle /\ InOrder(r)
  BY BusyPc DEF ClientFails, OrderInv
<1>1. PICK k \in run[r].conns : run' = [run EXCEPT ![r].conns = @ \ {k}]
  BY DEF ClientFails
<1> DEFINE new == [run[r] EXCEPT !.conns = @ \ {k}]
<1>2. run' = [run EXCEPT ![r] = new] /\ UNCHANGED <<clock, connection, activity>>
  BY <1>1 DEF TypeOK, ClientFails, Env
<1>3. /\ new.since = run[r].since /\ new.moved = run[r].moved /\ new.c = run[r].c
      /\ new.conns = run[r].conns \ {k} /\ new.loaded = run[r].loaded
      /\ new.pc = run[r].pc /\ new.until = run[r].until /\ new.todo = run[r].todo
  BY <1>0 DEF Busy
<1> HIDE DEF new
<1>4. run'[r] = new
  BY <1>2, RunsAre
<1>5. InOrder(r)'
  BY <1>0, <1>2, <1>3, <1>4 DEF InOrder
<1> QED
  BY <1>2, <1>5, RunOrder DEF OrderInv

LEMMA PushOrder ==
    ASSUME TypeOK, OrderInv, NEW r \in Runs, Push(r) PROVE OrderInv'
<1>0. run[r] \in Busy /\ run[r] # Idle /\ InOrder(r)
  BY BusyPc DEF Push, OrderInv
<1>1. PICK b \in run[r].todo : run' = [run EXCEPT ![r].todo = @ \ {b}]
  BY DEF Push
<1> DEFINE new == [run[r] EXCEPT !.todo = @ \ {b}]
<1>2. run' = [run EXCEPT ![r] = new] /\ UNCHANGED <<clock, connection, activity>>
  BY <1>1 DEF TypeOK, Push, Env
<1>3. /\ new.since = run[r].since /\ new.moved = run[r].moved /\ new.c = run[r].c
      /\ new.conns = run[r].conns /\ new.loaded = run[r].loaded
      /\ new.pc = run[r].pc /\ new.until = run[r].until /\ new.todo = run[r].todo \ {b}
  BY <1>0 DEF Busy
<1> HIDE DEF new
<1>4. run'[r] = new
  BY <1>2, RunsAre
<1>5. InOrder(r)'
  BY <1>0, <1>2, <1>3, <1>4 DEF InOrder
<1> QED
  BY <1>2, <1>5, RunOrder DEF OrderInv

LEMMA MoveOrder ==
    ASSUME TypeOK, OrderInv, NEW r \in Runs, Move(r) PROVE OrderInv'
<1>0. run[r] \in Busy /\ run[r] # Idle /\ InOrder(r)
  BY BusyPc DEF Move, OrderInv
<1> DEFINE new == [run[r] EXCEPT !.pc = "next", !.moved = [@ EXCEPT ![run[r].c] = run[r].until]]
<1>1. UNCHANGED <<clock, connection, activity>>
  BY DEF Move, Env
<1>2. run' = [run EXCEPT ![r] = new]
  BY DEF TypeOK, Move
<1>3. /\ new.since = run[r].since /\ new.pc = "next" /\ run[r].c \in Connections
      /\ new.conns = run[r].conns /\ new.loaded = run[r].loaded
      /\ \A c \in Connections : new.moved[c] = IF c = run[r].c THEN run[r].until ELSE run[r].moved[c]
  BY <1>0 DEF Busy
<1> HIDE DEF new
<1>4. run'[r] = new
  BY <1>2, RunsAre
<1>5. run[r].c \notin run[r].conns
  BY <1>0 DEF InOrder, Move
<1>6. InOrder(r)'
  BY <1>0, <1>1, <1>3, <1>4, <1>5 DEF InOrder, Move
<1> QED
  BY <1>1, <1>2, <1>6, RunOrder DEF OrderInv

LEMMA FinishOrder ==
    ASSUME TypeOK, OrderInv, NEW r \in Runs, Finish(r) PROVE OrderInv'
<1>0. run[r] # Idle /\ InOrder(r)
  BY BusyPc DEF Finish, OrderInv
<1>1. /\ run' = [run EXCEPT ![r] = Idle] /\ UNCHANGED <<clock, activity>>
      /\ \A c \in Connections :
            connection'[c].watermark = IF run[r].moved[c] > 0 THEN run[r].moved[c]
                                       ELSE connection[c].watermark
  BY DEF Finish, Env, TypeOK, Connection
<1>2. \A c \in Connections : connection'[c].watermark <= clock
  BY <1>0, <1>1, Numbers DEF OrderInv, InOrder
<1> QED
  BY <1>1, <1>2, RunOrder

LEMMA DieOrder ==
    ASSUME TypeOK, OrderInv, NEW r \in Runs, Die(r) PROVE OrderInv'
BY RunOrder DEF Die, Env, OrderInv

LEMMA NextOrder ==
    ASSUME TypeOK, OrderInv, Next PROVE OrderInv'
<1>1. CASE Advance
  BY <1>1, OutsideOrder DEF Advance, Outside
<1>2. ASSUME NEW a \in Activities, Stamp(a) PROVE OrderInv'
  <2>1. \A b \in Activities : activity[b].state = "committed" => activity'[b] = activity[b]
    BY <1>2 DEF Stamp, TypeOK
  <2> QED
    BY <1>2, <2>1, OutsideOrder DEF Stamp, Outside
<1>3. ASSUME NEW a \in Activities, Commit(a) PROVE OrderInv'
  <2>1. \A b \in Activities : activity[b].state = "committed" => activity'[b] = activity[b]
    BY <1>3 DEF Commit, TypeOK
  <2> QED
    BY <1>3, <2>1, OutsideOrder DEF Commit, Outside
<1>4. ASSUME NEW c \in Connections, NEW l \in Leads, Link(c, l) PROVE OrderInv'
  <2>1. \A k \in Connections : connection'[k].watermark = connection[k].watermark
    BY <1>4 DEF Link, TypeOK, Connection
  <2> QED
    BY <1>4, <2>1, OutsideOrder DEF Link, Outside
<1>5. ASSUME NEW c \in Connections, Toggle(c) PROVE OrderInv'
  <2>1. \A k \in Connections : connection'[k].watermark = connection[k].watermark
    BY <1>5 DEF Toggle, TypeOK, Connection
  <2> QED
    BY <1>5, <2>1, OutsideOrder DEF Toggle, Outside
<1>6. ASSUME NEW r \in Ticks, Tick(r) PROVE OrderInv'
  BY <1>6, LoadOrder DEF Tick, Runs
<1>7. ASSUME NEW r \in Buttons, SyncNow(r) PROVE OrderInv'
  BY <1>7, LoadOrder DEF SyncNow, Runs
<1> QED
  BY <1>1, <1>2, <1>3, <1>4, <1>5, <1>6, <1>7, CollectOrder, ClientFailsOrder, PushOrder,
     MoveOrder, FinishOrder, DieOrder
  DEF Next, Act, Work

-----------------------------------------------------------------------------
(* Pushed once while undisturbed *)

Pushing(r, c) == run[r].pc = "pushing" /\ run[r].c = c

(* Run r drew a boundary at or after a and has a done.                     *)
Done(r, c, a) ==
    \/ run[r].moved[c] > 0 /\ activity[a].at <= run[r].moved[c]
    \/ Pushing(r, c) /\ activity[a].at <= run[r].until /\ a \notin run[r].todo

Alone(c) == \A r \in Holds(c), s \in Holds(c) : r = s

(* The holder r of c started from its watermark and repeats nothing.       *)
Fresh(r, c) ==
    /\ run[r].since[c] = connection[c].watermark
    /\ Pushing(r, c) => \A a \in run[r].todo : pushed[<<c, a>>] = 0

(* What was pushed lies behind the watermark, or the run that holds c has  *)
(* it done.                                                                *)
OnceAt(c, a) ==
    /\ pushed[<<c, a>>] <= 1
    /\ pushed[<<c, a>>] = 1 =>
         /\ activity[a].state = "committed"
         /\ \/ activity[a].at <= connection[c].watermark
            \/ \E r \in Holds(c) : Done(r, c, a)

Once(c) ==
    /\ \A r \in Holds(c) : Fresh(r, c)
    /\ \A a \in Activities : OnceAt(c, a)

OnceInv == \A c \in Connections : c \notin disturbed => Alone(c) /\ Once(c)

LEMMA OneOfOne ==
    ASSUME NEW S, IsFiniteSet(S), ~(Cardinality(S) > 1), NEW x \in S, NEW y \in S
    PROVE  x = y
<1> SUFFICES ASSUME x # y PROVE FALSE
  OBVIOUS
<1>1. Cardinality(S) \in Nat
  BY FS_CardinalityType
<1> DEFINE T == S \ {x}
<1>2. IsFiniteSet(T) /\ Cardinality(T) = Cardinality(S) - 1
  BY FS_RemoveElement
<1>3. T # {}
  OBVIOUS
<1> HIDE DEF T
<1>4. Cardinality(T) # 0
  BY <1>2, <1>3, FS_EmptySet
<1>5. Cardinality(T) \in Nat
  BY <1>2, FS_CardinalityType
<1> QED
  BY <1>1, <1>2, <1>4, <1>5

LEMMA InitOnce == Init => OnceInv
<1> SUFFICES ASSUME Init PROVE OnceInv
  OBVIOUS
<1>1. \A r \in Runs : run[r] = Idle
  BY DEF Init
<1>2. \A c \in Connections, a \in Activities : pushed[<<c, a>>] = 0
  BY DEF Init, Pairs
<1> QED
  BY <1>1, <1>2 DEF OnceInv, Alone, Once, OnceAt, Holds

(* A step that leaves c undisturbed leaves it to one run, which does not   *)
(* die.                                                                    *)
LEMMA Undisturbed ==
    ASSUME TypeOK, Next, NEW c \in Connections, c \notin disturbed'
    PROVE  c \notin disturbed /\ Alone(c)' /\ \A r \in Holds(c) : ~Die(r)
<1>1. Holds(c)' \subseteq Ticks \cup Buttons
  BY DEF Holds, Runs
<1>2. IsFiniteSet(Holds(c)')
  <2>1. IsFiniteSet(Ticks \cup Buttons)
    BY FS_Union
  <2> QED
    BY <1>1, <2>1, FS_Subset
<1>3. ~(Cardinality(Holds(c)') > 1)
  BY DEF Next
<1>4. Alone(c)'
  BY <1>2, <1>3, OneOfOne DEF Alone
<1> QED
  BY <1>4 DEF Next

LEMMA OutsideOnce ==
    ASSUME TypeOK, NEW c \in Connections, Once(c), UNCHANGED <<run, pushed>>,
           connection'[c].watermark = connection[c].watermark,
           \A a \in Activities : activity[a].state = "committed" => activity'[a] = activity[a]
    PROVE  Once(c)'
<1>1. Holds(c)' = Holds(c)
  BY DEF Holds
<1>2. ASSUME NEW a \in Activities PROVE OnceAt(c, a)'
  <2>1. OnceAt(c, a)
    BY DEF Once
  <2>2. CASE activity[a].state = "committed"
    <3>1. activity'[a] = activity[a]
      BY <2>2
    <3> QED
      BY <1>1, <2>1, <3>1 DEF OnceAt, Done, Pushing
  <2>3. CASE activity[a].state # "committed"
    BY <2>1, <2>3 DEF OnceAt
  <2> QED
    BY <2>2, <2>3
<1>3. ASSUME NEW r \in Holds(c)' PROVE Fresh(r, c)'
  BY <1>1, <1>3 DEF Once, Fresh, Pushing
<1> QED
  BY <1>2, <1>3 DEF Once

(* A step of run r that leaves the watermark alone.                        *)
LEMMA RunOnce ==
    ASSUME TypeOK, NEW c \in Connections, Alone(c), Once(c),
           NEW r \in Runs, NEW new, run' = [run EXCEPT ![r] = new], UNCHANGED activity,
           connection'[c].watermark = connection[c].watermark,
           r \in Holds(c)' => Fresh(r, c)',
           \A a \in Activities :
              /\ pushed'[<<c, a>>] # pushed[<<c, a>>] =>
                   /\ r \in Holds(c) /\ r \in Holds(c)' /\ pushed'[<<c, a>>] = 1
                   /\ activity[a].state = "committed" /\ Done(r, c, a)'
              /\ r \in Holds(c) /\ Done(r, c, a) => r \in Holds(c)' /\ Done(r, c, a)'
    PROVE  Once(c)'
<1>1. \A s \in Runs : s # r => run'[s] = run[s]
  BY RunsAre
<1>2. \A s \in Runs : s # r => (s \in Holds(c)' <=> s \in Holds(c))
  BY <1>1 DEF Holds
<1>3. ASSUME NEW s \in Holds(c)' PROVE Fresh(s, c)'
  <2>1. CASE s = r
    BY <1>3, <2>1
  <2>2. CASE s # r
    <3>1. s \in Runs /\ s \in Holds(c) /\ run'[s] = run[s]
      BY <1>1, <1>2, <1>3, <2>2 DEF Holds
    <3>2. r \notin Holds(c)
      BY <3>1, <2>2 DEF Alone
    <3>3. \A a \in Activities : pushed'[<<c, a>>] = pushed[<<c, a>>]
      BY <3>2
    <3>4. run[s].todo \subseteq Activities
      BY <3>1, BusyRun DEF Holds, Busy
    <3> QED
      BY <3>1, <3>3, <3>4 DEF Once, Fresh, Pushing
  <2> QED
    BY <2>1, <2>2
<1>4. ASSUME NEW a \in Activities PROVE OnceAt(c, a)'
  <2>1. OnceAt(c, a)
    BY DEF Once
  <2>2. CASE pushed'[<<c, a>>] # pushed[<<c, a>>]
    BY <2>2 DEF OnceAt
  <2>3. CASE pushed'[<<c, a>>] = pushed[<<c, a>>]
    <3>1. ASSUME NEW s \in Holds(c), Done(s, c, a) PROVE s \in Holds(c)' /\ Done(s, c, a)'
      <4>1. CASE s = r
        BY <3>1, <4>1
      <4>2. CASE s # r
        BY <1>1, <1>2, <3>1, <4>2 DEF Holds, Done, Pushing
      <4> QED
        BY <4>1, <4>2
    <3> QED
      BY <2>1, <2>3, <3>1 DEF OnceAt
  <2> QED
    BY <2>2, <2>3
<1> QED
  BY <1>3, <1>4 DEF Once

LEMMA LoadOnce ==
    ASSUME TypeOK, OrderInv, NEW c \in Connections, Alone(c), Once(c), Alone(c)',
           NEW r \in Runs, NEW C \in SUBSET Connections, Load(r, C)
    PROVE  Once(c)'
<1> DEFINE new == [pc |-> "next", conns |-> C, loaded |-> C, until |-> 0, todo |-> {},
                   since |-> [k \in Connections |-> connection[k].watermark],
                   moved |-> [k \in Connections |-> 0], c |-> CHOOSE k \in C : TRUE]
<1>1. run' = [run EXCEPT ![r] = new] /\ UNCHANGED <<connection, activity, pushed>>
  BY DEF Load, Env
<1>2. new.since[c] = connection[c].watermark /\ new.pc = "next"
  OBVIOUS
<1> HIDE DEF new
<1>3. run'[r] = new
  BY <1>1, RunsAre
<1>4. Fresh(r, c)'
  BY <1>1, <1>2, <1>3 DEF Fresh, Pushing
<1>5. r \notin Holds(c)
  BY DEF Load, Holds
<1> QED
  BY <1>1, <1>4, <1>5, RunOnce

LEMMA CollectOnce ==
    ASSUME TypeOK, OrderInv, NEW c \in Connections, Alone(c), Once(c),
           NEW r \in Runs, Collect(r)
    PROVE  Once(c)'
<1>0. run[r] \in Busy /\ run[r] # Idle /\ InOrder(r)
  BY BusyPc DEF Collect, OrderInv
<1>1. PICK k \in run[r].conns :
        run' = [run EXCEPT ![r].pc = "pushing", ![r].c = k, ![r].conns = @ \ {k},
                           ![r].until = clock, ![r].todo = Collected(k, run[r].since[k], clock)]
  BY DEF Collect
<1> DEFINE new == [run[r] EXCEPT !.pc = "pushing", !.c = k, !.conns = @ \ {k},
                                 !.until = clock, !.todo = Collected(k, run[r].since[k], clock)]
<1>2. run' = [run EXCEPT ![r] = new] /\ UNCHANGED <<connection, activity, pushed>>
  BY <1>1 DEF TypeOK, Collect, Env
<1>3. /\ new.since = run[r].since /\ new.moved = run[r].moved /\ new.c = k
      /\ new.loaded = run[r].loaded /\ new # Idle
      /\ new.todo = Collected(k, run[r].since[k], clock)
  BY <1>0 DEF Busy, Idle
<1> HIDE DEF new
<1>4. run'[r] = new
  BY <1>2, RunsAre
<1>5. r \in Holds(c)' <=> r \in Holds(c)
  BY <1>0, <1>3, <1>4 DEF Holds
<1>6. ASSUME r \in Holds(c) PROVE Fresh(r, c)'
  <2>1. run[r].since[c] = connection[c].watermark
    BY <1>6 DEF Once, Fresh
  <2>2. ASSUME c = k, NEW a \in new.todo PROVE pushed[<<c, a>>] = 0
    <3>1. a \in Activities /\ activity[a].at > connection[c].watermark
      BY <1>3, <2>1, <2>2 DEF Collected
    <3>2. ASSUME NEW s \in Holds(c) PROVE ~Done(s, c, a)
      <4>1. s = r
        BY <1>6, <3>2 DEF Alone
      <4>2. run[r].moved[c] = 0 /\ run[r].pc = "next"
        BY <1>0, <1>1, <2>2 DEF InOrder, Collect
      <4> QED
        BY <4>1, <4>2 DEF Done, Pushing
    <3>3. OnceAt(c, a) /\ pushed[<<c, a>>] \in Nat
      BY <3>1 DEF Once, TypeOK, Pairs
    <3> QED
      BY <3>1, <3>2, <3>3, Numbers DEF OnceAt
  <2> QED
    BY <1>2, <1>3, <1>4, <2>1, <2>2 DEF Fresh, Pushing
<1>7. ASSUME NEW a \in Activities, Done(r, c, a) PROVE Done(r, c, a)'
  BY <1>2, <1>3, <1>4, <1>7 DEF Done, Pushing, Collect
<1> QED
  BY <1>2, <1>5, <1>6, <1>7, RunOnce

LEMMA ClientFailsOnce ==
    ASSUME TypeOK, OrderInv, NEW c \in Connections, Alone(c), Once(c),
           NEW r \in Runs, ClientFails(r)
    PROVE  Once(c)'
<1>0. run[r] \in Busy /\ run[r] # Idle
  BY BusyPc DEF ClientFails
<1>1. PICK k \in run[r].conns : run' = [run EXCEPT ![r].conns = @ \ {k}]
  BY DEF ClientFails
<1> DEFINE new == [run[r] EXCEPT !.conns = @ \ {k}]
<1>2. run' = [run EXCEPT ![r] = new] /\ UNCHANGED <<connection, activity, pushed>>
  BY <1>1 DEF TypeOK, ClientFails, Env
<1>3. /\ new.since = run[r].since /\ new.moved = run[r].moved /\ new.c = run[r].c
      /\ new.loaded = run[r].loaded /\ new # Idle
      /\ new.pc = run[r].pc /\ new.until = run[r].until /\ new.todo = run[r].todo
  BY <1>0 DEF Busy, Idle
<1> HIDE DEF new
<1>4. run'[r] = new
  BY <1>2, RunsAre
<1>5. r \in Holds(c)' <=> r \in Holds(c)
  BY <1>0, <1>3, <1>4 DEF Holds
<1>6. ASSUME r \in Holds(c) PROVE Fresh(r, c)'
  BY <1>2, <1>3, <1>4, <1>6 DEF Once, Fresh, Pushing
<1>7. ASSUME NEW a \in Activities, Done(r, c, a) PROVE Done(r, c, a)'
  BY <1>2, <1>3, <1>4, <1>7 DEF Done, Pushing
<1> QED
  BY <1>2, <1>5, <1>6, <1>7, RunOnce

LEMMA PushOnce ==
    ASSUME TypeOK, OrderInv, NEW c \in Connections, Alone(c), Once(c),
           NEW r \in Runs, Push(r)
    PROVE  Once(c)'
<1>0. run[r] \in Busy /\ run[r] # Idle /\ InOrder(r) /\ run[r].pc = "pushing"
  BY BusyPc DEF Push, OrderInv
<1>1. PICK b \in run[r].todo :
        /\ run' = [run EXCEPT ![r].todo = @ \ {b}]
        /\ pushed' \in {pushed, [pushed EXCEPT ![<<run[r].c, b>>] = @ + 1]}
  BY DEF Push
<1> DEFINE new == [run[r] EXCEPT !.todo = @ \ {b}]
<1>2. run' = [run EXCEPT ![r] = new] /\ UNCHANGED <<connection, activity>>
  BY <1>1 DEF TypeOK, Push, Env
<1>3. /\ new.since = run[r].since /\ new.moved = run[r].moved /\ new.c = run[r].c
      /\ new.loaded = run[r].loaded /\ new # Idle
      /\ new.pc = run[r].pc /\ new.until = run[r].until /\ new.todo = run[r].todo \ {b}
  BY <1>0 DEF Busy, Idle
<1> HIDE DEF new
<1>4. run'[r] = new
  BY <1>2, RunsAre
<1>5. r \in Holds(c)' <=> r \in Holds(c)
  BY <1>0, <1>3, <1>4 DEF Holds
<1>6. ASSUME NEW a \in Activities, pushed'[<<c, a>>] # pushed[<<c, a>>]
      PROVE  /\ c = run[r].c /\ a = b /\ r \in Holds(c)
             /\ pushed'[<<c, a>>] = pushed[<<c, a>>] + 1 /\ pushed[<<c, a>>] = 0
  <2>1. <<c, a>> = <<run[r].c, b>> /\ pushed'[<<c, a>>] = pushed[<<c, a>>] + 1
    BY <1>1, <1>6 DEF TypeOK, Pairs
  <2>2. r \in Holds(c)
    BY <1>0, <2>1 DEF Holds, InOrder
  <2>3. pushed[<<c, a>>] = 0
    BY <1>0, <1>1, <2>1, <2>2 DEF Once, Fresh, Pushing
  <2> QED
    BY <2>1, <2>2, <2>3
<1>7. ASSUME r \in Holds(c) PROVE Fresh(r, c)'
  <2>1. Fresh(r, c) /\ run[r].todo \subseteq Activities
    BY <1>0, <1>7 DEF Once, Busy
  <2>2. \A a \in new.todo : pushed'[<<c, a>>] = pushed[<<c, a>>]
    BY <1>3, <1>6, <2>1
  <2> QED
    BY <1>2, <1>3, <1>4, <2>1, <2>2 DEF Fresh, Pushing
<1>8. ASSUME NEW a \in Activities, Done(r, c, a) PROVE Done(r, c, a)'
  BY <1>2, <1>3, <1>4, <1>8 DEF Done, Pushing
<1>9. activity[b].state = "committed" /\ activity[b].at <= run[r].until
  BY <1>0, <1>1 DEF InOrder
<1>10. c = run[r].c => Done(r, c, b)'
  BY <1>0, <1>2, <1>3, <1>4, <1>9 DEF Done, Pushing
<1>11. \A a \in Activities : pushed'[<<c, a>>] # pushed[<<c, a>>] =>
          /\ r \in Holds(c) /\ r \in Holds(c)' /\ pushed'[<<c, a>>] = 1
          /\ activity[a].state = "committed" /\ Done(r, c, a)'
  BY <1>5, <1>6, <1>9, <1>10
<1> QED
  BY <1>2, <1>5, <1>7, <1>8, <1>11, RunOnce

LEMMA MoveOnce ==
    ASSUME TypeOK, OrderInv, NEW c \in Connections, Alone(c), Once(c),
           NEW r \in Runs, Move(r)
    PROVE  Once(c)'
<1>0. run[r] \in Busy /\ run[r] # Idle /\ InOrder(r)
  BY BusyPc DEF Move, OrderInv
<1> DEFINE new == [run[r] EXCEPT !.pc = "next", !.moved = [@ EXCEPT ![run[r].c] = run[r].until]]
<1>1. UNCHANGED <<connection, activity, pushed>>
  BY DEF Move, Env
<1>2. run' = [run EXCEPT ![r] = new]
  BY DEF TypeOK, Move
<1>3. /\ new.since = run[r].since /\ new.pc = "next" /\ new.loaded = run[r].loaded /\ new # Idle
      /\ new.moved[c] = IF c = run[r].c THEN run[r].until ELSE run[r].moved[c]
  BY <1>0 DEF Busy, Idle
<1> HIDE DEF new
<1>4. run'[r] = new
  BY <1>2, RunsAre
<1>5. r \in Holds(c)' <=> r \in Holds(c)
  BY <1>0, <1>3, <1>4 DEF Holds
<1>6. ASSUME r \in Holds(c) PROVE Fresh(r, c)'
  BY <1>1, <1>3, <1>4, <1>6 DEF Once, Fresh, Pushing
<1>7. ASSUME NEW a \in Activities, Done(r, c, a) PROVE Done(r, c, a)'
  <2>1. CASE c # run[r].c
    BY <1>1, <1>3, <1>4, <1>7, <2>1 DEF Done, Pushing
  <2>2. CASE c = run[r].c
    <3>1. run[r].until > 0
      BY <1>0, Numbers DEF InOrder, Move
    <3>2. activity[a].at <= run[r].until
      BY <1>0, <1>7, <2>2, Numbers DEF InOrder, Move, Done, Pushing
    <3> QED
      BY <1>1, <1>3, <1>4, <2>2, <3>1, <3>2 DEF Done
  <2> QED
    BY <2>1, <2>2
<1> QED
  BY <1>1, <1>2, <1>5, <1>6, <1>7, RunOnce

LEMMA FinishOnce ==
    ASSUME TypeOK, OrderInv, NEW c \in Connections, Alone(c), Once(c),
           NEW r \in Runs, Finish(r)
    PROVE  Once(c)'
<1>0. run[r] # Idle /\ InOrder(r) /\ run[r].pc = "next"
  BY BusyPc DEF Finish, OrderInv
<1>1. /\ run' = [run EXCEPT ![r] = Idle] /\ UNCHANGED <<activity, pushed>>
      /\ connection'[c].watermark = IF run[r].moved[c] > 0 THEN run[r].moved[c]
                                    ELSE connection[c].watermark
  BY DEF Finish, Env, TypeOK, Connection
<1>2. run'[r] = Idle /\ \A s \in Runs : s # r => run'[s] = run[s]
  BY <1>1, RunsAre
<1>3. CASE r \notin Holds(c)
  <2>1. ~(run[r].moved[c] > 0)
    BY <1>0, <1>3, Numbers DEF InOrder, Holds
  <2>2. r \notin Holds(c)'
    BY <1>2 DEF Holds
  <2> QED
    BY <1>1, <1>3, <2>1, <2>2, RunOnce
<1>4. CASE r \in Holds(c)
  <2>1. Holds(c)' = {}
    BY <1>2, <1>4 DEF Holds, Alone
  <2>2. run[r].since[c] = connection[c].watermark
    BY <1>4 DEF Once, Fresh
  <2>3. connection[c].watermark <= connection'[c].watermark
    BY <1>0, <1>1, <2>2, Numbers DEF InOrder
  <2>4. ASSUME NEW a \in Activities PROVE OnceAt(c, a)'
    <3>1. OnceAt(c, a)
      BY DEF Once
    <3>2. ASSUME NEW s \in Holds(c), Done(s, c, a) PROVE activity[a].at <= connection'[c].watermark
      <4>1. s = r
        BY <1>4, <3>2 DEF Alone
      <4> QED
        BY <1>0, <1>1, <3>2, <4>1 DEF Done, Pushing
    <3>3. activity[a].at <= connection[c].watermark => activity[a].at <= connection'[c].watermark
      BY <1>0, <1>1, <2>3, Numbers
    <3> QED
      BY <1>1, <3>1, <3>2, <3>3 DEF OnceAt
  <2> QED
    BY <2>1, <2>4 DEF Once
<1> QED
  BY <1>3, <1>4

LEMMA DieOnce ==
    ASSUME TypeOK, NEW c \in Connections, Alone(c), Once(c),
           NEW r \in Runs, Die(r), r \notin Holds(c)
    PROVE  Once(c)'
<1>1. run' = [run EXCEPT ![r] = Idle] /\ UNCHANGED <<connection, activity, pushed>>
  BY DEF Die, Env
<1>2. r \notin Holds(c)'
  BY <1>1, RunsAre DEF Holds
<1> QED
  BY <1>1, <1>2, RunOnce

LEMMA NextOnce ==
    ASSUME TypeOK, OrderInv, OnceInv, Next PROVE OnceInv'
<1> SUFFICES ASSUME NEW c \in Connections, c \notin disturbed' PROVE Alone(c)' /\ Once(c)'
  BY DEF OnceInv
<1>0. /\ Alone(c) /\ Once(c) /\ Alone(c)'
      /\ \A r \in Holds(c) : ~Die(r)
  BY Undisturbed DEF OnceInv
<1>1. CASE Advance
  BY <1>0, <1>1, OutsideOnce DEF Advance, Outside
<1>2. ASSUME NEW a \in Activities, Stamp(a) PROVE Once(c)'
  <2>1. \A b \in Activities : activity[b].state = "committed" => activity'[b] = activity[b]
    BY <1>2 DEF Stamp, TypeOK
  <2> QED
    BY <1>0, <1>2, <2>1, OutsideOnce DEF Stamp, Outside
<1>3. ASSUME NEW a \in Activities, Commit(a) PROVE Once(c)'
  <2>1. \A b \in Activities : activity[b].state = "committed" => activity'[b] = activity[b]
    BY <1>3 DEF Commit, TypeOK
  <2> QED
    BY <1>0, <1>3, <2>1, OutsideOnce DEF Commit, Outside
<1>4. ASSUME NEW k \in Connections, NEW l \in Leads, Link(k, l) PROVE Once(c)'
  <2>1. connection'[c].watermark = connection[c].watermark
    BY <1>4 DEF Link, TypeOK, Connection
  <2> QED
    BY <1>0, <1>4, <2>1, OutsideOnce DEF Link, Outside
<1>5. ASSUME NEW k \in Connections, Toggle(k) PROVE Once(c)'
  <2>1. connection'[c].watermark = connection[c].watermark
    BY <1>5 DEF Toggle, TypeOK, Connection
  <2> QED
    BY <1>0, <1>5, <2>1, OutsideOnce DEF Toggle, Outside
<1>6. ASSUME NEW r \in Ticks, Tick(r) PROVE Once(c)'
  BY <1>0, <1>6, LoadOnce DEF Tick, Runs
<1>7. ASSUME NEW r \in Buttons, SyncNow(r) PROVE Once(c)'
  BY <1>0, <1>7, LoadOnce DEF SyncNow, Runs
<1>8. ASSUME NEW r \in Runs, Work(r) PROVE Once(c)'
  BY <1>0, <1>8, CollectOnce, ClientFailsOnce, PushOnce, MoveOnce, FinishOnce DEF Work
<1>9. ASSUME NEW r \in Runs, Die(r) PROVE Once(c)'
  BY <1>0, <1>9, DieOnce
<1> QED
  BY <1>0, <1>1, <1>2, <1>3, <1>4, <1>5, <1>6, <1>7, <1>8, <1>9 DEF Next, Act

-----------------------------------------------------------------------------
(* Everything the run checks as an invariant holds in every state: types,  *)
(* no run loses an activity it could have seen, and no activity is pushed  *)
(* to a connection twice while its runs do not overlap and none dies.      *)
THEOREM NothingLostOrRepeated == Spec => []CrmPushInv
<1> DEFINE Inv == TypeOK /\ OrderInv /\ OnceInv
<1>1. Inv /\ UNCHANGED vars => Inv'
  BY DEF vars, TypeOK, OrderInv, InOrder, OnceInv, Alone, Once, OnceAt, Fresh, Holds, Done, Pushing
<1>2. Inv /\ [Next]_vars => Inv'
  BY <1>1, NextType, NextOrder, NextOnce
<1>3. Init => Inv
  BY InitType, InitOrder, InitOnce
<1>4. Inv => TypeOK /\ PushedOnceUndisturbed
  BY DEF OnceInv, Once, OnceAt, PushedOnceUndisturbed
<1>5. TypeOK /\ PushedOnceUndisturbed /\ WatermarkCovers => CrmPushInv
  BY DEF CrmPushInv
<1> HIDE DEF Inv
<1> QED
  BY <1>2, <1>3, <1>4, <1>5, Covers, PTL DEF Spec
=============================================================================
