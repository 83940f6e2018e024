------------------------------ MODULE CrmPush -------------------------------
(***************************************************************************)
(* The outbound half of the CRM sync (crm/sync.py): a beat task and a      *)
(* button push what happened since a connection's watermark to the CRM.    *)
(*                                                                         *)
(* A run loads the connections, takes the time, collects the committed     *)
(* activities between the watermark and that time, appends them to the     *)
(* CRM one call at a time, and commits the new watermark at its very end;  *)
(* the beat task commits once for all its connections.  Activities are     *)
(* stamped inside transactions that commit later, so the order of stamps   *)
(* is not the order in which rows become visible.                          *)
(***************************************************************************)
EXTENDS Naturals, FiniteSets

CONSTANTS Connections, Leads, Activities,
          Ticks,       \* executions of crm_sync_tick that may overlap
          Buttons,     \* requests to /crm/connections/{id}/sync
          MaxTime, MaxFaults, MaxToggles   \* bounds

ASSUME CrmPushAssumption ==
    /\ Ticks \cap Buttons = {} /\ IsFiniteSet(Ticks) /\ IsFiniteSet(Buttons)
    /\ MaxTime \in Nat \ {0} /\ MaxFaults \in Nat /\ MaxToggles \in Nat

VARIABLES connection,   \* crm_connections with the crm_links of each
          activity,     \* messages sent, replies received, meetings booked
          clock,
          run,          \* what each run has loaded, collected and done
          pushed,       \* history: how often each activity reached the CRM
          tried,        \* history: the calls made
          late,         \* history: activities that became visible, or whose
                        \* lead was linked, behind a boundary already drawn
          disturbed,    \* history: connections two runs worked on at once,
                        \* or a run of which died
          faults, toggles

vars == <<connection, activity, clock, run, pushed, tried, late, disturbed, faults, toggles>>

Runs == Ticks \cup Buttons
Time == 0..MaxTime
Pairs == Connections \X Activities
Connection == [active : BOOLEAN, watermark : Time, links : SUBSET Leads]
Activity == [state : {"none", "open", "committed"}, lead : Leads, at : Time]

(* since: the watermark of each loaded connection; moved: the new one of   *)
(* each connection done with, 0 if none; todo: what c still has to get.    *)
Busy == [pc : {"next", "pushing"}, conns : SUBSET Connections, loaded : SUBSET Connections,
         until : Time, todo : SUBSET Activities, c : Connections,
         since : [Connections -> Time], moved : [Connections -> Time]]
Idle == [pc |-> "idle", conns |-> {}, loaded |-> {}]

TypeOK ==
    /\ connection \in [Connections -> Connection]
    /\ activity \in [Activities -> Activity]
    /\ clock \in Time
    /\ run \in [Runs -> Busy \cup {Idle}]
    /\ \A r \in Runs : run[r].conns \subseteq run[r].loaded
    /\ pushed \in [Pairs -> Nat]
    /\ tried \cup late \subseteq Pairs /\ disturbed \subseteq Connections
    /\ faults \in 0..MaxFaults /\ toggles \in 0..MaxToggles

Init ==
    /\ connection \in [Connections -> [active : {TRUE}, watermark : {0}, links : SUBSET Leads]]
    /\ activity \in [Activities -> [state : {"none"}, lead : Leads, at : {0}]]
    /\ clock = 1
    /\ run = [r \in Runs |-> Idle]
    /\ pushed = [p \in Pairs |-> 0]
    /\ tried = {} /\ late = {} /\ disturbed = {} /\ faults = 0 /\ toggles = 0

-----------------------------------------------------------------------------
(* What the rest of the system does.                                       *)

Outside == <<run, pushed, tried, disturbed, faults>>

Advance == clock < MaxTime /\ clock' = clock + 1 /\ UNCHANGED <<connection, activity, late, toggles, Outside>>

(* sent_at and created_at are taken while the transaction is open.         *)
Stamp(a) ==
    /\ activity[a].state = "none"
    /\ activity' = [activity EXCEPT ![a].state = "open", ![a].at = clock]
    /\ UNCHANGED <<connection, clock, late, toggles, Outside>>

(* A boundary at or after time t is drawn for connection c: it is stored,  *)
(* or some run knows it.                                                   *)
Passed(c, t) ==
    \/ connection[c].watermark >= t
    \/ \E r \in Runs :
          /\ run[r] # Idle
          /\ \/ run[r].moved[c] >= t \/ run[r].since[c] >= t
             \/ run[r].pc = "pushing" /\ run[r].c = c /\ run[r].until >= t

Commit(a) ==
    /\ activity[a].state = "open"
    /\ activity' = [activity EXCEPT ![a].state = "committed"]
    /\ late' = late \cup {<<c, a>> : c \in {k \in Connections : Passed(k, activity[a].at)}}
    /\ UNCHANGED <<connection, clock, toggles, Outside>>

(* An import links a lead to its contact (commit_import).                  *)
Link(c, l) ==
    /\ l \notin connection[c].links
    /\ connection' = [connection EXCEPT ![c].links = @ \cup {l}]
    /\ late' = late \cup {<<c, a>> : a \in {b \in Activities : activity[b].lead = l /\
                             activity[b].state # "none" /\ Passed(c, activity[b].at)}}
    /\ UNCHANGED <<activity, clock, toggles, Outside>>

(* PATCH of a connection: name, credentials and field map change nothing   *)
(* of this; the switch does.                                               *)
Toggle(c) ==
    /\ toggles < MaxToggles /\ toggles' = toggles + 1
    /\ connection' = [connection EXCEPT ![c].active = ~@]
    /\ UNCHANGED <<activity, clock, late, Outside>>

-----------------------------------------------------------------------------
(* A run.                                                                  *)

Env == <<clock, activity, late, toggles>>

Load(r, C) ==
    /\ run[r] = Idle /\ C # {}
    /\ run' = [run EXCEPT ![r] =
         [pc |-> "next", conns |-> C, loaded |-> C, until |-> 0, todo |-> {},
          since |-> [c \in Connections |-> connection[c].watermark],
          moved |-> [c \in Connections |-> 0], c |-> CHOOSE c \in C : TRUE]]
    /\ UNCHANGED <<connection, pushed, tried, faults, Env>>

(* The task sweeps the active connections, the button names one.           *)
Tick(r) == Load(r, {c \in Connections : connection[c].active})
SyncNow(r) == \E c \in Connections : Load(r, {c})

(* Mutant: what happened at the boundary itself is left to the next run.   *)
CollectedBefore(c, since, until) ==
    {a \in Activities : /\ activity[a].state = "committed"
                        /\ activity[a].lead \in connection[c].links
                        /\ activity[a].at > since /\ activity[a].at < until}

(* collect_activity: visible, of a linked lead, in (since, until].         *)
Collected(c, since, until) ==
    {a \in Activities : /\ activity[a].state = "committed"
                        /\ activity[a].lead \in connection[c].links
                        /\ activity[a].at > since /\ activity[a].at <= until}

Collect(r) ==
    /\ run[r].pc = "next"
    /\ \E c \in run[r].conns :
          run' = [run EXCEPT ![r].pc = "pushing", ![r].c = c, ![r].conns = @ \ {c},
                             ![r].until = clock,
                             ![r].todo = Collected(c, run[r].since[c], clock)]
    /\ UNCHANGED <<connection, pushed, tried, faults, Env>>

(* The client cannot be built (credentials, address guard): the run is     *)
(* recorded as failed and the watermark stays.                             *)
ClientFails(r) ==
    /\ run[r].pc = "next"
    /\ faults < MaxFaults /\ faults' = faults + 1
    /\ \E c \in run[r].conns : run' = [run EXCEPT ![r].conns = @ \ {c}]
    /\ UNCHANGED <<connection, pushed, tried, Env>>

(* The oldest activity goes first.  The call succeeds; or it is refused,   *)
(* or its answer is lost although the CRM appended it, which is counted    *)
(* and logged.                                                             *)
Push(r) ==
    /\ run[r].pc = "pushing"
    /\ \E a \in run[r].todo :
          /\ \A b \in run[r].todo : activity[a].at <= activity[b].at
          /\ run' = [run EXCEPT ![r].todo = @ \ {a}]
          /\ tried' = tried \cup {<<run[r].c, a>>}
          /\ \/ pushed' = [pushed EXCEPT ![<<run[r].c, a>>] = @ + 1] /\ UNCHANGED faults
             \/ /\ faults < MaxFaults /\ faults' = faults + 1
                /\ pushed' \in {pushed, [pushed EXCEPT ![<<run[r].c, a>>] = @ + 1]}
    /\ UNCHANGED <<connection, Env>>

(* Mutant: the watermark is the time the run ends.                         *)
MoveToNow(r) ==
    /\ run[r].pc = "pushing" /\ run[r].todo = {}
    /\ run' = [run EXCEPT ![r].pc = "next", ![r].moved[run[r].c] = clock]
    /\ UNCHANGED <<connection, pushed, tried, faults, Env>>

(* The watermark moves to the boundary, whatever failed.                   *)
Move(r) ==
    /\ run[r].pc = "pushing" /\ run[r].todo = {}
    /\ run' = [run EXCEPT ![r].pc = "next", ![r].moved[run[r].c] = run[r].until]
    /\ UNCHANGED <<connection, pushed, tried, faults, Env>>

Finish(r) ==
    /\ run[r].pc = "next" /\ run[r].conns = {}
    /\ connection' = [c \in Connections |->
         IF run[r].moved[c] > 0 THEN [connection[c] EXCEPT !.watermark = run[r].moved[c]]
         ELSE connection[c]]
    /\ run' = [run EXCEPT ![r] = Idle]
    /\ UNCHANGED <<pushed, tried, faults, Env>>

(* The process dies or the transaction fails: no watermark is kept.        *)
Die(r) ==
    /\ run[r] # Idle
    /\ faults < MaxFaults /\ faults' = faults + 1
    /\ run' = [run EXCEPT ![r] = Idle]
    /\ UNCHANGED <<connection, pushed, tried, Env>>

-----------------------------------------------------------------------------
Work(r) == Collect(r) \/ ClientFails(r) \/ Push(r) \/ Move(r) \/ Finish(r)

Act ==
    \/ Advance
    \/ \E a \in Activities : Stamp(a) \/ Commit(a)
    \/ \E c \in Connections : Toggle(c) \/ \E l \in Leads : Link(c, l)
    \/ \E r \in Ticks : Tick(r)
    \/ \E r \in Buttons : SyncNow(r)
    \/ \E r \in Runs : Work(r) \/ Die(r)

Holds(c) == {r \in Runs : run[r] # Idle /\ c \in run[r].loaded}

Next ==
    /\ Act
    /\ disturbed' = disturbed
         \cup {c \in Connections : Cardinality(Holds(c)') > 1}
         \cup {c \in Connections : \E r \in Holds(c) : Die(r)}

(* Beat starts the task every 15 minutes, a run goes on until it ends, and *)
(* time passes.                                                            *)
Spec == /\ Init /\ [][Next]_vars
        /\ WF_vars(Advance /\ Next)
        /\ \A r \in Ticks : WF_vars(Tick(r) /\ Next)
        /\ \A r \in Runs : WF_vars(Work(r) /\ Next)

-----------------------------------------------------------------------------
(* Properties                                                              *)

(* sync.py: everything newer than the watermark gets synced, then it       *)
(* advances.  What lies behind a watermark was pushed, or at least tried,  *)
(* unless it became visible (its transaction committed, its lead was       *)
(* linked) behind a boundary a run had drawn: no run loses an activity it  *)
(* could have seen, whatever other runs do meanwhile.                      *)
WatermarkCovers ==
    \A c \in Connections, a \in Activities :
       /\ activity[a].state = "committed" /\ activity[a].lead \in connection[c].links
       /\ activity[a].at <= connection[c].watermark
       => <<c, a>> \in tried \cup late

(* sync.py: push is at-most-once per activity.  It is as long as no two    *)
(* runs work on the connection at once and none dies.                      *)
PushedOnceUndisturbed ==
    \A c \in Connections, a \in Activities : c \notin disturbed => pushed[<<c, a>>] <= 1

CrmPushInv == TypeOK /\ WatermarkCovers /\ PushedOnceUndisturbed

(* The promise as sync.py states it.                                       *)
PushedAtMostOnce == \A p \in Pairs : pushed[p] <= 1

(* A visible activity of a linked lead is eventually tried, unless the     *)
(* boundary passed it before or the connection is switched off.            *)
EventuallyTried ==
    \A c \in Connections, a \in Activities :
       activity[a].state = "committed" /\ activity[a].lead \in connection[c].links
          ~> <<c, a>> \in tried \cup late \/ ~connection[c].active
=============================================================================
