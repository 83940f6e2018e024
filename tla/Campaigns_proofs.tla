--------------------------- MODULE Campaigns_proofs ---------------------------
(***************************************************************************)
(* Proofs about Campaigns, for every set of campaigns, leads, editors,     *)
(* activations, sweeps and dry runs, and every bound.                      *)
(***************************************************************************)
EXTENDS Campaigns, FunctionTheorems, FiniteSetTheorems, TLAPS

USE CampaignsAssumption

-----------------------------------------------------------------------------
(* Types, part by part, and that whatever is under way is about campaigns  *)
(* that were created.                                                      *)

StepsOK ==
    /\ status \in [Campaigns -> {"absent", "draft", "active", "paused"}]
    /\ steps \in [Campaigns -> [StepIds -> Step]]

PeopleOK ==
    /\ lead \in [Leads -> Lead] /\ DOMAIN planned = Campaigns
    /\ enrolled \subseteq Leads \X Created /\ passed \subseteq Leads \X Campaigns

SignalsOK ==
    /\ rules \cup ruled \subseteq Created
    /\ baseline \in Pages \cup {Unseen} /\ first \in Pages \cup {Unseen}
    /\ signals \in [Pages \cup Links -> Nat] /\ feed \subseteq Links

EventsOK == events \in 0..MaxEvents /\ page \in 0..events

EditOK ==
    /\ DOMAIN edit = Editors
    /\ \A e \in Editors : /\ \E S \in SUBSET StepIds : edit[e] \in Edit(S)
                          /\ Open(e) => edit[e].c \in Created

ActOK ==
    /\ act \in [Activations -> Activation]
    /\ \A a \in Activations :
          /\ act[a].pc # "idle" => act[a].c \in Created
          /\ act[a].adds \subseteq (act[a].leads \ act[a].below) \X {act[a].c}

SweepOK ==
    /\ sweep \in [Sweeps -> Sweep]
    /\ \A w \in Sweeps : sweep[w].adds \subseteq Leads \X Created

DryOK == dry \in [DryRuns -> DryRun]

RacedOK == raced \subseteq Campaigns \X {"edit", "enroll", "variant", "sweep"}

WellInv == StepsOK /\ PeopleOK /\ SignalsOK /\ EventsOK /\ EditOK /\ ActOK /\ SweepOK /\ DryOK
           /\ RacedOK

LEMMA WellTyped == WellInv => TypeOK
<1> SUFFICES ASSUME WellInv PROVE TypeOK
  OBVIOUS
<1>1. enrolled \cup passed \subseteq Leads \X Campaigns
  BY DEF WellInv, PeopleOK, Created
<1> QED
  BY <1>1 DEF WellInv, TypeOK, StepsOK, PeopleOK, SignalsOK, EventsOK, EditOK, ActOK, SweepOK, DryOK,
              RacedOK

LEMMA StepIdsType == 1 \in StepIds /\ Editors \subseteq StepIds /\ 1..Planned \subseteq StepIds
BY DEF StepIds

LEMMA CreatedType == Created \subseteq Campaigns
BY DEF Created

LEMMA NoRowTypes ==
    /\ NoStep \in Step /\ NoRows \in [{} -> Step] /\ NoEdit \in Edit({})
    /\ NoAct \in Activation /\ NoSweep \in Sweep /\ NoDry \in DryRun
<1>1. NoStep \in Step
  BY DEF NoStep, Step
<1>2. NoRows \in [{} -> Step]
  BY <1>1 DEF NoRows
<1>3. NoEdit \in Edit({})
  BY <1>2, StepIdsType DEF NoEdit, Edit
<1>4. NoAct \in Activation /\ NoSweep \in Sweep /\ NoDry \in DryRun
  BY DEF NoAct, NoSweep, NoDry, Activation, Sweep, DryRun
<1> QED
  BY <1>1, <1>2, <1>3, <1>4

LEMMA InitWell == Init => WellInv
<1> SUFFICES ASSUME Init PROVE WellInv
  OBVIOUS
<1>1. StepsOK
  BY NoRowTypes DEF Init, StepsOK
<1>2. PeopleOK
  BY DEF Init, PeopleOK, Lead
<1>3. SignalsOK /\ EventsOK /\ RacedOK
  BY DEF Init, SignalsOK, EventsOK, RacedOK, Pages
<1>4. EditOK
  BY NoRowTypes DEF Init, EditOK, Open, NoEdit
<1>5. ActOK
  BY NoRowTypes DEF Init, ActOK, NoAct
<1>6. SweepOK /\ DryOK
  BY NoRowTypes DEF Init, SweepOK, DryOK, NoSweep
<1> QED
  BY <1>1, <1>2, <1>3, <1>4, <1>5, <1>6 DEF WellInv

(* What a step leaves alone keeps its type.                                *)
LEMMA Kept ==
    ASSUME WellInv, Created \subseteq Created'
    PROVE  /\ UNCHANGED <<status, steps>> => StepsOK'
           /\ UNCHANGED People => PeopleOK'
           /\ UNCHANGED <<rules, ruled, baseline, first, signals, feed>> => SignalsOK'
           /\ UNCHANGED <<events, page>> \/ (Event /\ UNCHANGED page) => EventsOK'
           /\ UNCHANGED edit => EditOK'
           /\ UNCHANGED act => ActOK'
           /\ UNCHANGED sweep => SweepOK'
           /\ UNCHANGED dry => DryOK'
           /\ UNCHANGED raced => RacedOK'
<1>1. UNCHANGED <<status, steps>> => StepsOK'
  BY DEF WellInv, StepsOK
<1>2. UNCHANGED People => PeopleOK'
  BY DEF WellInv, PeopleOK, People
<1>3. UNCHANGED <<rules, ruled, baseline, first, signals, feed>> => SignalsOK'
  BY DEF WellInv, SignalsOK
<1>4. UNCHANGED <<events, page>> \/ (Event /\ UNCHANGED page) => EventsOK'
  BY DEF WellInv, EventsOK, Event
<1>5. UNCHANGED edit => EditOK'
  BY DEF WellInv, EditOK, Open
<1>6. UNCHANGED act => ActOK'
  BY DEF WellInv, ActOK
<1>7. UNCHANGED sweep => SweepOK'
  BY DEF WellInv, SweepOK
<1>8. UNCHANGED dry => DryOK'
  BY DEF WellInv, DryOK
<1>9. UNCHANGED raced => RacedOK'
  BY DEF WellInv, RacedOK
<1> QED
  BY <1>1, <1>2, <1>3, <1>4, <1>5, <1>6, <1>7, <1>8, <1>9

LEMMA SameCreated == UNCHANGED status => Created' = Created
BY DEF Created

(* A step that only touches edits, their history, and events.              *)
LEMMA EditOnly ==
    ASSUME WellInv, UNCHANGED <<status, steps, Signals, People, act, sweep, dry>>,
           UNCHANGED events \/ Event, EditOK', RacedOK'
    PROVE  WellInv'
<1>1. Created' = Created
  BY SameCreated
<1> QED
  BY <1>1, Kept DEF WellInv, Signals, People

LEMMA StepTypes ==
    /\ \A n \in Nat : [NoStep EXCEPT !.order = n] \in Step
    /\ \A row \in Step : [row EXCEPT !.copy = TRUE] \in Step
<1>1. ASSUME NEW n \in Nat PROVE [NoStep EXCEPT !.order = n] \in Step
  BY DEF NoStep, Step
<1>2. ASSUME NEW row \in Step PROVE [row EXCEPT !.copy = TRUE] \in Step
  BY DEF Step
<1> QED
  BY <1>1, <1>2

(* Other steps of one campaign.                                            *)
LEMMA NewSteps ==
    ASSUME WellInv, NEW c \in Campaigns, NEW new \in [StepIds -> Step],
           steps' = [steps EXCEPT ![c] = new]
    PROVE  steps' \in [Campaigns -> [StepIds -> Step]]
BY DEF WellInv, StepsOK

LEMMA WellCreate ==
    ASSUME WellInv, NEW c \in Campaigns, Create(c) PROVE WellInv'
<1> DEFINE new == [s \in StepIds |-> IF s \in 1..Planned THEN [NoStep EXCEPT !.order = s] ELSE NoStep]
<1>4. new \in [StepIds -> Step]
  <2>1. ASSUME NEW s \in 1..Planned PROVE [NoStep EXCEPT !.order = s] \in Step
    BY StepTypes
  <2> QED
    BY <2>1, NoRowTypes
<1>5. steps' = [steps EXCEPT ![c] = new]
  BY DEF Create
<1> HIDE DEF new
<1>1. steps' \in [Campaigns -> [StepIds -> Step]]
  BY <1>4, <1>5, NewSteps
<1>2. status' \in [Campaigns -> {"absent", "draft", "active", "paused"}] /\ Created \subseteq Created'
  BY DEF WellInv, StepsOK, Create, Created
<1>3. StepsOK'
  BY <1>1, <1>2 DEF StepsOK
<1> QED
  BY <1>2, <1>3, Kept DEF WellInv, Create, Signals, People

LEMMA WellVariant ==
    ASSUME WellInv, NEW c \in Campaigns, NEW s \in StepIds, AddVariant(c, s) PROVE WellInv'
<1> DEFINE row == [steps[c][s] EXCEPT !.copy = TRUE]
           new == [steps[c] EXCEPT ![s] = row]
<1>4. row \in Step
  <2>1. steps[c][s] \in Step
    BY DEF WellInv, StepsOK
  <2> QED
    BY <2>1, StepTypes
<1>5. steps' = [steps EXCEPT ![c] = new]
  BY DEF AddVariant, WellInv, StepsOK
<1> HIDE DEF row
<1>6. new \in [StepIds -> Step]
  <2>1. steps[c] \in [StepIds -> Step]
    BY DEF WellInv, StepsOK
  <2> QED
    BY <1>4, <2>1
<1> HIDE DEF new
<1>1. StepsOK'
  BY <1>5, <1>6, NewSteps DEF WellInv, StepsOK, AddVariant
<1>2. RacedOK'
  BY DEF WellInv, RacedOK, AddVariant
<1>3. Created' = Created
  BY SameCreated DEF AddVariant
<1> QED
  BY <1>1, <1>2, <1>3, Kept DEF WellInv, AddVariant, Signals, People

(* Another row of an editor.                                               *)
LEMMA EditType ==
    ASSUME EditOK, Created' = Created, NEW e \in Editors, NEW S \in SUBSET StepIds,
           NEW new \in Edit(S), new.c \in Created \/ new.pc = "idle", edit' = [edit EXCEPT ![e] = new]
    PROVE  EditOK'
<1> SUFFICES ASSUME NEW x \in Editors
             PROVE  /\ \E T \in SUBSET StepIds : edit'[x] \in Edit(T)
                    /\ Open(x)' => edit'[x].c \in Created
  BY DEF EditOK
<1>1. CASE x = e
  BY <1>1 DEF EditOK, Open
<1>2. CASE x # e
  BY <1>2 DEF EditOK, Open
<1> QED
  BY <1>1, <1>2

LEMMA WellStart ==
    ASSUME WellInv, NEW e \in Editors, NEW c \in Created, NEW s \in StepIds, NEW at \in Nat,
           NEW kind \in {"add", "delete", "channel"}, Event, Start(e, c, kind, s, at)
    PROVE  WellInv'
<1> DEFINE new == [NoEdit EXCEPT !.pc = "checked", !.c = c, !.kind = kind, !.step = s, !.at = at]
<1>1. new \in Edit({}) /\ new.c = c
  BY NoRowTypes, CreatedType DEF Edit, NoEdit
<1>2. edit' = [edit EXCEPT ![e] = new] /\ UNCHANGED status
  BY DEF Start
<1> HIDE DEF new
<1>3. Created' = Created
  BY <1>2, SameCreated
<1>4. EditOK'
  BY <1>1, <1>2, <1>3, EditType DEF WellInv
<1>5. RacedOK'
  BY CreatedType DEF WellInv, RacedOK, Start
<1> QED
  BY <1>4, <1>5, EditOnly DEF Start

(* The kind, step and number of an edit that starts.                       *)
LEMMA Starts ==
    ASSUME WellInv, NEW e \in Editors, EditStart(e)
    PROVE  \E c \in Created, kind \in {"add", "delete", "channel"}, s \in StepIds, at \in Nat :
              /\ Start(e, c, kind, s, at) /\ ~Frozen(c)
              /\ kind = "add" => s = e /\ e \notin Rows(c) /\ \E x \in StepIds : Last(c, x) /\ at = steps[c][x].order + 1
              /\ kind # "add" => s \in Rows(c) /\ at = steps[c][s].order
              /\ kind = "channel" => ~steps[c][s].copy
<1>1. PICK c \in Created :
         /\ ~Frozen(c)
         /\ \/ /\ e \notin Rows(c)
               /\ \E s \in StepIds : Last(c, s) /\ Start(e, c, "add", e, steps[c][s].order + 1)
            \/ \E s \in Rows(c) : Start(e, c, "delete", s, steps[c][s].order)
            \/ \E s \in Rows(c) : ~steps[c][s].copy /\ Start(e, c, "channel", s, steps[c][s].order)
  BY DEF EditStart
<1>2. e \in StepIds /\ Rows(c) \subseteq StepIds /\ \A s \in StepIds : steps[c][s].order \in Nat
  BY StepIdsType, CreatedType DEF Rows, WellInv, StepsOK, Step
<1>3. ASSUME e \notin Rows(c), NEW x \in StepIds, Last(c, x), Start(e, c, "add", e, steps[c][x].order + 1)
      PROVE  \E kind \in {"add", "delete", "channel"}, s \in StepIds, at \in Nat :
              /\ Start(e, c, kind, s, at) /\ ~Frozen(c)
              /\ kind = "add" => s = e /\ e \notin Rows(c) /\ \E y \in StepIds : Last(c, y) /\ at = steps[c][y].order + 1
              /\ kind # "add" => s \in Rows(c) /\ at = steps[c][s].order
              /\ kind = "channel" => ~steps[c][s].copy
  <2>1. steps[c][x].order + 1 \in Nat
    BY <1>2
  <2> QED
    BY <1>1, <1>2, <1>3, <2>1
<1> QED
  BY <1>1, <1>2, <1>3

LEMMA WellEditStart ==
    ASSUME WellInv, NEW e \in Editors, EditStart(e) PROVE WellInv'
<1>1. PICK c \in Created, kind \in {"add", "delete", "channel"}, s \in StepIds, at \in Nat :
         Start(e, c, kind, s, at)
  BY Starts
<1> QED
  BY <1>1, WellStart DEF EditStart

(* The row of an editor.                                                   *)
LEMMA EditIs ==
    ASSUME EditOK, NEW e \in Editors
    PROVE  /\ edit[e].pc \in {"idle", "checked", "written"} /\ edit[e].step \in StepIds
           /\ edit[e].at \in Nat /\ edit[e].kind \in {"add", "delete", "channel"}
           /\ edit[e].rows \in [DOMAIN edit[e].rows -> Step] /\ DOMAIN edit[e].rows \subseteq StepIds
           /\ Open(e) => edit[e].c \in Created
BY DEF EditOK, Edit

(* The rows an edit writes.                                                *)
LEMMA ChangedType ==
    ASSUME WellInv, NEW e \in Editors, Open(e), NEW rows \in Changed(e)
    PROVE  DOMAIN rows \subseteq StepIds /\ rows \in [DOMAIN rows -> Step]
<1> DEFINE c == edit[e].c  s == edit[e].step  at == edit[e].at
<1>1. s \in StepIds /\ at \in Nat /\ edit[e].kind \in {"add", "delete", "channel"} /\ c \in Campaigns
  BY EditIs, CreatedType DEF WellInv
<1>2. steps[c] \in [StepIds -> Step]
  BY <1>1 DEF WellInv, StepsOK
<1>3. CASE edit[e].kind = "add"
  <2>1. PICK ch \in {"email", "call_task"} :
           rows = [x \in {s} |-> [NoStep EXCEPT !.order = at, !.channel = ch]]
    BY <1>3 DEF Changed
  <2>2. [NoStep EXCEPT !.order = at, !.channel = ch] \in Step
    BY <1>1 DEF NoStep, Step
  <2> QED
    BY <1>1, <2>1, <2>2
<1>4. CASE edit[e].kind = "delete"
  <2>1. rows = AfterDelete(c, s, at)
    BY <1>4 DEF Changed
  <2>2. ASSUME NEW x \in {s} \cup {y \in Rows(c) : steps[c][y].order > at}
        PROVE  (IF x = s THEN NoStep ELSE [steps[c][x] EXCEPT !.order = @ - 1]) \in Step
    <3>1. CASE x = s
      BY <3>1, NoRowTypes
    <3>2. CASE x # s
      <4>1. steps[c][x] \in Step /\ steps[c][x].order > at
        BY <1>2, <3>2, <2>2 DEF Rows
      <4> QED
        BY <1>1, <3>2, <4>1 DEF Step
    <3> QED
      BY <3>1, <3>2
  <2> QED
    BY <1>1, <2>1, <2>2 DEF AfterDelete, Rows
<1>5. CASE edit[e].kind = "channel"
  <2>1. rows = [x \in {s} |-> [steps[c][s] EXCEPT !.channel = IF @ = "email" THEN "call_task" ELSE "email"]]
    BY <1>5 DEF Changed
  <2>2. [steps[c][s] EXCEPT !.channel = IF @ = "email" THEN "call_task" ELSE "email"] \in Step
    BY <1>1, <1>2 DEF Step
  <2> QED
    BY <1>1, <2>1, <2>2
<1> QED
  BY <1>1, <1>3, <1>4, <1>5

LEMMA WellEditWrite ==
    ASSUME WellInv, NEW e \in Editors, EditWrite(e) PROVE WellInv'
<1>1. PICK rows \in Changed(e) : edit' = [edit EXCEPT ![e].pc = "written", ![e].rows = rows]
  BY DEF EditWrite
<1>2. Open(e) /\ Created' = Created
  BY SameCreated DEF EditWrite, Open
<1>3. DOMAIN rows \subseteq StepIds /\ rows \in [DOMAIN rows -> Step]
  BY <1>2, ChangedType
<1> DEFINE new == [edit[e] EXCEPT !.pc = "written", !.rows = rows]
<1>4. new \in Edit(DOMAIN rows) /\ new.c \in Created
  BY <1>2, <1>3, CreatedType DEF WellInv, EditOK, Edit
<1>5. edit' = [edit EXCEPT ![e] = new]
  BY <1>1
<1> HIDE DEF new
<1>6. EditOK'
  BY <1>2, <1>3, <1>4, <1>5, EditType DEF WellInv
<1>7. RacedOK'
  BY DEF WellInv, RacedOK, EditWrite
<1> QED
  BY <1>6, <1>7, EditOnly DEF EditWrite

LEMMA EditEnds ==
    ASSUME WellInv, Created' = Created, NEW e \in Editors, edit' = [edit EXCEPT ![e] = NoEdit]
    PROVE  EditOK'
<1>1. NoEdit \in Edit({}) /\ NoEdit.pc = "idle"
  BY NoRowTypes DEF NoEdit
<1> QED
  BY <1>1, EditType DEF WellInv

LEMMA WellEditCommit ==
    ASSUME WellInv, NEW e \in Editors, EditCommit(e) PROVE WellInv'
<1> DEFINE c == edit[e].c  rows == edit[e].rows
           new == [s \in StepIds |-> IF s \in DOMAIN rows
                     THEN [rows[s] EXCEPT !.copy = @ \/ (rows[s].order > 0 /\ steps[c][s].copy)]
                     ELSE steps[c][s]]
<1>1. c \in Campaigns /\ Created' = Created /\ rows \in [DOMAIN rows -> Step]
  BY EditIs, CreatedType, SameCreated DEF WellInv, EditCommit, Open
<1>2. steps' = [steps EXCEPT ![c] = new]
  BY DEF EditCommit
<1>3. new \in [StepIds -> Step]
  <2>1. ASSUME NEW s \in DOMAIN rows
        PROVE  [rows[s] EXCEPT !.copy = @ \/ (rows[s].order > 0 /\ steps[c][s].copy)] \in Step
    <3>1. rows[s] \in Step
      BY <1>1, <2>1
    <3>2. ASSUME NEW b \in BOOLEAN PROVE [rows[s] EXCEPT !.copy = b] \in Step
      BY <3>1 DEF Step
    <3>3. (rows[s].copy \/ (rows[s].order > 0 /\ steps[c][s].copy)) \in BOOLEAN
      OBVIOUS
    <3> QED
      BY <3>2, <3>3
  <2>2. steps[c] \in [StepIds -> Step]
    BY <1>1 DEF WellInv, StepsOK
  <2> QED
    BY <2>1, <2>2
<1> HIDE DEF new
<1>4. StepsOK'
  BY <1>1, <1>2, <1>3, NewSteps DEF WellInv, StepsOK, EditCommit
<1>5. EditOK'
  BY <1>1, EditEnds DEF EditCommit
<1> QED
  BY <1>1, <1>4, <1>5, Kept DEF WellInv, EditCommit, Signals, People

LEMMA WellEditFails ==
    ASSUME WellInv, NEW e \in Editors, EditFails(e) PROVE WellInv'
<1>1. edit' = [edit EXCEPT ![e] = NoEdit] /\ Created' = Created
  BY SameCreated DEF EditFails
<1>2. EditOK' /\ RacedOK'
  BY <1>1, EditEnds DEF WellInv, RacedOK, EditFails
<1> QED
  BY <1>2, EditOnly DEF EditFails

(* Another record of an activation.                                        *)
LEMMA ActType ==
    ASSUME WellInv, Created' = Created, NEW a \in Activations, NEW new \in Activation,
           new.pc # "idle" => new.c \in Created, new.adds \subseteq (new.leads \ new.below) \X {new.c},
           act' = [act EXCEPT ![a] = new]
    PROVE  ActOK'
<1>1. act' \in [Activations -> Activation]
  BY DEF WellInv, ActOK
<1> SUFFICES ASSUME NEW x \in Activations
             PROVE  /\ act'[x].pc # "idle" => act'[x].c \in Created
                    /\ act'[x].adds \subseteq (act'[x].leads \ act'[x].below) \X {act'[x].c}
  BY <1>1 DEF ActOK
<1>2. CASE x = a
  BY <1>2 DEF WellInv, ActOK
<1>3. CASE x # a
  <2>1. act'[x] = act[x]
    BY <1>3 DEF WellInv, ActOK
  <2> QED
    BY <2>1 DEF WellInv, ActOK
<1> QED
  BY <1>2, <1>3

LEMMA ActIs ==
    ASSUME WellInv, NEW a \in Activations
    PROVE  /\ act[a] \in Activation /\ act[a].leads \subseteq Leads /\ act[a].below \subseteq Leads
           /\ act[a].pc \in {"idle", "loaded", "scored"} /\ act[a].was \in {"draft", "active", "paused"}
           /\ act[a].adds \subseteq (act[a].leads \ act[a].below) \X {act[a].c}
           /\ act[a].pc # "idle" => act[a].c \in Created
BY DEF WellInv, ActOK, Activation

(* A step that only touches an activation, and events.                     *)
LEMMA ActOnly ==
    ASSUME WellInv, UNCHANGED <<status, steps, Signals, People, edit, sweep, dry, raced>>,
           UNCHANGED events \/ Event, ActOK'
    PROVE  WellInv'
<1>1. Created' = Created
  BY SameCreated
<1> QED
  BY <1>1, Kept DEF WellInv, Signals, People

LEMMA ActEnds ==
    ASSUME WellInv, Created \subseteq Created', NEW a \in Activations, act' = [act EXCEPT ![a] = NoAct]
    PROVE  ActOK'
<1>1. act' \in [Activations -> Activation]
  BY NoRowTypes DEF WellInv, ActOK
<1> SUFFICES ASSUME NEW x \in Activations
             PROVE  /\ act'[x].pc # "idle" => act'[x].c \in Created'
                    /\ act'[x].adds \subseteq (act'[x].leads \ act'[x].below) \X {act'[x].c}
  BY <1>1 DEF ActOK
<1>2. CASE x = a
  BY <1>2 DEF WellInv, ActOK, NoAct
<1>3. CASE x # a
  <2>1. act'[x] = act[x]
    BY <1>3 DEF WellInv, ActOK
  <2> QED
    BY <2>1 DEF WellInv, ActOK
<1> QED
  BY <1>2, <1>3

LEMMA WellActivate ==
    ASSUME WellInv, NEW a \in Activations, Activate(a) PROVE WellInv'
<1>1. PICK c \in Created :
         act' = [act EXCEPT ![a] = [NoAct EXCEPT !.pc = "loaded", !.c = c, !.was = status[c],
                                                 !.leads = {l \in Leads : Eligible(l)}]]
  BY DEF Activate
<1> DEFINE new == [NoAct EXCEPT !.pc = "loaded", !.c = c, !.was = status[c],
                                !.leads = {l \in Leads : Eligible(l)}]
<1>2. status[c] \in {"draft", "active", "paused"} /\ c \in Campaigns
  BY DEF Created, WellInv, StepsOK
<1>3. {l \in Leads : Eligible(l)} \in SUBSET Leads
  OBVIOUS
<1>4. new \in Activation
  BY <1>2, <1>3 DEF NoAct, Activation
<1>5. new.c = c /\ new.adds = {}
  BY DEF NoAct
<1>6. act' = [act EXCEPT ![a] = new] /\ Created' = Created
  BY <1>1, SameCreated DEF Activate
<1> HIDE DEF new
<1>7. ActOK'
  BY <1>4, <1>5, <1>6, ActType
<1> QED
  BY <1>7, ActOnly DEF Activate

LEMMA WellScore ==
    ASSUME WellInv, NEW a \in Activations, Score(a) PROVE WellInv'
<1>1. PICK below \in SUBSET act[a].leads :
          act' = [act EXCEPT ![a].pc = "scored", ![a].below = below,
                             ![a].adds = {<<l, act[a].c>> : l \in act[a].leads \ below} \ enrolled]
  BY DEF Score
<1> DEFINE adds == {<<l, act[a].c>> : l \in act[a].leads \ below} \ enrolled
           new == [act[a] EXCEPT !.pc = "scored", !.below = below, !.adds = adds]
<1>2. act[a].c \in Created /\ act[a].leads \subseteq Leads
  BY ActIs DEF Score
<1>3. adds \subseteq (act[a].leads \ below) \X {act[a].c} /\ adds \subseteq Leads \X Campaigns
  BY <1>2, CreatedType
<1>4. act' = [act EXCEPT ![a] = new] /\ Created' = Created
  BY <1>1, SameCreated DEF Score
<1> HIDE DEF adds
<1>5. new \in Activation
  BY <1>2, <1>3, ActIs DEF Activation
<1>6. new.c = act[a].c /\ new.adds = adds /\ new.leads = act[a].leads /\ new.below = below
  BY ActIs DEF Activation
<1> HIDE DEF new
<1>7. ActOK'
  BY <1>2, <1>3, <1>4, <1>5, <1>6, ActType
<1> QED
  BY <1>7, ActOnly DEF Score

(* New enrollments.                                                        *)
LEMMA WellEnroll ==
    ASSUME WellInv, NEW adds, adds \subseteq Leads \X Created, Created \subseteq Created', Enroll(adds)
    PROVE  enrolled' \subseteq Leads \X Created' /\ DOMAIN planned' = Campaigns /\ RacedOK'
<1>1. enrolled' \subseteq Leads \X Created'
  BY DEF WellInv, PeopleOK, Enroll
<1>2. DOMAIN planned' = Campaigns
  BY DEF Enroll
<1>3. RacedOK'
  BY DEF Enroll, WellInv, RacedOK
<1> QED
  BY <1>1, <1>2, <1>3

LEMMA WellActCommit ==
    ASSUME WellInv, NEW a \in Activations, ActCommit(a) PROVE WellInv'
<1> DEFINE c == act[a].c
<1>1. c \in Created /\ c \in Campaigns /\ act[a].leads \subseteq Leads
      /\ act[a].adds \subseteq Leads \X Created
  BY ActIs, CreatedType DEF ActCommit
<1>2. /\ status' \in [Campaigns -> {"absent", "draft", "active", "paused"}]
      /\ Created \subseteq Created'
  BY <1>1 DEF WellInv, StepsOK, ActCommit, Created
<1>3. StepsOK'
  BY <1>2 DEF WellInv, StepsOK, ActCommit
<1>4. /\ enrolled' \subseteq Leads \X Created' /\ DOMAIN planned' = Campaigns /\ RacedOK'
  BY <1>1, <1>2, WellEnroll DEF ActCommit
<1>5. lead' \in [Leads -> Lead]
  <2>1. lead' = [l \in Leads |-> IF l \notin act[a].leads THEN lead[l]
                    ELSE [status |-> IF l \in act[a].below THEN "disqualified" ELSE lead[l].status,
                          by |-> c, above |-> l \notin act[a].below]]
    BY DEF ActCommit
  <2>2. ASSUME NEW l \in Leads
        PROVE  [status |-> IF l \in act[a].below THEN "disqualified" ELSE lead[l].status,
                by |-> c, above |-> l \notin act[a].below] \in Lead
    <3>1. lead[l].status \in {"verified", "disqualified", "suppressed"}
      BY DEF WellInv, PeopleOK, Lead
    <3> QED
      BY <1>1, <3>1 DEF Lead
  <2>3. \A l \in Leads : lead[l] \in Lead
    BY DEF WellInv, PeopleOK
  <2> QED
    BY <2>1, <2>2, <2>3
<1>6. passed' \subseteq Leads \X Campaigns
  BY <1>1 DEF WellInv, PeopleOK, ActCommit
<1>7. PeopleOK'
  BY <1>4, <1>5, <1>6 DEF PeopleOK
<1>8. ActOK'
  BY <1>2, ActEnds DEF ActCommit
<1> QED
  BY <1>2, <1>3, <1>4, <1>7, <1>8, Kept DEF WellInv, ActCommit, Signals

LEMMA WellActFails ==
    ASSUME WellInv, NEW a \in Activations, ActFails(a) PROVE WellInv'
<1>1. Created' = Created
  BY SameCreated DEF ActFails
<1>2. ActOK'
  BY <1>1, ActEnds DEF ActFails
<1> QED
  BY <1>2, ActOnly DEF ActFails

LEMMA WellPause ==
    ASSUME WellInv, NEW c \in Campaigns, Pause(c) PROVE WellInv'
<1>1. StepsOK' /\ Created \subseteq Created'
  BY DEF WellInv, StepsOK, Pause, Created
<1> QED
  BY <1>1, Kept DEF WellInv, Pause, Signals, People

LEMMA WellSuppress ==
    ASSUME WellInv, NEW l \in Leads, Suppress(l) PROVE WellInv'
<1>1. lead' \in [Leads -> Lead]
  <2>1. [lead[l] EXCEPT !.status = "suppressed"] \in Lead
    BY DEF WellInv, PeopleOK, Lead
  <2> QED
    BY <2>1 DEF WellInv, PeopleOK, Suppress
<1>2. Created' = Created
  BY SameCreated DEF Suppress
<1>3. PeopleOK'
  BY <1>1, <1>2 DEF WellInv, PeopleOK, Suppress
<1> QED
  BY <1>2, <1>3, Kept DEF WellInv, Suppress, Signals

LEMMA WellRule ==
    ASSUME WellInv, NEW c \in Campaigns, CreateRule(c) \/ DeleteRule(c) PROVE WellInv'
<1>1. Created' = Created
  BY SameCreated DEF CreateRule, DeleteRule
<1>2. SignalsOK'
  BY <1>1 DEF WellInv, SignalsOK, CreateRule, DeleteRule
<1> QED
  BY <1>1, <1>2, Kept DEF WellInv, CreateRule, DeleteRule, People

LEMMA WellSources ==
    ASSUME WellInv, SourcesChange PROVE WellInv'
<1>1. Created' = Created
  BY SameCreated DEF SourcesChange
<1>2. SignalsOK'
  BY <1>1 DEF WellInv, SignalsOK, SourcesChange
<1>3. EventsOK'
  BY DEF WellInv, EventsOK, SourcesChange, Event
<1> QED
  BY <1>1, <1>2, <1>3, Kept DEF WellInv, SourcesChange, People

(* Another record of a sweep.                                              *)
LEMMA SweepType ==
    ASSUME WellInv, Created' = Created, NEW w \in Sweeps, NEW new \in Sweep,
           new.adds \subseteq Leads \X Created, sweep' = [sweep EXCEPT ![w] = new]
    PROVE  SweepOK'
BY DEF WellInv, SweepOK

LEMMA SweepIs ==
    ASSUME WellInv, NEW w \in Sweeps
    PROVE  /\ sweep[w] \in Sweep /\ sweep[w].found \subseteq Pages \cup Links
           /\ sweep[w].base \in Pages \cup {Unseen} /\ sweep[w].now \in Pages \cup {Unseen}
           /\ sweep[w].adds \subseteq Leads \X Created
BY DEF WellInv, SweepOK, Sweep

(* A step that only touches a sweep, and events.                           *)
LEMMA SweepOnly ==
    ASSUME WellInv, UNCHANGED <<status, steps, Signals, People, edit, act, dry>>,
           UNCHANGED events \/ Event, SweepOK', RacedOK'
    PROVE  WellInv'
<1>1. Created' = Created
  BY SameCreated
<1> QED
  BY <1>1, Kept DEF WellInv, Signals, People

LEMMA SweepEnds ==
    ASSUME WellInv, Created' = Created, NEW w \in Sweeps, sweep' = [sweep EXCEPT ![w] = NoSweep]
    PROVE  SweepOK'
<1>1. NoSweep \in Sweep /\ NoSweep.adds = {}
  BY NoRowTypes DEF NoSweep
<1> QED
  BY <1>1, SweepType

LEMMA PageType == WellInv => page \in Pages
BY DEF WellInv, EventsOK, Pages

LEMMA WellCollect ==
    ASSUME WellInv, NEW w \in Sweeps, Collect(w) PROVE WellInv'
<1> DEFINE new == [NoSweep EXCEPT !.pc = "collected", !.base = baseline, !.now = page,
                                  !.found = PageNews \cup FeedNews]
<1>1. PageNews \cup FeedNews \subseteq Pages \cup Links
  BY PageType DEF PageNews, FeedNews, WellInv, SignalsOK
<1>2. new \in Sweep /\ new.adds = {}
  BY <1>1, PageType DEF WellInv, SignalsOK, NoSweep, Sweep
<1>3. sweep' = [sweep EXCEPT ![w] = new] /\ Created' = Created
  BY SameCreated DEF Collect
<1> HIDE DEF new
<1>4. SweepOK'
  BY <1>2, <1>3, SweepType
<1>5. RacedOK'
  BY DEF WellInv, RacedOK, Collect
<1> QED
  BY <1>4, <1>5, SweepOnly DEF Collect

LEMMA WellFire ==
    ASSUME WellInv, NEW w \in Sweeps, Fire(w) PROVE WellInv'
<1> DEFINE adds == IF sweep[w].found = {} THEN {} ELSE ({l \in Leads : Signalled(l)} \X rules) \ enrolled
           new == [sweep[w] EXCEPT !.pc = "fired", !.adds = adds]
<1>1. sweep' = [sweep EXCEPT ![w] = new] /\ Created' = Created
  BY SameCreated DEF Fire
<1>2. adds \subseteq Leads \X Created /\ adds \subseteq Leads \X Campaigns
  BY CreatedType DEF WellInv, SignalsOK
<1> HIDE DEF adds
<1>3. new \in Sweep /\ new.adds = adds
  BY <1>2, SweepIs DEF Sweep
<1> HIDE DEF new
<1>4. SweepOK'
  BY <1>1, <1>2, <1>3, SweepType
<1>5. RacedOK'
  BY DEF WellInv, RacedOK, Fire
<1> QED
  BY <1>4, <1>5, SweepOnly DEF Fire

LEMMA WellSweepCommit ==
    ASSUME WellInv, NEW w \in Sweeps, SweepCommit(w) PROVE WellInv'
<1>1. Created' = Created
  BY SameCreated DEF SweepCommit
<1>2. enrolled' \subseteq Leads \X Created' /\ DOMAIN planned' = Campaigns /\ RacedOK'
  BY <1>1, SweepIs, WellEnroll DEF SweepCommit
<1>3. PeopleOK'
  BY <1>2 DEF WellInv, PeopleOK, SweepCommit
<1>4. SweepOK'
  BY <1>1, SweepEnds DEF SweepCommit
<1>5. baseline' \in Pages \cup {Unseen} /\ first' \in Pages \cup {Unseen}
  BY SweepIs DEF SweepCommit, WellInv, SignalsOK
<1>6. signals' \in [Pages \cup Links -> Nat]
  BY DEF SweepCommit, WellInv, SignalsOK
<1>7. SignalsOK'
  BY <1>1, <1>5, <1>6 DEF WellInv, SignalsOK, SweepCommit
<1> QED
  BY <1>1, <1>2, <1>3, <1>4, <1>7, Kept DEF WellInv, SweepCommit

LEMMA WellSweepFails ==
    ASSUME WellInv, NEW w \in Sweeps, SweepFails(w) PROVE WellInv'
<1>1. Created' = Created
  BY SameCreated DEF SweepFails
<1>2. SweepOK' /\ RacedOK'
  BY <1>1, SweepEnds DEF WellInv, RacedOK, SweepFails
<1> QED
  BY <1>2, SweepOnly DEF SweepFails

(* Dry runs.                                                               *)
LEMMA DryOnly ==
    ASSUME WellInv, UNCHANGED Rest, UNCHANGED events \/ Event, DryOK'
    PROVE  WellInv'
<1>1. Created' = Created
  BY SameCreated DEF Rest
<1> QED
  BY <1>1, Kept DEF WellInv, Rest, Signals, People

LEMMA DryIs ==
    ASSUME WellInv, NEW d \in DryRuns
    PROVE  /\ dry \in [DryRuns -> DryRun] /\ dry[d] \in DryRun /\ dry[d].taken \in Nat
           /\ dry[d].items \in Nat /\ dry[d].left \subseteq Leads
BY DEF WellInv, DryOK, DryRun

LEMMA DryTypes ==
    ASSUME NEW x \in DryRun, NEW S \in SUBSET Leads
    PROVE  /\ [x EXCEPT !.pc = "busy", !.left = S, !.taken = @ + 1] \in DryRun
           /\ [x EXCEPT !.left = S, !.items = @ + 1] \in DryRun
<1>1. x.taken + 1 \in Nat /\ x.items + 1 \in Nat
  BY DEF DryRun
<1>2. [x EXCEPT !.pc = "busy", !.left = S, !.taken = @ + 1] \in DryRun
  BY <1>1 DEF DryRun
<1>3. [x EXCEPT !.left = S, !.items = @ + 1] \in DryRun
  BY <1>1 DEF DryRun
<1> QED
  BY <1>2, <1>3

LEMMA WellDry ==
    ASSUME WellInv, NEW d \in DryRuns, DryOn(d) PROVE WellInv'
<1>1. CASE StartDryRun(d)
  <2>1. PICK c \in Created, published \in BOOLEAN :
           dry' = [dry EXCEPT ![d] = [@ EXCEPT !.status = "running", !.c = c, !.job = published]]
    BY <1>1 DEF StartDryRun
  <2>2. [dry[d] EXCEPT !.status = "running", !.c = c, !.job = published] \in DryRun
    BY DryIs, CreatedType DEF DryRun
  <2>3. DryOK'
    BY <2>1, <2>2, DryIs DEF DryOK
  <2> QED
    BY <1>1, <2>3, DryOnly DEF StartDryRun
<1>2. CASE TakeDryRun(d)
  <2>1. PICK new : dry' = [dry EXCEPT ![d] = new] /\ new \in DryRun
    <3>1. [dry[d] EXCEPT !.job = FALSE] \in DryRun /\ [dry[d] EXCEPT !.job = FALSE, !.status = "failed"] \in DryRun
      BY DryIs DEF DryRun
    <3>2. ASSUME NEW S \in SUBSET Leads
          PROVE  [dry[d] EXCEPT !.pc = "busy", !.left = S, !.taken = @ + 1] \in DryRun
      BY DryIs, DryTypes
    <3>3. CASE dry[d].status # "running"
      BY <1>2, <3>1, <3>3, DryIs DEF TakeDryRun
    <3>4. CASE dry[d].status = "running" /\ ~Ready(dry[d].c)
      BY <1>2, <3>1, <3>4, DryIs DEF TakeDryRun
    <3>5. CASE dry[d].status = "running" /\ Ready(dry[d].c)
      <4>1. PICK S \in SUBSET {l \in Leads : Eligible(l)} :
               dry' = [dry EXCEPT ![d].pc = "busy", ![d].left = S, ![d].taken = @ + 1]
        BY <1>2, <3>5 DEF TakeDryRun
      <4>2. S \in SUBSET Leads
        OBVIOUS
      <4> DEFINE new == [dry[d] EXCEPT !.pc = "busy", !.left = S, !.taken = @ + 1]
      <4>3. new \in DryRun
        BY <3>2, <4>2
      <4>4. dry' = [dry EXCEPT ![d] = new]
        BY <4>1, DryIs
      <4> HIDE DEF new
      <4> QED
        BY <4>3, <4>4
    <3> QED
      BY <3>3, <3>4, <3>5
  <2>2. DryOK'
    BY <2>1, DryIs DEF DryOK
  <2> QED
    BY <1>2, <2>2, DryOnly DEF TakeDryRun
<1>3. CASE DryItem(d)
  <2>1. PICK l \in dry[d].left : dry' = [dry EXCEPT ![d].left = @ \ {l}, ![d].items = @ + 1]
    BY <1>3 DEF DryItem
  <2>2. [dry[d] EXCEPT !.left = dry[d].left \ {l}, !.items = @ + 1] \in DryRun
    BY DryIs, DryTypes
  <2>3. DryOK'
    BY <2>1, <2>2, DryIs DEF DryOK
  <2> QED
    BY <1>3, <2>3, DryOnly DEF DryItem
<1>4. CASE DryEnds(d)
  <2>1. \A again \in BOOLEAN : [dry[d] EXCEPT !.pc = "idle", !.job = again, !.status = "complete"] \in DryRun
    BY DryIs DEF DryRun
  <2>2. [dry[d] EXCEPT !.pc = "idle", !.job = FALSE, !.status = "failed", !.left = {}] \in DryRun
    BY DryIs DEF DryRun
  <2>3. PICK new \in DryRun : dry' = [dry EXCEPT ![d] = new] /\ (UNCHANGED events \/ Event)
    BY <1>4, <2>1, <2>2, DryIs DEF DryEnds
  <2>4. DryOK'
    BY <2>3, DryIs DEF DryOK
  <2> QED
    BY <1>4, <2>3, <2>4, DryOnly DEF DryEnds
<1>5. CASE DryDies(d)
  <2>1. PICK again \in BOOLEAN : dry' = [dry EXCEPT ![d] = [@ EXCEPT !.pc = "idle", !.left = {}, !.job = again]]
    BY <1>5 DEF DryDies
  <2>2. [dry[d] EXCEPT !.pc = "idle", !.left = {}, !.job = again] \in DryRun
    BY DryIs DEF DryRun
  <2>3. DryOK'
    BY <2>1, <2>2, DryIs DEF DryOK
  <2> QED
    BY <1>5, <2>3, DryOnly DEF DryDies
<1> QED
  BY <1>1, <1>2, <1>3, <1>4, <1>5 DEF DryOn

LEMMA NextWell == WellInv /\ [Next]_vars => WellInv'
<1> SUFFICES ASSUME WellInv, [Next]_vars PROVE WellInv'
  OBVIOUS
<1>1. CASE UNCHANGED vars
  <2>1. Created' = Created
    BY <1>1, SameCreated DEF vars
  <2> QED
    BY <1>1, <2>1, Kept DEF vars, WellInv, People
<1>2. ASSUME NEW c \in Campaigns, Create(c) \/ Pause(c) \/ CreateRule(c) \/ DeleteRule(c) PROVE WellInv'
  BY <1>2, WellCreate, WellPause, WellRule
<1>3. ASSUME NEW c \in Campaigns, NEW s \in StepIds, AddVariant(c, s) PROVE WellInv'
  BY <1>3, WellVariant
<1>4. ASSUME NEW e \in Editors, EditOn(e) PROVE WellInv'
  BY <1>4, WellEditStart, WellEditWrite, WellEditCommit, WellEditFails DEF EditOn
<1>5. ASSUME NEW a \in Activations, ActOn(a) PROVE WellInv'
  BY <1>5, WellActivate, WellScore, WellActCommit, WellActFails DEF ActOn
<1>6. ASSUME NEW l \in Leads, Suppress(l) PROVE WellInv'
  BY <1>6, WellSuppress
<1>7. CASE SourcesChange
  BY <1>7, WellSources
<1>8. ASSUME NEW w \in Sweeps, SweepOn(w) PROVE WellInv'
  BY <1>8, WellCollect, WellFire, WellSweepCommit, WellSweepFails DEF SweepOn
<1>9. ASSUME NEW d \in DryRuns, DryOn(d) PROVE WellInv'
  BY <1>9, WellDry
<1> QED
  BY <1>1, <1>2, <1>3, <1>4, <1>5, <1>6, <1>7, <1>8, <1>9 DEF Next

LEMMA WellHolds == Spec => []WellInv
BY InitWell, NextWell, PTL DEF Spec

(* Every variable keeps its type.                                          *)
THEOREM TypeCorrect == Spec => []TypeOK
BY WellHolds, WellTyped, PTL

-----------------------------------------------------------------------------
(* Merit: a lead's score is above only if some campaign found it above, a  *)
(* rule that is there was made, and what a sweep or an activation is about *)
(* to enroll already has its reason.                                       *)

Above(l) == \E d \in Campaigns : <<l, d>> \in passed

MeritInv ==
    /\ rules \subseteq ruled
    /\ \A l \in Leads : lead[l].above => Above(l)
    /\ \A w \in Sweeps : \A p \in sweep[w].adds : p[2] \in ruled /\ Above(p[1])
    /\ \A p \in enrolled : p \in passed \/ (p[2] \in ruled /\ Above(p[1]))

LEMMA InitMerit == Init => MeritInv
BY DEF Init, MeritInv, NoSweep

(* Reasons stay: passed and ruled only grow.                               *)
LEMMA MeritKept ==
    ASSUME WellInv, MeritInv, passed \subseteq passed', ruled \subseteq ruled'
    PROVE  /\ \A l \in Leads : lead[l].above => Above(l)'
           /\ \A w \in Sweeps : \A p \in sweep[w].adds : p[2] \in ruled' /\ Above(p[1])'
           /\ \A p \in enrolled : p \in passed' \/ (p[2] \in ruled' /\ Above(p[1])')
<1>1. \A l : Above(l) => Above(l)'
  BY DEF Above
<1> QED
  BY <1>1 DEF MeritInv

LEMMA MeritActCommit ==
    ASSUME WellInv, MeritInv, NEW a \in Activations, ActCommit(a) PROVE MeritInv'
<1> DEFINE c == act[a].c
<1>1. /\ passed' = passed \cup {<<l, c>> : l \in act[a].leads \ act[a].below}
      /\ enrolled' = enrolled \cup act[a].adds
      /\ UNCHANGED <<rules, ruled, sweep>>
      /\ lead' = [l \in Leads |-> IF l \notin act[a].leads THEN lead[l]
                    ELSE [status |-> IF l \in act[a].below THEN "disqualified" ELSE lead[l].status,
                          by |-> c, above |-> l \notin act[a].below]]
  BY DEF ActCommit, Enroll, Signals
<1>2. c \in Campaigns /\ act[a].adds \subseteq (act[a].leads \ act[a].below) \X {c}
  BY ActIs, CreatedType DEF ActCommit
<1>3. /\ \A l \in Leads : lead[l].above => Above(l)'
      /\ \A w \in Sweeps : \A p \in sweep[w].adds : p[2] \in ruled' /\ Above(p[1])'
      /\ \A p \in enrolled : p \in passed' \/ (p[2] \in ruled' /\ Above(p[1])')
  BY <1>1, MeritKept
<1>4. ASSUME NEW l \in Leads, lead'[l].above PROVE Above(l)'
  <2>1. CASE l \in act[a].leads
    <3>1. <<l, c>> \in passed'
      BY <1>1, <1>4, <2>1
    <3> QED
      BY <1>2, <3>1 DEF Above
  <2>2. CASE l \notin act[a].leads
    BY <1>1, <1>3, <1>4, <2>2
  <2> QED
    BY <2>1, <2>2
<1>5. act[a].adds \subseteq passed'
  BY <1>1, <1>2
<1> QED
  BY <1>1, <1>3, <1>4, <1>5 DEF MeritInv

LEMMA MeritSweep ==
    ASSUME WellInv, MeritInv, NEW w \in Sweeps, SweepOn(w) PROVE MeritInv'
<1>1. UNCHANGED <<rules, ruled, lead, passed>>
  BY DEF SweepOn, Collect, Fire, SweepCommit, SweepFails, Signals, People
<1>2. /\ \A l \in Leads : lead[l].above => Above(l)'
      /\ \A x \in Sweeps : \A p \in sweep[x].adds : p[2] \in ruled' /\ Above(p[1])'
      /\ \A p \in enrolled : p \in passed' \/ (p[2] \in ruled' /\ Above(p[1])')
  BY <1>1, MeritKept
<1>3. enrolled' = enrolled \/ enrolled' = enrolled \cup sweep[w].adds
  BY DEF SweepOn, Collect, Fire, SweepCommit, SweepFails, People, Enroll
<1>4. \A x \in Sweeps : x # w => sweep'[x] = sweep[x]
  BY DEF SweepOn, Collect, Fire, SweepCommit, SweepFails, WellInv, SweepOK
<1>5. \A p \in sweep'[w].adds : p[2] \in ruled' /\ Above(p[1])'
  <2>1. CASE Fire(w)
    <3>1. sweep'[w].adds \subseteq {l \in Leads : Signalled(l)} \X rules
      BY <2>1, SweepIs DEF Fire, WellInv, SweepOK, Sweep
    <3>2. ASSUME NEW l \in Leads, Signalled(l) PROVE Above(l)'
      BY <1>2, <3>2 DEF Signalled
    <3>3. rules \subseteq ruled'
      BY <1>1 DEF MeritInv
    <3> QED
      BY <3>1, <3>2, <3>3
  <2>2. CASE Collect(w) \/ SweepCommit(w) \/ SweepFails(w)
    <3>1. sweep'[w].adds = {}
      <4>1. w \in DOMAIN sweep
        BY DEF WellInv, SweepOK
      <4>2. CASE Collect(w)
        BY <4>1, <4>2 DEF Collect, NoSweep
      <4>3. CASE SweepCommit(w) \/ SweepFails(w)
        <5>1. sweep'[w] = NoSweep
          BY <4>1, <4>3 DEF SweepCommit, SweepFails
        <5> QED
          BY <5>1 DEF NoSweep
      <4> QED
        BY <2>2, <4>2, <4>3
    <3> QED
      BY <3>1
  <2> QED
    BY <2>1, <2>2 DEF SweepOn
<1>6. \A p \in enrolled' : p \in passed' \/ (p[2] \in ruled' /\ Above(p[1])')
  BY <1>2, <1>3
<1>7. \A x \in Sweeps : \A p \in sweep'[x].adds : p[2] \in ruled' /\ Above(p[1])'
  BY <1>2, <1>4, <1>5
<1> QED
  BY <1>1, <1>2, <1>6, <1>7 DEF MeritInv

LEMMA MeritOther ==
    ASSUME WellInv, MeritInv, UNCHANGED <<passed, sweep, enrolled>>, ruled \subseteq ruled',
           rules' \subseteq ruled', \A l \in Leads : lead'[l].above = lead[l].above
    PROVE  MeritInv'
<1>1. /\ \A l \in Leads : lead[l].above => Above(l)'
      /\ \A x \in Sweeps : \A p \in sweep[x].adds : p[2] \in ruled' /\ Above(p[1])'
      /\ \A p \in enrolled : p \in passed' \/ (p[2] \in ruled' /\ Above(p[1])')
  BY MeritKept
<1> QED
  BY <1>1 DEF MeritInv

LEMMA NextMerit == WellInv /\ MeritInv /\ [Next]_vars => MeritInv'
<1> SUFFICES ASSUME WellInv, MeritInv, [Next]_vars PROVE MeritInv'
  OBVIOUS
<1>0. rules \subseteq ruled
  BY DEF MeritInv
<1>1. CASE UNCHANGED vars
  BY <1>0, <1>1, MeritOther DEF vars
<1>2. ASSUME NEW c \in Campaigns, Create(c) \/ Pause(c) PROVE MeritInv'
  BY <1>0, <1>2, MeritOther DEF Create, Pause, Signals, People
<1>3. ASSUME NEW c \in Campaigns, CreateRule(c) \/ DeleteRule(c) PROVE MeritInv'
  BY <1>0, <1>3, MeritOther DEF CreateRule, DeleteRule, People
<1>4. ASSUME NEW c \in Campaigns, NEW s \in StepIds, AddVariant(c, s) PROVE MeritInv'
  BY <1>0, <1>4, MeritOther DEF AddVariant, Signals, People
<1>5. ASSUME NEW e \in Editors, EditOn(e) PROVE MeritInv'
  <2>1. UNCHANGED <<Signals, People, sweep>>
    BY <1>5 DEF EditOn, EditStart, Start, EditWrite, EditCommit, EditFails
  <2> QED
    BY <1>0, <2>1, MeritOther DEF Signals, People
<1>6. ASSUME NEW a \in Activations, ActOn(a) PROVE MeritInv'
  <2>1. CASE ActCommit(a)
    BY <2>1, MeritActCommit
  <2>2. CASE Activate(a) \/ Score(a) \/ ActFails(a)
    BY <1>0, <2>2, MeritOther DEF Activate, Score, ActFails, Signals, People
  <2> QED
    BY <1>6, <2>1, <2>2 DEF ActOn
<1>7. ASSUME NEW l \in Leads, Suppress(l) PROVE MeritInv'
  <2>1. \A x \in Leads : lead'[x].above = lead[x].above
    BY <1>7 DEF Suppress, WellInv, PeopleOK, Lead
  <2> QED
    BY <1>0, <1>7, <2>1, MeritOther DEF Suppress, Signals
<1>8. CASE SourcesChange
  BY <1>0, <1>8, MeritOther DEF SourcesChange, People
<1>9. ASSUME NEW w \in Sweeps, SweepOn(w) PROVE MeritInv'
  BY <1>9, MeritSweep
<1>10. ASSUME NEW d \in DryRuns, DryOn(d) PROVE MeritInv'
  <2>1. UNCHANGED Rest
    BY <1>10 DEF DryOn, StartDryRun, TakeDryRun, DryItem, DryEnds, DryDies
  <2> QED
    BY <1>0, <2>1, MeritOther DEF Rest, Signals, People
<1> QED
  BY <1>1, <1>2, <1>3, <1>4, <1>5, <1>6, <1>7, <1>8, <1>9, <1>10 DEF Next

(* rules.py: nobody is enrolled who was not above the threshold of the     *)
(* campaign, or above some threshold and in a campaign with a rule.        *)
THEOREM MeritHolds == Spec => []EnrolledOnMerit
<1>1. MeritInv => EnrolledOnMerit
  BY DEF MeritInv, EnrolledOnMerit, Above
<1> QED
  BY <1>1, InitMerit, NextMerit, WellHolds, PTL DEF Spec

-----------------------------------------------------------------------------
(* The sequence is frozen: once somebody is in a campaign none of its      *)
(* edits is under way, unless one was when the first lead came in.         *)

KeepsPlan(c) == In(c) # {} /\ ~Overlapped(c, "enroll") => Editing(c) = {} /\ Structure(c) = planned[c]
FrozenInv == \A c \in Campaigns : KeepsPlan(c)

LEMMA InitFrozen == Init => FrozenInv
BY DEF Init, FrozenInv, KeepsPlan, In

LEMMA SameStructure ==
    ASSUME NEW c, steps'[c] = steps[c] PROVE Structure(c)' = Structure(c) /\ Rows(c)' = Rows(c)
BY DEF Structure, Rows

LEMMA PlanKept ==
    ASSUME NEW c \in Campaigns, KeepsPlan(c), UNCHANGED <<enrolled, planned>>, raced \subseteq raced',
           In(c) # {} => Structure(c)' = Structure(c) /\ Editing(c)' \subseteq Editing(c)
    PROVE  KeepsPlan(c)'
BY DEF KeepsPlan, In, Overlapped

LEMMA PlanEnroll ==
    ASSUME WellInv, NEW c \in Campaigns, KeepsPlan(c), NEW adds, Enroll(adds),
           adds \subseteq Leads \X Campaigns, UNCHANGED <<steps, edit>>
    PROVE  KeepsPlan(c)'
<1>1. Structure(c)' = Structure(c) /\ Editing(c)' = Editing(c)
  BY SameStructure DEF Editing, Open
<1>2. CASE In(c) # {}
  <2>1. planned'[c] = planned[c]
    BY <1>2 DEF Enroll
  <2>2. Overlapped(c, "enroll") => Overlapped(c, "enroll")'
    BY DEF Overlapped, Enroll
  <2> QED
    BY <1>1, <1>2, <2>1, <2>2 DEF KeepsPlan
<1>3. CASE In(c) = {} /\ \E l \in Leads : <<l, c>> \in adds
  <2>1. planned'[c] = Structure(c)
    BY <1>3 DEF Enroll
  <2>2. Editing(c) # {} => <<c, "enroll">> \in raced'
    BY <1>3 DEF Enroll
  <2> QED
    BY <1>1, <2>1, <2>2 DEF KeepsPlan, Overlapped
<1>4. CASE In(c) = {} /\ ~\E l \in Leads : <<l, c>> \in adds
  <2>1. In(c)' = {}
    BY <1>4 DEF Enroll, In
  <2> QED
    BY <2>1 DEF KeepsPlan
<1> QED
  BY <1>2, <1>3, <1>4

LEMMA PlanCreate ==
    ASSUME WellInv, FrozenInv, NEW x \in Campaigns, Create(x) PROVE FrozenInv'
<1> SUFFICES ASSUME NEW c \in Campaigns PROVE KeepsPlan(c)'
  BY DEF FrozenInv
<1>1. CASE c = x
  <2>1. c \notin Created
    BY <1>1 DEF Create, Created
  <2>2. In(c) = {}
    BY <2>1 DEF In, WellInv, PeopleOK
  <2> QED
    BY <2>2, PlanKept DEF FrozenInv, Create, People
<1>2. CASE c # x
  <2>1. Structure(c)' = Structure(c) /\ Editing(c)' = Editing(c)
    BY <1>2, SameStructure DEF Create, WellInv, StepsOK, Editing, Open
  <2> QED
    BY <2>1, PlanKept DEF FrozenInv, Create, People
<1> QED
  BY <1>1, <1>2

LEMMA PlanVariant ==
    ASSUME WellInv, FrozenInv, NEW x \in Campaigns, NEW s \in StepIds, AddVariant(x, s) PROVE FrozenInv'
<1> SUFFICES ASSUME NEW c \in Campaigns PROVE KeepsPlan(c)'
  BY DEF FrozenInv
<1>1. \A t \in StepIds : steps'[c][t].order = steps[c][t].order /\ steps'[c][t].channel = steps[c][t].channel
  BY DEF AddVariant, WellInv, StepsOK, Step
<1>2. Structure(c)' = Structure(c)
  BY <1>1 DEF Structure, Rows
<1>3. Editing(c)' = Editing(c)
  BY DEF AddVariant, Editing, Open
<1> QED
  BY <1>2, <1>3, PlanKept DEF FrozenInv, AddVariant, People

LEMMA PlanEdit ==
    ASSUME WellInv, FrozenInv, NEW e \in Editors, EditOn(e) PROVE FrozenInv'
<1> SUFFICES ASSUME NEW c \in Campaigns PROVE KeepsPlan(c)'
  BY DEF FrozenInv
<1>0. UNCHANGED <<enrolled, planned>> /\ raced \subseteq raced'
  BY DEF EditOn, EditStart, Start, EditWrite, EditCommit, EditFails, People
<1>1. CASE EditStart(e)
  <2>1. PICK x \in Created, kind \in {"add", "delete", "channel"}, s \in StepIds, at \in Nat :
           Start(e, x, kind, s, at) /\ ~Frozen(x)
    BY <1>1, Starts
  <2>2. CASE c = x
    BY <1>0, <2>1, <2>2, PlanKept DEF FrozenInv, Frozen
  <2>3. CASE c # x
    <3>1. Editing(c)' \subseteq Editing(c)
      BY <2>1, <2>3 DEF Start, Editing, Open, WellInv, EditOK, NoEdit
    <3>2. Structure(c)' = Structure(c)
      BY <2>1, SameStructure DEF Start
    <3> QED
      BY <1>0, <3>1, <3>2, PlanKept DEF FrozenInv
  <2> QED
    BY <2>2, <2>3
<1>2. CASE EditWrite(e)
  <2>1. PICK rows : edit' = [edit EXCEPT ![e].pc = "written", ![e].rows = rows]
    BY <1>2 DEF EditWrite
  <2>2. Editing(c)' \subseteq Editing(c)
    BY <1>2, <2>1 DEF EditWrite, Editing, Open, WellInv, EditOK, Edit
  <2>3. Structure(c)' = Structure(c)
    BY <1>2, SameStructure DEF EditWrite
  <2> QED
    BY <1>0, <2>2, <2>3, PlanKept DEF FrozenInv
<1>3. CASE EditFails(e)
  <2>1. Editing(c)' \subseteq Editing(c)
    BY <1>3 DEF EditFails, Editing, Open, WellInv, EditOK, NoEdit
  <2>2. Structure(c)' = Structure(c)
    BY <1>3, SameStructure DEF EditFails
  <2> QED
    BY <1>0, <2>1, <2>2, PlanKept DEF FrozenInv
<1>4. CASE EditCommit(e)
  <2>1. e \in Editing(edit[e].c)
    BY <1>4 DEF EditCommit, Editing, Open
  <2>2. Editing(c)' \subseteq Editing(c)
    BY <1>4 DEF EditCommit, Editing, Open, WellInv, EditOK, NoEdit
  <2>3. CASE c = edit[e].c
    <3>1. In(c) # {} => Overlapped(c, "enroll")
      BY <2>1, <2>3 DEF FrozenInv, KeepsPlan
    <3> QED
      BY <1>0, <3>1 DEF KeepsPlan, In, Overlapped
  <2>4. CASE c # edit[e].c
    <3>1. Structure(c)' = Structure(c)
      BY <1>4, <2>4, SameStructure DEF EditCommit, WellInv, StepsOK
    <3> QED
      BY <1>0, <2>2, <3>1, PlanKept DEF FrozenInv
  <2> QED
    BY <2>3, <2>4
<1> QED
  BY <1>1, <1>2, <1>3, <1>4 DEF EditOn

LEMMA PlanOther ==
    ASSUME FrozenInv, UNCHANGED <<enrolled, planned, steps, edit>>, raced \subseteq raced' PROVE FrozenInv'
<1> SUFFICES ASSUME NEW c \in Campaigns PROVE KeepsPlan(c)'
  BY DEF FrozenInv
<1>1. Structure(c)' = Structure(c) /\ Editing(c)' = Editing(c)
  BY SameStructure DEF Editing, Open
<1> QED
  BY <1>1, PlanKept DEF FrozenInv

LEMMA NextFrozen == WellInv /\ FrozenInv /\ [Next]_vars => FrozenInv'
<1> SUFFICES ASSUME WellInv, FrozenInv, [Next]_vars PROVE FrozenInv'
  OBVIOUS
<1>1. CASE UNCHANGED vars
  BY <1>1, PlanOther DEF vars
<1>2. ASSUME NEW c \in Campaigns, Create(c) PROVE FrozenInv'
  BY <1>2, PlanCreate
<1>3. ASSUME NEW c \in Campaigns, Pause(c) \/ CreateRule(c) \/ DeleteRule(c) PROVE FrozenInv'
  BY <1>3, PlanOther DEF Pause, CreateRule, DeleteRule, People
<1>4. ASSUME NEW c \in Campaigns, NEW s \in StepIds, AddVariant(c, s) PROVE FrozenInv'
  BY <1>4, PlanVariant
<1>5. ASSUME NEW e \in Editors, EditOn(e) PROVE FrozenInv'
  BY <1>5, PlanEdit
<1>6. ASSUME NEW a \in Activations, ActOn(a) PROVE FrozenInv'
  <2>1. CASE ActCommit(a)
    <3>1. act[a].adds \subseteq Leads \X Campaigns
      BY <2>1, ActIs, CreatedType DEF ActCommit
    <3>2. Enroll(act[a].adds) /\ UNCHANGED <<steps, edit>>
      BY <2>1 DEF ActCommit
    <3> QED
      BY <3>1, <3>2, PlanEnroll DEF FrozenInv
  <2>2. CASE Activate(a) \/ Score(a) \/ ActFails(a)
    BY <2>2, PlanOther DEF Activate, Score, ActFails, People
  <2> QED
    BY <1>6, <2>1, <2>2 DEF ActOn
<1>7. ASSUME NEW l \in Leads, Suppress(l) PROVE FrozenInv'
  BY <1>7, PlanOther DEF Suppress
<1>8. CASE SourcesChange
  BY <1>8, PlanOther DEF SourcesChange, People
<1>9. ASSUME NEW w \in Sweeps, SweepOn(w) PROVE FrozenInv'
  <2>1. CASE SweepCommit(w)
    <3>1. sweep[w].adds \subseteq Leads \X Campaigns
      BY SweepIs, CreatedType
    <3>2. Enroll(sweep[w].adds) /\ UNCHANGED <<steps, edit>>
      BY <2>1 DEF SweepCommit
    <3> QED
      BY <3>1, <3>2, PlanEnroll DEF FrozenInv
  <2>2. CASE Collect(w) \/ Fire(w) \/ SweepFails(w)
    <3>1. raced \subseteq raced'
      BY <2>2 DEF Collect, Fire, SweepFails
    <3> QED
      BY <2>2, <3>1, PlanOther DEF Collect, Fire, SweepFails, People
  <2> QED
    BY <1>9, <2>1, <2>2 DEF SweepOn
<1>10. ASSUME NEW d \in DryRuns, DryOn(d) PROVE FrozenInv'
  <2>1. UNCHANGED Rest
    BY <1>10 DEF DryOn, StartDryRun, TakeDryRun, DryItem, DryEnds, DryDies
  <2> QED
    BY <2>1, PlanOther DEF Rest, People
<1> QED
  BY <1>1, <1>2, <1>3, <1>4, <1>5, <1>6, <1>7, <1>8, <1>9, <1>10 DEF Next

(* add_step's guard works: the sequence a lead is in stays as it was when  *)
(* the first lead came, unless an edit was open at that moment.            *)
THEOREM SequenceStays == Spec => []SequenceFrozen
<1>1. FrozenInv => SequenceFrozen
  BY DEF FrozenInv, KeepsPlan, SequenceFrozen, Created
<1> QED
  BY <1>1, InitFrozen, NextFrozen, WellHolds, PTL DEF Spec

-----------------------------------------------------------------------------
(* Numbers: with o the order of each step, n of them are numbered 1 to n.  *)

Num(o, n) ==
    /\ {o[s] : s \in {x \in StepIds : o[x] > 0}} = 1..n
    /\ \A s, t \in StepIds : o[s] > 0 /\ o[s] = o[t] => s = t

(* A step behind the last.                                                 *)
LEMMA AddNumbers ==
    ASSUME NEW o \in [StepIds -> Nat], NEW n \in Nat, Num(o, n), NEW e \in StepIds, ~(o[e] > 0),
           NEW last \in StepIds, \A x \in StepIds : o[x] <= o[last],
           NEW q \in [StepIds -> Nat], \A x \in StepIds : q[x] = IF x = e THEN o[last] + 1 ELSE o[x]
    PROVE  Num(q, n + 1)
<1>1. o[last] = n
  <2>1. o[last] > 0 => o[last] \in 1..n
    BY DEF Num
  <2>2. n > 0 => \E x \in StepIds : o[x] = n
    <3>1. n > 0 => n \in 1..n
      OBVIOUS
    <3> QED
      BY <3>1 DEF Num
  <2>3. o[last] \in Nat
    OBVIOUS
  <2>4. CASE n > 0
    <3>1. PICK x \in StepIds : o[x] = n
      BY <2>2, <2>4
    <3> QED
      BY <2>1, <2>3, <2>4, <3>1
  <2>5. CASE n = 0
    BY <2>1, <2>3, <2>5
  <2> QED
    BY <2>4, <2>5
<1>2. ASSUME NEW x \in StepIds, q[x] > 0 PROVE q[x] \in 1..(n + 1)
  <2>1. CASE x = e
    BY <1>1, <2>1
  <2>2. CASE x # e
    <3>1. o[x] \in 1..n
      BY <1>2, <2>2 DEF Num
    <3> QED
      BY <2>2, <3>1
  <2> QED
    BY <2>1, <2>2
<1>3. ASSUME NEW k \in 1..(n + 1) PROVE \E x \in StepIds : q[x] > 0 /\ q[x] = k
  <2>1. CASE k = n + 1
    BY <1>1, <2>1
  <2>2. CASE k \in 1..n
    <3>1. PICK x \in StepIds : o[x] > 0 /\ o[x] = k
      BY <2>2 DEF Num
    <3>2. x # e
      BY <3>1
    <3> QED
      BY <3>1, <3>2
  <2> QED
    BY <2>1, <2>2
<1>4. ASSUME NEW s \in StepIds, NEW t \in StepIds, q[s] > 0, q[s] = q[t] PROVE s = t
  <2>1. ASSUME NEW x \in StepIds PROVE o[x] < n + 1
    BY <1>1
  <2> QED
    BY <1>1, <1>4, <2>1 DEF Num
<1>5. {q[s] : s \in {x \in StepIds : q[x] > 0}} = 1..(n + 1)
  BY <1>2, <1>3
<1> QED
  BY <1>4, <1>5 DEF Num

(* Without step t, those behind it move up.                                *)
LEMMA DeleteNumbers ==
    ASSUME NEW o \in [StepIds -> Nat], NEW n \in Nat, Num(o, n), NEW t \in StepIds, o[t] > 0,
           NEW q \in [StepIds -> Nat],
           \A x \in StepIds : q[x] = IF x = t THEN 0 ELSE IF o[x] > o[t] THEN o[x] - 1 ELSE o[x]
    PROVE  n - 1 \in Nat /\ Num(q, n - 1)
<1>1. o[t] \in 1..n
  BY DEF Num
<1>2. ASSUME NEW x \in StepIds, q[x] > 0 PROVE q[x] \in 1..(n - 1)
  <2>1. x # t /\ o[x] > 0
    BY <1>2
  <2>2. o[x] \in 1..n /\ o[x] # o[t]
    BY <2>1 DEF Num
  <2> QED
    BY <1>1, <1>2, <2>1, <2>2
<1>3. ASSUME NEW k \in 1..(n - 1) PROVE \E x \in StepIds : q[x] > 0 /\ q[x] = k
  <2>1. CASE k < o[t]
    <3>1. PICK x \in StepIds : o[x] > 0 /\ o[x] = k
      BY <1>1 DEF Num
    <3> QED
      BY <2>1, <3>1
  <2>2. CASE k >= o[t]
    <3>1. k + 1 \in 1..n
      OBVIOUS
    <3>2. PICK x \in StepIds : o[x] > 0 /\ o[x] = k + 1
      BY <3>1 DEF Num
    <3> QED
      BY <2>2, <3>2
  <2> QED
    BY <1>1, <2>1, <2>2
<1>4. ASSUME NEW s \in StepIds, NEW u \in StepIds, q[s] > 0, q[s] = q[u] PROVE s = u
  <2>1. s # t /\ u # t /\ o[s] > 0 /\ o[u] > 0
    BY <1>4
  <2>2. o[s] # o[t] /\ o[u] # o[t]
    BY <2>1 DEF Num
  <2>3. o[s] = o[u]
    BY <1>4, <2>1, <2>2
  <2> QED
    BY <2>1, <2>3 DEF Num
<1>5. {q[s] : s \in {x \in StepIds : q[x] > 0}} = 1..(n - 1)
  BY <1>2, <1>3
<1> QED
  BY <1>1, <1>4, <1>5 DEF Num

LEMMA NumCardinality ==
    ASSUME NEW o \in [StepIds -> Nat], NEW n \in Nat, Num(o, n)
    PROVE  Cardinality({x \in StepIds : o[x] > 0}) = n
<1> DEFINE R == {x \in StepIds : o[x] > 0}
           F == [x \in R |-> o[x]]
<1>1. F \in [R -> 1..n]
  BY DEF Num
<1>2. \A a, b \in R : F[a] = F[b] => a = b
  BY DEF Num
<1>3. \A k \in 1..n : \E s \in R : F[s] = k
  BY DEF Num
<1> HIDE DEF R, F
<1>4. F \in Bijection(R, 1..n)
  BY <1>1, <1>2, <1>3, Fun_IsBij
<1>5. ExistsBijection(R, 1..n)
  BY <1>4, Fun_ExistsBij
<1>6. ExistsBijection(1..n, R)
  BY <1>5, Fun_ExistsBijSymmetric
<1>7. Cardinality(R) = n
  BY <1>6, FS_CountingElements
<1> QED
  BY <1>7 DEF R

-----------------------------------------------------------------------------
(* Steps in order: while edits of a campaign do not overlap, what the one  *)
(* edit has read and is about to write still fits the rows as they are.    *)

Orders(c) == [s \in StepIds |-> steps[c][s].order]

Current(e) ==
    LET c == edit[e].c  s == edit[e].step  at == edit[e].at
    IN  /\ edit[e].kind = "add" =>
             /\ s = e /\ e \notin Rows(c)
             /\ \E t \in StepIds : Last(c, t) /\ at = steps[c][t].order + 1
        /\ edit[e].kind # "add" => s \in Rows(c) /\ steps[c][s].order = at
        /\ edit[e].kind = "channel" /\ ~Overlapped(c, "variant") => ~steps[c][s].copy
        /\ edit[e].pc = "written" => edit[e].rows \in Changed(e)

Copied(c) ==
    /\ \A s \in StepIds : steps[c][s].copy => s \in Rows(c)
    /\ Overlapped(c, "variant") \/ \A s \in Rows(c) : steps[c][s].copy => steps[c][s].channel = "email"

Ordered(c) ==
    /\ \E n \in Nat : Num(Orders(c), n)
    /\ \A e, x \in Editing(c) : e = x
    /\ \A e \in Editing(c) : Current(e)
    /\ Copied(c)

OrderInv == \A c \in Campaigns : c \in Created /\ ~Overlapped(c, "edit") => Ordered(c)

LEMMA InitOrder == Init => OrderInv
BY DEF Init, OrderInv, Created

(* Changed and Current depend on an edit, its campaign's steps and history.*)
LEMMA SameCurrent ==
    ASSUME NEW e, edit'[e] = edit[e], steps'[edit[e].c] = steps[edit[e].c], raced \subseteq raced',
           Current(e)
    PROVE  Current(e)'
<1> DEFINE c == edit[e].c
<1>1. Rows(c)' = Rows(c)
  BY DEF Rows
<1>2. \A s, at : AfterDelete(c, s, at)' = AfterDelete(c, s, at)
  BY <1>1 DEF AfterDelete
<1>3. Changed(e)' = Changed(e)
  BY <1>1, <1>2 DEF Changed
<1>4. \A t : Last(c, t)' = Last(c, t)
  BY DEF Last
<1>5. Overlapped(c, "variant") => Overlapped(c, "variant")'
  BY DEF Overlapped
<1> QED
  BY <1>1, <1>3, <1>4, <1>5 DEF Current

LEMMA OrderKept ==
    ASSUME NEW c \in Campaigns, c \in Created /\ ~Overlapped(c, "edit") => Ordered(c),
           c \in Created' => c \in Created, steps'[c] = steps[c], raced \subseteq raced',
           \A e \in Editing(c)' : e \in Editing(c) /\ edit'[e] = edit[e]
    PROVE  (c \in Created /\ ~Overlapped(c, "edit") => Ordered(c))'
<1> SUFFICES ASSUME c \in Created', ~Overlapped(c, "edit")' PROVE Ordered(c)'
  OBVIOUS
<1>1. Ordered(c)
  BY DEF Overlapped
<1>2. Orders(c)' = Orders(c) /\ Rows(c)' = Rows(c)
  BY DEF Orders, Rows
<1>3. (\E n \in Nat : Num(Orders(c), n))'
  BY <1>1, <1>2 DEF Ordered, Num
<1>4. ASSUME NEW e \in Editing(c)' PROVE Current(e)'
  <2>1. Current(e) /\ edit[e].c = c /\ edit'[e] = edit[e]
    BY <1>1, <1>4 DEF Ordered, Editing
  <2> QED
    BY <2>1, SameCurrent
<1>5. Copied(c)'
  BY <1>1, <1>2 DEF Ordered, Copied, Overlapped
<1>6. \A e, x \in Editing(c)' : e = x
  BY <1>1 DEF Ordered
<1> QED
  BY <1>3, <1>4, <1>5, <1>6 DEF Ordered

LEMMA OrderOther ==
    ASSUME OrderInv, UNCHANGED <<steps, edit>>, Created' \subseteq Created, raced \subseteq raced'
    PROVE  OrderInv'
<1> SUFFICES ASSUME NEW c \in Campaigns PROVE (c \in Created /\ ~Overlapped(c, "edit") => Ordered(c))'
  BY DEF OrderInv
<1>1. \A e \in Editing(c)' : e \in Editing(c) /\ edit'[e] = edit[e]
  BY DEF Editing, Open
<1> QED
  BY <1>1, OrderKept DEF OrderInv

LEMMA OrderCreate ==
    ASSUME WellInv, OrderInv, NEW x \in Campaigns, Create(x) PROVE OrderInv'
<1> SUFFICES ASSUME NEW c \in Campaigns PROVE (c \in Created /\ ~Overlapped(c, "edit") => Ordered(c))'
  BY DEF OrderInv
<1>1. Editing(c)' = Editing(c)
  BY DEF Create, Editing, Open
<1>2. CASE c # x
  <2>1. steps'[c] = steps[c] /\ (c \in Created' => c \in Created)
    BY <1>2 DEF Create, Created, WellInv, StepsOK
  <2> QED
    BY <1>1, <2>1, OrderKept DEF OrderInv, Create
<1>3. CASE c = x
  <2>1. Editing(c) = {}
    BY <1>3 DEF Create, Created, Editing, WellInv, EditOK
  <2>2. \A s \in StepIds : steps'[c][s] = IF s \in 1..Planned THEN [NoStep EXCEPT !.order = s] ELSE NoStep
    BY <1>3 DEF Create, WellInv, StepsOK
  <2>3. \A s \in StepIds : /\ steps'[c][s].order = IF s \in 1..Planned THEN s ELSE 0
                           /\ steps'[c][s].copy = FALSE
    <3>1. ASSUME NEW s \in StepIds
          PROVE  /\ steps'[c][s].order = IF s \in 1..Planned THEN s ELSE 0
                 /\ steps'[c][s].copy = FALSE
      <4>1. CASE s \in 1..Planned
        <5>1. steps'[c][s] = [NoStep EXCEPT !.order = s]
          BY <2>2, <4>1
        <5> QED
          BY <4>1, <5>1 DEF NoStep
      <4>2. CASE s \notin 1..Planned
        <5>1. steps'[c][s] = NoStep
          BY <2>2, <4>2
        <5> QED
          BY <4>2, <5>1 DEF NoStep
      <4> QED
        BY <4>1, <4>2
    <3> QED
      BY <3>1
  <2>4. Num(Orders(c)', Planned)
    <3>1. Orders(c)' = [s \in StepIds |-> IF s \in 1..Planned THEN s ELSE 0]
      BY <2>3 DEF Orders
    <3> QED
      BY <3>1, StepIdsType DEF Num
  <2>5. Copied(c)'
    BY <2>3 DEF Copied, Rows
  <2> QED
    BY <1>1, <2>1, <2>4, <2>5 DEF Ordered, Num
<1> QED
  BY <1>2, <1>3

LEMMA OrderVariant ==
    ASSUME WellInv, OrderInv, NEW x \in Campaigns, NEW v \in StepIds, AddVariant(x, v) PROVE OrderInv'
<1> SUFFICES ASSUME NEW c \in Campaigns PROVE (c \in Created /\ ~Overlapped(c, "edit") => Ordered(c))'
  BY DEF OrderInv
<1>1. Editing(c)' = Editing(c) /\ Created' = Created /\ edit' = edit /\ raced \subseteq raced'
  BY DEF AddVariant, Editing, Open, Created
<1>2. CASE c # x
  <2>1. steps'[c] = steps[c]
    BY <1>2 DEF AddVariant, WellInv, StepsOK
  <2> QED
    BY <1>1, <2>1, OrderKept DEF OrderInv
<1>3. CASE c = x
  <2> SUFFICES ASSUME c \in Created, ~Overlapped(c, "edit")' PROVE Ordered(c)'
    BY <1>1
  <2>1. Ordered(c)
    BY <1>1 DEF OrderInv, Overlapped
  <2>2. /\ \A s \in StepIds : /\ steps'[c][s].order = steps[c][s].order
                              /\ steps'[c][s].channel = steps[c][s].channel
                              /\ steps'[c][s].copy = (s = v \/ steps[c][s].copy)
                              /\ s # v => steps'[c][s] = steps[c][s]
        /\ v \in Rows(c) /\ steps[c][v].channel = "email"
    <3>1. \A s \in StepIds : steps'[c][s] = IF s = v THEN [steps[c][v] EXCEPT !.copy = TRUE] ELSE steps[c][s]
      BY <1>3 DEF AddVariant, WellInv, StepsOK
    <3>2. steps[c][v] \in Step /\ v \in Rows(c) /\ steps[c][v].channel = "email"
      BY <1>3 DEF AddVariant, WellInv, StepsOK
    <3>3. ASSUME NEW row \in Step
          PROVE  /\ [row EXCEPT !.copy = TRUE].order = row.order
                 /\ [row EXCEPT !.copy = TRUE].channel = row.channel
                 /\ [row EXCEPT !.copy = TRUE].copy = TRUE
      BY DEF Step
    <3>4. /\ steps'[c][v].order = steps[c][v].order
          /\ steps'[c][v].channel = steps[c][v].channel
          /\ steps'[c][v].copy = TRUE
      BY <3>1, <3>2, <3>3
    <3>5. \A s \in StepIds : s # v => steps'[c][s] = steps[c][s]
      BY <3>1
    <3>6. \A s \in StepIds : steps[c][s].copy \in BOOLEAN
      BY <1>3 DEF WellInv, StepsOK, Step
    <3> QED
      BY <3>2, <3>4, <3>5, <3>6
  <2>3. Rows(c)' = Rows(c) /\ Orders(c)' = Orders(c)
    BY <2>2 DEF Rows, Orders
  <2>4. ASSUME NEW e \in Editing(c) PROVE Current(e)'
    <3>1. edit[e].c = c /\ Current(e) /\ <<c, "variant">> \in raced' /\ v \notin DOMAIN edit[e].rows
      BY <1>3, <2>1, <2>4 DEF Ordered, Editing, AddVariant
    <3>2. \A t \in StepIds : Last(c, t) => Last(c, t)'
      BY <2>2 DEF Last
    <3>3. ASSUME edit[e].pc = "written" PROVE edit[e].rows \in Changed(e)'
      <4> DEFINE s == edit[e].step  at == edit[e].at  rows == edit[e].rows
      <4>0. s \in StepIds /\ edit[e].kind \in {"add", "delete", "channel"}
        BY <2>4, EditIs DEF Editing, WellInv
      <4>1. rows \in Changed(e)
        BY <3>1, <3>3 DEF Current
      <4>2. CASE edit[e].kind = "add"
        BY <1>1, <3>1, <4>1, <4>2 DEF Changed
      <4>3. CASE edit[e].kind = "delete"
        <5>1. rows = AfterDelete(c, s, at)
          BY <3>1, <4>1, <4>3 DEF Changed
        <5>2. DOMAIN rows = {s} \cup {y \in Rows(c) : steps[c][y].order > at}
          BY <5>1 DEF AfterDelete
        <5>3. {y \in Rows(c) : steps[c][y].order > at} = {y \in Rows(c) : steps'[c][y].order > at}
          BY <2>2 DEF Rows
        <5>4. \A y \in DOMAIN rows : steps'[c][y] = steps[c][y]
          BY <2>2, <3>1, <4>0, <5>2 DEF Rows
        <5>5. AfterDelete(c, s, at)' = [y \in DOMAIN rows |->
                IF y = s THEN NoStep ELSE [steps'[c][y] EXCEPT !.order = @ - 1]]
          BY <1>1, <2>3, <5>2, <5>3 DEF AfterDelete
        <5>6. rows = [y \in DOMAIN rows |-> IF y = s THEN NoStep ELSE [steps[c][y] EXCEPT !.order = @ - 1]]
          BY <5>1, <5>2 DEF AfterDelete
        <5>7. rows = AfterDelete(c, s, at)'
          BY <5>4, <5>5, <5>6
        <5> QED
          BY <1>1, <3>1, <4>3, <5>7 DEF Changed
      <4>4. CASE edit[e].kind = "channel"
        <5>1. rows = [y \in {s} |-> [steps[c][s] EXCEPT !.channel = IF @ = "email" THEN "call_task" ELSE "email"]]
          BY <3>1, <4>1, <4>4 DEF Changed
        <5>2. steps'[c][s] = steps[c][s]
          BY <2>2, <3>1, <4>0, <5>1
        <5> QED
          BY <1>1, <3>1, <4>4, <5>1, <5>2 DEF Changed
      <4> QED
        BY <4>0, <4>2, <4>3, <4>4
    <3>4. edit[e].step \in StepIds
      BY <2>4, EditIs DEF Editing, WellInv
    <3> QED
      BY <1>1, <2>2, <2>3, <3>1, <3>2, <3>3, <3>4 DEF Current, Overlapped
  <2>5. Copied(c)'
    BY <1>1, <2>1, <2>2, <2>3 DEF Ordered, Copied, Overlapped, Rows
  <2>6. (\E n \in Nat : Num(Orders(c), n))'
    BY <2>1, <2>3 DEF Ordered, Num
  <2> QED
    BY <1>1, <2>1, <2>4, <2>5, <2>6 DEF Ordered
<1> QED
  BY <1>2, <1>3

LEMMA OrderStart ==
    ASSUME WellInv, OrderInv, NEW e \in Editors, EditStart(e) PROVE OrderInv'
<1>1. PICK x \in Created, kind \in {"add", "delete", "channel"}, s \in StepIds, at \in Nat :
         /\ Start(e, x, kind, s, at)
         /\ kind = "add" => s = e /\ e \notin Rows(x) /\ \E y \in StepIds : Last(x, y) /\ at = steps[x][y].order + 1
         /\ kind # "add" => s \in Rows(x) /\ at = steps[x][s].order
         /\ kind = "channel" => ~steps[x][s].copy
  BY Starts
<1>2. /\ edit'[e] = [NoEdit EXCEPT !.pc = "checked", !.c = x, !.kind = kind, !.step = s, !.at = at]
      /\ \A y \in Editors : y # e => edit'[y] = edit[y]
      /\ ~Open(e) /\ raced' = raced \cup {<<x, "edit">> : y \in Editing(x)}
      /\ UNCHANGED <<status, steps>>
  <2>1. DOMAIN edit = Editors
    BY DEF WellInv, EditOK
  <2>2. edit' = [edit EXCEPT ![e] = [NoEdit EXCEPT !.pc = "checked", !.c = x, !.kind = kind,
                                                   !.step = s, !.at = at]]
    BY <1>1 DEF Start
  <2>3. ~Open(e)
    BY DEF EditStart, Open, NoEdit
  <2>4. raced' = raced \cup {<<x, "edit">> : y \in Editing(x)} /\ UNCHANGED <<status, steps>>
    BY <1>1 DEF Start
  <2> QED
    BY <2>1, <2>2, <2>3, <2>4
<1>3. /\ edit'[e].pc = "checked" /\ edit'[e].c = x /\ edit'[e].kind = kind /\ edit'[e].step = s
      /\ edit'[e].at = at
  BY <1>2 DEF NoEdit
<1> SUFFICES ASSUME NEW c \in Campaigns PROVE (c \in Created /\ ~Overlapped(c, "edit") => Ordered(c))'
  BY DEF OrderInv
<1>4. Created' = Created
  BY <1>2, SameCreated
<1>5. CASE c # x
  <2>1. \A y \in Editing(c)' : y \in Editing(c) /\ edit'[y] = edit[y]
    BY <1>2, <1>3, <1>5 DEF Editing, Open
  <2> QED
    BY <1>2, <1>4, <2>1, OrderKept DEF OrderInv
<1>6. CASE c = x
  <2> SUFFICES ASSUME ~Overlapped(c, "edit")' PROVE Ordered(c)'
    OBVIOUS
  <2>1. Editing(c) = {} /\ Ordered(c)
    BY <1>1, <1>2, <1>6 DEF Overlapped, OrderInv
  <2>2. \A y \in Editing(c)' : y = e
    BY <1>2, <2>1 DEF Editing, Open
  <2>3. Rows(c)' = Rows(c) /\ Orders(c)' = Orders(c)
    BY <1>2 DEF Rows, Orders
  <2>4. Current(e)'
    <3>1. \A t \in StepIds : Last(c, t)' = Last(c, t)
      BY <1>2 DEF Last
    <3> QED
      BY <1>1, <1>2, <1>3, <1>6, <2>3, <3>1 DEF Current
  <2>5. Copied(c)'
    BY <1>2, <2>1, <2>3 DEF Ordered, Copied, Overlapped
  <2>6. (\E n \in Nat : Num(Orders(c), n))'
    BY <2>1, <2>3 DEF Ordered, Num
  <2> QED
    BY <2>2, <2>4, <2>5, <2>6 DEF Ordered
<1> QED
  BY <1>5, <1>6

LEMMA OrderWrite ==
    ASSUME WellInv, OrderInv, NEW e \in Editors, EditWrite(e) PROVE OrderInv'
<1>1. PICK rows \in Changed(e) : edit' = [edit EXCEPT ![e].pc = "written", ![e].rows = rows]
  BY DEF EditWrite
<1>2. /\ edit'[e].pc = "written" /\ edit'[e].c = edit[e].c /\ edit'[e].kind = edit[e].kind
      /\ edit'[e].step = edit[e].step /\ edit'[e].at = edit[e].at /\ edit'[e].rows = rows
      /\ \A y \in Editors : y # e => edit'[y] = edit[y]
      /\ edit[e].pc = "checked" /\ UNCHANGED <<status, steps, raced>>
  BY <1>1 DEF EditWrite, WellInv, EditOK, Edit
<1> SUFFICES ASSUME NEW c \in Campaigns PROVE (c \in Created /\ ~Overlapped(c, "edit") => Ordered(c))'
  BY DEF OrderInv
<1>3. Created' = Created /\ Editing(c)' = Editing(c)
  BY <1>2, SameCreated DEF Editing, Open
<1>4. CASE e \notin Editing(c)
  <2>1. \A y \in Editing(c)' : y \in Editing(c) /\ edit'[y] = edit[y]
    BY <1>2, <1>3, <1>4 DEF Editing
  <2> QED
    BY <1>2, <1>3, <2>1, OrderKept DEF OrderInv
<1>5. CASE e \in Editing(c)
  <2> SUFFICES ASSUME c \in Created, ~Overlapped(c, "edit") PROVE Ordered(c)'
    BY <1>2, <1>3 DEF Overlapped
  <2>1. Ordered(c) /\ edit[e].c = c
    BY <1>5 DEF OrderInv, Editing
  <2>2. Rows(c)' = Rows(c) /\ Orders(c)' = Orders(c)
    BY <1>2 DEF Rows, Orders
  <2>3. \A s, at : AfterDelete(c, s, at)' = AfterDelete(c, s, at)
    BY <1>2, <2>2 DEF AfterDelete
  <2>4. Changed(e)' = Changed(e)
    BY <1>2, <2>1, <2>3 DEF Changed
  <2>5. Current(e)
    BY <1>5, <2>1 DEF Ordered
  <2>6. Current(e)'
    <3>1. \A t \in StepIds : Last(c, t)' = Last(c, t)
      BY <1>2 DEF Last
    <3> QED
      BY <1>2, <2>1, <2>2, <2>4, <2>5, <3>1 DEF Current, Overlapped
  <2>7. Copied(c)'
    BY <1>2, <2>1, <2>2 DEF Ordered, Copied, Overlapped
  <2>8. (\E n \in Nat : Num(Orders(c), n))'
    BY <2>1, <2>2 DEF Ordered, Num
  <2>9. \A y \in Editing(c)' : y = e
    BY <1>3, <1>5, <2>1 DEF Ordered
  <2> QED
    BY <2>6, <2>7, <2>8, <2>9 DEF Ordered
<1> QED
  BY <1>4, <1>5

(* The rows of an edit that fits, one by one.                              *)
LEMMA Writes ==
    ASSUME WellInv, NEW e \in Editors, edit[e].pc = "written", NEW c, c = edit[e].c, Current(e), Copied(c)
    PROVE  LET s == edit[e].step  at == edit[e].at  rows == edit[e].rows
           IN  /\ s \in DOMAIN rows
               /\ edit[e].kind = "add" =>
                    /\ DOMAIN rows = {s} /\ rows[s].order = at /\ ~rows[s].copy /\ ~steps[c][s].copy
               /\ edit[e].kind = "delete" =>
                    /\ DOMAIN rows = {s} \cup {y \in StepIds : steps[c][y].order > at}
                    /\ rows[s].order = 0 /\ ~rows[s].copy
                    /\ \A y \in DOMAIN rows \ {s} : /\ rows[y].order = steps[c][y].order - 1
                                                    /\ rows[y].copy = steps[c][y].copy
                                                    /\ rows[y].channel = steps[c][y].channel
               /\ edit[e].kind = "channel" =>
                    /\ DOMAIN rows = {s} /\ rows[s].order = at /\ rows[s].copy = steps[c][s].copy
<1> DEFINE s == edit[e].step  at == edit[e].at  rows == edit[e].rows
<1>0. s \in StepIds /\ at \in Nat /\ edit[e].kind \in {"add", "delete", "channel"} /\ c \in Campaigns
  BY EditIs, CreatedType DEF WellInv, Open
<1>1. rows \in Changed(e)
  BY DEF Current
<1>2. \A y \in StepIds : steps[c][y] \in Step
  BY <1>0 DEF WellInv, StepsOK
<1>3. CASE edit[e].kind = "add"
  <2>1. PICK ch \in {"email", "call_task"} :
           rows = [x \in {s} |-> [NoStep EXCEPT !.order = at, !.channel = ch]]
    BY <1>1, <1>3 DEF Changed
  <2>2. DOMAIN rows = {s} /\ rows[s] = [NoStep EXCEPT !.order = at, !.channel = ch]
    BY <2>1
  <2>3. rows[s].order = at /\ rows[s].copy = FALSE
    BY <2>2 DEF NoStep
  <2>4. s \notin Rows(c) => ~steps[c][s].copy
    BY <1>0 DEF Copied
  <2>5. s \notin Rows(c)
    BY <1>3 DEF Current
  <2> QED
    BY <1>3, <2>2, <2>3, <2>4, <2>5
<1>4. CASE edit[e].kind = "delete"
  <2>1. rows = AfterDelete(c, s, at)
    BY <1>1, <1>4 DEF Changed
  <2>2. DOMAIN rows = {s} \cup {y \in StepIds : steps[c][y].order > at}
    <3>1. \A y \in StepIds : steps[c][y].order > at => steps[c][y].order > 0
      BY <1>0, <1>2 DEF Step
    <3> QED
      BY <2>1, <3>1 DEF AfterDelete, Rows
  <2>3. rows[s] = NoStep
    BY <2>1 DEF AfterDelete
  <2>4. ASSUME NEW y \in DOMAIN rows, y # s
        PROVE  /\ rows[y].order = steps[c][y].order - 1
               /\ rows[y].copy = steps[c][y].copy /\ rows[y].channel = steps[c][y].channel
    <3>1. rows[y] = [steps[c][y] EXCEPT !.order = @ - 1]
      BY <2>1, <2>4 DEF AfterDelete
    <3>2. steps[c][y] \in Step
      BY <1>2, <2>2, <2>4
    <3> QED
      BY <3>1, <3>2 DEF Step
  <2>5. rows[s].order = 0 /\ rows[s].copy = FALSE
    BY <2>3 DEF NoStep
  <2> QED
    BY <1>4, <2>2, <2>4, <2>5
<1>5. CASE edit[e].kind = "channel"
  <2>1. rows = [x \in {s} |-> [steps[c][s] EXCEPT !.channel = IF @ = "email" THEN "call_task" ELSE "email"]]
    BY <1>1, <1>5 DEF Changed
  <2>2. DOMAIN rows = {s} /\ rows[s] = [steps[c][s] EXCEPT !.channel = IF @ = "email" THEN "call_task" ELSE "email"]
    BY <2>1
  <2>3. rows[s].order = steps[c][s].order /\ rows[s].copy = steps[c][s].copy
    BY <1>0, <1>2, <2>2 DEF Step
  <2>4. steps[c][s].order = at
    BY <1>5 DEF Current
  <2> QED
    BY <1>5, <2>2, <2>3, <2>4
<1> QED
  BY <1>0, <1>3, <1>4, <1>5

LEMMA OrderCommit ==
    ASSUME WellInv, OrderInv, NEW e \in Editors, EditCommit(e) PROVE OrderInv'
<1>0. PICK c, s, at, rows : c = edit[e].c /\ s = edit[e].step /\ at = edit[e].at /\ rows = edit[e].rows
  OBVIOUS
<1>1. /\ c \in Created /\ c \in Campaigns /\ s \in StepIds /\ at \in Nat /\ DOMAIN rows \subseteq StepIds
      /\ rows \in [DOMAIN rows -> Step] /\ edit[e].kind \in {"add", "delete", "channel"}
      /\ e \in Editing(c) /\ edit[e].pc = "written"
  BY <1>0, EditIs, CreatedType DEF WellInv, EditCommit, Open, Editing
<1>2. /\ edit'[e] = NoEdit /\ \A y \in Editors : y # e => edit'[y] = edit[y]
      /\ UNCHANGED <<status, raced>> /\ Created' = Created
      /\ \A x \in Campaigns : x # c => steps'[x] = steps[x]
  BY <1>0, SameCreated DEF EditCommit, WellInv, EditOK, StepsOK
<1>3. /\ \A x \in StepIds : x \notin DOMAIN rows => steps'[c][x] = steps[c][x]
      /\ \A x \in DOMAIN rows :
            steps'[c][x] = [rows[x] EXCEPT !.copy = @ \/ (rows[x].order > 0 /\ steps[c][x].copy)]
  BY <1>0, <1>1 DEF EditCommit, WellInv, StepsOK
<1>4. \A x \in DOMAIN rows : /\ steps'[c][x].order = rows[x].order
                             /\ steps'[c][x].channel = rows[x].channel
                             /\ steps'[c][x].copy = (rows[x].copy \/ (rows[x].order > 0 /\ steps[c][x].copy))
  <2>1. ASSUME NEW row \in Step, NEW b \in BOOLEAN
        PROVE  /\ [row EXCEPT !.copy = b].order = row.order /\ [row EXCEPT !.copy = b].channel = row.channel
               /\ [row EXCEPT !.copy = b].copy = b
    BY DEF Step
  <2>2. ASSUME NEW x \in DOMAIN rows
        PROVE  /\ steps'[c][x].order = rows[x].order
               /\ steps'[c][x].channel = rows[x].channel
               /\ steps'[c][x].copy = (rows[x].copy \/ (rows[x].order > 0 /\ steps[c][x].copy))
    <3> DEFINE b == rows[x].copy \/ (rows[x].order > 0 /\ steps[c][x].copy)
    <3>1. rows[x] \in Step /\ steps'[c][x] = [rows[x] EXCEPT !.copy = b]
      BY <1>1, <1>3, <2>2
    <3>2. b \in BOOLEAN
      OBVIOUS
    <3> HIDE DEF b
    <3>3. /\ steps'[c][x].order = rows[x].order /\ steps'[c][x].channel = rows[x].channel
          /\ steps'[c][x].copy = b
      BY <2>1, <3>1, <3>2
    <3> QED
      BY <3>3 DEF b
  <2> QED
    BY <2>2
<1> SUFFICES ASSUME NEW x \in Campaigns PROVE (x \in Created /\ ~Overlapped(x, "edit") => Ordered(x))'
  BY DEF OrderInv
<1>5. \A y \in Editing(x)' : y \in Editing(x) /\ y # e /\ edit'[y] = edit[y]
  BY <1>2 DEF Editing, Open, NoEdit
<1>6. CASE x # c
  BY <1>2, <1>5, <1>6, OrderKept DEF OrderInv
<1>7. CASE x = c
  <2> SUFFICES ASSUME ~Overlapped(c, "edit") PROVE Ordered(c)'
    BY <1>2, <1>7 DEF Overlapped
  <2>1. Ordered(c) /\ Current(e) /\ Copied(c)
    BY <1>1 DEF OrderInv, Ordered
  <2>2. Editing(c)' = {}
    BY <1>1, <1>5, <1>7, <2>1 DEF Ordered
  <2>3. PICK n \in Nat : Num(Orders(c), n)
    BY <2>1 DEF Ordered
  <2> DEFINE o == Orders(c)
             q == [y \in StepIds |-> steps'[c][y].order]
  <2>4. /\ o \in [StepIds -> Nat] /\ \A y \in StepIds : o[y] = steps[c][y].order
        /\ \A y \in StepIds : steps[c][y] \in Step
    BY <1>1 DEF Orders, WellInv, StepsOK, Step
  <2>5. q \in [StepIds -> Nat] /\ \A y \in StepIds : q[y] = steps'[c][y].order
    <3>1. ASSUME NEW y \in StepIds PROVE steps'[c][y].order \in Nat
      <4>1. CASE y \in DOMAIN rows
        <5>1. rows[y] \in Step
          BY <1>1, <4>1
        <5> QED
          BY <1>4, <4>1, <5>1 DEF Step
      <4>2. CASE y \notin DOMAIN rows
        BY <1>3, <2>4, <4>2 DEF Step
      <4> QED
        BY <4>1, <4>2
    <3> QED
      BY <3>1
  <2>6. Orders(c)' = q
    BY DEF Orders
  <2> HIDE DEF o, q
  <2>7. (\E k \in Nat : Num(q, k)) /\ (\A y \in StepIds : steps'[c][y].copy => steps'[c][y].order > 0)
        /\ (~Overlapped(c, "variant") => \A y \in StepIds : steps'[c][y].copy => steps'[c][y].channel = "email")
    <3>0. Num(o, n)
      BY <2>3 DEF o
    <3>1. \A y \in StepIds : /\ steps[c][y].copy => steps[c][y].order > 0
                             /\ ~Overlapped(c, "variant") /\ steps[c][y].copy => steps[c][y].channel = "email"
      BY <2>1 DEF Copied, Rows
    <3>2. CASE edit[e].kind = "add"
      <4>1. DOMAIN rows = {s} /\ rows[s].order = at /\ ~rows[s].copy /\ ~steps[c][s].copy
        BY <1>0, <1>1, <2>1, <3>2, Writes
      <4>2. s \notin Rows(c) /\ \E t \in StepIds : Last(c, t) /\ at = steps[c][t].order + 1
        BY <1>0, <2>1, <3>2 DEF Current
      <4>3. PICK t \in StepIds : Last(c, t) /\ at = steps[c][t].order + 1
        BY <4>2
      <4>4. /\ ~(o[s] > 0) /\ \A y \in StepIds : o[y] <= o[t]
            /\ \A y \in StepIds : q[y] = IF y = s THEN o[t] + 1 ELSE o[y]
        BY <1>1, <1>3, <1>4, <2>4, <2>5, <4>1, <4>2, <4>3 DEF Last, Rows
      <4>5. Num(q, n + 1)
        BY <1>1, <2>3, <2>4, <2>5, <3>0, <4>4, AddNumbers
      <4>6. n + 1 \in Nat
        BY <2>3
      <4>7. \A y \in StepIds : steps'[c][y].copy => y # s /\ steps'[c][y] = steps[c][y]
        BY <1>3, <1>4, <4>1
      <4> QED
        BY <3>1, <4>5, <4>6, <4>7
    <3>3. CASE edit[e].kind = "delete"
      <4>1. /\ s \in DOMAIN rows
            /\ DOMAIN rows = {s} \cup {y \in StepIds : steps[c][y].order > at}
            /\ rows[s].order = 0 /\ ~rows[s].copy
            /\ \A y \in DOMAIN rows \ {s} : /\ rows[y].order = steps[c][y].order - 1
                                            /\ rows[y].copy = steps[c][y].copy
                                            /\ rows[y].channel = steps[c][y].channel
        BY <1>0, <1>1, <2>1, <3>3, Writes
      <4>2. o[s] > 0 /\ o[s] = at
        BY <1>0, <1>1, <2>1, <2>4, <3>3 DEF Current, Rows
      <4>3. ASSUME NEW y \in StepIds
            PROVE  q[y] = IF y = s THEN 0 ELSE IF o[y] > o[s] THEN o[y] - 1 ELSE o[y]
        <5>1. CASE y = s
          BY <1>4, <2>5, <4>1, <5>1
        <5>2. CASE y # s /\ o[y] > o[s]
          BY <1>4, <2>4, <2>5, <4>1, <4>2, <5>2
        <5>3. CASE y # s /\ ~(o[y] > o[s])
          BY <1>3, <2>4, <2>5, <4>1, <4>2, <5>3
        <5> QED
          BY <5>1, <5>2, <5>3
      <4>4. n - 1 \in Nat /\ Num(q, n - 1)
        BY <1>1, <2>3, <2>4, <2>5, <3>0, <4>2, <4>3, DeleteNumbers
      <4>5. ASSUME NEW y \in StepIds, steps'[c][y].copy
            PROVE  y # s /\ steps[c][y].copy /\ steps'[c][y].channel = steps[c][y].channel
        <5>1. CASE y \in DOMAIN rows
          <6>1. rows[y].copy \/ (rows[y].order > 0 /\ steps[c][y].copy)
            BY <1>4, <4>5, <5>1
          <6>2. y # s
            <7>1. ASSUME y = s PROVE FALSE
              <8>1. ~(rows[y].order > 0)
                BY <4>1, <7>1
              <8>2. ~rows[y].copy
                BY <4>1, <7>1
              <8> QED
                BY <6>1, <8>1, <8>2
            <7> QED
              BY <7>1
          <6>3. rows[y].copy = steps[c][y].copy /\ rows[y].channel = steps[c][y].channel
            BY <4>1, <5>1, <6>2
          <6>4. steps[c][y].copy
            BY <6>1, <6>3
          <6> QED
            BY <1>4, <5>1, <6>2, <6>3, <6>4
        <5>2. CASE y \notin DOMAIN rows
          BY <1>3, <4>1, <4>5, <5>2
        <5> QED
          BY <5>1, <5>2
      <4>6. ASSUME NEW y \in StepIds, steps'[c][y].copy PROVE steps'[c][y].order > 0
        <5>1. o[y] > 0 /\ y # s
          BY <2>4, <3>1, <4>5, <4>6
        <5> QED
          BY <1>1, <2>4, <2>5, <4>2, <4>3, <5>1
      <4> QED
        BY <3>1, <4>4, <4>5, <4>6
    <3>4. CASE edit[e].kind = "channel"
      <4>1. DOMAIN rows = {s} /\ rows[s].order = at /\ rows[s].copy = steps[c][s].copy
        BY <1>0, <1>1, <2>1, <3>4, Writes
      <4>2. steps[c][s].order = at
        BY <1>0, <2>1, <3>4 DEF Current
      <4>3. \A y \in StepIds : q[y] = o[y]
        BY <1>3, <1>4, <2>4, <2>5, <4>1, <4>2
      <4>4. q = o
        BY <2>4, <2>5, <4>3
      <4>5. ~Overlapped(c, "variant") => ~steps[c][s].copy
        BY <1>0, <2>1, <3>4 DEF Current
      <4>6. \A y \in StepIds : steps'[c][y].copy => steps[c][y].copy
        BY <1>3, <1>4, <4>1
      <4>7. \A y \in StepIds : y # s => steps'[c][y] = steps[c][y]
        BY <1>3, <4>1
      <4>8. \A y \in StepIds : steps'[c][y].order = steps[c][y].order
        BY <2>4, <2>5, <4>3
      <4> QED
        BY <2>3, <3>0, <3>1, <4>4, <4>5, <4>6, <4>7, <4>8
    <3> QED
      BY <1>1, <3>2, <3>3, <3>4
  <2>8. Copied(c)'
    BY <1>2, <2>7 DEF Copied, Overlapped, Rows
  <2>9. (\E k \in Nat : Num(Orders(c), k))'
    <3>1. PICK k \in Nat : Num(q, k)
      BY <2>7
    <3>2. Num(Orders(c)', k)
      BY <2>6, <3>1
    <3> QED
      BY <3>2 DEF Num
  <2> QED
    BY <2>2, <2>8, <2>9 DEF Ordered
<1> QED
  BY <1>6, <1>7

LEMMA OrderFails ==
    ASSUME WellInv, OrderInv, NEW e \in Editors, EditFails(e) PROVE OrderInv'
<1> SUFFICES ASSUME NEW c \in Campaigns PROVE (c \in Created /\ ~Overlapped(c, "edit") => Ordered(c))'
  BY DEF OrderInv
<1>1. \A y \in Editing(c)' : y \in Editing(c) /\ edit'[y] = edit[y]
  BY DEF EditFails, Editing, Open, NoEdit, WellInv, EditOK
<1>2. UNCHANGED <<status, steps, raced>> /\ Created' = Created
  BY SameCreated DEF EditFails
<1> QED
  BY <1>1, <1>2, OrderKept DEF OrderInv

LEMMA NextOrder == WellInv /\ OrderInv /\ [Next]_vars => OrderInv'
<1> SUFFICES ASSUME WellInv, OrderInv, [Next]_vars PROVE OrderInv'
  OBVIOUS
<1>1. CASE UNCHANGED vars
  BY <1>1, OrderOther, SameCreated DEF vars
<1>2. ASSUME NEW c \in Campaigns, Create(c) PROVE OrderInv'
  BY <1>2, OrderCreate
<1>3. ASSUME NEW c \in Campaigns, Pause(c) PROVE OrderInv'
  <2>1. Created' \subseteq Created
    BY <1>3 DEF Pause, Created, WellInv, StepsOK
  <2> QED
    BY <1>3, <2>1, OrderOther DEF Pause
<1>4. ASSUME NEW c \in Campaigns, CreateRule(c) \/ DeleteRule(c) PROVE OrderInv'
  BY <1>4, OrderOther, SameCreated DEF CreateRule, DeleteRule
<1>5. ASSUME NEW c \in Campaigns, NEW s \in StepIds, AddVariant(c, s) PROVE OrderInv'
  BY <1>5, OrderVariant
<1>6. ASSUME NEW e \in Editors, EditOn(e) PROVE OrderInv'
  BY <1>6, OrderStart, OrderWrite, OrderCommit, OrderFails DEF EditOn
<1>7. ASSUME NEW a \in Activations, ActOn(a) PROVE OrderInv'
  <2>1. CASE ActCommit(a)
    <3>1. Created' \subseteq Created
      BY <2>1, ActIs DEF ActCommit, Created, WellInv, StepsOK
    <3> QED
      BY <2>1, <3>1, OrderOther DEF ActCommit, Enroll
  <2>2. CASE Activate(a) \/ Score(a) \/ ActFails(a)
    BY <2>2, OrderOther, SameCreated DEF Activate, Score, ActFails
  <2> QED
    BY <1>7, <2>1, <2>2 DEF ActOn
<1>8. ASSUME NEW l \in Leads, Suppress(l) PROVE OrderInv'
  BY <1>8, OrderOther, SameCreated DEF Suppress
<1>9. CASE SourcesChange
  BY <1>9, OrderOther, SameCreated DEF SourcesChange
<1>10. ASSUME NEW w \in Sweeps, SweepOn(w) PROVE OrderInv'
  <2>1. raced \subseteq raced' /\ UNCHANGED <<status, steps, edit>>
    BY <1>10 DEF SweepOn, Collect, Fire, SweepCommit, SweepFails, Enroll
  <2> QED
    BY <2>1, OrderOther, SameCreated
<1>11. ASSUME NEW d \in DryRuns, DryOn(d) PROVE OrderInv'
  <2>1. UNCHANGED Rest
    BY <1>11 DEF DryOn, StartDryRun, TakeDryRun, DryItem, DryEnds, DryDies
  <2> QED
    BY <2>1, OrderOther, SameCreated DEF Rest
<1> QED
  BY <1>1, <1>2, <1>3, <1>4, <1>5, <1>6, <1>7, <1>8, <1>9, <1>10, <1>11 DEF Next

(* delete_step and add_step: without overlapping edits the steps of a      *)
(* campaign are numbered 1 to their number, and only e-mails have variants.*)
THEOREM StepsStayInOrder == Spec => []StepsInOrder
<1>1. WellInv /\ OrderInv => StepsInOrder
  <2> SUFFICES ASSUME WellInv, OrderInv, NEW c \in Created
               PROVE  /\ Overlapped(c, "edit") \/ {steps[c][s].order : s \in Rows(c)} = 1..Cardinality(Rows(c))
                      /\ Overlapped(c, "edit") \/ Overlapped(c, "variant")
                           \/ \A s \in Rows(c) : steps[c][s].copy => steps[c][s].channel = "email"
    BY DEF StepsInOrder
  <2> SUFFICES ASSUME ~Overlapped(c, "edit")
               PROVE  /\ {steps[c][s].order : s \in Rows(c)} = 1..Cardinality(Rows(c))
                      /\ Overlapped(c, "variant")
                           \/ \A s \in Rows(c) : steps[c][s].copy => steps[c][s].channel = "email"
    OBVIOUS
  <2>1. Ordered(c)
    BY CreatedType DEF OrderInv
  <2>2. PICK n \in Nat : Num(Orders(c), n)
    BY <2>1 DEF Ordered
  <2>3. Orders(c) \in [StepIds -> Nat] /\ \A s \in StepIds : Orders(c)[s] = steps[c][s].order
    BY CreatedType DEF Orders, WellInv, StepsOK, Step
  <2>4. {x \in StepIds : Orders(c)[x] > 0} = Rows(c)
    BY <2>3 DEF Rows
  <2>5. Cardinality(Rows(c)) = n
    BY <2>2, <2>3, <2>4, NumCardinality
  <2>6. {Orders(c)[s] : s \in Rows(c)} = 1..n
    BY <2>2, <2>4 DEF Num
  <2>7. {Orders(c)[s] : s \in Rows(c)} = {steps[c][s].order : s \in Rows(c)}
    BY <2>3 DEF Rows
  <2> QED
    BY <2>1, <2>5, <2>6, <2>7 DEF Ordered, Copied
<1> QED
  BY <1>1, InitOrder, NextOrder, WellHolds, PTL DEF Spec

-----------------------------------------------------------------------------
(* Signals: while sweeps do not overlap, the one under way compares with   *)
(* the baseline as it is, and versions behind it have no signal yet.       *)

Apart == \A c \in Campaigns : ~Overlapped(c, "sweep")

Watching(w) ==
    /\ sweep[w].base = baseline /\ sweep[w].now \in 0..page
    /\ baseline # Unseen => baseline <= sweep[w].now
    /\ \A p \in sweep[w].found \cap Pages : p = sweep[w].now
    /\ sweep[w].now \in sweep[w].found <=> baseline # Unseen /\ Moves(w)
    /\ \A k \in sweep[w].found \cap Links : signals[k] = 0

Recorded ==
    /\ baseline = Unseen <=> first = Unseen
    /\ baseline # Unseen => first <= baseline /\ baseline <= page
    /\ \A o \in Pages \cup Links : signals[o] <= 1
    /\ \A p \in Pages : signals[p] > 0 => baseline # Unseen /\ first < p /\ p <= baseline
    /\ baseline = Unseen \/ baseline = first \/ signals[baseline] = 1

SignalsInv ==
    Apart => /\ \A w, x \in Sweeping : w = x
             /\ \A w \in Sweeping : Watching(w)
             /\ Recorded

LEMMA InitSignals == Init => SignalsInv
<1> SUFFICES ASSUME Init PROVE SignalsInv
  OBVIOUS
<1>1. Sweeping = {}
  BY DEF Init, Sweeping, NoSweep
<1>2. Recorded
  BY DEF Init, Recorded
<1> QED
  BY <1>1, <1>2 DEF SignalsInv

LEMMA PageFacts ==
    ASSUME WellInv
    PROVE  /\ page \in Nat /\ page \in Pages /\ Pages \subseteq Nat /\ Unseen \notin Pages
           /\ Links \cap Pages = {} /\ baseline \in Pages \cup {Unseen} /\ first \in Pages \cup {Unseen}
           /\ signals \in [Pages \cup Links -> Nat] /\ feed \subseteq Links
BY DEF WellInv, SignalsOK, EventsOK, Pages

(* Steps that leave the sweeps and what they have recorded alone.          *)
LEMMA SignalsOther ==
    ASSUME WellInv, SignalsInv, UNCHANGED <<baseline, first, signals, sweep>>, raced \subseteq raced',
           page' \in Nat, page <= page'
    PROVE  SignalsInv'
<1> SUFFICES ASSUME Apart' PROVE (\A w, x \in Sweeping : w = x)' /\ (\A w \in Sweeping : Watching(w))' /\ Recorded'
  BY DEF SignalsInv
<1>1. Apart
  BY DEF Apart, Overlapped
<1>2. Sweeping' = Sweeping
  BY DEF Sweeping
<1>3. Recorded'
  BY <1>1, PageFacts DEF SignalsInv, Recorded
<1>4. ASSUME NEW w \in Sweeping PROVE Watching(w)'
  <2>1. Watching(w)
    BY <1>1, <1>4 DEF SignalsInv
  <2> QED
    BY <2>1, PageFacts DEF Watching, Moves
<1> QED
  BY <1>1, <1>2, <1>3, <1>4 DEF SignalsInv

LEMMA SignalsCollect ==
    ASSUME WellInv, SignalsInv, NEW w \in Sweeps, Collect(w) PROVE SignalsInv'
<1> SUFFICES ASSUME Apart' PROVE (\A v, x \in Sweeping : v = x)' /\ (\A v \in Sweeping : Watching(v))' /\ Recorded'
  BY DEF SignalsInv
<1>1. Sweeping = {} /\ Apart
  <2>1. PICK c : c \in Campaigns
    OBVIOUS
  <2> QED
    BY <2>1 DEF Collect, Apart, Overlapped
<1>2. UNCHANGED <<baseline, first, signals, page, feed>> /\ Recorded
  BY <1>1 DEF Collect, SignalsInv, Signals
<1>3. Recorded'
  BY <1>2 DEF Recorded
<1>4. \A v \in Sweeping' : v = w
  BY <1>1 DEF Sweeping, Collect, WellInv, SweepOK
<1>5. sweep'[w] = [NoSweep EXCEPT !.pc = "collected", !.base = baseline, !.now = page,
                                  !.found = PageNews \cup FeedNews]
  BY DEF Collect, WellInv, SweepOK
<1>6. sweep'[w].base = baseline /\ sweep'[w].now = page /\ sweep'[w].found = PageNews \cup FeedNews
  BY <1>5 DEF NoSweep
<1>7. Watching(w)'
  <2>1. baseline # Unseen => baseline <= page
    BY <1>2 DEF Recorded
  <2>2. \A p \in PageNews \cup FeedNews : p \in Pages => p = page
    BY PageFacts DEF PageNews, FeedNews
  <2>3. page \in PageNews \cup FeedNews <=> baseline # Unseen /\ page # baseline
    BY PageFacts DEF PageNews, FeedNews
  <2>4. \A k \in (PageNews \cup FeedNews) \cap Links : signals[k] = 0
    BY PageFacts DEF PageNews, FeedNews
  <2> QED
    BY <1>2, <1>6, <2>1, <2>2, <2>3, <2>4, PageFacts DEF Watching, Moves
<1> QED
  BY <1>3, <1>4, <1>7

LEMMA SignalsFire ==
    ASSUME WellInv, SignalsInv, NEW w \in Sweeps, Fire(w) PROVE SignalsInv'
<1> SUFFICES ASSUME Apart' PROVE (\A v, x \in Sweeping : v = x)' /\ (\A v \in Sweeping : Watching(v))' /\ Recorded'
  BY DEF SignalsInv
<1>1. Apart /\ UNCHANGED <<baseline, first, signals, page>>
  BY DEF Fire, Apart, Overlapped, Signals
<1>2. Recorded'
  BY <1>1 DEF SignalsInv, Recorded
<1>3. PICK adds : sweep' = [sweep EXCEPT ![w].pc = "fired", ![w].adds = adds]
  BY DEF Fire
<1>4. /\ w \in Sweeping /\ \A v \in Sweeps : v # w => sweep'[v] = sweep[v]
      /\ sweep'[w].base = sweep[w].base /\ sweep'[w].now = sweep[w].now /\ sweep'[w].found = sweep[w].found
  BY <1>3 DEF Fire, Sweeping, WellInv, SweepOK, Sweep
<1>5. Sweeping' \subseteq Sweeping
  BY <1>4 DEF Sweeping
<1>6. ASSUME NEW v \in Sweeping' PROVE v = w /\ Watching(v)'
  <2>1. v = w /\ Watching(w)
    BY <1>1, <1>4, <1>5, <1>6 DEF SignalsInv
  <2> QED
    BY <1>1, <1>4, <2>1 DEF Watching, Moves
<1> QED
  BY <1>2, <1>6

LEMMA SignalsCommit ==
    ASSUME WellInv, SignalsInv, NEW w \in Sweeps, SweepCommit(w) PROVE SignalsInv'
<1> SUFFICES ASSUME Apart' PROVE (\A v, x \in Sweeping : v = x)' /\ (\A v \in Sweeping : Watching(v))' /\ Recorded'
  BY DEF SignalsInv
<1>1. Apart
  BY DEF SweepCommit, Enroll, Apart, Overlapped
<1>2. w \in Sweeping /\ Watching(w) /\ \A v \in Sweeping : v = w
  BY <1>1 DEF SweepCommit, Sweeping, SignalsInv
<1>3. Sweeping' = {}
  BY <1>2 DEF SweepCommit, Sweeping, WellInv, SweepOK, NoSweep
<1>4. /\ baseline' = (IF Moves(w) THEN sweep[w].now ELSE baseline)
      /\ first' = (IF first = Unseen THEN baseline' ELSE first)
      /\ \A o \in Pages \cup Links : signals'[o] = IF o \in sweep[w].found THEN signals[o] + 1 ELSE signals[o]
      /\ page' = page
  BY PageFacts DEF SweepCommit
<1>5. /\ sweep[w].base = baseline /\ sweep[w].now \in 0..page
      /\ baseline # Unseen => baseline <= sweep[w].now
      /\ Moves(w) <=> sweep[w].now # baseline
  BY <1>2 DEF Watching, Moves
<1>6. /\ baseline = Unseen <=> first = Unseen
      /\ baseline # Unseen => first <= baseline /\ baseline <= page
      /\ \A o \in Pages \cup Links : signals[o] <= 1
      /\ \A p \in Pages : signals[p] > 0 => baseline # Unseen /\ first < p /\ p <= baseline
      /\ baseline = Unseen \/ baseline = first \/ signals[baseline] = 1
  BY <1>1 DEF SignalsInv, Recorded
<1>7. sweep[w].now \in Pages /\ sweep[w].now \in Nat /\ sweep[w].now # Unseen
  BY <1>5, PageFacts DEF WellInv, EventsOK, Pages
<1>8. Recorded'
  <2>1. baseline' = sweep[w].now /\ baseline' # Unseen
    BY <1>4, <1>5, <1>7
  <2>2. first' # Unseen /\ first' <= baseline' /\ baseline' <= page'
    BY <1>4, <1>5, <1>6, <1>7, <2>1, PageFacts
  <2>3. ASSUME NEW o \in Pages \cup Links PROVE signals'[o] <= 1
    <3>1. CASE o \in sweep[w].found /\ o \in Pages
      <4>1. o = sweep[w].now /\ baseline # Unseen /\ o # baseline
        BY <1>2, <1>5, <3>1 DEF Watching
      <4>2. ~(o <= baseline)
        BY <1>5, <1>7, <4>1, PageFacts
      <4>3. signals[o] = 0
        BY <1>6, <3>1, <4>2, PageFacts
      <4> QED
        BY <1>4, <3>1, <4>3
    <3>2. CASE o \in sweep[w].found /\ o \in Links
      BY <1>2, <1>4, <3>2 DEF Watching
    <3>3. CASE o \notin sweep[w].found
      BY <1>4, <1>6, <3>3
    <3> QED
      BY <3>1, <3>2, <3>3
  <2>4. ASSUME NEW p \in Pages, signals'[p] > 0 PROVE first' < p /\ p <= baseline'
    <3>1. CASE p \in sweep[w].found
      <4>1. p = sweep[w].now /\ baseline # Unseen /\ p # baseline
        BY <1>2, <1>5, <3>1 DEF Watching
      <4>2. first' = first /\ first <= baseline /\ baseline < p
        BY <1>4, <1>5, <1>6, <1>7, <4>1, PageFacts
      <4> QED
        BY <1>6, <1>7, <2>1, <4>1, <4>2, PageFacts
    <3>2. CASE p \notin sweep[w].found
      <4>1. signals[p] > 0
        BY <1>4, <2>4, <3>2
      <4>2. baseline # Unseen /\ first < p /\ p <= baseline
        BY <1>6, <4>1
      <4> QED
        BY <1>4, <1>5, <1>6, <1>7, <2>1, <4>2, PageFacts
    <3> QED
      BY <3>1, <3>2
  <2>5. baseline' = first' \/ signals'[baseline'] = 1
    <3>1. CASE baseline = Unseen
      BY <1>4, <1>6, <3>1
    <3>2. CASE baseline # Unseen /\ sweep[w].now # baseline
      <4>1. sweep[w].now \in sweep[w].found
        BY <1>2, <1>5, <3>2 DEF Watching
      <4>2. ~(sweep[w].now <= baseline)
        BY <1>5, <1>7, <3>2, PageFacts
      <4>3. signals[sweep[w].now] = 0
        BY <1>6, <1>7, <4>2, PageFacts
      <4> QED
        BY <1>4, <1>7, <2>1, <4>1, <4>3
    <3>3. CASE baseline # Unseen /\ sweep[w].now = baseline
      <4>1. sweep[w].now \notin sweep[w].found
        BY <1>2, <1>5, <3>3 DEF Watching
      <4> QED
        BY <1>4, <1>6, <1>7, <2>1, <3>3, <4>1
    <3> QED
      BY <3>1, <3>2, <3>3
  <2> QED
    BY <2>1, <2>2, <2>3, <2>4, <2>5 DEF Recorded
<1> QED
  BY <1>3, <1>8

LEMMA SignalsFail ==
    ASSUME WellInv, SignalsInv, NEW w \in Sweeps, SweepFails(w) PROVE SignalsInv'
<1> SUFFICES ASSUME Apart' PROVE (\A v, x \in Sweeping : v = x)' /\ (\A v \in Sweeping : Watching(v))' /\ Recorded'
  BY DEF SignalsInv
<1>1. Apart /\ UNCHANGED <<baseline, first, signals, page>>
  BY DEF SweepFails, Apart, Overlapped, Signals
<1>2. Recorded'
  BY <1>1 DEF SignalsInv, Recorded
<1>3. Sweeping' = {}
  BY <1>1 DEF SweepFails, Sweeping, SignalsInv, WellInv, SweepOK, NoSweep
<1> QED
  BY <1>2, <1>3

LEMMA NextSignals == WellInv /\ SignalsInv /\ [Next]_vars => SignalsInv'
<1> SUFFICES ASSUME WellInv, SignalsInv, [Next]_vars PROVE SignalsInv'
  OBVIOUS
<1>0. page \in Nat /\ page <= page
  BY PageFacts
<1>1. CASE UNCHANGED vars
  BY <1>0, <1>1, SignalsOther DEF vars
<1>2. ASSUME NEW c \in Campaigns, Create(c) \/ Pause(c) \/ CreateRule(c) \/ DeleteRule(c) PROVE SignalsInv'
  BY <1>0, <1>2, SignalsOther DEF Create, Pause, CreateRule, DeleteRule, Signals
<1>3. ASSUME NEW c \in Campaigns, NEW s \in StepIds, AddVariant(c, s) PROVE SignalsInv'
  BY <1>0, <1>3, SignalsOther DEF AddVariant, Signals
<1>4. ASSUME NEW e \in Editors, EditOn(e) PROVE SignalsInv'
  <2>1. UNCHANGED <<Signals, sweep>> /\ raced \subseteq raced'
    BY <1>4 DEF EditOn, EditStart, Start, EditWrite, EditCommit, EditFails
  <2> QED
    BY <1>0, <2>1, SignalsOther DEF Signals
<1>5. ASSUME NEW a \in Activations, ActOn(a) PROVE SignalsInv'
  <2>1. UNCHANGED <<Signals, sweep>> /\ raced \subseteq raced'
    BY <1>5 DEF ActOn, Activate, Score, ActCommit, ActFails, Enroll
  <2> QED
    BY <1>0, <2>1, SignalsOther DEF Signals
<1>6. ASSUME NEW l \in Leads, Suppress(l) PROVE SignalsInv'
  BY <1>0, <1>6, SignalsOther DEF Suppress, Signals
<1>7. CASE SourcesChange
  <2>1. page' \in Nat /\ page <= page'
    BY <1>0, <1>7 DEF SourcesChange
  <2> QED
    BY <1>7, <2>1, SignalsOther DEF SourcesChange
<1>8. ASSUME NEW w \in Sweeps, SweepOn(w) PROVE SignalsInv'
  BY <1>8, SignalsCollect, SignalsFire, SignalsCommit, SignalsFail DEF SweepOn
<1>9. ASSUME NEW d \in DryRuns, DryOn(d) PROVE SignalsInv'
  <2>1. UNCHANGED Rest
    BY <1>9 DEF DryOn, StartDryRun, TakeDryRun, DryItem, DryEnds, DryDies
  <2> QED
    BY <1>0, <2>1, SignalsOther DEF Rest, Signals
<1> QED
  BY <1>1, <1>2, <1>3, <1>4, <1>5, <1>6, <1>7, <1>8, <1>9 DEF Next

-----------------------------------------------------------------------------
(* Dry runs: items delivered and still to deliver are within the requests. *)

DryInv == \A d \in DryRuns : dry[d].items + Cardinality(dry[d].left) <= Sample * dry[d].taken

LEMMA InitDry == Init => DryInv
<1> SUFFICES ASSUME Init, NEW d \in DryRuns
             PROVE  dry[d].items + Cardinality(dry[d].left) <= Sample * dry[d].taken
  BY DEF DryInv
<1>1. dry[d].items = 0 /\ dry[d].left = {} /\ dry[d].taken = 0
  BY DEF Init, NoDry
<1>2. Cardinality(dry[d].left) = 0 /\ Sample * 0 = 0
  BY <1>1, FS_EmptySet
<1> QED
  BY <1>1, <1>2

LEMMA LeftFacts ==
    ASSUME WellInv, NEW d \in DryRuns
    PROVE  IsFiniteSet(dry[d].left) /\ Cardinality(dry[d].left) \in Nat
BY DryIs, FS_Subset, FS_CardinalityType

(* Sample * n counts in steps of Sample.                                   *)
LEMMA SampleStep == \A n \in Nat : Sample * (n + 1) = Sample * n + Sample /\ Sample * n \in Nat
OBVIOUS

LEMMA DryStep ==
    ASSUME WellInv, DryInv, NEW d \in DryRuns, DryOn(d) PROVE DryInv'
<1>0. /\ dry[d].items \in Nat /\ dry[d].taken \in Nat /\ dry[d].left \subseteq Leads
      /\ Cardinality(dry[d].left) \in Nat /\ Sample * dry[d].taken \in Nat
      /\ dry[d].items + Cardinality(dry[d].left) <= Sample * dry[d].taken
      /\ d \in DOMAIN dry /\ dry[d] \in DryRun
  BY DryIs, LeftFacts, SampleStep DEF DryInv
<1>1. \A x \in DryRuns : x # d => dry'[x] = dry[x]
  BY DryIs DEF DryOn, StartDryRun, TakeDryRun, DryItem, DryEnds, DryDies
<1>2. dry'[d].items + Cardinality(dry'[d].left) <= Sample * dry'[d].taken
  <2>1. ASSUME dry'[d].items = dry[d].items, dry'[d].taken = dry[d].taken,
               dry'[d].left = dry[d].left \/ dry'[d].left = {}
        PROVE  dry'[d].items + Cardinality(dry'[d].left) <= Sample * dry'[d].taken
    <3>1. CASE dry'[d].left = dry[d].left
      BY <1>0, <2>1, <3>1
    <3>2. CASE dry'[d].left = {}
      <4>1. Cardinality(dry'[d].left) = 0
        BY <3>2, FS_EmptySet
      <4> QED
        BY <1>0, <2>1, <4>1
    <3> QED
      BY <2>1, <3>1, <3>2
  <2>2. CASE StartDryRun(d)
    <3>1. PICK c, b : dry' = [dry EXCEPT ![d] = [@ EXCEPT !.status = "running", !.c = c, !.job = b]]
      BY <2>2 DEF StartDryRun
    <3>2. dry'[d] = [dry[d] EXCEPT !.status = "running", !.c = c, !.job = b]
      BY <1>0, <3>1
    <3>3. dry'[d].items = dry[d].items /\ dry'[d].taken = dry[d].taken /\ dry'[d].left = dry[d].left
      BY <1>0, <3>2 DEF DryRun
    <3> QED
      BY <2>1, <3>3
  <2>3. CASE TakeDryRun(d)
    <3>1. CASE dry[d].status = "running" /\ Ready(dry[d].c)
      <4>1. PICK S \in SUBSET {l \in Leads : Eligible(l)} :
               /\ Cardinality(S) <= Sample
               /\ dry' = [dry EXCEPT ![d].pc = "busy", ![d].left = S, ![d].taken = @ + 1]
        BY <2>3, <3>1 DEF TakeDryRun
      <4>2. dry'[d].items = dry[d].items /\ dry'[d].left = S /\ dry'[d].taken = dry[d].taken + 1
        BY <1>0, <4>1 DEF DryRun
      <4>3. IsFiniteSet(S) /\ Cardinality(S) \in Nat
        BY <4>1, FS_Subset, FS_CardinalityType
      <4>4. dry[d].items <= Sample * dry[d].taken
        BY <1>0
      <4>5. Sample * (dry[d].taken + 1) = Sample * dry[d].taken + Sample
        BY <1>0, SampleStep
      <4> QED
        BY <1>0, <4>1, <4>2, <4>3, <4>4, <4>5
    <3>2. CASE ~(dry[d].status = "running" /\ Ready(dry[d].c))
      <4>1. \/ dry' = [dry EXCEPT ![d].job = FALSE]
            \/ dry' = [dry EXCEPT ![d].job = FALSE, ![d].status = "failed"]
        BY <2>3, <3>2 DEF TakeDryRun
      <4>2. dry'[d].items = dry[d].items /\ dry'[d].taken = dry[d].taken /\ dry'[d].left = dry[d].left
        BY <1>0, <4>1 DEF DryRun
      <4> QED
        BY <2>1, <4>2
    <3> QED
      BY <3>1, <3>2
  <2>4. CASE DryItem(d)
    <3>1. PICK l \in dry[d].left : dry' = [dry EXCEPT ![d].left = @ \ {l}, ![d].items = @ + 1]
      BY <2>4 DEF DryItem
    <3>2. dry'[d].items = dry[d].items + 1 /\ dry'[d].taken = dry[d].taken /\ dry'[d].left = dry[d].left \ {l}
      BY <1>0, <3>1 DEF DryRun
    <3>3. Cardinality(dry[d].left \ {l}) = Cardinality(dry[d].left) - 1
      BY LeftFacts, FS_RemoveElement
    <3> QED
      BY <1>0, <3>2, <3>3
  <2>5. CASE DryEnds(d)
    <3>1. \/ \E b \in BOOLEAN : dry' = [dry EXCEPT ![d] = [@ EXCEPT !.pc = "idle", !.job = b, !.status = "complete"]]
          \/ dry' = [dry EXCEPT ![d] = [@ EXCEPT !.pc = "idle", !.job = FALSE, !.status = "failed", !.left = {}]]
      BY <2>5 DEF DryEnds
    <3>2. \/ \E b \in BOOLEAN : dry'[d] = [dry[d] EXCEPT !.pc = "idle", !.job = b, !.status = "complete"]
          \/ dry'[d] = [dry[d] EXCEPT !.pc = "idle", !.job = FALSE, !.status = "failed", !.left = {}]
      BY <1>0, <3>1
    <3>3. /\ dry'[d].items = dry[d].items /\ dry'[d].taken = dry[d].taken
          /\ dry'[d].left = dry[d].left \/ dry'[d].left = {}
      BY <1>0, <3>2 DEF DryRun
    <3> QED
      BY <2>1, <3>3
  <2>6. CASE DryDies(d)
    <3>1. PICK b : dry' = [dry EXCEPT ![d] = [@ EXCEPT !.pc = "idle", !.left = {}, !.job = b]]
      BY <2>6 DEF DryDies
    <3>2. dry'[d] = [dry[d] EXCEPT !.pc = "idle", !.left = {}, !.job = b]
      BY <1>0, <3>1
    <3>3. dry'[d].items = dry[d].items /\ dry'[d].taken = dry[d].taken /\ dry'[d].left = {}
      BY <1>0, <3>2 DEF DryRun
    <3> QED
      BY <2>1, <3>3
  <2> QED
    BY <2>2, <2>3, <2>4, <2>5, <2>6 DEF DryOn
<1> QED
  BY <1>1, <1>2 DEF DryInv

LEMMA NextDry == WellInv /\ DryInv /\ [Next]_vars => DryInv'
<1> SUFFICES ASSUME WellInv, DryInv, [Next]_vars PROVE DryInv'
  OBVIOUS
<1>1. ASSUME UNCHANGED dry PROVE DryInv'
  BY <1>1 DEF DryInv
<1>2. ASSUME NEW d \in DryRuns, DryOn(d) PROVE DryInv'
  BY <1>2, DryStep
<1>3. ASSUME NEW c \in Campaigns, Create(c) \/ Pause(c) \/ CreateRule(c) \/ DeleteRule(c) PROVE UNCHANGED dry
  BY <1>3 DEF Create, Pause, CreateRule, DeleteRule
<1>4. ASSUME NEW c \in Campaigns, NEW s \in StepIds, AddVariant(c, s) PROVE UNCHANGED dry
  BY <1>4 DEF AddVariant
<1>5. ASSUME NEW e \in Editors, EditOn(e) PROVE UNCHANGED dry
  BY <1>5 DEF EditOn, EditStart, Start, EditWrite, EditCommit, EditFails
<1>6. ASSUME NEW a \in Activations, ActOn(a) PROVE UNCHANGED dry
  BY <1>6 DEF ActOn, Activate, Score, ActCommit, ActFails
<1>7. ASSUME NEW l \in Leads, Suppress(l) PROVE UNCHANGED dry
  BY <1>7 DEF Suppress
<1>8. CASE SourcesChange
  BY <1>1, <1>8 DEF SourcesChange
<1>9. ASSUME NEW w \in Sweeps, SweepOn(w) PROVE UNCHANGED dry
  BY <1>9 DEF SweepOn, Collect, Fire, SweepCommit, SweepFails
<1>10. CASE UNCHANGED vars
  BY <1>1, <1>10 DEF vars
<1> QED
  BY <1>1, <1>2, <1>3, <1>4, <1>5, <1>6, <1>7, <1>8, <1>9, <1>10 DEF Next

(* The invariant of the runs: types, steps in order, a change of a watched *)
(* page recorded once, and no more dry-run items than were asked for.      *)
THEOREM CampaignsHold == Spec => []CampaignsInv
<1>1. WellInv /\ SignalsInv => SignalsExact
  <2> SUFFICES ASSUME WellInv, SignalsInv, Apart
               PROVE  /\ \A o \in DOMAIN signals : signals[o] <= 1
                      /\ baseline \in {Unseen, first} \/ signals[baseline] = 1
                      /\ first # Unseen => signals[first] = 0
    BY DEF SignalsExact, Apart
  <2>1. Recorded
    BY DEF SignalsInv
  <2>2. first # Unseen => signals[first] = 0
    BY <2>1, PageFacts DEF Recorded
  <2> QED
    BY <2>1, <2>2, PageFacts DEF Recorded
<1>2. WellInv /\ DryInv => DryRunBounded
  <2> SUFFICES ASSUME WellInv, DryInv, NEW d \in DryRuns PROVE dry[d].items <= Sample * dry[d].taken
    BY DEF DryRunBounded
  <2> QED
    BY DryIs, LeftFacts, SampleStep DEF DryInv
<1>3. TypeOK /\ StepsInOrder /\ SignalsExact /\ DryRunBounded => CampaignsInv
  BY DEF CampaignsInv
<1> QED
  BY <1>1, <1>2, <1>3, InitSignals, NextSignals, InitDry, NextDry, WellHolds, TypeCorrect, StepsStayInOrder,
     PTL DEF Spec

=============================================================================
