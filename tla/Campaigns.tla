------------------------------- MODULE Campaigns -------------------------------
(***************************************************************************)
(* Campaigns: their sequence of steps and its edits, activation, pause     *)
(* (api/routers/campaigns.py), signal rules and the sweep of intent        *)
(* signals that fires them (scoring/collectors.py, scoring/rules.py,       *)
(* collect_signals), and dry runs (run_dry_run).                           *)
(*                                                                         *)
(* "Structural changes are blocked once anyone is enrolled": each edit     *)
(* looks for enrollments when it starts, and nothing locks the campaign.   *)
(* Activations and sweeps call services before they commit.                *)
(***************************************************************************)
EXTENDS Naturals, FiniteSets

CONSTANTS Campaigns, Leads,
          Planned,               \* steps a campaign is created with
          Editors,               \* requests that edit steps
          Activations, Sweeps,   \* activations and runs of collect_signals
          Links,                 \* entries of the news feed
          DryRuns, Sample,       \* dry runs and their requested_n
          Nobody, Unseen,
          MaxEvents              \* bound on requests, sweeps, faults, and
                                 \* changes of the watched page together

ASSUME CampaignsAssumption ==
    /\ Nobody \notin Campaigns /\ Planned \in Nat \ {0} /\ Sample \in Nat \ {0}
    /\ MaxEvents \in Nat /\ Unseen \notin Nat /\ Links \cap Nat = {}
    /\ Editors \cap Nat = {} /\ IsFiniteSet(Leads) /\ Campaigns # {}

StepIds == (1..Planned) \cup Editors   \* a step is named by who inserted it
Pages == 0..MaxEvents                  \* versions of the watched page

VARIABLES status,    \* campaigns.status; "absent" before it is created
          steps,     \* the committed rows of sequence_steps
          lead,      \* status and score of each lead
          enrolled,  \* enrollments: lead and campaign
          rules,     \* campaigns with an active "enroll" rule
          baseline, signals,  \* collector_state and signals, as committed
          page, feed,         \* what the watched sources show
          edit, act, sweep,   \* open transactions
          dry,       \* dry runs, their items and their job
          planned,   \* history: the steps when the first lead was enrolled
          passed, ruled,  \* history: leads above the threshold of a campaign;
                          \* campaigns that had an enroll rule
          first,     \* history: the version the collector first saw
          raced,     \* history: campaigns in which transactions overlapped
          events

vars == <<status, steps, lead, enrolled, rules, baseline, signals, page, feed, edit, act,
          sweep, dry, planned, passed, ruled, first, raced, events>>

(* order 0: no such row; copy: the step has variants.                      *)
Step == [order : Nat, channel : {"email", "call_task"}, copy : BOOLEAN]
NoStep == [order |-> 0, channel |-> "email", copy |-> FALSE]
Rows(c) == {s \in StepIds : steps[c][s].order > 0}
Structure(c) == [s \in Rows(c) |-> <<steps[c][s].order, steps[c][s].channel>>]

Lead == [status : {"verified", "disqualified", "suppressed"},
         by : Campaigns \cup {Nobody}, above : BOOLEAN]
In(c) == {l \in Leads : <<l, c>> \in enrolled}
Created == {c \in Campaigns : status[c] # "absent"}

(* The transactions: their progress, and what they have read.              *)
NoRows == [s \in {} |-> NoStep]
Edit(S) == [pc : {"idle", "checked", "written"}, c : Campaigns \cup {Nobody},
            kind : {"add", "delete", "channel"}, step : StepIds, at : Nat, rows : [S -> Step]]
NoEdit == [pc |-> "idle", c |-> Nobody, kind |-> "add", step |-> 1, at |-> 0, rows |-> NoRows]
Activation == [pc : {"idle", "loaded", "scored"}, c : Campaigns \cup {Nobody},
               was : {"draft", "active", "paused"}, leads : SUBSET Leads,
               below : SUBSET Leads, adds : SUBSET (Leads \X Campaigns)]
NoAct == [pc |-> "idle", c |-> Nobody, was |-> "draft", leads |-> {}, below |-> {}, adds |-> {}]
Sweep == [pc : {"idle", "collected", "fired"}, base : Pages \cup {Unseen},
          now : Pages \cup {Unseen}, found : SUBSET (Pages \cup Links),
          adds : SUBSET (Leads \X Campaigns)]
NoSweep == [pc |-> "idle", base |-> Unseen, now |-> Unseen, found |-> {}, adds |-> {}]
DryRun == [status : {"none", "running", "complete", "failed"}, c : Campaigns \cup {Nobody},
           job : BOOLEAN, taken : Nat, items : Nat, left : SUBSET Leads, pc : {"idle", "busy"}]
NoDry == [status |-> "none", c |-> Nobody, job |-> FALSE, taken |-> 0, items |-> 0, left |-> {}, pc |-> "idle"]

TypeOK ==
    /\ status \in [Campaigns -> {"absent", "draft", "active", "paused"}]
    /\ steps \in [Campaigns -> [StepIds -> Step]]
    /\ lead \in [Leads -> Lead]
    /\ enrolled \cup passed \subseteq Leads \X Campaigns
    /\ rules \cup ruled \subseteq Created
    /\ baseline \in Pages \cup {Unseen} /\ first \in Pages \cup {Unseen}
    /\ signals \in [Pages \cup Links -> Nat]
    /\ page \in 0..events /\ feed \subseteq Links
    /\ DOMAIN edit = Editors /\ act \in [Activations -> Activation]
    /\ \A e \in Editors : \E S \in SUBSET StepIds : edit[e] \in Edit(S)
    /\ sweep \in [Sweeps -> Sweep] /\ dry \in [DryRuns -> DryRun]
    /\ DOMAIN planned = Campaigns
    /\ raced \subseteq Campaigns \X {"edit", "enroll", "variant", "sweep"}
    /\ events \in 0..MaxEvents

Init ==
    /\ status = [c \in Campaigns |-> "absent"]
    /\ steps = [c \in Campaigns |-> [s \in StepIds |-> NoStep]]
    /\ lead = [l \in Leads |-> [status |-> "verified", by |-> Nobody, above |-> FALSE]]
    /\ enrolled = {} /\ rules = {} /\ baseline = Unseen /\ page = 0 /\ feed = {}
    /\ signals = [o \in Pages \cup Links |-> 0]
    /\ edit = [e \in Editors |-> NoEdit] /\ act = [a \in Activations |-> NoAct]
    /\ sweep = [w \in Sweeps |-> NoSweep] /\ dry = [d \in DryRuns |-> NoDry]
    /\ planned = [c \in Campaigns |-> <<>>] /\ passed = {} /\ ruled = {}
    /\ first = Unseen /\ raced = {} /\ events = 0

Event == events < MaxEvents /\ events' = events + 1
Signals == <<rules, baseline, signals, page, feed, ruled, first>>
People == <<lead, enrolled, planned, passed>>

-----------------------------------------------------------------------------
(* Steps.                                                                  *)

(* The campaign and its steps are inserted in one transaction.             *)
Create(c) ==
    /\ status[c] = "absent"
    /\ status' = [status EXCEPT ![c] = "draft"]
    /\ steps' = [steps EXCEPT ![c] = [s \in StepIds |->
                    IF s \in 1..Planned THEN [NoStep EXCEPT !.order = s] ELSE NoStep]]
    /\ UNCHANGED <<Signals, People, edit, act, sweep, dry, raced, events>>

Open(e) == edit[e].pc \in {"checked", "written"}
Editing(c) == {e \in Editors : Open(e) /\ edit[e].c = c}

(* The channel fixes the vocabulary of a variant; calls have none.         *)
AddVariant(c, s) ==
    /\ s \in Rows(c) /\ steps[c][s].channel = "email" /\ ~steps[c][s].copy
    /\ \A e \in Editing(c) : s \notin DOMAIN edit[e].rows
    /\ steps' = [steps EXCEPT ![c][s].copy = TRUE]
    /\ raced' = raced \cup {<<c, "variant">> : e \in Editing(c)}
    /\ UNCHANGED <<status, Signals, People, edit, act, sweep, dry, events>>

Last(c, s) == \A x \in StepIds : steps[c][x].order <= steps[c][s].order

(* Mutant: the steps of a campaign with enrollments are edited, too.       *)
FrozenNever(c) == FALSE

(* _has_enrollments                                                        *)
Frozen(c) == In(c) # {}

Start(e, c, kind, s, at) ==
    /\ edit' = [edit EXCEPT ![e] = [NoEdit EXCEPT !.pc = "checked", !.c = c, !.kind = kind,
                                                  !.step = s, !.at = at]]
    /\ raced' = raced \cup {<<c, "edit">> : x \in Editing(c)}
    /\ UNCHANGED <<status, steps, Signals, People, act, sweep, dry>>

(* add_step, delete_step, and update_step with another channel: the check, *)
(* then the row and its order are read.                                    *)
EditStart(e) ==
    /\ edit[e] = NoEdit /\ Event
    /\ \E c \in Created :
          /\ ~Frozen(c)
          /\ \/ /\ e \notin Rows(c)
                /\ \E s \in StepIds : Last(c, s) /\ Start(e, c, "add", e, steps[c][s].order + 1)
             \/ \E s \in Rows(c) : Start(e, c, "delete", s, steps[c][s].order)
             \/ \E s \in Rows(c) : /\ ~steps[c][s].copy
                                   /\ Start(e, c, "channel", s, steps[c][s].order)

(* Mutant: the steps after a deleted one keep their numbers.               *)
AfterKept(c, s, at) == [x \in {s} |-> NoStep]

(* delete_step: the row goes; those that follow its number move up.        *)
AfterDelete(c, s, at) ==
    [x \in {s} \cup {y \in Rows(c) : steps[c][y].order > at} |->
        IF x = s THEN NoStep ELSE [steps[c][x] EXCEPT !.order = @ - 1]]

Changed(e) ==
    LET c == edit[e].c  s == edit[e].step
    IN  CASE edit[e].kind = "add" -> {[x \in {s} |-> [NoStep EXCEPT !.order = edit[e].at, !.channel = ch]] :
                                          ch \in {"email", "call_task"}}
          [] edit[e].kind = "delete" -> {AfterDelete(c, s, edit[e].at)}
          [] OTHER -> {[x \in {s} |-> [steps[c][s] EXCEPT !.channel = IF @ = "email" THEN "call_task" ELSE "email"]]}

(* The unique constraint on campaign and step_order.                       *)
Clash(c, rows) ==
    \E s \in DOMAIN rows, x \in Rows(c) \ DOMAIN rows :
       rows[s].order > 0 /\ rows[s].order = steps[c][x].order

Collide(rows, others) ==
    \/ DOMAIN rows \cap DOMAIN others # {}
    \/ \E r \in DOMAIN rows, s \in DOMAIN others : rows[r].order = others[s].order /\ rows[r].order > 0

Present(e) == edit[e].kind = "add" \/ edit[e].step \in Rows(edit[e].c)

(* The flush waits for rows, and for numbers, of transactions still open.  *)
EditWrite(e) ==
    LET c == edit[e].c
    IN  /\ edit[e].pc = "checked" /\ Present(e)
        /\ \E rows \in Changed(e) :
              /\ ~Clash(c, rows)
              /\ \A x \in Editing(c) \ {e} : ~Collide(rows, edit[x].rows)
              /\ edit' = [edit EXCEPT ![e].pc = "written", ![e].rows = rows]
        /\ UNCHANGED <<status, steps, Signals, People, act, sweep, dry, raced, events>>

EditCommit(e) ==
    /\ edit[e].pc = "written"
    /\ steps' = [steps EXCEPT ![edit[e].c] =
                   [s \in StepIds |-> IF s \in DOMAIN edit[e].rows
                                      THEN [edit[e].rows[s] EXCEPT !.copy = @ \/ (edit[e].rows[s].order > 0 /\ steps[edit[e].c][s].copy)]
                                      ELSE steps[edit[e].c][s]]]
    /\ edit' = [edit EXCEPT ![e] = NoEdit]
    /\ UNCHANGED <<status, Signals, People, act, sweep, dry, raced, events>>

(* A row that is gone, a number that is taken, or a connection that breaks.*)
EditFails(e) ==
    /\ Open(e)
    /\ \/ ~Present(e) /\ UNCHANGED events
       \/ /\ edit[e].pc = "checked" /\ Present(e) /\ UNCHANGED events
          /\ \E rows \in Changed(e) : Clash(edit[e].c, rows)
       \/ Event
    /\ edit' = [edit EXCEPT ![e] = NoEdit]
    /\ UNCHANGED <<status, steps, Signals, People, act, sweep, dry, raced>>

-----------------------------------------------------------------------------
(* Activation and pause.                                                   *)

Eligible(l) == lead[l].status = "verified"

(* Enrollments become visible: what the campaign's steps are then, and     *)
(* which of its edits are under way.                                       *)
Enroll(adds) ==
    /\ enrolled' = enrolled \cup adds
    /\ planned' = [c \in Campaigns |->
                     IF In(c) = {} /\ \E l \in Leads : <<l, c>> \in adds THEN Structure(c) ELSE planned[c]]
    /\ raced' = raced \cup {<<c, "enroll">> : c \in {x \in Campaigns :
                               Editing(x) # {} /\ \E l \in Leads : <<l, x>> \in adds}}

(* activate: a sequence, and something to write if a step needs it.        *)
Activate(a) ==
    /\ act[a] = NoAct /\ Event
    /\ \E c \in Created :
          /\ Rows(c) # {}
          /\ LET S == {s \in Rows(c) : steps[c][s].channel = "email"}
             IN  S = {} \/ \E s \in S : steps[c][s].copy
          /\ act' = [act EXCEPT ![a] = [NoAct EXCEPT !.pc = "loaded", !.c = c, !.was = status[c],
                                                     !.leads = {l \in Leads : Eligible(l)}]]
    /\ UNCHANGED <<status, steps, Signals, People, edit, sweep, dry, raced>>

Scoring(l) == {a \in Activations : act[a].pc = "scored" /\ l \in act[a].leads}

(* score_and_enroll: every lead's score is written, so its row is locked.  *)
Score(a) ==
    /\ act[a].pc = "loaded" /\ \A l \in act[a].leads : Scoring(l) = {}
    /\ \E below \in SUBSET act[a].leads :
          act' = [act EXCEPT ![a].pc = "scored", ![a].below = below,
                             ![a].adds = {<<l, act[a].c>> : l \in act[a].leads \ below} \ enrolled]
    /\ UNCHANGED <<status, steps, Signals, People, edit, sweep, dry, raced, events>>

ActCommit(a) ==
    LET c == act[a].c
    IN  /\ act[a].pc = "scored" /\ act[a].adds \cap enrolled = {}
        /\ lead' = [l \in Leads |-> IF l \notin act[a].leads THEN lead[l]
                                    ELSE [status |-> IF l \in act[a].below THEN "disqualified" ELSE lead[l].status,
                                          by |-> c, above |-> l \notin act[a].below]]
        /\ Enroll(act[a].adds)
        /\ passed' = passed \cup {<<l, c>> : l \in act[a].leads \ act[a].below}
        /\ status' = IF act[a].was = "active" THEN status ELSE [status EXCEPT ![c] = "active"]
        /\ act' = [act EXCEPT ![a] = NoAct]
        /\ UNCHANGED <<steps, Signals, edit, sweep, dry, events>>

(* One enrollment another transaction made meanwhile fails the activation. *)
ActFails(a) ==
    /\ act[a].pc \in {"loaded", "scored"}
    /\ \/ act[a].adds \cap enrolled # {} /\ UNCHANGED events
       \/ Event
    /\ act' = [act EXCEPT ![a] = NoAct]
    /\ UNCHANGED <<status, steps, Signals, People, edit, sweep, dry, raced>>

Pause(c) ==
    /\ c \in Created /\ status[c] # "paused" /\ Event
    /\ status' = [status EXCEPT ![c] = "paused"]
    /\ UNCHANGED <<steps, Signals, People, edit, act, sweep, dry, raced>>

Suppress(l) ==
    /\ lead[l].status # "suppressed" /\ Scoring(l) = {} /\ Event
    /\ lead' = [lead EXCEPT ![l].status = "suppressed"]
    /\ UNCHANGED <<status, steps, enrolled, planned, passed, Signals, edit, act, sweep, dry, raced>>

-----------------------------------------------------------------------------
(* Signals.                                                                *)

CreateRule(c) ==
    /\ c \in Created \ rules /\ Event
    /\ rules' = rules \cup {c} /\ ruled' = ruled \cup {c}
    /\ UNCHANGED <<status, steps, People, baseline, signals, page, feed, first, edit, act, sweep,
                   dry, raced>>

DeleteRule(c) ==
    /\ c \in rules /\ Event
    /\ rules' = rules \ {c}
    /\ UNCHANGED <<status, steps, People, baseline, signals, page, feed, ruled, first, edit, act,
                   sweep, dry, raced>>

(* The watched page gets another text, the feed another entry.             *)
SourcesChange ==
    /\ \/ Event /\ page' = page + 1 /\ UNCHANGED feed
       \/ /\ \E k \in Links \ feed : feed' = feed \cup {k}
          /\ UNCHANGED <<page, events>>
    /\ UNCHANGED <<status, steps, People, rules, baseline, signals, ruled, first, edit, act, sweep,
                   dry, raced>>

(* PageDiffCollector: the first sight is a baseline, never a signal.       *)
PageNews == IF baseline # Unseen /\ baseline # page THEN {page} ELSE {}

(* RssFundingCollector: entries without a signal yet.                      *)
FeedNews == {k \in feed : signals[k] = 0}

Sweeping == {w \in Sweeps : sweep[w].pc \in {"collected", "fired"}}

Collect(w) ==
    /\ sweep[w] = NoSweep /\ Event
    /\ sweep' = [sweep EXCEPT ![w] = [NoSweep EXCEPT !.pc = "collected", !.base = baseline, !.now = page,
                                                     !.found = PageNews \cup FeedNews]]
    /\ raced' = IF Sweeping = {} THEN raced ELSE raced \cup {<<c, "sweep">> : c \in Campaigns}
    /\ UNCHANGED <<status, steps, Signals, People, edit, act, dry>>

Moves(w) == sweep[w].now # sweep[w].base

(* Mutant: a signal enrolls every verified lead of its company.            *)
SignalledAll(l) == Eligible(l)

(* _enroll_on_signal: the last score decides, whichever campaign gave it.  *)
Signalled(l) == Eligible(l) /\ lead[l].above

(* evaluate_rules for each new signal; the flush of the baseline waits for *)
(* a sweep that has written it.                                            *)
Fire(w) ==
    /\ sweep[w].pc = "collected"
    /\ Moves(w) => /\ \A x \in Sweeps \ {w} : ~(sweep[x].pc = "fired" /\ Moves(x))
                   /\ sweep[w].base = Unseen => baseline = Unseen
    /\ sweep' = [sweep EXCEPT ![w].pc = "fired",
                   ![w].adds = IF sweep[w].found = {} THEN {}
                               ELSE ({l \in Leads : Signalled(l)} \X rules) \ enrolled]
    /\ UNCHANGED <<status, steps, Signals, People, edit, act, dry, raced, events>>

(* The fingerprint, the signals and the enrollments commit together.       *)
SweepCommit(w) ==
    /\ sweep[w].pc = "fired" /\ sweep[w].adds \cap enrolled = {}
    /\ baseline' = IF Moves(w) THEN sweep[w].now ELSE baseline
    /\ first' = IF first = Unseen THEN baseline' ELSE first
    /\ signals' = [o \in DOMAIN signals |-> IF o \in sweep[w].found THEN signals[o] + 1 ELSE signals[o]]
    /\ Enroll(sweep[w].adds)
    /\ sweep' = [sweep EXCEPT ![w] = NoSweep]
    /\ UNCHANGED <<status, steps, lead, passed, rules, page, feed, ruled, edit, act, dry, events>>

(* One error and the whole sweep, of every org, is rolled back.            *)
SweepFails(w) ==
    /\ w \in Sweeping
    /\ \/ sweep[w].adds \cap enrolled # {} /\ UNCHANGED events
       \/ sweep[w].base = Unseen /\ baseline # Unseen /\ UNCHANGED events
       \/ Event
    /\ sweep' = [sweep EXCEPT ![w] = NoSweep]
    /\ UNCHANGED <<status, steps, Signals, People, edit, act, dry, raced>>

-----------------------------------------------------------------------------
(* Dry runs.                                                               *)

Rest == <<status, steps, Signals, People, edit, act, sweep, raced>>
Ready(c) == \E s \in Rows(c) : steps[c][s].order = 1 /\ steps[c][s].copy

(* start_dry_run: the row is committed, then the job is published.         *)
StartDryRun(d) ==
    /\ dry[d] = NoDry /\ Event
    /\ \E c \in Created, published \in BOOLEAN :
          /\ Ready(c)
          /\ dry' = [dry EXCEPT ![d] = [@ EXCEPT !.status = "running", !.c = c, !.job = published]]
    /\ UNCHANGED Rest

(* run_dry_run: no step 1 with a variant is a failure; else the best of    *)
(* the verified leads nobody has suppressed.                               *)
TakeDryRun(d) ==
    /\ dry[d].job /\ dry[d].pc = "idle"
    /\ IF dry[d].status # "running" THEN dry' = [dry EXCEPT ![d].job = FALSE]
       ELSE IF ~Ready(dry[d].c) THEN dry' = [dry EXCEPT ![d].job = FALSE, ![d].status = "failed"]
       ELSE \E S \in SUBSET {l \in Leads : Eligible(l)} :
              /\ Cardinality(S) <= Sample
              /\ Cardinality(S) = Sample \/ S = {l \in Leads : Eligible(l)}
              /\ dry' = [dry EXCEPT ![d].pc = "busy", ![d].left = S, ![d].taken = @ + 1]
    /\ UNCHANGED <<Rest, events>>

(* Each item is committed as it lands.                                     *)
DryItem(d) ==
    /\ dry[d].pc = "busy"
    /\ \E l \in dry[d].left : dry' = [dry EXCEPT ![d].left = @ \ {l}, ![d].items = @ + 1]
    /\ UNCHANGED <<Rest, events>>

(* An error of the loop itself makes the run a failure.  A job may be      *)
(* delivered again although it was done.                                   *)
DryEnds(d) ==
    /\ dry[d].pc = "busy"
    /\ \/ /\ dry[d].left = {}
          /\ \E again \in BOOLEAN :
                /\ IF again THEN Event ELSE UNCHANGED events
                /\ dry' = [dry EXCEPT ![d] = [@ EXCEPT !.pc = "idle", !.job = again, !.status = "complete"]]
       \/ Event /\ dry' = [dry EXCEPT ![d] = [@ EXCEPT !.pc = "idle", !.job = FALSE, !.status = "failed", !.left = {}]]
    /\ UNCHANGED Rest

(* The worker dies: the broker delivers the job again, or has lost it.     *)
DryDies(d) ==
    /\ dry[d].pc = "busy" /\ Event
    /\ \E again \in BOOLEAN :
          dry' = [dry EXCEPT ![d] = [@ EXCEPT !.pc = "idle", !.left = {}, !.job = again]]
    /\ UNCHANGED Rest

-----------------------------------------------------------------------------
EditOn(e) == EditStart(e) \/ EditWrite(e) \/ EditCommit(e) \/ EditFails(e)
ActOn(a) == Activate(a) \/ Score(a) \/ ActCommit(a) \/ ActFails(a)
SweepOn(w) == Collect(w) \/ Fire(w) \/ SweepCommit(w) \/ SweepFails(w)
DryOn(d) == StartDryRun(d) \/ TakeDryRun(d) \/ DryItem(d) \/ DryEnds(d) \/ DryDies(d)

Next ==
    \/ \E c \in Campaigns : Create(c) \/ Pause(c) \/ CreateRule(c) \/ DeleteRule(c)
    \/ \E c \in Campaigns, s \in StepIds : AddVariant(c, s)
    \/ \E e \in Editors : EditOn(e)
    \/ \E a \in Activations : ActOn(a)
    \/ \E l \in Leads : Suppress(l)
    \/ SourcesChange
    \/ \E w \in Sweeps : SweepOn(w)
    \/ \E d \in DryRuns : DryOn(d)

Spec == Init /\ [][Next]_vars

-----------------------------------------------------------------------------
(* Properties                                                              *)

Overlapped(c, what) == <<c, what>> \in raced

(* delete_step's renumbering, and the vocabulary update_step protects: the *)
(* steps of a campaign are numbered without gaps, and only an e-mail step  *)
(* has variants, unless edits of the campaign overlapped.                  *)
StepsInOrder ==
    \A c \in Created :
       /\ Overlapped(c, "edit") \/ {steps[c][s].order : s \in Rows(c)} = 1..Cardinality(Rows(c))
       /\ Overlapped(c, "edit") \/ Overlapped(c, "variant")
             \/ \A s \in Rows(c) : steps[c][s].copy => steps[c][s].channel = "email"

(* add_step: "enrollments index into the sequence by current_step", so it  *)
(* stays as it was when the first lead was enrolled, unless that happened  *)
(* while an edit was under way.                                            *)
SequenceFrozen ==
    \A c \in Created : In(c) # {} /\ ~Overlapped(c, "enroll") => Structure(c) = planned[c]

(* rules.py: activation enrolls leads above the threshold of the campaign; *)
(* a signal enrolls into campaigns with a rule, and only leads that some   *)
(* campaign found above the threshold.                                     *)
EnrolledOnMerit ==
    \A p \in enrolled : p \in passed \/ (p[2] \in ruled /\ \E d \in Campaigns : <<p[1], d>> \in passed)

(* collect_signals: a change is recorded once, with the new fingerprint,   *)
(* unless two sweeps overlapped.                                           *)
SignalsExact ==
    \/ \E c \in Campaigns : Overlapped(c, "sweep")
    \/ /\ \A o \in DOMAIN signals : signals[o] <= 1
       /\ baseline \in {Unseen, first} \/ signals[baseline] = 1
       /\ first # Unseen => signals[first] = 0

(* run_dry_run delivers no more than was asked for, but for deliveries of  *)
(* the job to workers that died.                                           *)
DryRunBounded == \A d \in DryRuns : dry[d].items <= Sample * dry[d].taken

CampaignsInv ==
    /\ TypeOK /\ StepsInOrder /\ SignalsExact /\ DryRunBounded

(* rules.py: a signal "can never do more than a human clicking Activate    *)
(* would".  The score may be that of another campaign.                     *)
SignalDoesNoMore == enrolled \subseteq passed

=============================================================================
