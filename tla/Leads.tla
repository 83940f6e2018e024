-------------------------------- MODULE Leads ---------------------------------
(***************************************************************************)
(* The people an organisation knows, from import to enrollment: the ingest *)
(* gate (ingest/gate.py) behind CSV uploads, sourced lists and CRM imports *)
(* (crm/sync.py), verification and enrichment of each new lead             *)
(* (enrich_lead, ingest/enrichment.py), scoring (scoring/enroll.py),       *)
(* suppression and erasure (compliance/suppression.py).                    *)
(*                                                                         *)
(* All of them are long transactions over rows they loaded early.  At a    *)
(* commit a session writes the columns that differ from what it loaded.    *)
(* The jobs of an import are published before the import commits.          *)
(***************************************************************************)
EXTENDS Naturals, FiniteSets

CONSTANTS Emails,                  \* addresses that pass the syntax check
          CsvImports, CrmImports,  \* import requests, each made once
          Workers,                 \* executions of enrich_lead
          Scorers,                 \* activations of the campaign
          Suppressors,             \* transactions that call suppress()
          Nobody,
          Calls,                   \* providers in the enrichment chain
          Budget,                  \* enrichment_daily_budget
          MaxEvents                \* bound on faults, suppressions, erasures,
                                   \* activations and resets together

Imports == CsvImports \cup CrmImports
Sessions == Imports \cup Workers \cup Scorers \cup Suppressors

ASSUME LeadsAssumption ==
    /\ CsvImports \cap CrmImports = {} /\ Imports \cap Workers = {}
    /\ Scorers \cap (Imports \cup Workers) = {}
    /\ Suppressors \cap (Imports \cup Workers \cup Scorers) = {}
    /\ Nobody \notin Imports
    /\ IsFiniteSet(Imports) /\ IsFiniteSet(Workers)
    /\ Calls \in Nat \ {0} /\ Budget \in Nat /\ MaxEvents \in Nat

VARIABLES lead,        \* the committed row of each e-mail address
          suppressed,  \* suppressions
          linked,      \* leads with a row in crm_links
          enrolled,    \* leads enrolled in the campaign
          calls,       \* orgs.enrichment_calls_today
          session,     \* open transactions
          queue,       \* jobs of enrich_lead: an address and its lead's id
          made, lost,  \* history: provider calls since the reset; those of
                       \* transactions that were rolled back
          tried,       \* history: leads that were verified, or found wanting
          stranded,    \* history: jobs not published, lost, or run too early
          crossed,     \* history: addresses suppressed while another
                       \* transaction had them in hand
          mixed,       \* history: addresses an import and a worker, or two
                       \* workers, had in hand at once
          events

vars == <<lead, suppressed, linked, enrolled, calls, session, queue, made, lost,
          tried, stranded, crossed, mixed, events>>

(* A lead's id is the import that created it.                              *)
Row == [id : Imports \cup {Nobody}, verified : BOOLEAN,
        status : {"new", "verified", "disqualified", "suppressed"},
        title : {"none", "csv", "crm", "provider"}]
Absent == [id |-> Nobody, verified |-> FALSE, status |-> "new", title |-> "none"]
Known == {e \in Emails : lead[e].id # Nobody}

(* asked: the addresses of an import; new: those it admitted; base, row:   *)
(* the leads it loaded, as loaded and as changed; locks: rows written and  *)
(* not committed; adds: enrollments inserted; uses: provider calls it      *)
(* reserved, with the row lock of the org; cites: rows that refer to it.   *)
Closed == [pc |-> "closed", asked |-> {}, new |-> {}, title |-> "none", base |-> <<>>,
           row |-> <<>>, locks |-> {}, adds |-> {}, uses |-> 0, called |-> FALSE, cites |-> FALSE]
Done == [Closed EXCEPT !.pc = "done"]
Loaded(E) == [Closed EXCEPT !.pc = "loaded", !.base = [e \in E |-> lead[e]],
                            !.row = [e \in E |-> lead[e]]]
Holds(s) == session[s].new \cup DOMAIN session[s].row
Inserted(s) == IF session[s].pc = "read" THEN {} ELSE session[s].new
Dirty(s) == {e \in DOMAIN session[s].row : session[s].row[e] # session[s].base[e]}

TypeOK ==
    /\ lead \in [Emails -> Row]
    /\ suppressed \subseteq Emails /\ linked \subseteq Known /\ enrolled \subseteq Known
    /\ calls \in 0..Budget
    /\ \A s \in Sessions :
          /\ session[s].pc \in {"closed", "read", "inserted", "published", "done", "loaded",
                                "verified", "reserved", "enriched", "scored"}
          /\ session[s].asked \cup session[s].new \cup session[s].adds \subseteq Emails
          /\ DOMAIN session[s].row \subseteq Emails /\ DOMAIN session[s].base = DOMAIN session[s].row
          /\ \A e \in DOMAIN session[s].row : {session[s].base[e], session[s].row[e]} \subseteq Row
          /\ session[s].locks \subseteq DOMAIN session[s].row
          /\ session[s].uses \in {0, Calls} /\ session[s].called \in BOOLEAN
    /\ queue \cup tried \cup stranded \subseteq Emails \X Imports
    /\ made \in Nat /\ lost \in Nat
    /\ crossed \cup mixed \subseteq Emails
    /\ events \in 0..MaxEvents

Init ==
    /\ lead = [e \in Emails |-> Absent]
    /\ suppressed = {} /\ linked = {} /\ enrolled = {} /\ calls = 0
    /\ session = [s \in Sessions |-> Closed]
    /\ queue = {} /\ made = 0 /\ lost = 0 /\ tried = {} /\ stranded = {}
    /\ crossed = {} /\ mixed = {} /\ events = 0

Event == events < MaxEvents /\ events' = events + 1
Step(s, r) == session' = [session EXCEPT ![s] = r]
Others(s) == Sessions \ {s}

(* Nobody else has an uncommitted write of a row of E.                     *)
Free(s, E) == \A t \in Others(s) : E \cap session[t].locks = {}
Same(s, E) == \A e \in E : lead[e].id = session[s].base[e].id

-----------------------------------------------------------------------------
(* Transactions.                                                           *)

Tables == <<lead, suppressed, linked, enrolled, calls>>

Written(old, base, new) ==
    [c \in DOMAIN old |-> IF new[c] # base[c] THEN new[c] ELSE old[c]]

Commit(s, next) ==
    /\ Free(s, Dirty(s)) /\ Same(s, Dirty(s))
    /\ lead' = [e \in Emails |->
         CASE e \in session[s].new ->
                 [id |-> s, verified |-> FALSE, status |-> "new", title |-> session[s].title]
           [] e \in Dirty(s) -> Written(lead[e], session[s].base[e], session[s].row[e])
           [] OTHER -> lead[e]]
    /\ linked' = IF s \in CrmImports THEN linked \cup Holds(s) ELSE linked
    /\ enrolled' = enrolled \cup session[s].adds
    /\ calls' = calls + session[s].uses
    /\ Step(s, next)

Rollback(s, next) ==
    /\ Step(s, next)
    /\ lost' = IF session[s].called THEN lost + session[s].uses ELSE lost
    /\ UNCHANGED <<Tables, made>>

-----------------------------------------------------------------------------
(* Imports.                                                                *)

Jobs == <<made, lost, tried>>

(* classify_row over a batch: suppression, then duplicates.               *)
Admitted(E) == {e \in E : e \notin suppressed /\ e \notin Known}

(* What a row of the source has in the columns a provider may fill, too.   *)
CsvRows == {"none", "csv"}
SourcedRows == {"none", "csv"}        \* picked from a search, through the same gate
CrmRows == {"none", "crm"}

(* The gate reads existing leads and suppressions once for the batch.      *)
Read(i) ==
    /\ session[i] = Closed
    /\ \E E \in SUBSET Emails \ {{}} :
         \E title \in IF i \in CsvImports THEN CsvRows \cup SourcedRows ELSE CrmRows :
            Step(i, [Closed EXCEPT !.pc = "read", !.asked = E, !.new = Admitted(E), !.title = title])
    /\ UNCHANGED <<Tables, queue, stranded, events, Jobs>>

(* A CRM import goes on to the leads it did not create: the CRM wins over  *)
(* what the columns hold, where it has a value.                            *)
FromCrm(i, r) == IF session[i].title = "none" THEN r ELSE [r EXCEPT !.title = session[i].title]

Insert(i) ==
    LET U == IF i \in CrmImports THEN (session[i].asked \ session[i].new) \cap Known ELSE {}
    IN  /\ session[i].pc = "read"
        /\ session[i].new \cap Known = {}
        /\ \A t \in Others(i) \cap Imports : Inserted(t) \cap session[i].new = {}
        /\ Free(i, U)
        /\ Step(i, [session[i] EXCEPT !.pc = "inserted", !.base = [e \in U |-> lead[e]],
                      !.row = [e \in U |-> FromCrm(i, lead[e])],
                      !.locks = {e \in U : FromCrm(i, lead[e]) # lead[e]}])
        /\ UNCHANGED <<Tables, queue, stranded, events, Jobs>>

(* score_and_enroll: each lead gets its score, so its row is locked; those *)
(* below the threshold are disqualified, the others enrolled once.         *)
Scored(s, V, below) ==
    /\ Free(s, V) /\ Same(s, V)
    /\ Step(s, [session[s] EXCEPT !.pc = "scored",
          !.row = [e \in DOMAIN @ |-> IF e \in below THEN [@[e] EXCEPT !.status = "disqualified"] ELSE @[e]],
          !.locks = @ \cup V, !.adds = (V \ below) \ enrolled])
    /\ UNCHANGED <<Tables, queue, stranded, events, Jobs>>

Eligible(r) == r.verified /\ r.status = "verified"

ImportScores(i) ==
    LET V == {e \in DOMAIN session[i].row : Eligible(session[i].row[e])}
    IN  /\ i \in CrmImports /\ session[i].pc = "inserted" /\ V # {}
        /\ \E below \in SUBSET V : Scored(i, V, below)

(* _enqueue_enrich: one job for each new lead; a broker that fails ends    *)
(* the loop in silence.                                                    *)
Publish(i) ==
    /\ i \in Imports /\ session[i].pc \in {"inserted", "scored"}
    /\ \E P \in SUBSET session[i].new :
          /\ IF P = session[i].new THEN UNCHANGED events ELSE Event
          /\ queue' = queue \cup {<<e, i>> : e \in P}
          /\ stranded' = stranded \cup {<<e, i>> : e \in session[i].new \ P}
    /\ Step(i, [session[i] EXCEPT !.pc = "published"])
    /\ UNCHANGED <<Tables, Jobs>>

ImportCommit(i) ==
    /\ session[i].pc = "published"
    /\ Commit(i, Done)
    /\ UNCHANGED <<suppressed, queue, stranded, events, Jobs>>

(* The unique constraint on the address fails the whole batch; so does a   *)
(* company or a link another transaction inserts meanwhile, or a death.    *)
ImportFails(i) ==
    /\ i \in Imports /\ session[i].pc \notin {"closed", "done"}
    /\ \/ session[i].pc = "read" /\ session[i].new \cap Known # {} /\ UNCHANGED events
       \/ Event
    /\ Rollback(i, Done)
    /\ UNCHANGED <<queue, tried, stranded>>

-----------------------------------------------------------------------------
(* enrich_lead                                                             *)

Lists == <<suppressed, linked, enrolled>>
Of(w) == CHOOSE e \in DOMAIN session[w].row : TRUE
Job(w) == <<Of(w), session[w].base[Of(w)].id>>

(* Mutant: a lead that is not new any more needs no verification.          *)
TakeNew(w) ==
    /\ session[w] = Closed
    /\ \E e \in Emails, i \in Imports :
          /\ <<e, i>> \in queue /\ queue' = queue \ {<<e, i>>}
          /\ \/ lead[e].id = i /\ lead[e].status = "new" /\ Step(w, Loaded({e})) /\ UNCHANGED stranded
             \/ lead[e].id = i /\ lead[e].status # "new" /\ UNCHANGED <<session, stranded>>
             \/ /\ lead[e].id # i /\ stranded' = stranded \cup {<<e, i>>}
                /\ UNCHANGED session
    /\ UNCHANGED <<Tables, events, Jobs>>

(* A job whose lead is not committed, or not there any more, is done.      *)
Take(w) ==
    /\ session[w] = Closed
    /\ \E e \in Emails, i \in Imports :
          /\ <<e, i>> \in queue /\ queue' = queue \ {<<e, i>>}
          /\ \/ lead[e].id = i /\ Step(w, Loaded({e})) /\ UNCHANGED stranded
             \/ /\ lead[e].id # i /\ stranded' = stranded \cup {<<e, i>>}
                /\ UNCHANGED session
    /\ UNCHANGED <<Tables, events, Jobs>>

Verified(r) ==
    [r EXCEPT !.verified = TRUE, !.status = IF @ = "new" THEN "verified" ELSE @]

(* verify_email, which asks for a mail host; the RCPT probe is off.        *)
Deliverable(syntax, hosts) == syntax /\ hosts

(* Lookups of unknown length.  An address that does not verify, now or     *)
(* before, costs no provider call.                                         *)
Verify(w) ==
    /\ w \in Workers /\ session[w].pc = "loaded"
    /\ \E syntax, hosts \in BOOLEAN :
          LET e == Of(w)
              r == IF Deliverable(syntax, hosts) THEN Verified(session[w].row[e]) ELSE session[w].row[e]
          IN  Step(w, IF r.verified THEN [session[w] EXCEPT !.pc = "verified", !.row[e] = r] ELSE Closed)
    /\ tried' = tried \cup {Job(w)}
    /\ UNCHANGED <<Tables, queue, stranded, made, lost, events>>

OrgFree(w) == \A t \in Others(w) : session[t].uses = 0
Flushed(w) == [session[w] EXCEPT !.locks = Dirty(w)]

(* reserve_enrichment_calls: the lead is flushed, and the org's row stays  *)
(* locked from the update to the commit, over the provider calls.          *)
Reserve(w) ==
    /\ w \in Workers /\ session[w].pc = "verified"
    /\ Free(w, Dirty(w)) /\ Same(w, Dirty(w)) /\ OrgFree(w)
    /\ Step(w, IF calls + Calls <= Budget
               THEN [Flushed(w) EXCEPT !.pc = "reserved", !.uses = Calls]
               ELSE [Flushed(w) EXCEPT !.pc = "enriched"])
    /\ UNCHANGED <<Tables, queue, stranded, events, Jobs>>

(* Mutant: the provider's answer is taken over what is there.              *)
FilledOver(r) == [r EXCEPT !.title = "provider"]

(* apply_enrichment fills empty columns only, as far as it can see.        *)
Filled(r) == [r EXCEPT !.title = IF @ = "none" THEN "provider" ELSE @]

(* A provider fails, knows nothing of the lead, or knows the column.       *)
Answers == [1..Calls -> {"fails", "nothing", "title"}]

(* chain_enrich: a provider that fails is skipped, in silence; the first   *)
(* that knows a column fills it.                                           *)
Merged(answers) == \E p \in 1..Calls : answers[p] = "title"

(* What the chain finds is recorded in rows that refer to the lead.        *)
Enrich(w) ==
    /\ session[w].pc = "reserved"
    /\ made' = made + session[w].uses
    /\ \E answers \in Answers :
          Step(w, [session[w] EXCEPT !.pc = "enriched", !.called = TRUE, !.cites = Merged(answers),
                     !.row[Of(w)] = IF Merged(answers) THEN Filled(@) ELSE @])
    /\ UNCHANGED <<Tables, queue, tried, stranded, lost, events>>

WorkerCommit(w) ==
    /\ session[w].pc = "enriched"
    /\ session[w].cites => Same(w, {Of(w)})
    /\ Commit(w, Closed)
    /\ UNCHANGED <<suppressed, queue, stranded, events, Jobs>>

(* The lead was erased: an update without a row, a foreign key violated.   *)
Gone(w) ==
    /\ session[w].pc \in {"verified", "enriched"} /\ ~Same(w, {Of(w)})
    /\ session[w].cites \/ Dirty(w) # {}

(* Its worker dies: the broker delivers the job again, or it is lost.      *)
WorkerFails(w) ==
    /\ w \in Workers /\ session[w] # Closed
    /\ \/ Gone(w) /\ UNCHANGED <<queue, stranded, events>>
       \/ Event /\ queue' = queue \cup {Job(w)} /\ UNCHANGED stranded
       \/ Event /\ stranded' = stranded \cup {Job(w)} /\ UNCHANGED queue
    /\ Rollback(w, Closed)
    /\ UNCHANGED <<tried>>

-----------------------------------------------------------------------------
(* Activation of the campaign; suppression; erasure; the daily reset.      *)

Activate(s) ==
    LET V == {e \in Known : Eligible(lead[e])}
    IN  /\ s \in Scorers /\ session[s] = Closed /\ V # {}
        /\ Event /\ Step(s, Loaded(V))
        /\ UNCHANGED <<Tables, queue, stranded, Jobs>>

Score(s) ==
    /\ s \in Scorers /\ session[s].pc = "loaded"
    /\ \E below \in SUBSET DOMAIN session[s].row : Scored(s, DOMAIN session[s].row, below)

ScoreCommit(s) ==
    /\ s \in Scorers /\ session[s].pc = "scored"
    /\ Commit(s, Closed)
    /\ UNCHANGED <<suppressed, queue, stranded, events, Jobs>>

ScoreFails(s) ==
    /\ s \in Scorers /\ session[s] # Closed
    /\ \/ session[s].pc = "loaded" /\ ~Same(s, DOMAIN session[s].row) /\ UNCHANGED events
       \/ Event
    /\ Rollback(s, Closed)
    /\ UNCHANGED <<queue, tried, stranded>>

(* suppress: the entry is inserted unless there is one, and the lead, if   *)
(* one is visible, is marked; both are committed some time later.          *)
Suppress(s) ==
    /\ s \in Suppressors /\ session[s] = Closed /\ Event
    /\ \E e \in Emails :
          /\ e \in suppressed => e \in Known /\ lead[e].status # "suppressed"
          /\ Step(s, [Loaded(IF e \in Known THEN {e} ELSE {}) EXCEPT !.asked = {e},
                        !.row = [x \in DOMAIN @ |-> [@[x] EXCEPT !.status = "suppressed"]]])
    /\ UNCHANGED <<Tables, queue, stranded, Jobs>>

SuppressCommit(s) ==
    /\ s \in Suppressors /\ session[s].pc = "loaded"
    /\ Commit(s, Closed)
    /\ suppressed' = suppressed \cup session[s].asked
    /\ UNCHANGED <<queue, stranded, events, Jobs>>

SuppressFails(s) ==
    /\ s \in Suppressors /\ session[s].pc = "loaded"
    /\ \/ ~Same(s, Dirty(s)) /\ UNCHANGED events
       \/ Event
    /\ Rollback(s, Closed)
    /\ UNCHANGED <<queue, tried, stranded>>

(* erase_lead: every store but crm_links, whose rows block it; it waits    *)
(* for the transactions that have written the row or refer to it.          *)
Erase(e) ==
    /\ e \in Known \ linked /\ Event
    /\ \A s \in Sessions : e \notin session[s].locks /\ (s \in Imports => e \notin Holds(s))
    /\ lead' = [lead EXCEPT ![e] = Absent] /\ enrolled' = enrolled \ {e}
    /\ suppressed' = suppressed \cup {e}
    /\ UNCHANGED <<linked, calls, session, queue, stranded, Jobs>>

(* reset_daily_counters waits for the row of the org.                      *)
Reset ==
    /\ Event
    /\ \A s \in Sessions : session[s].uses = 0
    /\ calls' = 0 /\ made' = 0 /\ lost' = 0
    /\ UNCHANGED <<lead, suppressed, linked, enrolled, session, queue, tried, stranded>>

-----------------------------------------------------------------------------
ImportOn(i) == Insert(i) \/ ImportScores(i) \/ Publish(i) \/ ImportCommit(i) \/ ImportFails(i)
WorkOn(w) == Take(w) \/ Verify(w) \/ Reserve(w) \/ Enrich(w) \/ WorkerCommit(w) \/ WorkerFails(w)
ScoreOn(s) == Score(s) \/ ScoreCommit(s) \/ ScoreFails(s)
SuppressOn(s) == SuppressCommit(s) \/ SuppressFails(s)

Act ==
    \/ \E i \in Imports : Read(i) \/ ImportOn(i)
    \/ \E w \in Workers : WorkOn(w)
    \/ \E s \in Scorers : Activate(s) \/ ScoreOn(s)
    \/ \E s \in Suppressors : Suppress(s) \/ SuppressOn(s)
    \/ \E e \in Emails : Erase(e)
    \/ Reset

InHand(S, e) == {s \in S : e \in Holds(s)}

Next ==
    /\ Act
    /\ crossed' = crossed
         \cup {e \in Emails : \E s \in Suppressors : e \in session[s]'.asked /\ InHand(Others(s), e)' # {}}
         \cup {e \in Emails : Erase(e) /\ InHand(Sessions, e) # {}}
    /\ mixed' = mixed \cup {e \in Emails : Cardinality(InHand(Imports \cup Workers, e)') > 1}

Spec == Init /\ [][Next]_vars

-----------------------------------------------------------------------------
(* Properties                                                              *)

(* A person on the do-not-contact list has no lead that is not marked so,  *)
(* whatever is imported, verified, scored or erased later, unless the      *)
(* suppression crossed a transaction that had the address in hand: the     *)
(* gate, enrich_lead's "if lead.status == new", and the selection of       *)
(* verified leads.                                                         *)
SuppressionSticks ==
    \A e \in suppressed \cap Known : lead[e].status = "suppressed" \/ e \in crossed

Pending == {s \in Workers : session[s].called}

(* reserve_enrichment_calls: every provider call of the day is in the      *)
(* counter, is about to be committed, or was made by a transaction that    *)
(* was rolled back; so no more than the budget are made but for those.     *)
BudgetExact ==
    /\ made = calls + lost + Calls * Cardinality(Pending)
    /\ calls + Calls * Cardinality({s \in Workers : session[s].uses > 0}) <= Budget

(* apply_enrichment: operator-supplied data is never overwritten, unless   *)
(* the import that supplied it overlapped with the worker.                 *)
OperatorDataKept ==
    [][\A e \in Known \ mixed' :
          lead[e].title \in {"csv", "crm"} /\ lead'[e].id = lead[e].id =>
             lead'[e].title \in {lead[e].title, "crm"}]_vars

(* _enqueue_enrich and the broker's redelivery: a committed lead has a job *)
(* that waits, or a worker that has it in hand, or was tried for           *)
(* verification - unless its job was not published, lost, or ran before    *)
(* the import that published it had committed the lead.                    *)
EveryLeadTried ==
    \A e \in Known :
       \/ <<e, lead[e].id>> \in queue \cup tried \cup stranded
       \/ \E w \in Workers : session[w] # Closed /\ Job(w) = <<e, lead[e].id>>

LeadsInv == TypeOK /\ SuppressionSticks /\ BudgetExact /\ EveryLeadTried

=============================================================================
