----------------------------- MODULE Leads_proofs -----------------------------
(***************************************************************************)
(* Proofs about Leads, for every set of addresses, imports, workers,       *)
(* scorers and suppressions, every budget and every bound.                 *)
(***************************************************************************)
EXTENDS Leads, FiniteSetTheorems, TLAPS

USE LeadsAssumption

-----------------------------------------------------------------------------
(* The inductive invariants                                               *)

(* The rows a session has loaded: a partial map.                           *)
Part == UNION {[E -> Row] : E \in SUBSET Emails}

ImportPcs == {"closed", "read", "inserted", "scored", "published", "done"}
WorkerPcs == {"closed", "loaded", "verified", "reserved", "enriched"}
ScorerPcs == {"closed", "loaded", "scored"}

Session == [pc : ImportPcs \cup WorkerPcs, asked : SUBSET Emails, new : SUBSET Emails,
            title : {"none", "csv", "crm"}, base : Part, row : Part, locks : SUBSET Emails,
            adds : SUBSET Emails, uses : {0, Calls}, called : BOOLEAN, cites : BOOLEAN]

(* What session s may have made of a row it loaded as b.                    *)
Edited(s, b, r) ==
    /\ r.id = b.id /\ b.id \in Imports
    /\ s \in Suppressors => r.status = "suppressed"
    /\ s \in Scorers => b.status = "verified"
    /\ r.status = b.status \/ b.status # "suppressed" \/ s \in Suppressors
    /\ \/ r.title = b.title
       \/ s \in CrmImports /\ r.title = "crm"
       \/ s \in Workers /\ b.title = "none"

(* What the record of every session looks like, and of each kind.           *)
Shaped(s, r) ==
    /\ DOMAIN r.base = DOMAIN r.row
    /\ r.locks \subseteq DOMAIN r.row /\ r.adds \subseteq DOMAIN r.row
    /\ r.adds \subseteq r.locks /\ r.new \cap DOMAIN r.row = {}
    /\ r.pc = "closed" => r = Closed
    /\ r.pc = "done" => r = Done
    /\ \A e \in DOMAIN r.row : Edited(s, r.base[e], r.row[e])

ImportShaped(i, r) ==
    /\ r.pc \in ImportPcs
    /\ r.uses = 0 /\ ~r.called
    /\ r.pc = "read" => DOMAIN r.row = {}
    /\ i \in CsvImports => DOMAIN r.row = {}
    /\ i \in CrmImports => r.title \in CrmRows

WorkerShaped(r) ==
    /\ r.pc \in WorkerPcs
    /\ r.new = {} /\ r.adds = {}
    /\ r.pc # "closed" => \E e \in Emails : DOMAIN r.row = {e}
    /\ r.pc \in {"loaded", "verified"} => r.uses = 0 /\ ~r.called
    /\ r.pc = "reserved" => r.uses = Calls /\ ~r.called
    /\ r.pc = "enriched" => (r.called <=> r.uses = Calls)

ScorerShaped(r) ==
    /\ r.pc \in ScorerPcs
    /\ r.new = {} /\ r.uses = 0 /\ ~r.called

SuppressorShaped(r) ==
    /\ r.pc \in {"closed", "loaded"}
    /\ r.new = {} /\ r.adds = {} /\ r.uses = 0 /\ ~r.called

SessionOK(s, r) ==
    /\ r \in Session /\ Shaped(s, r)
    /\ s \in Imports => ImportShaped(s, r)
    /\ s \in Workers => WorkerShaped(r)
    /\ s \in Scorers => ScorerShaped(r)
    /\ s \in Suppressors => SuppressorShaped(r)

SessionsOK ==
    /\ DOMAIN session = Sessions
    /\ \A s \in Sessions : SessionOK(s, session[s])

TablesOK ==
    /\ lead \in [Emails -> Row]
    /\ suppressed \subseteq Emails /\ calls \in Nat

JobsOK ==
    /\ queue \cup tried \cup stranded \subseteq Emails \X Imports
    /\ made \in Nat /\ lost \in Nat
    /\ events \in 0..MaxEvents

Typed == SessionsOK /\ TablesOK /\ JobsOK /\ crossed \cup mixed \subseteq Emails

(* Rows: what is linked or enrolled is known, each row, committed or        *)
(* loaded, is of an import that is done, and no two imports insert an       *)
(* address, nor one that is known.                                          *)
Finished == {i \in Imports : session[i].pc = "done"}
Open(i) == session[i].pc \in {"inserted", "scored", "published"}

RowsInv ==
    /\ linked \subseteq Known /\ enrolled \subseteq Known
    /\ \A e \in Known : lead[e].id \in Finished
    /\ \A s \in Sessions, e \in Emails : e \in DOMAIN session[s].base => session[s].base[e].id \in Finished
    /\ \A i \in Imports : DOMAIN session[i].row \subseteq Known
    /\ \A i \in Imports : Open(i) => session[i].new \cap Known = {}
    /\ \A i, j \in Imports : Open(i) /\ Open(j) /\ i # j => session[i].new \cap session[j].new = {}
    /\ \A s \in Scorers : session[s].locks \subseteq Known

(* One transaction at a time holds the row of the org; what it reserved and *)
(* what it called are all that is missing from the counter.                 *)
BudgetInv ==
    /\ \A w, x \in Workers : session[w].uses # 0 /\ session[x].uses # 0 => w = x
    /\ \A w \in Workers : calls + session[w].uses <= Budget
    /\ calls <= Budget
    /\ \A w \in Workers : session[w].called => made = calls + lost + Calls
    /\ (\A w \in Workers : ~session[w].called) => made = calls + lost

Accounted(j) ==
    \/ j \in queue \cup tried \cup stranded
    \/ \E w \in Workers : session[w] # Closed /\ Job(w) = j

(* Jobs: those of committed leads, and of imports that have published and   *)
(* not committed yet.                                                       *)
TriedInv ==
    /\ \A e \in Known : Accounted(<<e, lead[e].id>>)
    /\ \A i \in Imports : session[i].pc = "published" => \A e \in session[i].new : Accounted(<<e, i>>)
    /\ \A w \in Workers : session[w].pc \in {"verified", "reserved", "enriched"} => Job(w) \in tried

Unheld(e, S) == \A t \in S : e \notin session[t].new /\ e \notin DOMAIN session[t].row

Uncrossed(e) ==
    /\ e \in Known => lead[e].status = "suppressed"
    /\ \A s \in Sessions :
         /\ e \notin session[s].new
         /\ e \in DOMAIN session[s].row =>
              \/ s \in Suppressors
              \/ session[s].base[e].status = "suppressed"

Asked(s, e) ==
    /\ Unheld(e, Sessions \ {s})
    /\ IF e \in Known THEN e \in DOMAIN session[s].row /\ lead[e] = session[s].base[e]
                      ELSE e \notin DOMAIN session[s].row

(* An address on the list is in nobody's hands but as suppressed; one that  *)
(* is being put there is in one transaction's, which has the row as it is.  *)
SuppressedInv ==
    /\ \A e \in suppressed \ crossed : Uncrossed(e)
    /\ \A s \in Suppressors : \A e \in session[s].asked \ crossed : Asked(s, e)

(* A worker has its lead alone, with the title it has now.                  *)
TitleInv ==
    \A w \in Workers, e \in Emails \ mixed :
       e \in DOMAIN session[w].row =>
          /\ \A s \in (Imports \cup Workers) \ {w} : e \notin Holds(s)
          /\ lead[e].id = session[w].base[e].id => lead[e].title = session[w].base[e].title

(* What a step does to the one session it moves: it reads a batch, loads   *)
(* rows, goes on with the rows it has, or ends.                            *)
Only(s) == \A t \in Sessions \ {s} : session'[t] = session[t]

Reads(s) ==
    /\ s \in Imports /\ session[s] = Closed
    /\ session'[s].pc = "read" /\ session'[s].base = <<>>
    /\ \E E \in SUBSET Emails : session'[s].new = Admitted(E)

Loads(s) ==
    /\ session'[s].pc \in {"inserted", "loaded"}
    /\ \E E \in SUBSET Known :
          /\ session'[s].base = [e \in E |-> lead[e]]
          /\ s \in Imports =>
                /\ session[s].pc = "read" /\ session'[s].new = session[s].new
                /\ session[s].new \cap Known = {} /\ (E # {} => s \in CrmImports)
                /\ \A t \in Imports \ {s} : Inserted(t) \cap session[s].new = {}
          /\ s \notin Imports => session[s] = Closed /\ session'[s].locks = {}
          /\ s \in Suppressors => \E e \in Emails : session'[s].asked = {e} /\ E = {e} \cap Known

GoesOn(s) ==
    /\ session[s].pc \notin {"closed", "read", "done"}
    /\ session'[s].pc \notin {"closed", "read", "done"}
    /\ session'[s].base = session[s].base /\ session'[s].new = session[s].new
    /\ s \in Imports => Open(s) /\ Open(s)' /\ (session'[s].pc = "scored" \/ Publish(s))
    /\ s \notin Suppressors
    /\ s \in Scorers =>
          \A e \in session'[s].locks \ session[s].locks :
             e \in DOMAIN session[s].base /\ lead[e].id = session[s].base[e].id

Ends(s) ==
    /\ session[s].pc \notin {"closed", "done"}
    /\ IF s \in Imports THEN session'[s] = Done ELSE session'[s] = Closed

Moves(s) == Only(s) /\ (Reads(s) \/ Loads(s) \/ GoesOn(s) \/ Ends(s))

Commits(s) ==
    /\ Only(s) /\ Ends(s) /\ \E next : Commit(s, next)
    /\ s \in Imports => session[s].pc = "published"
    /\ suppressed' = IF s \in Suppressors THEN suppressed \cup session[s].asked ELSE suppressed

Still == UNCHANGED <<lead, suppressed, linked, enrolled>>

Moved ==
    \/ Still /\ session' = session
    \/ Still /\ \E s \in Sessions : Moves(s)
    \/ \E s \in Sessions : Commits(s)
    \/ \E e \in Emails : Erase(e)
-----------------------------------------------------------------------------
(* Rows and partial maps of rows *)

LEMMA PartFacts ==
    ASSUME NEW f \in Part
    PROVE  DOMAIN f \subseteq Emails /\ \A e \in DOMAIN f : f[e] \in Row
BY DEF Part

LEMMA PartMap ==
    ASSUME NEW E \in SUBSET Emails, NEW f \in [E -> Row]
    PROVE  f \in Part
BY DEF Part

LEMMA PartEdit ==
    ASSUME NEW f \in Part, NEW e \in DOMAIN f, NEW r \in Row
    PROVE  /\ [f EXCEPT ![e] = r] \in Part
           /\ DOMAIN [f EXCEPT ![e] = r] = DOMAIN f /\ [f EXCEPT ![e] = r][e] = r
<1>1. PICK E \in SUBSET Emails : f \in [E -> Row]
  BY DEF Part
<1>2. [f EXCEPT ![e] = r] \in [E -> Row]
  BY <1>1
<1> QED
  BY <1>1, <1>2, PartMap

LEMMA EmptyPart == <<>> \in Part /\ DOMAIN <<>> = {}
<1>1. <<>> \in [{} -> Row] /\ {} \in SUBSET Emails
  OBVIOUS
<1> QED
  BY <1>1, PartMap

LEMMA WrittenRow ==
    ASSUME NEW o \in Row, NEW b \in Row, NEW r \in Row
    PROVE  /\ Written(o, b, r) \in Row
           /\ Written(o, b, r).id = IF r.id # b.id THEN r.id ELSE o.id
           /\ Written(o, b, r).status = IF r.status # b.status THEN r.status ELSE o.status
           /\ Written(o, b, r).title = IF r.title # b.title THEN r.title ELSE o.title
BY DEF Written, Row

(* The edits of a loaded row.                                              *)
LEMMA RowEdits ==
    ASSUME NEW r \in Row
    PROVE  \A x \in {"verified", "disqualified", "suppressed"} :
                [r EXCEPT !.status = x] \in Row /\ [r EXCEPT !.status = x].id = r.id
                /\ [r EXCEPT !.status = x].title = r.title
                /\ [r EXCEPT !.status = x].status = x
BY DEF Row

LEMMA VerifiedRow ==
    ASSUME NEW r \in Row
    PROVE  /\ Verified(r) \in Row /\ Verified(r).id = r.id /\ Verified(r).title = r.title
           /\ Verified(r).status = IF r.status = "new" THEN "verified" ELSE r.status
BY DEF Verified, Row

LEMMA FilledRow ==
    ASSUME NEW r \in Row
    PROVE  /\ Filled(r) \in Row /\ Filled(r).id = r.id /\ Filled(r).status = r.status
           /\ Filled(r).title = IF r.title = "none" THEN "provider" ELSE r.title
BY DEF Filled, Row

-----------------------------------------------------------------------------
(* Sessions *)

LEMMA SessionFields ==
    ASSUME NEW r \in Session
    PROVE  /\ r.pc \in ImportPcs \cup WorkerPcs /\ r.asked \subseteq Emails /\ r.new \subseteq Emails
           /\ r.title \in {"none", "csv", "crm"} /\ r.base \in Part /\ r.row \in Part
           /\ r.locks \subseteq Emails /\ r.adds \subseteq Emails /\ r.uses \in {0, Calls}
           /\ r.called \in BOOLEAN /\ r.cites \in BOOLEAN
BY DEF Session

LEMMA RowChanged ==
    ASSUME NEW r \in Session, NEW e, NEW row, NEW c
    PROVE  /\ [r EXCEPT !.pc = "verified", !.row[e] = row]
                  = [r EXCEPT !.pc = "verified", !.row = [r.row EXCEPT ![e] = row]]
           /\ [r EXCEPT !.pc = "enriched", !.called = TRUE, !.cites = c, !.row[e] = row]
                  = [r EXCEPT !.pc = "enriched", !.called = TRUE, !.cites = c,
                              !.row = [r.row EXCEPT ![e] = row]]
BY DEF Session

LEMMA ClosedFields ==
    /\ Closed \in Session /\ Done \in Session
    /\ Closed.pc = "closed" /\ Done.pc = "done"
    /\ Closed.asked = {} /\ Closed.new = {} /\ Closed.base = <<>> /\ Closed.row = <<>>
    /\ Closed.locks = {} /\ Closed.adds = {} /\ Closed.uses = 0 /\ Closed.called = FALSE
    /\ Done.asked = {} /\ Done.new = {} /\ Done.base = <<>> /\ Done.row = <<>>
    /\ Done.locks = {} /\ Done.adds = {} /\ Done.uses = 0 /\ Done.called = FALSE
    /\ Closed.title = "none" /\ Done.title = "none"
BY EmptyPart DEF Closed, Done, Session, ImportPcs, WorkerPcs

LEMMA ClosedOK ==
    /\ \A s \in Sessions : SessionOK(s, Closed)
    /\ \A i \in Imports : SessionOK(i, Done)
<1>1. Imports \cap (Workers \cup Scorers \cup Suppressors) = {}
  BY LeadsAssumption DEF Imports
<1>2. Closed # Done
  BY ClosedFields
<1>3. \A s \in Sessions : Shaped(s, Closed) /\ Shaped(s, Done)
  BY ClosedFields, EmptyPart, <1>2 DEF Shaped
<1>4. /\ \A i \in Imports : ImportShaped(i, Closed) /\ ImportShaped(i, Done)
      /\ WorkerShaped(Closed) /\ ScorerShaped(Closed) /\ SuppressorShaped(Closed)
  BY ClosedFields, EmptyPart
     DEF ImportShaped, WorkerShaped, ScorerShaped, SuppressorShaped, ImportPcs, WorkerPcs,
         ScorerPcs, CrmRows
<1> QED
  BY <1>1, <1>3, <1>4, ClosedFields DEF SessionOK, Sessions

LEMMA LoadedFields ==
    ASSUME lead \in [Emails -> Row], NEW E \in SUBSET Emails
    PROVE  /\ Loaded(E) \in Session
           /\ Loaded(E).pc = "loaded" /\ Loaded(E).asked = {} /\ Loaded(E).new = {}
           /\ Loaded(E).base = [e \in E |-> lead[e]] /\ Loaded(E).row = [e \in E |-> lead[e]]
           /\ Loaded(E).locks = {} /\ Loaded(E).adds = {} /\ Loaded(E).uses = 0
           /\ Loaded(E).called = FALSE
<1>1. [e \in E |-> lead[e]] \in Part
  BY PartMap
<1> QED
  BY <1>1, ClosedFields DEF Loaded, Closed, Session, ImportPcs, WorkerPcs

LEMMA Stepped ==
    ASSUME SessionsOK, NEW s \in Sessions, NEW r, Step(s, r), SessionOK(s, r)
    PROVE  /\ SessionsOK'
           /\ session'[s] = r /\ \A t \in Sessions \ {s} : session'[t] = session[t]
BY DEF SessionsOK, Step

-----------------------------------------------------------------------------
(* Types.  Each action gives one session a record that is well-formed.     *)

LEMMA Kinds ==
    /\ Imports \cap (Workers \cup Scorers \cup Suppressors) = {}
    /\ Workers \cap (Scorers \cup Suppressors) = {} /\ Scorers \cap Suppressors = {}
    /\ CsvImports \cap CrmImports = {} /\ Imports = CsvImports \cup CrmImports
    /\ Imports \cup Workers \cup Scorers \cup Suppressors = Sessions
BY LeadsAssumption DEF Imports, Sessions

LEMMA EventType == ASSUME JobsOK, Event PROVE events' \in 0..MaxEvents
BY LeadsAssumption DEF JobsOK, Event

LEMMA ReadTyped ==
    ASSUME Typed, NEW i \in Imports, Read(i)
    PROVE  SessionsOK' /\ Only(i) /\ Reads(i)
<1> PICK E \in SUBSET Emails, title \in {"none", "csv", "crm"} :
        /\ i \in CrmImports => title \in CrmRows
        /\ Step(i, [Closed EXCEPT !.pc = "read", !.asked = E, !.new = Admitted(E), !.title = title])
  BY Kinds DEF Read, CsvRows, SourcedRows, CrmRows
<1> DEFINE r == [Closed EXCEPT !.pc = "read", !.asked = E, !.new = Admitted(E), !.title = title]
<1>1. Admitted(E) \subseteq Emails
  BY DEF Admitted
<1>2. /\ r \in Session /\ r.pc = "read" /\ r.title = title /\ r.new = Admitted(E)
      /\ r.base = <<>> /\ r.row = <<>> /\ r.locks = {} /\ r.adds = {} /\ r.uses = 0
      /\ r.called = FALSE
  BY <1>1, EmptyPart DEF Session, Closed, ImportPcs
<1> HIDE DEF r
<1>3. Shaped(i, r) /\ ImportShaped(i, r)
  BY <1>2, EmptyPart DEF Shaped, ImportShaped, ImportPcs
<1>4. SessionOK(i, r)
  BY <1>2, <1>3, Kinds DEF SessionOK
<1>5. Step(i, r)
  BY DEF r
<1>6. SessionsOK' /\ Only(i) /\ session'[i] = r
  BY <1>4, <1>5, Stepped, Kinds DEF Typed, Only
<1> QED
  BY <1>2, <1>6 DEF Reads, Read

(* What is loaded of the leads an import meets.                            *)
LEMMA FromCrmRow ==
    ASSUME Typed, NEW i \in Imports, NEW e \in Known, i \in CrmImports
    PROVE  /\ FromCrm(i, lead[e]) \in Row
           /\ Edited(i, lead[e], FromCrm(i, lead[e]))
<1>1. lead[e] \in Row /\ lead[e].id \in Imports
  BY DEF Known, Typed, TablesOK, Row
<1>2. session[i].title \in CrmRows
  BY Kinds DEF Typed, SessionsOK, SessionOK, ImportShaped
<1>3. FromCrm(i, lead[e]) \in Row /\ FromCrm(i, lead[e]).id = lead[e].id
      /\ FromCrm(i, lead[e]).status = lead[e].status
      /\ (FromCrm(i, lead[e]).title = lead[e].title \/ FromCrm(i, lead[e]).title = "crm")
  <2>1. CASE session[i].title = "none"
    BY <1>1, <2>1 DEF FromCrm
  <2>2. CASE session[i].title = "crm"
    <3> PICK r \in Row : r = lead[e]
      BY <1>1
    <3>1. FromCrm(i, r) = [r EXCEPT !.title = "crm"]
      BY <2>2 DEF FromCrm
    <3>2. /\ FromCrm(i, r) \in Row /\ FromCrm(i, r).id = r.id
          /\ FromCrm(i, r).status = r.status /\ FromCrm(i, r).title = "crm"
      BY <3>1 DEF Row
    <3> QED
      BY <3>2
  <2> QED
    BY <1>2, <2>1, <2>2 DEF CrmRows
<1> QED
  BY <1>1, <1>3, Kinds DEF Edited

LEMMA InsertTyped ==
    ASSUME Typed, NEW i \in Imports, Insert(i)
    PROVE  SessionsOK' /\ Only(i) /\ Loads(i)
<1> DEFINE U == IF i \in CrmImports THEN (session[i].asked \ session[i].new) \cap Known ELSE {}
           o == session[i]
           b == [e \in U |-> lead[e]]
           n == [e \in U |-> FromCrm(i, lead[e])]
           L == {e \in U : FromCrm(i, lead[e]) # lead[e]}
           r == [o EXCEPT !.pc = "inserted", !.base = b, !.row = n, !.locks = L]
<1>1. U \in SUBSET Emails /\ U \subseteq Known /\ (U # {} => i \in CrmImports)
  BY DEF Known
<1>2. o.pc = "read" /\ Step(i, r)
  BY DEF Insert
<1>3. SessionOK(i, o) /\ o \in Session /\ Shaped(i, o) /\ ImportShaped(i, o)
  BY Kinds DEF Typed, SessionsOK, SessionOK
<1>4. o.adds = {}
  BY <1>2, <1>3 DEF Shaped, ImportShaped
<1>5. b \in Part /\ n \in Part /\ DOMAIN b = U /\ DOMAIN n = U
  <2>1. \A e \in U : lead[e] \in Row /\ FromCrm(i, lead[e]) \in Row
    BY <1>1, FromCrmRow DEF Typed, TablesOK
  <2>2. b \in [U -> Row] /\ n \in [U -> Row]
    BY <2>1
  <2> HIDE DEF b, n, U
  <2> QED
    BY <1>1, <2>2, PartMap
<1>6. \A e \in U : Edited(i, b[e], n[e])
  BY <1>1, FromCrmRow
<1>7. L \subseteq U /\ o.new \cap U = {}
  OBVIOUS
<1> HIDE DEF b, n, L, U
<1>8. /\ r \in Session /\ r.pc = "inserted" /\ r.title = o.title /\ r.new = o.new
      /\ r.base = b /\ r.row = n /\ r.locks = L /\ r.adds = o.adds /\ r.uses = o.uses
      /\ r.called = o.called
  <2>1. L \subseteq Emails
    BY <1>1, <1>7
  <2> HIDE DEF o
  <2> QED
    BY <1>3, <1>5, <2>1 DEF Session, ImportPcs
<1> HIDE DEF r, o
<1>9. Shaped(i, r)
  BY <1>4, <1>5, <1>6, <1>7, <1>8 DEF Shaped
<1>10. ImportShaped(i, r)
  BY <1>1, <1>3, <1>5, <1>8, Kinds DEF ImportShaped, ImportPcs
<1>11. SessionOK(i, r)
  BY <1>8, <1>9, <1>10, Kinds DEF SessionOK
<1>12. SessionsOK' /\ Only(i) /\ session'[i] = r
  BY <1>2, <1>11, Stepped, Kinds DEF Typed, Only
<1>13. /\ o.new \cap Known = {}
       /\ \A t \in Imports \ {i} : Inserted(t) \cap o.new = {}
  BY DEF o, Insert, Others, Sessions
<1>14. /\ session'[i].pc = "inserted" /\ session'[i].new = o.new
       /\ session'[i].base = [e \in U |-> lead[e]]
  BY <1>8, <1>12 DEF b
<1>15. i \notin Suppressors
  BY Kinds
<1> QED
  BY <1>1, <1>2, <1>12, <1>13, <1>14, <1>15 DEF Loads, o

LEMMA ScoredTyped ==
    ASSUME Typed, NEW s \in Imports \cup Scorers, NEW V, NEW below \in SUBSET V,
           V \subseteq DOMAIN session[s].row,
           \A e \in V : session[s].base[e].status # "suppressed",
           session[s].pc \in {"inserted", "loaded"},
           Scored(s, V, below)
    PROVE  SessionsOK' /\ Only(s) /\ GoesOn(s)
<1> DEFINE o == session[s]
           n == [e \in DOMAIN o.row |->
                   IF e \in below THEN [o.row[e] EXCEPT !.status = "disqualified"] ELSE o.row[e]]
           L == o.locks \cup V
           A == (V \ below) \ enrolled
           r == [o EXCEPT !.pc = "scored", !.row = n, !.locks = L, !.adds = A]
<1>1. SessionOK(s, o) /\ o \in Session /\ Shaped(s, o)
  BY Kinds DEF Typed, SessionsOK, SessionOK
<1>2. Step(s, r)
  <2>1. Step(s, [o EXCEPT !.pc = "scored",
          !.row = [e \in DOMAIN @ |-> IF e \in below THEN [@[e] EXCEPT !.status = "disqualified"] ELSE @[e]],
          !.locks = @ \cup V, !.adds = A])
    BY DEF Scored
  <2>2. [o EXCEPT !.pc = "scored",
          !.row = [e \in DOMAIN @ |-> IF e \in below THEN [@[e] EXCEPT !.status = "disqualified"] ELSE @[e]],
          !.locks = @ \cup V, !.adds = A] = r
    <3> HIDE DEF o
    <3> QED
      BY <1>1 DEF Session
  <2> QED
    BY <2>1, <2>2
<1>3. DOMAIN o.row \in SUBSET Emails /\ \A e \in DOMAIN o.row : o.row[e] \in Row
  BY <1>1, PartFacts, SessionFields
<1>4. \A e \in DOMAIN o.row : n[e] \in Row /\ Edited(s, o.base[e], n[e])
  <2> SUFFICES ASSUME NEW e \in DOMAIN o.row
               PROVE  n[e] \in Row /\ Edited(s, o.base[e], n[e])
    OBVIOUS
  <2>1. o.row[e] \in Row /\ Edited(s, o.base[e], o.row[e])
    BY <1>1, <1>3 DEF Shaped
  <2>2. CASE e \notin below
    BY <2>1, <2>2
  <2>3. CASE e \in below
    <3>1. n[e] = [o.row[e] EXCEPT !.status = "disqualified"]
      BY <2>3
    <3>2. n[e] \in Row /\ n[e].id = o.row[e].id /\ n[e].title = o.row[e].title
      BY <2>1, <3>1, RowEdits
    <3>3. o.base[e].status # "suppressed" /\ s \notin Suppressors
      BY <2>3, Kinds
    <3> QED
      BY <2>1, <3>2, <3>3 DEF Edited
  <2> QED
    BY <2>2, <2>3
<1>5. n \in Part /\ DOMAIN n = DOMAIN o.row
  <2>1. n \in [DOMAIN o.row -> Row]
    BY <1>4
  <2> HIDE DEF n
  <2> QED
    BY <1>3, <2>1, PartMap
<1>6. L \subseteq DOMAIN o.row /\ A \subseteq L
  BY <1>1 DEF Shaped
<1> HIDE DEF n, L, A
<1>7. /\ r \in Session /\ r.pc = "scored" /\ r.title = o.title /\ r.new = o.new
      /\ r.base = o.base /\ r.row = n /\ r.locks = L /\ r.adds = A /\ r.uses = o.uses
      /\ r.called = o.called
  <2>1. L \subseteq Emails /\ A \subseteq Emails
    BY <1>3, <1>6
  <2> HIDE DEF o
  <2> QED
    BY <1>1, <1>5, <2>1 DEF Session, ImportPcs
<1> HIDE DEF r
<1>8. Shaped(s, r)
  <2>1. DOMAIN o.base = DOMAIN o.row /\ o.new \cap DOMAIN o.row = {}
    BY <1>1 DEF Shaped
  <2> QED
    BY <1>4, <1>5, <1>6, <1>7, <2>1 DEF Shaped
<1>9. s \in Imports => ImportShaped(s, r)
  BY <1>1, <1>5, <1>7 DEF SessionOK, ImportShaped, ImportPcs
<1>10. s \in Scorers => ScorerShaped(r)
  BY <1>1, <1>7 DEF SessionOK, ScorerShaped, ScorerPcs
<1>11. SessionOK(s, r)
  BY <1>7, <1>8, <1>9, <1>10, Kinds DEF SessionOK
<1>12. SessionsOK' /\ Only(s) /\ session'[s] = r
  BY <1>2, <1>11, Stepped, Kinds DEF Typed, Only
<1>13. s \in Imports => Open(s) /\ Open(s)' /\ session'[s].pc = "scored"
  BY <1>1, <1>7, <1>12, Kinds DEF Open, o, SessionOK, ImportShaped, ImportPcs
<1>14. \A e \in session'[s].locks \ o.locks : e \in DOMAIN o.base /\ lead[e].id = o.base[e].id
  <2>1. Same(s, V) /\ V \subseteq DOMAIN o.base
    BY <1>1 DEF Scored, o, Shaped
  <2> QED
    BY <1>7, <1>12, <2>1 DEF L, Same, o
<1> QED
  BY <1>7, <1>12, <1>13, <1>14, Kinds DEF GoesOn, o

LEMMA ScoresTyped ==
    ASSUME Typed
    PROVE  /\ \A i \in Imports : ImportScores(i) => SessionsOK' /\ Only(i) /\ GoesOn(i)
           /\ \A s \in Scorers : Score(s) => SessionsOK' /\ Only(s) /\ GoesOn(s)
<1>1. ASSUME NEW i \in Imports, ImportScores(i)
      PROVE  SessionsOK' /\ Only(i) /\ GoesOn(i)
  <2> DEFINE V == {e \in DOMAIN session[i].row : Eligible(session[i].row[e])}
  <2> PICK below \in SUBSET V : Scored(i, V, below)
    BY <1>1 DEF ImportScores
  <2>1. SessionOK(i, session[i]) /\ Shaped(i, session[i])
    BY Kinds DEF Typed, SessionsOK, SessionOK
  <2>2. \A e \in V : session[i].base[e].status # "suppressed"
    BY <2>1, Kinds DEF Shaped, Edited, Eligible
  <2>3. session[i].pc = "inserted"
    BY <1>1 DEF ImportScores
  <2> HIDE DEF V
  <2>4. V \subseteq DOMAIN session[i].row
    BY DEF V
  <2> QED
    BY <2>2, <2>3, <2>4, ScoredTyped
<1>2. ASSUME NEW s \in Scorers, Score(s)
      PROVE  SessionsOK' /\ Only(s) /\ GoesOn(s)
  <2> DEFINE V == DOMAIN session[s].row
  <2> PICK below \in SUBSET V : Scored(s, V, below)
    BY <1>2 DEF Score
  <2>1. Shaped(s, session[s])
    BY Kinds DEF Typed, SessionsOK, SessionOK
  <2>2. \A e \in V : session[s].base[e].status # "suppressed"
    BY <2>1 DEF Shaped, Edited
  <2>3. session[s].pc = "loaded"
    BY <1>2 DEF Score
  <2> HIDE DEF V
  <2>4. V \subseteq DOMAIN session[s].row
    BY DEF V
  <2> QED
    BY <2>2, <2>3, <2>4, ScoredTyped
<1> QED
  BY <1>1, <1>2

LEMMA PublishTyped ==
    ASSUME Typed, NEW i \in Imports, Publish(i)
    PROVE  SessionsOK' /\ Only(i) /\ GoesOn(i) /\ session'[i].pc = "published"
<1> DEFINE o == session[i]
           r == [o EXCEPT !.pc = "published"]
<1>1. SessionOK(i, o) /\ o \in Session /\ Shaped(i, o) /\ ImportShaped(i, o)
  BY Kinds DEF Typed, SessionsOK, SessionOK
<1>2. Step(i, r) /\ o.pc \in {"inserted", "scored"}
  BY DEF Publish
<1>3. /\ r \in Session /\ r.pc = "published" /\ r.title = o.title /\ r.new = o.new
      /\ r.base = o.base /\ r.row = o.row /\ r.locks = o.locks /\ r.adds = o.adds
      /\ r.uses = o.uses /\ r.called = o.called
  <2> HIDE DEF o
  <2> QED
    BY <1>1 DEF Session, ImportPcs
<1> HIDE DEF r
<1>4. Shaped(i, r) /\ ImportShaped(i, r)
  BY <1>1, <1>3 DEF Shaped, ImportShaped, ImportPcs
<1>5. SessionOK(i, r)
  BY <1>3, <1>4, Kinds DEF SessionOK
<1>6. SessionsOK' /\ Only(i) /\ session'[i] = r
  BY <1>2, <1>5, Stepped, Kinds DEF Typed, Only
<1> QED
  BY <1>2, <1>3, <1>6, Kinds DEF GoesOn, Open

(* Every transaction ends closed, but an import, which is made once.       *)
LEMMA EndTyped ==
    ASSUME Typed, NEW s \in Sessions, session[s].pc \notin {"closed", "done"},
           IF s \in Imports THEN Step(s, Done) ELSE Step(s, Closed)
    PROVE  SessionsOK' /\ Only(s) /\ Ends(s)
BY ClosedOK, Stepped DEF Typed, Only, Ends

(* A worker takes a job off the queue: it loads the lead, or strands it.    *)
LEMMA TakeTyped ==
    ASSUME Typed, NEW w \in Workers, Take(w)
    PROVE  /\ SessionsOK' /\ session[w] = Closed
           /\ session' = session \/ (Only(w) /\ Loads(w))
           /\ UNCHANGED tried
           /\ \E e \in Emails, i \in Imports :
                 /\ queue' = queue \ {<<e, i>>}
                 /\ \/ /\ session' = session
                       /\ stranded' = stranded \cup {<<e, i>>}
                    \/ /\ Only(w) /\ lead[e].id = i /\ session'[w].pc = "loaded"
                       /\ session'[w].base = [x \in {e} |-> lead[x]] /\ stranded' = stranded
<1>0. session[w] = Closed
  BY DEF Take
<1>1. ASSUME session' = session
      PROVE  SessionsOK'
  BY <1>1 DEF Typed, SessionsOK
<1>2. ASSUME NEW e \in Emails, NEW i \in Imports, lead[e].id = i, Step(w, Loaded({e}))
      PROVE  /\ SessionsOK' /\ Only(w) /\ Loads(w) /\ session'[w].pc = "loaded"
             /\ session'[w].base = [x \in {e} |-> lead[x]]
  <2> DEFINE r == Loaded({e})
  <2>1. /\ r \in Session /\ r.pc = "loaded" /\ r.new = {} /\ r.locks = {} /\ r.adds = {}
        /\ r.base = [x \in {e} |-> lead[x]] /\ r.row = [x \in {e} |-> lead[x]]
        /\ r.uses = 0 /\ r.called = FALSE
    BY LoadedFields DEF Typed, TablesOK
  <2> HIDE DEF r
  <2>2. lead[e].id \in Imports
    BY <1>2
  <2>3. Shaped(w, r)
    BY <2>1, <2>2, Kinds DEF Shaped, Edited
  <2>4. WorkerShaped(r)
    BY <2>1 DEF WorkerShaped, WorkerPcs
  <2>5. Step(w, r)
    BY <1>2 DEF r
  <2>6. SessionsOK' /\ Only(w) /\ session'[w] = r
    BY <2>1, <2>3, <2>4, <2>5, Stepped, Kinds DEF SessionOK, Typed, Only
  <2>7. {e} \in SUBSET Known
    BY <2>2 DEF Known
  <2> QED
    BY <1>0, <2>1, <2>6, <2>7, Kinds DEF Loads
<1>3. PICK e \in Emails, i \in Imports :
         /\ <<e, i>> \in queue /\ queue' = queue \ {<<e, i>>}
         /\ \/ lead[e].id = i /\ Step(w, Loaded({e})) /\ UNCHANGED stranded
            \/ /\ lead[e].id # i /\ stranded' = stranded \cup {<<e, i>>}
               /\ UNCHANGED session
  BY DEF Take
<1>4. tried' = tried
  BY DEF Take, Jobs
<1>5. CASE lead[e].id = i /\ Step(w, Loaded({e})) /\ UNCHANGED stranded
  BY <1>0, <1>2, <1>3, <1>4, <1>5
<1>6. CASE UNCHANGED session /\ stranded' = stranded \cup {<<e, i>>}
  BY <1>0, <1>1, <1>3, <1>4, <1>6
<1> QED
  BY <1>3, <1>5, <1>6

(* The lead a worker has loaded.                                           *)
LEMMA WorkerHas ==
    ASSUME SessionsOK, NEW w \in Workers, session[w].pc # "closed"
    PROVE  /\ DOMAIN session[w].row = {Of(w)} /\ DOMAIN session[w].base = {Of(w)}
           /\ Of(w) \in Emails
           /\ session[w].row[Of(w)] \in Row /\ session[w].base[Of(w)] \in Row
           /\ Edited(w, session[w].base[Of(w)], session[w].row[Of(w)])
           /\ session[w].base[Of(w)].id \in Imports
           /\ Job(w) \in Emails \X Imports
           /\ session[w] # Closed
<1>1. SessionOK(w, session[w]) /\ session[w] \in Session /\ Shaped(w, session[w]) /\ WorkerShaped(session[w])
  BY Kinds DEF SessionsOK, SessionOK
<1>2. PICK e \in Emails : DOMAIN session[w].row = {e}
  BY <1>1 DEF WorkerShaped
<1>3. Of(w) = e
  BY <1>2 DEF Of
<1>4. DOMAIN session[w].base = {e}
  BY <1>1, <1>2 DEF Shaped
<1>5. session[w].row[e] \in Row /\ session[w].base[e] \in Row
  BY <1>1, <1>2, <1>4, PartFacts, SessionFields
<1>6. Edited(w, session[w].base[e], session[w].row[e])
  BY <1>1, <1>2 DEF Shaped
<1> QED
  BY <1>2, <1>3, <1>4, <1>5, <1>6, ClosedFields DEF Edited, Job

(* A worker goes on with the row it has, edited.                           *)
LEMMA WorkerGoesOn ==
    ASSUME Typed, NEW w \in Workers, session[w].pc # "closed",
           NEW r \in Session, Step(w, r),
           r.pc \in {"verified", "reserved", "enriched"},
           r.new = session[w].new, r.adds = session[w].adds, r.base = session[w].base,
           DOMAIN r.row = DOMAIN session[w].row, r.locks \subseteq DOMAIN r.row,
           Edited(w, session[w].base[Of(w)], r.row[Of(w)]),
           r.pc = "verified" => r.uses = 0 /\ r.called = FALSE,
           r.pc = "reserved" => r.uses = Calls /\ r.called = FALSE,
           r.pc = "enriched" => (r.called <=> r.uses = Calls)
    PROVE  SessionsOK' /\ Only(w) /\ GoesOn(w) /\ session'[w] = r
<1>1. SessionOK(w, session[w]) /\ Shaped(w, session[w]) /\ WorkerShaped(session[w])
  BY Kinds DEF Typed, SessionsOK, SessionOK
<1>2. DOMAIN r.row = {Of(w)} /\ Of(w) \in Emails /\ r.new = {} /\ r.adds = {}
  BY <1>1, WorkerHas DEF Typed, WorkerShaped
<1>3. Shaped(w, r)
  BY <1>1, <1>2 DEF Shaped
<1>4. WorkerShaped(r)
  BY <1>2 DEF WorkerShaped, WorkerPcs
<1>5. SessionsOK' /\ Only(w) /\ session'[w] = r
  BY <1>3, <1>4, Stepped, Kinds DEF SessionOK, Typed, Only
<1>6. session[w].pc \notin {"closed", "read", "done"}
  BY <1>1 DEF WorkerShaped, WorkerPcs
<1> QED
  BY <1>5, <1>6, Kinds DEF GoesOn

LEMMA VerifyTyped ==
    ASSUME Typed, NEW w \in Workers, Verify(w)
    PROVE  /\ SessionsOK' /\ Only(w)
           /\ \/ Ends(w)
              \/ /\ GoesOn(w) /\ session'[w].pc = "verified"
                 /\ DOMAIN session'[w].row = DOMAIN session[w].row
<1> DEFINE o == session[w]
<1>1. o.pc = "loaded" /\ SessionOK(w, o) /\ o \in Session /\ Shaped(w, o) /\ WorkerShaped(o)
  BY Kinds DEF Typed, SessionsOK, SessionOK, Verify
<1>2. PICK row : /\ row \in {Verified(o.row[Of(w)]), o.row[Of(w)]}
                 /\ Step(w, IF row.verified THEN [o EXCEPT !.pc = "verified", !.row[Of(w)] = row]
                                            ELSE Closed)
  BY DEF Verify
<1>3. CASE Step(w, Closed)
  <2>1. w \in Sessions /\ w \notin Imports
    BY Kinds
  <2> QED
    BY <1>1, <1>3, <2>1, EndTyped
<1>4. CASE Step(w, [o EXCEPT !.pc = "verified", !.row[Of(w)] = row])
  <2> DEFINE n == [o.row EXCEPT ![Of(w)] = row]
             r == [o EXCEPT !.pc = "verified", !.row = n]
  <2>1. /\ DOMAIN o.row = {Of(w)} /\ Of(w) \in Emails /\ o.row[Of(w)] \in Row
        /\ o.base[Of(w)] \in Row /\ Edited(w, o.base[Of(w)], o.row[Of(w)])
    BY <1>1, WorkerHas DEF Typed
  <2>2. row \in Row /\ Edited(w, o.base[Of(w)], row)
    BY <1>2, <2>1, VerifiedRow, Kinds DEF Edited
  <2>3. o.row \in Part
    BY <1>1, SessionFields
  <2>4. n \in Part /\ DOMAIN n = {Of(w)} /\ n[Of(w)] = row
    <3> HIDE DEF o
    <3> QED
      BY <2>1, <2>2, <2>3, PartEdit
  <2>5. [o EXCEPT !.pc = "verified", !.row[Of(w)] = row] = r
    <3> HIDE DEF o
    <3> QED
      BY <1>1, RowChanged
  <2>6. Step(w, r)
    BY <1>4, <2>5
  <2> HIDE DEF n
  <2>7. /\ r \in Session /\ r.pc = "verified" /\ r.new = o.new /\ r.adds = o.adds
        /\ r.base = o.base /\ r.row = n /\ r.locks = o.locks /\ r.uses = o.uses
        /\ r.called = o.called
    <3> HIDE DEF o
    <3> QED
      BY <1>1, <2>4 DEF Session, WorkerPcs
  <2> HIDE DEF r
  <2>8. o.uses = 0 /\ o.called = FALSE /\ o.locks \subseteq DOMAIN o.row
    BY <1>1 DEF WorkerShaped, Shaped
  <2> QED
    BY <1>1, <2>1, <2>2, <2>4, <2>6, <2>7, <2>8, WorkerGoesOn
<1> QED
  BY <1>2, <1>3, <1>4

LEMMA ReserveTyped ==
    ASSUME Typed, NEW w \in Workers, Reserve(w)
    PROVE  /\ SessionsOK' /\ Only(w) /\ GoesOn(w) /\ session'[w].row = session[w].row
           /\ session'[w].called = FALSE /\ session[w].pc = "verified"
           /\ \/ calls + Calls <= Budget /\ session'[w].pc = "reserved" /\ session'[w].uses = Calls
              \/ session'[w].pc = "enriched" /\ session'[w].uses = 0
<1> DEFINE o == session[w]
           D == Dirty(w)
           r == [o EXCEPT !.locks = D, !.pc = "reserved", !.uses = Calls]
           q == [o EXCEPT !.locks = D, !.pc = "enriched"]
<1>1. o.pc = "verified" /\ SessionOK(w, o) /\ o \in Session /\ Shaped(w, o) /\ WorkerShaped(o)
  BY Kinds DEF Typed, SessionsOK, SessionOK, Reserve
<1>2. D \subseteq DOMAIN o.row /\ DOMAIN o.row \subseteq Emails
  BY <1>1, SessionFields, PartFacts DEF Dirty
<1>3. o.uses = 0 /\ o.called = FALSE /\ Calls \in {0, Calls} /\ Calls # 0
  BY <1>1 DEF WorkerShaped
<1>4. Step(w, IF calls + Calls <= Budget THEN r ELSE q)
  BY DEF Reserve, Flushed
<1>5. Edited(w, o.base[Of(w)], o.row[Of(w)])
  BY <1>1, WorkerHas DEF Typed
<1> HIDE DEF D
<1>6. /\ r \in Session /\ r.pc = "reserved" /\ r.new = o.new /\ r.adds = o.adds
      /\ r.base = o.base /\ r.row = o.row /\ r.locks = D /\ r.uses = Calls /\ r.called = o.called
  <2>1. D \subseteq Emails
    BY <1>2
  <2> HIDE DEF o
  <2> QED
    BY <1>1, <2>1 DEF Session, WorkerPcs
<1>7. /\ q \in Session /\ q.pc = "enriched" /\ q.new = o.new /\ q.adds = o.adds
      /\ q.base = o.base /\ q.row = o.row /\ q.locks = D /\ q.uses = o.uses /\ q.called = o.called
  <2>1. D \subseteq Emails
    BY <1>2
  <2> HIDE DEF o
  <2> QED
    BY <1>1, <2>1 DEF Session, WorkerPcs
<1> HIDE DEF r, q
<1>8. CASE calls + Calls <= Budget
  <2>1. Step(w, r)
    BY <1>4, <1>8
  <2>2. SessionsOK' /\ Only(w) /\ GoesOn(w) /\ session'[w] = r
    BY <1>1, <1>2, <1>3, <1>5, <1>6, <2>1, WorkerGoesOn
  <2> QED
    BY <1>1, <1>3, <1>6, <1>8, <2>2
<1>9. CASE ~(calls + Calls <= Budget)
  <2>1. Step(w, q)
    BY <1>4, <1>9
  <2>2. SessionsOK' /\ Only(w) /\ GoesOn(w) /\ session'[w] = q
    BY <1>1, <1>2, <1>3, <1>5, <1>7, <2>1, WorkerGoesOn
  <2> QED
    BY <1>1, <1>3, <1>7, <2>2
<1> QED
  BY <1>8, <1>9

LEMMA EnrichTyped ==
    ASSUME Typed, NEW w \in Workers, Enrich(w)
    PROVE  /\ SessionsOK' /\ Only(w) /\ GoesOn(w) /\ session[w].pc = "reserved"
           /\ session'[w].pc = "enriched" /\ session'[w].called = TRUE
           /\ session'[w].uses = session[w].uses /\ session[w].uses = Calls
           /\ DOMAIN session'[w].row = DOMAIN session[w].row
<1> DEFINE o == session[w]
<1>1. o.pc = "reserved" /\ SessionOK(w, o) /\ o \in Session /\ Shaped(w, o) /\ WorkerShaped(o)
  BY Kinds DEF Typed, SessionsOK, SessionOK, Enrich
<1>2. PICK answers \in Answers :
         Step(w, [o EXCEPT !.pc = "enriched", !.called = TRUE, !.cites = Merged(answers),
                    !.row[Of(w)] = IF Merged(answers) THEN Filled(@) ELSE @])
  BY DEF Enrich
<1> DEFINE row == IF Merged(answers) THEN Filled(o.row[Of(w)]) ELSE o.row[Of(w)]
           n == [o.row EXCEPT ![Of(w)] = row]
           c == Merged(answers)
           r == [o EXCEPT !.pc = "enriched", !.called = TRUE, !.cites = c, !.row = n]
<1>3. /\ DOMAIN o.row = {Of(w)} /\ Of(w) \in Emails /\ o.row[Of(w)] \in Row
      /\ o.base[Of(w)] \in Row /\ Edited(w, o.base[Of(w)], o.row[Of(w)])
  BY <1>1, WorkerHas DEF Typed
<1>4. row \in Row /\ Edited(w, o.base[Of(w)], row)
  BY <1>3, FilledRow, Kinds DEF Edited
<1>5. o.row \in Part
  BY <1>1, SessionFields
<1>6. Step(w, r)
  <2>1. Step(w, [o EXCEPT !.pc = "enriched", !.called = TRUE, !.cites = c, !.row[Of(w)] = row])
    BY <1>2
  <2>2. [o EXCEPT !.pc = "enriched", !.called = TRUE, !.cites = c, !.row[Of(w)] = row] = r
    <3> HIDE DEF o, c, row
    <3> QED
      BY <1>1, RowChanged
  <2> QED
    BY <2>1, <2>2
<1>7. c \in BOOLEAN
  BY DEF Merged
<1> HIDE DEF row, c
<1>8. n \in Part /\ DOMAIN n = {Of(w)} /\ n[Of(w)] = row
  <2> HIDE DEF o
  <2> QED
    BY <1>3, <1>4, <1>5, PartEdit
<1> HIDE DEF n
<1>10. /\ r \in Session /\ r.pc = "enriched" /\ r.new = o.new /\ r.adds = o.adds
       /\ r.base = o.base /\ r.row = n /\ r.locks = o.locks /\ r.uses = o.uses /\ r.called = TRUE
  <2> HIDE DEF o
  <2> QED
    BY <1>1, <1>7, <1>8 DEF Session, WorkerPcs
<1> HIDE DEF r
<1>11. o.uses = Calls /\ o.locks \subseteq DOMAIN o.row
  BY <1>1 DEF WorkerShaped, Shaped
<1>12. SessionsOK' /\ Only(w) /\ GoesOn(w) /\ session'[w] = r
  BY <1>1, <1>3, <1>4, <1>6, <1>8, <1>10, <1>11, WorkerGoesOn
<1> QED
  BY <1>1, <1>3, <1>8, <1>10, <1>11, <1>12

LEMMA ActivateTyped ==
    ASSUME Typed, NEW s \in Scorers, Activate(s)
    PROVE  SessionsOK' /\ Only(s) /\ Loads(s)
<1> DEFINE V == {e \in Known : Eligible(lead[e])}
           r == Loaded(V)
<1>1. /\ V \in SUBSET Emails /\ V \in SUBSET Known
      /\ \A e \in V : lead[e].id \in Imports /\ lead[e].status = "verified"
  BY DEF Known, Eligible, Typed, TablesOK, Row
<1>2. Step(s, r)
  BY DEF Activate
<1> HIDE DEF V
<1>3. /\ r \in Session /\ r.pc = "loaded" /\ r.new = {} /\ r.locks = {} /\ r.adds = {}
      /\ r.base = [e \in V |-> lead[e]] /\ r.row = [e \in V |-> lead[e]]
      /\ r.uses = 0 /\ r.called = FALSE
  BY <1>1, LoadedFields DEF Typed, TablesOK
<1> HIDE DEF r
<1>4. Shaped(s, r)
  BY <1>1, <1>3, Kinds DEF Shaped, Edited
<1>5. ScorerShaped(r)
  BY <1>3 DEF ScorerShaped, ScorerPcs
<1>6. SessionsOK' /\ Only(s) /\ session'[s] = r
  BY <1>2, <1>3, <1>4, <1>5, Stepped, Kinds DEF SessionOK, Typed, Only
<1>7. s \notin Imports /\ s \notin Suppressors /\ session[s] = Closed
  BY Kinds DEF Activate
<1> QED
  BY <1>1, <1>3, <1>6, <1>7 DEF Loads

LEMMA SuppressTyped ==
    ASSUME Typed, NEW s \in Suppressors, Suppress(s)
    PROVE  SessionsOK' /\ Only(s) /\ Loads(s)
<1>1. PICK e \in Emails :
        Step(s, [Loaded(IF e \in Known THEN {e} ELSE {}) EXCEPT !.asked = {e},
                   !.row = [x \in DOMAIN @ |-> [@[x] EXCEPT !.status = "suppressed"]]])
  BY DEF Suppress
<1> DEFINE E == IF e \in Known THEN {e} ELSE {}
           l == Loaded(E)
           n == [x \in E |-> [lead[x] EXCEPT !.status = "suppressed"]]
           r == [l EXCEPT !.asked = {e}, !.row = n]
<1>2. E \in SUBSET Emails /\ \A x \in E : lead[x].id \in Imports /\ lead[x] \in Row
  BY DEF Known, Typed, TablesOK, Row
<1>3. /\ l \in Session /\ l.pc = "loaded" /\ l.new = {} /\ l.locks = {} /\ l.adds = {}
      /\ l.base = [x \in E |-> lead[x]] /\ l.row = [x \in E |-> lead[x]]
      /\ l.uses = 0 /\ l.called = FALSE
  <2> HIDE DEF E
  <2> QED
    BY <1>2, LoadedFields DEF Typed, TablesOK
<1>4. Step(s, r)
  <2>1. [x \in DOMAIN l.row |-> [l.row[x] EXCEPT !.status = "suppressed"]] = n
    <3> HIDE DEF l, E
    <3> QED
      BY <1>3
  <2>2. [l EXCEPT !.asked = {e}, !.row = [x \in DOMAIN @ |-> [@[x] EXCEPT !.status = "suppressed"]]] = r
    <3> HIDE DEF l, n
    <3> QED
      BY <1>3, <2>1 DEF Session
  <2> QED
    BY <1>1, <2>2
<1>5. \A x \in E : /\ n[x] \in Row /\ n[x].id = lead[x].id /\ n[x].title = lead[x].title
                   /\ n[x].status = "suppressed"
  <2> HIDE DEF E
  <2> QED
    BY <1>2, RowEdits
<1>6. n \in Part /\ DOMAIN n = E
  <2>1. n \in [E -> Row]
    <3> HIDE DEF E
    <3> QED
      BY <1>5
  <2> HIDE DEF n, E
  <2> QED
    BY <1>2, <2>1, PartMap
<1> HIDE DEF n, l, E
<1>7. /\ r \in Session /\ r.pc = "loaded" /\ r.asked = {e} /\ r.new = {} /\ r.locks = {}
      /\ r.adds = {} /\ r.base = [x \in E |-> lead[x]] /\ r.row = n /\ r.uses = 0
      /\ r.called = FALSE
  BY <1>3, <1>6 DEF Session
<1> HIDE DEF r
<1>8. Shaped(s, r)
  BY <1>2, <1>5, <1>6, <1>7, Kinds DEF Shaped, Edited
<1>9. SuppressorShaped(r)
  BY <1>7 DEF SuppressorShaped
<1>10. SessionsOK' /\ Only(s) /\ session'[s] = r
  BY <1>4, <1>7, <1>8, <1>9, Stepped, Kinds DEF SessionOK, Typed, Only
<1>11. E \in SUBSET Known /\ E = {e} \cap Known
  BY DEF E
<1>12. s \notin Imports /\ session[s] = Closed
  BY Kinds DEF Suppress
<1> QED
  BY <1>7, <1>10, <1>11, <1>12 DEF Loads

LEMMA CommitTyped ==
    ASSUME Typed, NEW s \in Sessions, NEW next, Commit(s, next),
           session[s].pc \notin {"closed", "done"},
           next = IF s \in Imports THEN Done ELSE Closed
    PROVE  /\ SessionsOK' /\ Only(s) /\ Ends(s) /\ lead' \in [Emails -> Row] /\ calls' \in Nat
           /\ DOMAIN session[s].row \subseteq Emails
           /\ \A e \in Emails : e \notin session[s].new /\ e \notin Dirty(s) => lead'[e] = lead[e]
           /\ \A e \in session[s].new :
                 /\ s \in Imports /\ lead'[e].id = s
                 /\ lead'[e].status = "new" /\ lead'[e].title = session[s].title
           /\ \A e \in Dirty(s) \ session[s].new :
                 /\ lead'[e] = Written(lead[e], session[s].base[e], session[s].row[e])
                 /\ lead'[e].id = lead[e].id /\ lead[e].id = session[s].base[e].id
<1> DEFINE o == session[s]
<1>1. SessionOK(s, o) /\ o \in Session /\ Shaped(s, o)
  BY DEF Typed, SessionsOK, SessionOK
<1>2. SessionsOK' /\ Only(s) /\ Ends(s)
  <2>1. Step(s, next)
    BY DEF Commit
  <2> QED
    BY <2>1, EndTyped
<1>3. \A e \in DOMAIN o.row : /\ o.row[e] \in Row /\ o.base[e] \in Row /\ o.row[e].id = o.base[e].id
                              /\ e \in Emails
  BY <1>1, PartFacts, SessionFields DEF Shaped, Edited
<1>4. Dirty(s) \subseteq DOMAIN o.row
  BY DEF Dirty
<1>5. \A e \in Emails : lead'[e] =
         CASE e \in o.new ->
                 [id |-> s, verified |-> FALSE, status |-> "new", title |-> o.title]
           [] e \in Dirty(s) -> Written(lead[e], o.base[e], o.row[e])
           [] OTHER -> lead[e]
  BY DEF Commit
<1>6. DOMAIN lead' = Emails /\ lead' = [e \in Emails |-> lead'[e]]
  BY DEF Commit
<1>7. o.new # {} => s \in Imports
  BY <1>1, Kinds DEF SessionOK, WorkerShaped, ScorerShaped, SuppressorShaped
<1>8. o.title \in {"none", "csv", "crm"} /\ o.new \subseteq Emails
  BY <1>1, SessionFields
<1>9. \A e \in Dirty(s) : lead[e].id = o.base[e].id
  BY DEF Commit, Same
<1>10. \A e \in Emails : lead[e] \in Row
  BY DEF Typed, TablesOK
<1>11. ASSUME NEW e \in Emails, e \notin o.new, e \notin Dirty(s)
       PROVE  lead'[e] = lead[e]
  BY <1>5, <1>11
<1>12. ASSUME NEW e \in o.new
       PROVE  /\ lead'[e] \in Row /\ lead'[e].id = s
              /\ lead'[e].status = "new" /\ lead'[e].title = o.title
  <2>0. e \in Emails
    BY <1>8
  <2>1. lead'[e] = [id |-> s, verified |-> FALSE, status |-> "new", title |-> o.title]
    BY <1>1, <1>4, <1>5, <1>12, <2>0 DEF Shaped
  <2>2. s \in Imports
    BY <1>7, <1>12
  <2> HIDE DEF o
  <2> QED
    BY <1>8, <2>1, <2>2 DEF Row
<1>13. ASSUME NEW e \in Dirty(s) \ o.new
       PROVE  /\ lead'[e] = Written(lead[e], o.base[e], o.row[e])
              /\ lead'[e] \in Row /\ lead'[e].id = lead[e].id
  <2>1. lead'[e] = Written(lead[e], o.base[e], o.row[e])
    BY <1>3, <1>4, <1>5
  <2> QED
    BY <1>3, <1>4, <1>10, <2>1, WrittenRow
<1>14. \A e \in Emails : lead'[e] \in Row
  BY <1>10, <1>11, <1>12, <1>13
<1>15. lead' \in [Emails -> Row]
  BY <1>6, <1>14
<1>16. calls' \in Nat
  <2>1. o.uses \in Nat
    BY <1>1, SessionFields
  <2> QED
    BY <2>1 DEF Commit, Typed, TablesOK
<1> QED
  BY <1>2, <1>3, <1>7, <1>9, <1>11, <1>12, <1>13, <1>15, <1>16

LEMMA RollbackTyped ==
    ASSUME Typed, NEW s \in Sessions, NEW next, Rollback(s, next),
           session[s].pc \notin {"closed", "done"},
           next = IF s \in Imports THEN Done ELSE Closed
    PROVE  SessionsOK' /\ Moves(s) /\ TablesOK' /\ lost' \in Nat
<1>1. SessionsOK' /\ Moves(s)
  <2>1. Step(s, next)
    BY DEF Rollback
  <2> QED
    BY <2>1, EndTyped DEF Moves
<1>2. session[s].uses \in Nat
  BY SessionFields DEF Typed, SessionsOK, SessionOK
<1> QED
  BY <1>1, <1>2 DEF Rollback, Typed, TablesOK, JobsOK, Tables

LEMMA WorkerPc ==
    ASSUME Typed, NEW w \in Workers
    PROVE  session[w].pc # "done" /\ (session[w].pc = "closed" <=> session[w] = Closed)
BY ClosedFields, Kinds DEF Typed, SessionsOK, SessionOK, WorkerShaped, WorkerPcs, Shaped

LEMMA ScorerPc ==
    ASSUME Typed, NEW s \in Scorers
    PROVE  session[s].pc # "done" /\ (session[s].pc = "closed" <=> session[s] = Closed)
BY ClosedFields, Kinds DEF Typed, SessionsOK, SessionOK, ScorerShaped, ScorerPcs, Shaped

LEMMA ActTyped ==
    ASSUME Typed, Act
    PROVE  SessionsOK' /\ TablesOK' /\ JobsOK'
<1> USE DEF Jobs, Tables
<1>1. ASSUME NEW i \in Imports, Read(i) \/ Insert(i) \/ ImportScores(i)
      PROVE  SessionsOK' /\ TablesOK' /\ JobsOK'
  <2>1. SessionsOK'
    BY <1>1, ReadTyped, InsertTyped, ScoresTyped
  <2>2. UNCHANGED <<Tables, queue, stranded, events, Jobs>>
    BY <1>1 DEF Read, Insert, ImportScores, Scored
  <2> QED
    BY <2>1, <2>2 DEF Typed, TablesOK, JobsOK
<1>2. ASSUME NEW i \in Imports, Publish(i)
      PROVE  SessionsOK' /\ TablesOK' /\ JobsOK'
  <2>1. session[i].new \subseteq Emails
    BY Kinds, SessionFields DEF Typed, SessionsOK, SessionOK
  <2>2. UNCHANGED <<Tables, Jobs>> /\ queue' \cup stranded' \subseteq Emails \X Imports
    BY <1>2, <2>1 DEF Publish, Typed, JobsOK
  <2>3. events' \in 0..MaxEvents
    BY <1>2, EventType DEF Publish, Typed, JobsOK
  <2> QED
    BY <1>2, <2>2, <2>3, PublishTyped DEF Typed, TablesOK, JobsOK
<1>3. ASSUME NEW i \in Imports, ImportCommit(i)
      PROVE  SessionsOK' /\ TablesOK' /\ JobsOK'
  <2>1. Commit(i, Done) /\ session[i].pc = "published" /\ i \in Sessions
    BY <1>3, Kinds DEF ImportCommit
  <2>2. SessionsOK' /\ lead' \in [Emails -> Row] /\ calls' \in Nat
    BY <2>1, CommitTyped
  <2> QED
    BY <1>3, <2>2 DEF ImportCommit, Typed, TablesOK, JobsOK
<1>4. ASSUME NEW i \in Imports, ImportFails(i)
      PROVE  SessionsOK' /\ TablesOK' /\ JobsOK'
  <2>1. Rollback(i, Done) /\ UNCHANGED <<queue, tried, stranded>>
    BY <1>4 DEF ImportFails
  <2>2. SessionsOK' /\ TablesOK' /\ lost' \in Nat /\ made' = made
    BY <1>4, <2>1, RollbackTyped, Kinds DEF Rollback, ImportFails
  <2>3. events' \in 0..MaxEvents
    BY <1>4, EventType DEF ImportFails, Typed, JobsOK
  <2> QED
    BY <2>1, <2>2, <2>3 DEF Typed, JobsOK
<1>5. ASSUME NEW w \in Workers, Take(w)
      PROVE  SessionsOK' /\ TablesOK' /\ JobsOK'
  <2>1. UNCHANGED <<Tables, events, Jobs>> /\ queue' \cup stranded' \subseteq Emails \X Imports
    BY <1>5 DEF Take, Typed, JobsOK
  <2> QED
    BY <1>5, <2>1, TakeTyped DEF Typed, TablesOK, JobsOK
<1>6. ASSUME NEW w \in Workers, Verify(w)
      PROVE  SessionsOK' /\ TablesOK' /\ JobsOK'
  <2>1. session[w].pc # "closed" /\ UNCHANGED <<Tables, queue, stranded, made, lost, events>>
        /\ tried' = tried \cup {Job(w)}
    BY <1>6 DEF Verify
  <2>2. Job(w) \in Emails \X Imports
    BY <2>1, WorkerHas DEF Typed
  <2> QED
    BY <1>6, <2>1, <2>2, VerifyTyped DEF Typed, TablesOK, JobsOK
<1>7. ASSUME NEW w \in Workers, Reserve(w)
      PROVE  SessionsOK' /\ TablesOK' /\ JobsOK'
  <2>1. UNCHANGED <<Tables, queue, stranded, events, Jobs>>
    BY <1>7 DEF Reserve
  <2> QED
    BY <1>7, <2>1, ReserveTyped DEF Typed, TablesOK, JobsOK
<1>8. ASSUME NEW w \in Workers, Enrich(w)
      PROVE  SessionsOK' /\ TablesOK' /\ JobsOK'
  <2>1. UNCHANGED <<Tables, queue, tried, stranded, lost, events>> /\ made' = made + session[w].uses
    BY <1>8 DEF Enrich
  <2>2. session[w].uses \in Nat
    BY Kinds, SessionFields DEF Typed, SessionsOK, SessionOK
  <2>3. made \in Nat /\ made' \in Nat
    BY <2>1, <2>2 DEF Typed, JobsOK
  <2>4. SessionsOK'
    BY <1>8, EnrichTyped
  <2>5. TablesOK'
    BY <2>1 DEF Typed, TablesOK
  <2> QED
    BY <2>1, <2>3, <2>4, <2>5 DEF Typed, JobsOK
<1>9. ASSUME NEW w \in Workers, WorkerCommit(w)
      PROVE  SessionsOK' /\ TablesOK' /\ JobsOK'
  <2>1. Commit(w, Closed) /\ session[w].pc = "enriched" /\ w \in Sessions /\ w \notin Imports
    BY <1>9, Kinds DEF WorkerCommit
  <2>2. SessionsOK' /\ lead' \in [Emails -> Row] /\ calls' \in Nat
    BY <2>1, CommitTyped
  <2> QED
    BY <1>9, <2>2 DEF WorkerCommit, Typed, TablesOK, JobsOK
<1>10. ASSUME NEW w \in Workers, WorkerFails(w)
       PROVE  SessionsOK' /\ TablesOK' /\ JobsOK'
  <2>1. session[w].pc # "closed"
    BY <1>10, Kinds DEF WorkerFails, Typed, SessionsOK, SessionOK, Shaped
  <2>2. Job(w) \in Emails \X Imports
    BY <2>1, WorkerHas DEF Typed
  <2>3. Rollback(w, Closed) /\ tried' = tried /\ queue' \cup stranded' \subseteq Emails \X Imports
    BY <1>10, <2>2 DEF WorkerFails, Typed, JobsOK
  <2>4. SessionsOK' /\ TablesOK' /\ lost' \in Nat /\ made' = made
    BY <2>1, <2>3, RollbackTyped, Kinds, WorkerPc DEF Rollback
  <2>5. events' \in 0..MaxEvents
    BY <1>10, EventType DEF WorkerFails, Typed, JobsOK
  <2> QED
    BY <2>3, <2>4, <2>5 DEF Typed, JobsOK
<1>11. ASSUME NEW s \in Scorers, Activate(s) \/ Score(s)
       PROVE  SessionsOK' /\ TablesOK' /\ JobsOK'
  <2>1. UNCHANGED <<Tables, queue, stranded, Jobs>>
    BY <1>11 DEF Activate, Score, Scored
  <2>2. events' \in 0..MaxEvents
    BY <1>11, EventType DEF Activate, Score, Scored, Typed, JobsOK
  <2> QED
    BY <1>11, <2>1, <2>2, ActivateTyped, ScoresTyped DEF Typed, TablesOK, JobsOK
<1>12. ASSUME NEW s \in Scorers, ScoreCommit(s)
       PROVE  SessionsOK' /\ TablesOK' /\ JobsOK'
  <2>1. Commit(s, Closed) /\ session[s].pc = "scored" /\ s \in Sessions /\ s \notin Imports
    BY <1>12, Kinds DEF ScoreCommit
  <2>2. SessionsOK' /\ lead' \in [Emails -> Row] /\ calls' \in Nat
    BY <2>1, CommitTyped
  <2> QED
    BY <1>12, <2>2 DEF ScoreCommit, Typed, TablesOK, JobsOK
<1>13. ASSUME NEW s \in Sessions, ScoreFails(s) \/ SuppressFails(s)
       PROVE  SessionsOK' /\ TablesOK' /\ JobsOK'
  <2>1. Rollback(s, Closed) /\ UNCHANGED <<queue, tried, stranded>>
    BY <1>13 DEF ScoreFails, SuppressFails
  <2>0. session[s].pc \notin {"closed", "done"} /\ s \notin Imports
    BY <1>13, Kinds, ScorerPc DEF ScoreFails, SuppressFails
  <2>2. SessionsOK' /\ TablesOK' /\ lost' \in Nat /\ made' = made
    BY <2>0, <2>1, RollbackTyped DEF Rollback
  <2>3. events' \in 0..MaxEvents
    BY <1>13, EventType DEF ScoreFails, SuppressFails, Typed, JobsOK
  <2> QED
    BY <2>1, <2>2, <2>3 DEF Typed, JobsOK
<1>14. ASSUME NEW s \in Suppressors, Suppress(s)
       PROVE  SessionsOK' /\ TablesOK' /\ JobsOK'
  <2>1. UNCHANGED <<Tables, queue, stranded, Jobs>> /\ events' \in 0..MaxEvents
    BY <1>14, EventType DEF Suppress, Typed
  <2> QED
    BY <1>14, <2>1, SuppressTyped DEF Typed, TablesOK, JobsOK
<1>15. ASSUME NEW s \in Suppressors, SuppressCommit(s)
       PROVE  SessionsOK' /\ TablesOK' /\ JobsOK'
  <2>1. session[s].asked \subseteq Emails
    BY Kinds, SessionFields DEF Typed, SessionsOK, SessionOK
  <2>2. Commit(s, Closed) /\ session[s].pc = "loaded" /\ s \in Sessions /\ s \notin Imports
    BY <1>15, Kinds DEF SuppressCommit
  <2>3. SessionsOK' /\ lead' \in [Emails -> Row] /\ calls' \in Nat
    BY <2>2, CommitTyped
  <2> QED
    BY <1>15, <2>1, <2>3 DEF SuppressCommit, Typed, TablesOK, JobsOK
<1>16. ASSUME NEW e \in Emails, Erase(e)
       PROVE  SessionsOK' /\ TablesOK' /\ JobsOK'
  <2>1. Absent \in Row
    BY DEF Absent, Row
  <2>2. events' \in 0..MaxEvents
    BY <1>16, EventType DEF Erase, Typed
  <2> QED
    BY <1>16, <2>1, <2>2 DEF Erase, Typed, TablesOK, JobsOK, SessionsOK
<1>17. ASSUME Reset
       PROVE  SessionsOK' /\ TablesOK' /\ JobsOK'
  BY <1>17, EventType DEF Reset, Typed, TablesOK, JobsOK, SessionsOK
<1> QED
  BY <1>1, <1>2, <1>3, <1>4, <1>5, <1>6, <1>7, <1>8, <1>9, <1>10, <1>11, <1>12, <1>13, <1>14,
     <1>15, <1>16, <1>17, Kinds DEF Act, ImportOn, WorkOn, ScoreOn, SuppressOn

(* A step moves one session, commits one, or erases a lead.                *)
LEMMA ActMoves ==
    ASSUME Typed, Act
    PROVE  Moved
<1>1. ASSUME NEW i \in Imports, Read(i) \/ Insert(i) \/ ImportScores(i) \/ Publish(i)
      PROVE  Moved
  <2>1. Moves(i)
    BY <1>1, ReadTyped, InsertTyped, ScoresTyped, PublishTyped DEF Moves
  <2>2. Still
    BY <1>1 DEF Still, Tables, Read, Insert, ImportScores, Publish, Scored
  <2> QED
    BY <2>1, <2>2, Kinds DEF Moved
<1>2. ASSUME NEW i \in Imports, ImportCommit(i)
      PROVE  Moved
  <2>1. Commit(i, Done) /\ session[i].pc = "published" /\ suppressed' = suppressed
    BY <1>2 DEF ImportCommit
  <2>2. Only(i) /\ Ends(i)
    BY <2>1, CommitTyped, Kinds
  <2> QED
    BY <2>1, <2>2, Kinds DEF Moved, Commits
<1>3. ASSUME NEW s \in Sessions,
             \/ s \in Imports /\ ImportFails(s)
             \/ s \in Workers /\ WorkerFails(s)
             \/ ScoreFails(s) \/ SuppressFails(s)
      PROVE  Moved
  <2>1. Rollback(s, IF s \in Imports THEN Done ELSE Closed)
    BY <1>3, Kinds DEF ImportFails, WorkerFails, ScoreFails, SuppressFails
  <2>2. session[s].pc \notin {"closed", "done"}
    BY <1>3, Kinds, WorkerPc, ScorerPc DEF ImportFails, WorkerFails, ScoreFails, SuppressFails
  <2>3. Still
    BY <2>1 DEF Rollback, Still, Tables
  <2> QED
    BY <2>1, <2>2, <2>3, RollbackTyped DEF Moved
<1>4. ASSUME NEW w \in Workers, Take(w) \/ Verify(w) \/ Reserve(w) \/ Enrich(w)
      PROVE  Moved
  <2>1. Moves(w) \/ session' = session
    BY <1>4, TakeTyped, VerifyTyped, ReserveTyped, EnrichTyped DEF Moves
  <2>2. Still
    BY <1>4 DEF Still, Tables, Take, Verify, Reserve, Enrich
  <2> QED
    BY <2>1, <2>2, Kinds DEF Moved
<1>5. ASSUME NEW s \in Sessions, s \notin Imports,
             \/ s \in Workers /\ WorkerCommit(s)
             \/ ScoreCommit(s) \/ SuppressCommit(s)
      PROVE  Moved
  <2>1. /\ Commit(s, Closed) /\ session[s].pc \notin {"closed", "done"}
        /\ suppressed' = IF s \in Suppressors THEN suppressed \cup session[s].asked ELSE suppressed
    BY <1>5, Kinds DEF WorkerCommit, ScoreCommit, SuppressCommit
  <2>2. Only(s) /\ Ends(s)
    BY <1>5, <2>1, CommitTyped
  <2> QED
    BY <1>5, <2>1, <2>2 DEF Moved, Commits
<1>6. ASSUME NEW s \in Scorers, Activate(s) \/ Score(s)
      PROVE  Moved
  <2>1. Moves(s)
    BY <1>6, ActivateTyped, ScoresTyped DEF Moves
  <2>2. Still
    BY <1>6 DEF Still, Tables, Activate, Score, Scored
  <2> QED
    BY <2>1, <2>2, Kinds DEF Moved
<1>7. ASSUME NEW s \in Suppressors, Suppress(s)
      PROVE  Moved
  <2>1. Moves(s)
    BY <1>7, SuppressTyped DEF Moves
  <2>2. Still
    BY <1>7 DEF Still, Tables, Suppress
  <2> QED
    BY <2>1, <2>2, Kinds DEF Moved
<1>8. ASSUME Reset
      PROVE  Moved
  BY <1>8 DEF Moved, Still, Reset
<1> QED
  BY <1>1, <1>2, <1>3, <1>4, <1>5, <1>6, <1>7, <1>8, Kinds
     DEF Moved, Act, ImportOn, WorkOn, ScoreOn, SuppressOn

LEMMA InitTyped == Init => Typed
<1> SUFFICES ASSUME Init PROVE Typed
  OBVIOUS
<1>1. lead \in [Emails -> Row]
  BY DEF Init, Absent, Row
<1>2. SessionsOK
  BY ClosedOK DEF Init, SessionsOK
<1> QED
  BY <1>1, <1>2, LeadsAssumption DEF Init, Typed, TablesOK, JobsOK

LEMMA NextTyped == Typed /\ [Next]_vars => Typed'
<1> SUFFICES ASSUME Typed, [Next]_vars PROVE Typed'
  OBVIOUS
<1>1. CASE UNCHANGED vars
  BY <1>1 DEF vars, Typed, SessionsOK, TablesOK, JobsOK
<1>2. CASE Next
  <2>1. crossed' \cup mixed' \subseteq Emails
    BY <1>2 DEF Next, Typed
  <2>2. Act
    BY <1>2 DEF Next
  <2> QED
    BY <2>1, <2>2, ActTyped DEF Typed
<1> QED
  BY <1>1, <1>2

(* Every variable keeps its type, and each transaction the shape of its     *)
(* kind, at whichever point of its run: only a worker reserves provider     *)
(* calls, only an import inserts, and no edit takes a suppression back.     *)
THEOREM AlwaysTyped == Spec => []Typed
BY InitTyped, NextTyped, PTL DEF Spec

-----------------------------------------------------------------------------
(* Rows *)

LEMMA SessionFacts ==
    ASSUME Typed, NEW s \in Sessions
    PROVE  /\ session[s] \in Session /\ Shaped(s, session[s])
           /\ DOMAIN session[s].base = DOMAIN session[s].row /\ DOMAIN session[s].row \subseteq Emails
           /\ session[s].new \subseteq Emails /\ session[s].asked \subseteq Emails
           /\ session[s].new \cap DOMAIN session[s].row = {}
           /\ s \in Imports => ImportShaped(s, session[s])
           /\ s \notin Imports => session[s].new = {}
           /\ \A e \in DOMAIN session[s].row :
                 /\ session[s].base[e] \in Row /\ session[s].row[e] \in Row
                 /\ Edited(s, session[s].base[e], session[s].row[e])
<1>1. SessionOK(s, session[s]) /\ session[s] \in Session /\ Shaped(s, session[s])
  BY DEF Typed, SessionsOK, SessionOK
<1>2. DOMAIN session[s].base = DOMAIN session[s].row /\ session[s].new \cap DOMAIN session[s].row = {}
  BY <1>1 DEF Shaped
<1>3. \A e \in DOMAIN session[s].row : Edited(s, session[s].base[e], session[s].row[e])
  BY <1>1 DEF Shaped
<1>4. /\ DOMAIN session[s].row \subseteq Emails
      /\ \A e \in DOMAIN session[s].row : session[s].base[e] \in Row /\ session[s].row[e] \in Row
  BY <1>1, <1>2, SessionFields, PartFacts
<1>5. session[s].new \subseteq Emails /\ session[s].asked \subseteq Emails
  BY <1>1, SessionFields
<1>6. s \notin Imports => session[s].new = {}
  BY <1>1, Kinds DEF SessionOK, WorkerShaped, ScorerShaped, SuppressorShaped
<1> QED
  BY <1>1, <1>2, <1>3, <1>4, <1>5, <1>6 DEF SessionOK

LEMMA EndsFacts ==
    ASSUME NEW s \in Sessions, Ends(s)
    PROVE  /\ session'[s].base = <<>> /\ session'[s].new = {} /\ session'[s].asked = {}
           /\ session'[s].row = <<>>
           /\ session'[s].locks = {} /\ ~Open(s)' /\ DOMAIN session'[s].base = {}
           /\ (s \in Imports => session'[s].pc = "done")
           /\ session'[s].pc \in {"closed", "done"}
BY ClosedFields, EmptyPart DEF Ends, Open

(* What a commit makes of each lead.                                       *)
LEMMA CommitsFacts ==
    ASSUME Typed, NEW s \in Sessions, Commits(s)
    PROVE  /\ DOMAIN session[s].row \subseteq Emails
           /\ linked' = IF s \in CrmImports THEN linked \cup Holds(s) ELSE linked
           /\ enrolled' = enrolled \cup session[s].adds
           /\ \A e \in Emails :
                 \/ /\ e \in session[s].new /\ s \in Imports /\ lead'[e].id = s
                    /\ lead'[e].status = "new"
                 \/ /\ e \in DOMAIN session[s].row /\ e \notin session[s].new
                    /\ lead'[e] = Written(lead[e], session[s].base[e], session[s].row[e])
                    /\ lead'[e].id = lead[e].id /\ lead[e].id = session[s].base[e].id
                 \/ /\ e \notin session[s].new /\ lead'[e] = lead[e]
                    /\ e \in DOMAIN session[s].row => session[s].row[e] = session[s].base[e]
<1>1. PICK next : Commit(s, next)
  BY DEF Commits
<1>2. session[s].pc \notin {"closed", "done"}
  BY DEF Commits, Ends
<1>3. session'[s] = next
  BY <1>1 DEF Commit, Step, Typed, SessionsOK
<1>4. next = IF s \in Imports THEN Done ELSE Closed
  BY <1>3 DEF Commits, Ends
<1>5. Dirty(s) \subseteq DOMAIN session[s].row
  BY DEF Dirty
<1>6. session[s].new \subseteq Emails
  BY SessionFacts
<1>7. /\ linked' = IF s \in CrmImports THEN linked \cup Holds(s) ELSE linked
      /\ enrolled' = enrolled \cup session[s].adds
  BY <1>1 DEF Commit
<1>8. \A e \in DOMAIN session[s].row : e \notin Dirty(s) => session[s].row[e] = session[s].base[e]
  BY DEF Dirty
<1> QED
  BY <1>1, <1>2, <1>4, <1>5, <1>6, <1>7, <1>8, CommitTyped

(* No import that is done starts again.                                    *)
LEMMA DoneStays ==
    ASSUME NEW s \in Sessions, Only(s), Reads(s) \/ Loads(s) \/ GoesOn(s) \/ Ends(s),
           NEW id \in Finished
    PROVE  id \in Finished'
<1>1. id \in Imports /\ session[id].pc = "done" /\ id \in Sessions
  BY Kinds DEF Finished
<1>2. CASE id # s
  BY <1>1, <1>2 DEF Only, Finished
<1>3. CASE id = s
  BY <1>1, <1>3, ClosedFields DEF Reads, Loads, GoesOn, Ends, Finished
<1> QED
  BY <1>2, <1>3

LEMMA RowsMoves ==
    ASSUME Typed, Typed', RowsInv, Still, NEW s \in Sessions, Moves(s)
    PROVE  RowsInv'
<1>1. lead' = lead /\ linked' = linked /\ enrolled' = enrolled /\ Known' = Known
  BY DEF Still, Known
<1>2. Finished \subseteq Finished'
  BY DoneStays DEF Moves
<1>3. \A t \in Sessions \ {s} : session'[t] = session[t]
  BY DEF Moves, Only
<1>4. \A e \in Emails : e \in DOMAIN session'[s].base => session'[s].base[e].id \in Finished
  <2>1. CASE Reads(s) \/ Ends(s)
    BY <2>1, EndsFacts, EmptyPart DEF Reads
  <2>2. CASE Loads(s)
    <3> PICK E \in SUBSET Known : session'[s].base = [e \in E |-> lead[e]]
      BY <2>2 DEF Loads
    <3> QED
      BY DEF RowsInv
  <2>3. CASE GoesOn(s)
    BY <2>3 DEF GoesOn, RowsInv
  <2> QED
    BY <2>1, <2>2, <2>3 DEF Moves
<1>5. s \in Imports => DOMAIN session'[s].row \subseteq Known
  <2>1. DOMAIN session'[s].row = DOMAIN session'[s].base /\ DOMAIN session[s].row = DOMAIN session[s].base
    BY SessionFacts DEF Typed, SessionsOK, SessionOK, Shaped
  <2>2. CASE Reads(s) \/ Ends(s)
    BY <2>1, <2>2, EndsFacts, EmptyPart DEF Reads
  <2>3. CASE Loads(s)
    <3> PICK E \in SUBSET Known : session'[s].base = [e \in E |-> lead[e]]
      BY <2>3 DEF Loads
    <3> QED
      BY <2>1
  <2>4. CASE GoesOn(s)
    BY <2>1, <2>4 DEF GoesOn, RowsInv
  <2> QED
    BY <2>2, <2>3, <2>4 DEF Moves
<1>6. s \in Imports /\ Open(s)' =>
        /\ session'[s].new \cap Known = {}
        /\ \A j \in Imports \ {s} : Open(j) => session'[s].new \cap session[j].new = {}
  <2> SUFFICES ASSUME s \in Imports, Open(s)'
               PROVE  /\ session'[s].new \cap Known = {}
                      /\ \A j \in Imports \ {s} : Open(j) => session'[s].new \cap session[j].new = {}
    OBVIOUS
  <2>1. ~Reads(s) /\ ~Ends(s)
    BY EndsFacts DEF Reads, Open
  <2>2. CASE Loads(s)
    <3>1. session'[s].new = session[s].new /\ session[s].new \cap Known = {}
      BY <2>2 DEF Loads
    <3>2. \A j \in Imports \ {s} : Inserted(j) \cap session[s].new = {}
      BY <2>2 DEF Loads
    <3>3. \A j \in Imports \ {s} : Open(j) => Inserted(j) = session[j].new
      BY DEF Open, Inserted
    <3> QED
      BY <3>1, <3>2, <3>3
  <2>3. CASE GoesOn(s)
    BY <2>3 DEF GoesOn, RowsInv
  <2> QED
    BY <2>1, <2>2, <2>3 DEF Moves
<1>7. s \in Scorers => session'[s].locks \subseteq Known
  <2> SUFFICES ASSUME s \in Scorers
               PROVE  session'[s].locks \subseteq Known
    OBVIOUS
  <2>1. s \notin Imports
    BY Kinds
  <2>2. CASE Reads(s) \/ Ends(s) \/ Loads(s)
    BY <2>1, <2>2, EndsFacts DEF Reads, Loads
  <2>3. CASE GoesOn(s)
    <3> SUFFICES ASSUME NEW e \in session'[s].locks \ session[s].locks
                 PROVE  e \in Known
      BY DEF RowsInv
    <3>1. e \in DOMAIN session[s].base /\ lead[e].id = session[s].base[e].id
      BY <2>3 DEF GoesOn
    <3>2. e \in Emails
      BY <3>1, SessionFacts
    <3>3. lead[e].id \in Imports
      BY <3>1, <3>2 DEF RowsInv, Finished
    <3> QED
      BY <3>2, <3>3 DEF Known
  <2> QED
    BY <2>2, <2>3 DEF Moves
<1>8. \A i \in Imports \ {s} : /\ session'[i] = session[i] /\ (Open(i)' <=> Open(i))
  BY <1>3, Kinds DEF Open
<1>9. linked' \subseteq Known' /\ enrolled' \subseteq Known' /\ \A e \in Known' : lead'[e].id \in Finished'
  BY <1>1, <1>2 DEF RowsInv
<1>10. \A t \in Sessions, e \in Emails : e \in DOMAIN session'[t].base => session'[t].base[e].id \in Finished'
  BY <1>2, <1>3, <1>4 DEF RowsInv
<1>11. \A i \in Imports : DOMAIN session'[i].row \subseteq Known'
  BY <1>1, <1>5, <1>8 DEF RowsInv
<1>12. \A i \in Imports : Open(i)' => session'[i].new \cap Known' = {}
  BY <1>1, <1>6, <1>8 DEF RowsInv
<1>13. \A i, j \in Imports : Open(i)' /\ Open(j)' /\ i # j => session'[i].new \cap session'[j].new = {}
  BY <1>6, <1>8 DEF RowsInv
<1>14. \A t \in Scorers : session'[t].locks \subseteq Known'
  BY <1>1, <1>3, <1>7, Kinds DEF RowsInv
<1> QED
  BY <1>9, <1>10, <1>11, <1>12, <1>13, <1>14 DEF RowsInv

LEMMA RowsCommits ==
    ASSUME Typed, Typed', RowsInv, NEW s \in Sessions, Commits(s)
    PROVE  RowsInv'
<1>1. /\ Only(s) /\ Ends(s)
      /\ \A t \in Sessions \ {s} : session'[t] = session[t]
  BY DEF Commits, Only
<1>2. Finished \subseteq Finished'
  BY <1>1, DoneStays
<1>3. s \in Imports => s \in Finished'
  BY <1>1, EndsFacts DEF Finished
<1>4. s \in Imports => Open(s)
  BY DEF Commits, Open
<1>5. \A e \in Emails : lead'[e].id = IF e \in session[s].new THEN s ELSE lead[e].id
  BY CommitsFacts
<1>6. session[s].new # {} => s \in Imports
  BY SessionFacts
<1>7. Known' = Known \cup session[s].new
  <2>1. session[s].new \subseteq Emails
    BY SessionFacts
  <2>2. \A e \in session[s].new : s # Nobody
    BY <1>6
  <2> QED
    BY <1>5, <2>1, <2>2 DEF Known
<1>8. \A e \in Known' : lead'[e].id \in Finished'
  BY <1>2, <1>3, <1>5, <1>6 DEF Known, RowsInv
<1>9. linked' \subseteq Known'
  <2>1. s \in CrmImports => Holds(s) \subseteq Known'
    BY <1>7, Kinds DEF Holds, RowsInv
  <2> QED
    BY <1>7, <2>1, CommitsFacts DEF RowsInv
<1>10. enrolled' \subseteq Known'
  <2>1. session[s].adds \subseteq Known'
    <3>1. session[s].adds \subseteq DOMAIN session[s].row /\ session[s].adds \subseteq session[s].locks
      BY SessionFacts DEF Shaped
    <3>2. CASE s \in Imports
      BY <1>7, <3>1, <3>2 DEF RowsInv
    <3>3. CASE s \in Scorers
      BY <1>7, <3>1, <3>3 DEF RowsInv
    <3>4. CASE s \in Workers \cup Suppressors
      BY <3>4, Kinds DEF Typed, SessionsOK, SessionOK, WorkerShaped, SuppressorShaped
    <3> QED
      BY <3>2, <3>3, <3>4, Kinds
  <2> QED
    BY <1>7, <2>1, CommitsFacts DEF RowsInv
<1>11. \A t \in Sessions, e \in Emails : e \in DOMAIN session'[t].base => session'[t].base[e].id \in Finished'
  BY <1>1, <1>2, EndsFacts DEF RowsInv
<1>12. \A i \in Imports : DOMAIN session'[i].row \subseteq Known'
  BY <1>1, <1>7, EndsFacts, EmptyPart, Kinds DEF RowsInv
<1>13. \A i \in Imports \ {s} : session'[i] = session[i] /\ (Open(i)' <=> Open(i))
  BY <1>1, Kinds DEF Open
<1>14. ~Open(s)'
  BY <1>1, EndsFacts
<1>15. \A i \in Imports : Open(i)' => session'[i].new \cap Known' = {}
  BY <1>4, <1>6, <1>7, <1>13, <1>14 DEF RowsInv
<1>16. \A i, j \in Imports : Open(i)' /\ Open(j)' /\ i # j => session'[i].new \cap session'[j].new = {}
  BY <1>13, <1>14 DEF RowsInv
<1>17. \A t \in Scorers : session'[t].locks \subseteq Known'
  BY <1>1, <1>7, EndsFacts, Kinds DEF RowsInv
<1> QED
  BY <1>8, <1>9, <1>10, <1>11, <1>12, <1>15, <1>16, <1>17 DEF RowsInv

LEMMA RowsErase ==
    ASSUME Typed, Typed', RowsInv, NEW e \in Emails, Erase(e)
    PROVE  RowsInv'
<1>1. /\ session' = session /\ linked' = linked /\ enrolled' = enrolled \ {e}
      /\ e \notin linked
      /\ \A s \in Sessions : e \notin session[s].locks /\ (s \in Imports => e \notin Holds(s))
  BY DEF Erase
<1>2. \A x \in Emails : lead'[x] = IF x = e THEN Absent ELSE lead[x]
  BY DEF Erase, Typed, TablesOK
<1>3. Known' = Known \ {e}
  BY <1>2 DEF Known, Absent
<1>4. Finished' = Finished
  BY <1>1 DEF Finished
<1>5. \A i \in Imports : Open(i)' <=> Open(i)
  BY <1>1 DEF Open
<1>6. \A x \in Known' : lead'[x].id \in Finished'
  BY <1>2, <1>3, <1>4 DEF RowsInv, Known
<1>7. \A i \in Imports : DOMAIN session'[i].row \subseteq Known'
  BY <1>1, <1>3, Kinds DEF RowsInv, Holds
<1>8. \A t \in Scorers : session'[t].locks \subseteq Known'
  BY <1>1, <1>3, Kinds DEF RowsInv
<1> QED
  BY <1>1, <1>3, <1>4, <1>5, <1>6, <1>7, <1>8 DEF RowsInv

LEMMA RowsInit == Init => RowsInv
<1> SUFFICES ASSUME Init PROVE RowsInv
  OBVIOUS
<1>1. Known = {}
  BY DEF Init, Known, Absent
<1>2. \A s \in Sessions : session[s] = Closed
  BY DEF Init
<1> QED
  BY <1>1, <1>2, ClosedFields, EmptyPart, Kinds DEF Init, RowsInv, Open

LEMMA RowsNext == Typed /\ Typed' /\ RowsInv /\ [Next]_vars => RowsInv'
<1> SUFFICES ASSUME Typed, Typed', RowsInv, [Next]_vars PROVE RowsInv'
  OBVIOUS
<1>1. CASE Still /\ session' = session
  BY <1>1 DEF Still, RowsInv, Known, Finished, Open
<1>2. CASE UNCHANGED vars
  BY <1>1, <1>2 DEF vars, Still
<1>3. CASE Next
  <2>1. Moved
    BY <1>3, ActMoves DEF Next
  <2> QED
    BY <1>1, <2>1, RowsMoves, RowsCommits, RowsErase DEF Moved
<1> QED
  BY <1>2, <1>3

(* No lead, link or enrollment is left without its row: what is linked or  *)
(* enrolled is known, and each lead is of an import that has committed.    *)
THEOREM RowsStand == Spec => []RowsInv
BY RowsInit, RowsNext, AlwaysTyped, PTL DEF Spec

-----------------------------------------------------------------------------
(* Suppression *)

(* What the history of crossings records of a step.                        *)
Crossings ==
    /\ crossed \subseteq crossed'
    /\ \A s \in Suppressors, e \in Emails \ crossed' :
          e \in session'[s].asked => Unheld(e, Sessions \ {s})'
    /\ \A e \in Emails \ crossed' : Erase(e) => Unheld(e, Sessions)

LEMMA NextCrossings == ASSUME Next PROVE Crossings
<1>1. crossed' = crossed
         \cup {e \in Emails : \E s \in Suppressors : e \in session[s]'.asked /\ InHand(Others(s), e)' # {}}
         \cup {e \in Emails : Erase(e) /\ InHand(Sessions, e) # {}}
  BY DEF Next
<1>2. \A s \in Suppressors, e \in Emails \ crossed' :
         e \in session'[s].asked => InHand(Others(s), e)' = {}
  BY <1>1
<1>3. \A s, e : InHand(Others(s), e)' = {} => Unheld(e, Sessions \ {s})'
  BY DEF InHand, Others, Holds, Unheld
<1>4. \A e \in Emails \ crossed' : Erase(e) => InHand(Sessions, e) = {}
  BY <1>1
<1>5. \A e : InHand(Sessions, e) = {} => Unheld(e, Sessions)
  BY DEF InHand, Holds, Unheld
<1>6. crossed \subseteq crossed'
  BY <1>1
<1> QED
  BY <1>2, <1>3, <1>4, <1>5, <1>6 DEF Crossings

LEMMA SuppressedMoves ==
    ASSUME Typed, Typed', SuppressedInv, Crossings, Still, NEW s \in Sessions, Moves(s)
    PROVE  SuppressedInv'
<1>1. /\ lead' = lead /\ suppressed' = suppressed /\ Known' = Known
      /\ \A t \in Sessions \ {s} : session'[t] = session[t]
  BY DEF Still, Known, Moves, Only
<1>2. DOMAIN session'[s].row = DOMAIN session'[s].base /\ DOMAIN session[s].row = DOMAIN session[s].base
  BY SessionFacts DEF Typed, SessionsOK, SessionOK, Shaped
<1>3. ASSUME NEW e \in suppressed \ crossed'
      PROVE  Uncrossed(e)'
  <2>1. Uncrossed(e) /\ e \in Emails
    BY <1>3 DEF Crossings, SuppressedInv, Typed, TablesOK
  <2>2. /\ e \notin session'[s].new
        /\ e \in DOMAIN session'[s].row =>
              \/ s \in Suppressors
              \/ session'[s].base[e].status = "suppressed"
    <3>1. CASE Reads(s)
      BY <1>2, <1>3, <3>1, EmptyPart DEF Reads, Admitted
    <3>2. CASE Loads(s)
      <4>1. PICK E \in SUBSET Known : session'[s].base = [x \in E |-> lead[x]]
        BY <3>2 DEF Loads
      <4>2. e \notin session'[s].new
        <5>1. CASE s \in Imports
          BY <2>1, <3>2, <5>1 DEF Loads, Uncrossed
        <5>2. CASE s \notin Imports
          BY <5>2, Kinds DEF Typed, SessionsOK, SessionOK, WorkerShaped, ScorerShaped, SuppressorShaped
        <5> QED
          BY <5>1, <5>2
      <4>3. e \in E => lead[e].status = "suppressed"
        BY <2>1 DEF Uncrossed
      <4> QED
        BY <1>2, <4>1, <4>2, <4>3
    <3>3. CASE GoesOn(s)
      BY <1>2, <2>1, <3>3 DEF GoesOn, Uncrossed
    <3>4. CASE Ends(s)
      BY <1>2, <3>4, EndsFacts
    <3> QED
      BY <3>1, <3>2, <3>3, <3>4 DEF Moves
  <2> QED
    BY <1>1, <2>1, <2>2 DEF Uncrossed
<1>4. ASSUME NEW t \in Suppressors, NEW e \in session'[t].asked \ crossed'
      PROVE  Asked(t, e)'
  <2>1. e \in Emails /\ t \in Sessions /\ t \notin Imports
    BY Kinds, SessionFields DEF Typed, SessionsOK, SessionOK
  <2>2. Unheld(e, Sessions \ {t})'
    BY <1>4, <2>1 DEF Crossings
  <2>3. CASE t # s
    <3>1. Asked(t, e) /\ session'[t] = session[t]
      BY <1>1, <2>1, <2>3, <1>4 DEF Crossings, SuppressedInv
    <3> QED
      BY <1>1, <2>2, <3>1 DEF Asked
  <2>4. CASE t = s
    <3>1. Loads(s)
      BY <2>1, <2>4, <1>4, EndsFacts DEF Moves, Reads, GoesOn
    <3>2. PICK E \in SUBSET Known, x \in Emails :
             /\ session'[s].base = [y \in E |-> lead[y]]
             /\ session'[s].asked = {x} /\ E = {x} \cap Known
      BY <2>4, <3>1 DEF Loads
    <3>3. e = x
      BY <1>4, <2>4, <3>2
    <3> QED
      BY <1>1, <1>2, <2>2, <2>4, <3>2, <3>3 DEF Asked
  <2> QED
    BY <2>3, <2>4
<1> QED
  BY <1>1, <1>3, <1>4 DEF SuppressedInv

LEMMA SuppressedCommits ==
    ASSUME Typed, Typed', SuppressedInv, Crossings, NEW s \in Sessions, Commits(s)
    PROVE  SuppressedInv'
<1>1. /\ Ends(s) /\ \A t \in Sessions \ {s} : session'[t] = session[t]
      /\ suppressed' = IF s \in Suppressors THEN suppressed \cup session[s].asked ELSE suppressed
  BY DEF Commits, Only
<1>2. /\ session'[s].new = {} /\ DOMAIN session'[s].row = {} /\ session'[s].asked = {}
  BY <1>1, EndsFacts, EmptyPart
<1>3. session[s].asked \subseteq Emails /\ session[s].new \subseteq Emails
  BY SessionFacts
<1>4. ASSUME NEW e \in suppressed \ crossed'
      PROVE  Uncrossed(e)'
  <2>1. Uncrossed(e) /\ e \in Emails
    BY <1>4 DEF Crossings, SuppressedInv, Typed, TablesOK
  <2>2. e \in Known' => lead'[e].status = "suppressed"
    <3> SUFFICES ASSUME e \in Known'
                 PROVE  lead'[e].status = "suppressed"
      OBVIOUS
    <3>1. e \notin session[s].new
      BY <2>1 DEF Uncrossed
    <3>2. CASE /\ e \in DOMAIN session[s].row
               /\ lead'[e] = Written(lead[e], session[s].base[e], session[s].row[e])
               /\ lead'[e].id = lead[e].id
      <4> DEFINE b == session[s].base[e]
                 r == session[s].row[e]
      <4>1. b \in Row /\ r \in Row /\ Edited(s, b, r) /\ lead[e] \in Row
        BY <2>1, <3>2, SessionFacts DEF Typed, TablesOK
      <4>2. lead[e].status = "suppressed"
        BY <2>1, <3>2 DEF Known, Uncrossed
      <4>3. r.status # b.status => r.status = "suppressed"
        BY <2>1, <3>2, <4>1 DEF Edited, Uncrossed
      <4>4. lead'[e].status = IF r.status # b.status THEN r.status ELSE lead[e].status
        BY <3>2, <4>1, WrittenRow
      <4> QED
        BY <4>2, <4>3, <4>4
    <3>3. CASE lead'[e] = lead[e]
      BY <2>1, <3>3 DEF Known, Uncrossed
    <3> QED
      BY <2>1, <3>1, <3>2, <3>3, CommitsFacts
  <2> QED
    BY <1>1, <1>2, <2>1, <2>2 DEF Uncrossed
<1>5. ASSUME s \in Suppressors, NEW e \in session[s].asked \ crossed'
      PROVE  Uncrossed(e)'
  <2>1. Asked(s, e) /\ e \in Emails
    BY <1>3, <1>5 DEF Crossings, SuppressedInv
  <2>2. e \notin session[s].new
    BY <1>5, Kinds, SessionFacts
  <2>3. e \in Known' => lead'[e].status = "suppressed"
    <3> SUFFICES ASSUME e \in Known'
                 PROVE  lead'[e].status = "suppressed"
      OBVIOUS
    <3>1. e \in Known
      BY <2>1, <2>2, CommitsFacts DEF Known
    <3> DEFINE b == session[s].base[e]
               r == session[s].row[e]
    <3>2. /\ e \in DOMAIN session[s].row /\ lead[e] = b
      BY <2>1, <3>1 DEF Asked
    <3>3. b \in Row /\ r \in Row /\ r.status = "suppressed"
      BY <1>5, <3>2, SessionFacts DEF Edited
    <3>4. CASE lead'[e] = Written(lead[e], b, r)
      <4>1. lead'[e].status = IF r.status # b.status THEN r.status ELSE lead[e].status
        BY <3>2, <3>3, <3>4, WrittenRow
      <4> QED
        BY <3>2, <3>3, <4>1
    <3>5. CASE lead'[e] = lead[e] /\ r = b
      BY <3>2, <3>3, <3>5
    <3> QED
      BY <2>1, <2>2, <3>2, <3>4, <3>5, CommitsFacts
  <2>4. \A t \in Sessions : e \notin session'[t].new /\ e \notin DOMAIN session'[t].row
    BY <1>1, <1>2, <2>1 DEF Asked, Unheld
  <2> QED
    BY <2>3, <2>4 DEF Uncrossed
<1>6. ASSUME NEW t \in Suppressors, NEW e \in session'[t].asked \ crossed'
      PROVE  Asked(t, e)'
  <2>1. t # s /\ t \in Sessions /\ session'[t] = session[t]
    BY <1>1, <1>2, <1>6, Kinds
  <2>2. e \in Emails /\ e \notin crossed
    BY <1>6, <2>1, SessionFacts DEF Crossings
  <2>3. Asked(t, e)
    BY <1>6, <2>1, <2>2 DEF SuppressedInv
  <2>4. Unheld(e, Sessions \ {t})'
    BY <1>6, <2>2 DEF Crossings
  <2>5. e \notin session[s].new /\ e \notin DOMAIN session[s].row
    BY <2>1, <2>3 DEF Asked, Unheld
  <2>6. lead'[e] = lead[e]
    BY <2>2, <2>5, CommitsFacts
  <2>7. e \in Known' <=> e \in Known
    BY <2>2, <2>6 DEF Known
  <2> QED
    BY <2>1, <2>3, <2>4, <2>6, <2>7 DEF Asked
<1>7. \A e \in suppressed' \ crossed' : Uncrossed(e)'
  BY <1>1, <1>4, <1>5
<1> QED
  BY <1>6, <1>7 DEF SuppressedInv

LEMMA SuppressedErase ==
    ASSUME Typed, Typed', SuppressedInv, Crossings, NEW x \in Emails, Erase(x)
    PROVE  SuppressedInv'
<1>1. session' = session /\ suppressed' = suppressed \cup {x} /\ x \in Known
  BY DEF Erase
<1>2. \A y \in Emails : lead'[y] = IF y = x THEN Absent ELSE lead[y]
  BY DEF Erase, Typed, TablesOK
<1>3. Known' = Known \ {x}
  BY <1>2 DEF Known, Absent
<1>4. ASSUME NEW e \in suppressed' \ crossed'
      PROVE  Uncrossed(e)'
  <2>1. CASE e = x
    <3>1. Unheld(x, Sessions)
      BY <1>4, <2>1 DEF Crossings
    <3> QED
      BY <1>1, <1>3, <2>1, <3>1 DEF Uncrossed, Unheld
  <2>2. CASE e # x
    <3>1. Uncrossed(e) /\ e \in Emails
      BY <1>1, <1>4, <2>2 DEF Crossings, SuppressedInv, Typed, TablesOK
    <3> QED
      BY <1>1, <1>2, <1>3, <2>2, <3>1 DEF Uncrossed
  <2> QED
    BY <2>1, <2>2
<1>5. ASSUME NEW t \in Suppressors, NEW e \in session'[t].asked \ crossed'
      PROVE  Asked(t, e)'
  <2>1. t \in Sessions /\ e \in Emails /\ e \notin crossed
    BY <1>1, <1>5, Kinds, SessionFacts DEF Crossings
  <2>2. Asked(t, e)
    BY <1>1, <1>5, <2>1 DEF SuppressedInv
  <2>3. e # x
    <3> SUFFICES ASSUME e = x PROVE FALSE
      OBVIOUS
    <3>1. x \in DOMAIN session[t].row
      BY <1>1, <2>2 DEF Asked
    <3>2. Unheld(x, Sessions)
      BY <1>5 DEF Crossings
    <3> QED
      BY <2>1, <3>1, <3>2 DEF Unheld
  <2> QED
    BY <1>1, <1>2, <1>3, <2>1, <2>2, <2>3 DEF Asked, Unheld
<1> QED
  BY <1>4, <1>5 DEF SuppressedInv

LEMMA SuppressedNext ==
    ASSUME Typed, Typed', SuppressedInv, [Next]_vars
    PROVE  SuppressedInv'
<1>1. ASSUME Still, session' = session, crossed \subseteq crossed'
      PROVE  SuppressedInv'
  <2>1. Known' = Known /\ lead' = lead /\ suppressed' = suppressed
    BY <1>1 DEF Still, Known
  <2>2. \A e : Uncrossed(e) => Uncrossed(e)'
    BY <1>1, <2>1 DEF Uncrossed
  <2>3. \A s, e : Asked(s, e) => Asked(s, e)'
    BY <1>1, <2>1 DEF Asked, Unheld
  <2> QED
    BY <1>1, <2>1, <2>2, <2>3 DEF SuppressedInv
<1>2. CASE UNCHANGED vars
  BY <1>1, <1>2 DEF vars, Still
<1>3. CASE Next
  <2>1. Moved
    BY <1>3, ActMoves DEF Next
  <2>2. Crossings
    BY <1>3, NextCrossings
  <2>3. crossed \subseteq crossed'
    BY <2>2 DEF Crossings
  <2> QED
    BY <1>1, <2>1, <2>2, <2>3, SuppressedMoves, SuppressedCommits, SuppressedErase DEF Moved
<1> QED
  BY <1>2, <1>3

(* A person on the do-not-contact list stays marked so, whatever is         *)
(* imported, verified, scored or erased later, unless the suppression       *)
(* crossed a transaction that had the address in hand.                      *)
THEOREM SuppressionHolds == Spec => []SuppressionSticks
<1>1. Init => SuppressedInv
  BY ClosedFields, Kinds DEF Init, SuppressedInv
<1>2. Typed /\ Typed' /\ SuppressedInv /\ [Next]_vars => SuppressedInv'
  BY SuppressedNext
<1>3. SuppressedInv => SuppressionSticks
  BY DEF SuppressedInv, SuppressionSticks, Uncrossed
<1> QED
  BY <1>1, <1>2, <1>3, AlwaysTyped, PTL DEF Spec

-----------------------------------------------------------------------------
(* The budget *)

LEMMA WorkerUses ==
    ASSUME Typed, NEW w \in Workers
    PROVE  /\ session[w].uses \in {0, Calls} /\ session[w].called \in BOOLEAN
           /\ session[w].pc = "closed" => session[w].uses = 0
           /\ session[w].called => session[w].uses = Calls
           /\ session[w].pc # "reserved" /\ session[w].uses # 0 => session[w].called
           /\ session[w].pc \in {"loaded", "verified"} => session[w].uses = 0
<1>1. /\ session[w] \in Session /\ Shaped(w, session[w]) /\ WorkerShaped(session[w])
  BY Kinds DEF Typed, SessionsOK, SessionOK
<1>2. session[w].uses \in {0, Calls} /\ session[w].called \in BOOLEAN
  BY <1>1, SessionFields
<1>3. session[w].pc = "closed" => session[w].uses = 0 /\ session[w].called = FALSE
  BY <1>1, ClosedFields DEF Shaped
<1> QED
  BY <1>1, <1>2, <1>3, LeadsAssumption DEF WorkerShaped, WorkerPcs

LEMMA OthersUse ==
    ASSUME Typed, NEW s \in Sessions \ Workers
    PROVE  session[s].uses = 0 /\ session[s].called = FALSE
<1>1. SessionOK(s, session[s]) /\ session[s].called \in BOOLEAN
  BY SessionFields DEF Typed, SessionsOK, SessionOK
<1> QED
  BY <1>1, Kinds DEF SessionOK, ImportShaped, ScorerShaped, SuppressorShaped

(* A step that neither reserves, calls, commits nor rolls back calls.      *)
Unspent ==
    /\ UNCHANGED <<calls, made, lost>>
    /\ \A w \in Workers : /\ session'[w].uses = session[w].uses
                          /\ session'[w].called = session[w].called

LEMMA BudgetFrame ==
    ASSUME BudgetInv, Unspent
    PROVE  BudgetInv'
BY DEF BudgetInv, Unspent

(* The calls of a transaction that ends are in the counter or in `lost`.   *)
LEMMA BudgetEnds ==
    ASSUME Typed, Typed', BudgetInv, NEW s \in Sessions, Only(s), Ends(s), made' = made,
           \/ /\ calls' = calls + session[s].uses /\ lost' = lost
              /\ session[s].pc # "reserved"
           \/ /\ calls' = calls
              /\ lost' = IF session[s].called THEN lost + session[s].uses ELSE lost
    PROVE  BudgetInv'
<1>1. calls \in Nat /\ made \in Nat /\ lost \in Nat /\ Calls \in Nat \ {0}
  BY LeadsAssumption DEF Typed, TablesOK, JobsOK
<1>2. CASE s \notin Workers
  <2>1. session[s].uses = 0 /\ session[s].called = FALSE
    BY <1>2, OthersUse
  <2>2. UNCHANGED <<calls, made, lost>>
    BY <1>1, <2>1
  <2>3. \A w \in Workers : session'[w] = session[w]
    BY <1>2, Kinds DEF Only
  <2> QED
    BY <2>2, <2>3, BudgetFrame DEF Unspent
<1>3. CASE s \in Workers
  <2> DEFINE u == session[s].uses
  <2>1. session'[s].uses = 0 /\ session'[s].called = FALSE
    BY <1>3, ClosedFields, Kinds DEF Ends
  <2>2. \A w \in Workers \ {s} : session'[w] = session[w]
    BY Kinds DEF Only
  <2>3. /\ u \in {0, Calls} /\ session[s].called \in BOOLEAN
        /\ session[s].called => u = Calls
        /\ session[s].pc # "reserved" /\ u # 0 => session[s].called
    BY <1>3, WorkerUses
  <2>4. ASSUME NEW w \in Workers \ {s}, u # 0
        PROVE  session[w].uses = 0 /\ session[w].called = FALSE
    <3>1. session[w].uses = 0
      BY <1>3, <2>4 DEF BudgetInv
    <3> QED
      BY <1>1, <3>1, WorkerUses
  <2>5. CASE session[s].called
    <3>1. u = Calls /\ u # 0
      BY <1>1, <2>3, <2>5
    <3>2. made = calls + lost + Calls /\ calls + Calls <= Budget
      BY <1>3, <2>5, <3>1 DEF BudgetInv
    <3>3. \A w \in Workers : session'[w].uses = 0 /\ session'[w].called = FALSE
      BY <2>1, <2>2, <2>4, <3>1
    <3>4. calls' \in Nat /\ calls' <= Budget /\ made' = calls' + lost'
      BY <1>1, <2>5, <3>1, <3>2, LeadsAssumption
    <3> QED
      BY <3>3, <3>4 DEF BudgetInv
  <2>6. CASE ~session[s].called
    <3>1. calls' = calls /\ lost' = lost
      BY <1>1, <2>3, <2>6
    <3>2. \A w \in Workers : session'[w].uses # 0 => session[w].uses # 0
      BY <2>1, <2>2
    <3>3. \A w \in Workers : session'[w].called = session[w].called
      BY <2>1, <2>2, <2>3, <2>6
    <3>4. \A w \in Workers : calls + session'[w].uses <= Budget
      BY <1>1, <2>1, <2>2 DEF BudgetInv
    <3> QED
      BY <3>1, <3>2, <3>3, <3>4 DEF BudgetInv
  <2> QED
    BY <2>3, <2>5, <2>6
<1> QED
  BY <1>2, <1>3

LEMMA BudgetReserve ==
    ASSUME Typed, Typed', BudgetInv, NEW w \in Workers, Reserve(w)
    PROVE  BudgetInv'
<1>1. /\ Only(w) /\ session'[w].called = FALSE /\ session[w].pc = "verified"
      /\ \/ calls + Calls <= Budget /\ session'[w].uses = Calls
         \/ session'[w].uses = 0
  BY ReserveTyped
<1>2. UNCHANGED <<calls, made, lost>> /\ \A t \in Sessions \ {w} : session[t].uses = 0
  BY DEF Reserve, Tables, Jobs, OrgFree, Others
<1>3. calls \in Nat /\ Calls \in Nat \ {0}
  BY LeadsAssumption DEF Typed, TablesOK
<1>4. session[w].uses = 0 /\ session[w].called = FALSE
  BY <1>1, <1>3, WorkerUses
<1>5. \A x \in Workers \ {w} :
         session'[x] = session[x] /\ session[x].uses = 0 /\ session[x].called = FALSE
  BY <1>1, <1>2, <1>3, WorkerUses, Kinds DEF Only
<1>6. calls <= Budget /\ made = calls + lost
  BY <1>4, <1>5 DEF BudgetInv
<1>7. \A x \in Workers : calls + session'[x].uses <= Budget
  BY <1>1, <1>3, <1>5, <1>6
<1>8. \A x \in Workers : session'[x].called = FALSE
  BY <1>1, <1>5
<1> QED
  BY <1>2, <1>5, <1>6, <1>7, <1>8 DEF BudgetInv

LEMMA BudgetEnrich ==
    ASSUME Typed, Typed', BudgetInv, NEW w \in Workers, Enrich(w)
    PROVE  BudgetInv'
<1>1. /\ Only(w) /\ session[w].pc = "reserved" /\ session'[w].called = TRUE
      /\ session'[w].uses = session[w].uses /\ session[w].uses = Calls
  BY EnrichTyped
<1>2. calls' = calls /\ lost' = lost /\ made' = made + session[w].uses
  BY DEF Enrich, Tables
<1>3. calls \in Nat /\ Calls \in Nat \ {0} /\ lost \in Nat /\ made \in Nat
  BY LeadsAssumption DEF Typed, TablesOK, JobsOK
<1>4. session[w].called = FALSE
  <2>1. WorkerShaped(session[w]) /\ session[w] \in Session
    BY Kinds DEF Typed, SessionsOK, SessionOK
  <2> QED
    BY <1>1, <2>1, SessionFields DEF WorkerShaped
<1>5. \A x \in Workers \ {w} :
         session'[x] = session[x] /\ session[x].uses = 0 /\ session[x].called = FALSE
  <2>1. \A x \in Workers \ {w} : session'[x] = session[x] /\ session[x].uses = 0
    BY <1>1, <1>3, Kinds DEF Only, BudgetInv
  <2> QED
    BY <1>3, <2>1, WorkerUses
<1>6. made = calls + lost
  BY <1>4, <1>5 DEF BudgetInv
<1>7. made' = calls' + lost' + Calls
  BY <1>1, <1>2, <1>3, <1>6
<1>8. \A x \in Workers : calls' + session'[x].uses <= Budget
  BY <1>1, <1>2, <1>5 DEF BudgetInv
<1>9. calls' <= Budget
  BY <1>2 DEF BudgetInv
<1> QED
  BY <1>1, <1>5, <1>7, <1>8, <1>9 DEF BudgetInv

LEMMA BudgetAct ==
    ASSUME Typed, Typed', BudgetInv, Act
    PROVE  BudgetInv'
<1> USE DEF Tables, Jobs
<1>1. ASSUME NEW s \in Sessions \ Workers, Moves(s), UNCHANGED <<calls, made, lost>>
      PROVE  BudgetInv'
  <2>1. Unspent
    BY <1>1, Kinds DEF Unspent, Moves, Only
  <2> QED
    BY <2>1, BudgetFrame
<1>2. ASSUME NEW i \in Imports, Read(i) \/ Insert(i) \/ ImportScores(i) \/ Publish(i)
      PROVE  BudgetInv'
  <2>1. Moves(i)
    BY <1>2, ReadTyped, InsertTyped, ScoresTyped, PublishTyped DEF Moves
  <2>2. UNCHANGED <<calls, made, lost>>
    BY <1>2 DEF Read, Insert, ImportScores, Publish, Scored
  <2> QED
    BY <1>1, <2>1, <2>2, Kinds
<1>3. ASSUME NEW s \in Sessions,
             \/ s \in Scorers /\ (Activate(s) \/ Score(s))
             \/ s \in Suppressors /\ Suppress(s)
      PROVE  BudgetInv'
  <2>1. Moves(s)
    BY <1>3, ActivateTyped, ScoresTyped, SuppressTyped DEF Moves
  <2>2. UNCHANGED <<calls, made, lost>>
    BY <1>3 DEF Activate, Score, Scored, Suppress
  <2> QED
    BY <1>1, <1>3, <2>1, <2>2, Kinds
<1>4. ASSUME NEW s \in Sessions, UNCHANGED <<made, lost>>,
             session[s].pc \notin {"closed", "done", "reserved"},
             Commit(s, IF s \in Imports THEN Done ELSE Closed)
      PROVE  BudgetInv'
  <2>1. Only(s) /\ Ends(s)
    BY <1>4, CommitTyped
  <2>2. calls' = calls + session[s].uses
    BY <1>4 DEF Commit
  <2> QED
    BY <1>4, <2>1, <2>2, BudgetEnds
<1>5. ASSUME NEW s \in Sessions, session[s].pc \notin {"closed", "done"},
             Rollback(s, IF s \in Imports THEN Done ELSE Closed)
      PROVE  BudgetInv'
  <2>1. Only(s) /\ Ends(s)
    <3>1. IF s \in Imports THEN Step(s, Done) ELSE Step(s, Closed)
      BY <1>5 DEF Rollback
    <3> QED
      BY <1>5, <3>1, EndTyped
  <2>2. /\ calls' = calls /\ made' = made
        /\ lost' = IF session[s].called THEN lost + session[s].uses ELSE lost
    BY <1>5 DEF Rollback
  <2> QED
    BY <2>1, <2>2, BudgetEnds
<1>6. ASSUME NEW w \in Workers, Take(w) \/ Verify(w)
      PROVE  BudgetInv'
  <2>1. UNCHANGED <<calls, made, lost>>
    BY <1>6 DEF Take, Verify
  <2>2. session' = session \/ Only(w)
    BY <1>6, TakeTyped, VerifyTyped
  <2>3. session[w].pc \in {"closed", "loaded"}
    BY <1>6, ClosedFields DEF Take, Verify
  <2>4. session' = session \/ session'[w].pc \in {"closed", "loaded", "verified"}
    BY <1>6, TakeTyped, VerifyTyped, EndsFacts, Kinds, ClosedFields DEF Ends, Loads
  <2>5. /\ session[w].uses = 0 /\ session[w].called = FALSE
        /\ session' = session \/ (session'[w].uses = 0 /\ session'[w].called = FALSE)
    <3>1. SessionOK(w, session[w]) /\ SessionOK(w, session'[w])
      BY Kinds DEF Typed, SessionsOK
    <3>2. /\ session[w].called \in BOOLEAN /\ session'[w].called \in BOOLEAN
      BY <3>1, SessionFields DEF SessionOK
    <3>3. \A r : SessionOK(w, r) /\ r.pc \in {"closed", "loaded", "verified"}
                    => r.uses = 0 /\ (r.called => FALSE)
      BY ClosedFields DEF SessionOK, Shaped, WorkerShaped
    <3> QED
      BY <2>3, <2>4, <3>1, <3>2, <3>3
  <2>6. Unspent
    BY <2>1, <2>2, <2>5, Kinds DEF Unspent, Only
  <2> QED
    BY <2>6, BudgetFrame
<1>7. ASSUME NEW w \in Workers, WorkerCommit(w) \/ WorkerFails(w)
      PROVE  BudgetInv'
  <2>1. w \in Sessions /\ w \notin Imports
    BY Kinds
  <2>2. CASE WorkerCommit(w)
    BY <1>4, <2>1, <2>2 DEF WorkerCommit
  <2>3. CASE WorkerFails(w)
    BY <1>5, <2>1, <2>3, WorkerPc DEF WorkerFails
  <2> QED
    BY <1>7, <2>2, <2>3
<1>8. ASSUME NEW i \in Imports, ImportCommit(i) \/ ImportFails(i)
      PROVE  BudgetInv'
  <2>1. i \in Sessions
    BY Kinds
  <2>2. CASE ImportCommit(i)
    BY <1>4, <2>1, <2>2 DEF ImportCommit
  <2>3. CASE ImportFails(i)
    BY <1>5, <2>1, <2>3 DEF ImportFails
  <2> QED
    BY <1>8, <2>2, <2>3
<1>9. ASSUME NEW s \in Sessions, ScoreCommit(s) \/ ScoreFails(s) \/ SuppressCommit(s) \/ SuppressFails(s)
      PROVE  BudgetInv'
  <2>1. s \notin Imports
    BY <1>9, Kinds DEF ScoreCommit, ScoreFails, SuppressCommit, SuppressFails
  <2>2. CASE ScoreCommit(s) \/ SuppressCommit(s)
    BY <1>4, <2>1, <2>2 DEF ScoreCommit, SuppressCommit
  <2>3. CASE ScoreFails(s) \/ SuppressFails(s)
    BY <1>5, <2>1, <2>3, ScorerPc DEF ScoreFails, SuppressFails
  <2> QED
    BY <1>9, <2>2, <2>3
<1>10. ASSUME NEW e \in Emails, Erase(e)
       PROVE  BudgetInv'
  <2>1. Unspent
    BY <1>10 DEF Erase, Unspent
  <2> QED
    BY <2>1, BudgetFrame
<1>11. ASSUME Reset
       PROVE  BudgetInv'
  <2>1. \A w \in Workers : session'[w] = session[w] /\ session[w].uses = 0 /\ session[w].called = FALSE
    BY <1>11, WorkerUses, LeadsAssumption, Kinds DEF Reset
  <2>2. calls' = 0 /\ made' = 0 /\ lost' = 0 /\ Budget \in Nat
    BY <1>11, LeadsAssumption DEF Reset
  <2> QED
    BY <2>1, <2>2 DEF BudgetInv
<1>12. ASSUME NEW i \in Imports, Read(i) \/ ImportOn(i)
       PROVE  BudgetInv'
  BY <1>2, <1>8, <1>12 DEF ImportOn
<1>13. ASSUME NEW w \in Workers, WorkOn(w)
       PROVE  BudgetInv'
  BY <1>6, <1>7, <1>13, BudgetReserve, BudgetEnrich DEF WorkOn
<1>14. ASSUME NEW s \in Scorers, Activate(s) \/ ScoreOn(s)
       PROVE  BudgetInv'
  BY <1>3, <1>9, <1>14, Kinds DEF ScoreOn
<1>15. ASSUME NEW s \in Suppressors, Suppress(s) \/ SuppressOn(s)
       PROVE  BudgetInv'
  BY <1>3, <1>9, <1>15, Kinds DEF SuppressOn
<1> QED
  BY <1>10, <1>11, <1>12, <1>13, <1>14, <1>15 DEF Act

LEMMA BudgetIsExact == Typed /\ BudgetInv => BudgetExact
<1> SUFFICES ASSUME Typed, BudgetInv PROVE BudgetExact
  OBVIOUS
<1> DEFINE U == {w \in Workers : session[w].uses > 0}
<1>1. calls \in Nat /\ Calls \in Nat \ {0} /\ lost \in Nat /\ made \in Nat /\ Budget \in Nat
  BY LeadsAssumption DEF Typed, TablesOK, JobsOK
<1>2. \A w \in Workers : /\ session[w].uses \in {0, Calls} /\ session[w].called \in BOOLEAN
                         /\ session[w].called => session[w].uses = Calls
  BY WorkerUses
<1>4. ASSUME NEW w \in Pending
      PROVE  made = calls + lost + Calls * Cardinality(Pending)
  <2>1. w \in Workers /\ session[w].called
    BY DEF Pending
  <2>2. Pending = {w}
    BY <1>1, <1>2, <2>1 DEF Pending, BudgetInv
  <2>3. Cardinality(Pending) = 1
    BY <2>2, FS_Singleton
  <2>4. made = calls + lost + Calls
    BY <2>1 DEF BudgetInv
  <2> QED
    BY <1>1, <2>3, <2>4
<1>5. made = calls + lost + Calls * Cardinality(Pending)
  <2>1. CASE Pending = {}
    <3>1. Cardinality(Pending) = 0
      BY <2>1, FS_EmptySet
    <3>2. made = calls + lost
      BY <2>1 DEF Pending, BudgetInv
    <3> QED
      BY <1>1, <3>1, <3>2
  <2> QED
    BY <1>4, <2>1
<1>6. calls + Calls * Cardinality(U) <= Budget
  <2>1. CASE U = {}
    <3>1. Cardinality(U) = 0
      BY <2>1, FS_EmptySet
    <3> QED
      BY <1>1, <3>1 DEF BudgetInv
  <2>2. ASSUME NEW w \in U
        PROVE  calls + Calls * Cardinality(U) <= Budget
    <3>1. w \in Workers /\ session[w].uses = Calls
      BY <1>1, <1>2
    <3>2. U = {w}
      BY <1>1, <1>2, <3>1 DEF BudgetInv
    <3>3. Cardinality(U) = 1
      BY <3>2, FS_Singleton
    <3>4. calls + Calls <= Budget
      BY <3>1 DEF BudgetInv
    <3> QED
      BY <1>1, <3>3, <3>4
  <2> QED
    BY <2>1, <2>2
<1> QED
  BY <1>5, <1>6 DEF BudgetExact

LEMMA BudgetNext == Typed /\ Typed' /\ BudgetInv /\ [Next]_vars => BudgetInv'
<1> SUFFICES ASSUME Typed, Typed', BudgetInv, [Next]_vars PROVE BudgetInv'
  OBVIOUS
<1>1. CASE UNCHANGED vars
  BY <1>1 DEF vars, BudgetInv
<1>2. CASE Next
  BY <1>2, BudgetAct DEF Next
<1> QED
  BY <1>1, <1>2

LEMMA BudgetInit == Init => BudgetInv
<1> SUFFICES ASSUME Init PROVE BudgetInv
  OBVIOUS
<1>1. \A w \in Workers : session[w] = Closed
  BY Kinds DEF Init
<1> QED
  BY <1>1, ClosedFields, LeadsAssumption DEF Init, BudgetInv

(* Every provider call of the day is in the counter, about to be committed, *)
(* or was made by a transaction that was rolled back; the counter and what  *)
(* is reserved never exceed the budget.                                     *)
THEOREM BudgetHolds == Spec => []BudgetExact
BY BudgetInit, BudgetNext, BudgetIsExact, AlwaysTyped, PTL DEF Spec

-----------------------------------------------------------------------------
(* The jobs *)

LEMMA StepOthers ==
    ASSUME Typed, NEW s \in Sessions, NEW r, Step(s, r)
    PROVE  session'[s] = r /\ \A t \in Sessions \ {s} : session'[t] = session[t]
BY DEF Typed, SessionsOK, Step

LEMMA SameJob ==
    ASSUME Typed, Typed', NEW w \in Workers, session[w].pc # "closed",
           session'[w].pc # "closed", session'[w].base = session[w].base
    PROVE  Job(w)' = Job(w)
<1>1. DOMAIN session[w].row = {Of(w)} /\ DOMAIN session[w].base = {Of(w)}
  BY WorkerHas DEF Typed
<1>2. Shaped(w, session'[w])
  BY Kinds DEF Typed, SessionsOK, SessionOK
<1>3. DOMAIN session'[w].row = {Of(w)}
  BY <1>1, <1>2 DEF Shaped
<1>4. Of(w)' = Of(w)
  BY <1>3 DEF Of
<1> QED
  BY <1>4 DEF Job

(* A job is accounted for as long as no list loses an entry and each worker *)
(* goes on with its lead, or has left its job in one of the lists.          *)
Tracked(w) ==
    \/ session[w] = Closed
    \/ session'[w] = session[w]
    \/ /\ session[w].pc # "closed" /\ session'[w].pc # "closed"
       /\ session'[w].base = session[w].base
    \/ Job(w) \in (queue \cup tried \cup stranded)'

LEMMA TrackedJobs ==
    ASSUME Typed, Typed', queue \subseteq queue', tried \subseteq tried',
           stranded \subseteq stranded', \A w \in Workers : Tracked(w),
           NEW j, Accounted(j)
    PROVE  Accounted(j)'
<1>1. CASE j \in queue \cup tried \cup stranded
  BY <1>1 DEF Accounted
<1>2. ASSUME NEW w \in Workers, session[w] # Closed, Job(w) = j
      PROVE  Accounted(j)'
  <2>1. CASE session'[w] = session[w]
    <3>1. Job(w)' = Job(w)
      BY <2>1 DEF Job, Of
    <3> QED
      BY <1>2, <2>1, <3>1 DEF Accounted
  <2>2. CASE /\ session[w].pc # "closed" /\ session'[w].pc # "closed"
             /\ session'[w].base = session[w].base
    <3>1. Job(w)' = Job(w) /\ session'[w] # Closed
      BY <2>2, SameJob, ClosedFields
    <3> QED
      BY <1>2, <3>1 DEF Accounted
  <2>3. CASE Job(w) \in (queue \cup tried \cup stranded)'
    BY <1>2, <2>3 DEF Accounted
  <2> QED
    BY <1>2, <2>1, <2>2, <2>3 DEF Tracked
<1> QED
  BY <1>1, <1>2 DEF Accounted

(* A worker past verification has tried its lead.                          *)
Past(w) == session[w].pc \in {"verified", "reserved", "enriched"} => Job(w) \in tried

LEMMA PastFrame ==
    ASSUME NEW w, Past(w), session'[w] = session[w], tried \subseteq tried'
    PROVE  Past(w)'
<1>1. Job(w)' = Job(w)
  BY DEF Job, Of
<1> QED
  BY <1>1 DEF Past

(* What a step keeps of the jobs.                                          *)
Keeps ==
    /\ \A j : Accounted(j) => Accounted(j)'
    /\ \A w \in Workers : Past(w)'

LEMMA KeepsOthers ==
    ASSUME Typed, Typed', TriedInv, queue \subseteq queue', stranded \subseteq stranded',
           tried' = tried, \A w \in Workers : session'[w] = session[w]
    PROVE  Keeps
<1>1. \A w \in Workers : Tracked(w) /\ Past(w)
  BY DEF Tracked, TriedInv, Past
<1> QED
  BY <1>1, TrackedJobs, PastFrame DEF Keeps

LEMMA KeepsWorker ==
    ASSUME Typed, Typed', TriedInv, queue \subseteq queue', stranded \subseteq stranded',
           tried \subseteq tried', NEW w \in Workers, Only(w), Tracked(w), Past(w)'
    PROVE  Keeps
<1>1. \A x \in Workers \ {w} : session'[x] = session[x]
  BY Kinds DEF Only
<1>2. \A x \in Workers : Tracked(x) /\ Past(x)
  BY <1>1 DEF Tracked, TriedInv, Past
<1> QED
  BY <1>1, <1>2, TrackedJobs, PastFrame DEF Keeps

LEMMA KeepsTake ==
    ASSUME Typed, Typed', TriedInv, NEW w \in Workers, Take(w)
    PROVE  Keeps
<1>1. PICK e \in Emails, i \in Imports :
         /\ queue' = queue \ {<<e, i>>}
         /\ \/ /\ session' = session
               /\ stranded' = stranded \cup {<<e, i>>}
            \/ /\ Only(w) /\ lead[e].id = i /\ session'[w].pc = "loaded"
               /\ session'[w].base = [x \in {e} |-> lead[x]] /\ stranded' = stranded
  BY TakeTyped
<1>2. tried' = tried /\ session[w] = Closed
  BY TakeTyped
<1>3. \A x \in Workers \ {w} : session'[x] = session[x]
  BY <1>1, Kinds DEF Only
<1>4. \A x \in Workers : Past(x)'
  <2>1. CASE session' = session
    BY <1>2, <2>1, PastFrame DEF TriedInv, Past
  <2>2. CASE session'[w].pc = "loaded"
    BY <1>2, <1>3, <2>2, PastFrame DEF TriedInv, Past
  <2> QED
    BY <1>1, <2>1, <2>2
<1>5. Accounted(<<e, i>>)'
  <2>1. CASE stranded' = stranded \cup {<<e, i>>}
    BY <2>1 DEF Accounted
  <2>2. CASE /\ lead[e].id = i /\ session'[w].pc = "loaded"
             /\ session'[w].base = [x \in {e} |-> lead[x]]
    <3>1. Shaped(w, session'[w])
      BY Kinds DEF Typed, SessionsOK, SessionOK
    <3>2. DOMAIN session'[w].row = {e}
      BY <2>2, <3>1 DEF Shaped
    <3>3. Of(w)' = e
      BY <3>2 DEF Of
    <3>4. Job(w)' = <<e, i>>
      BY <2>2, <3>3 DEF Job
    <3> QED
      BY <2>2, <3>4, ClosedFields DEF Accounted
  <2> QED
    BY <1>1, <2>1, <2>2
<1>6. ASSUME NEW j, Accounted(j), j # <<e, i>>
      PROVE  Accounted(j)'
  <2>1. CASE j \in queue \cup tried \cup stranded
    BY <1>1, <1>2, <1>6, <2>1 DEF Accounted
  <2>2. ASSUME NEW x \in Workers, session[x] # Closed, Job(x) = j
        PROVE  Accounted(j)'
    <3>1. session'[x] = session[x]
      BY <1>2, <1>3, <2>2
    <3>2. Job(x)' = Job(x)
      BY <3>1 DEF Job, Of
    <3> QED
      BY <2>2, <3>1, <3>2 DEF Accounted
  <2> QED
    BY <1>6, <2>1, <2>2 DEF Accounted
<1> QED
  BY <1>4, <1>5, <1>6 DEF Keeps

LEMMA KeepsWork ==
    ASSUME Typed, Typed', TriedInv, NEW w \in Workers,
           Verify(w) \/ Reserve(w) \/ Enrich(w) \/ WorkerCommit(w) \/ WorkerFails(w)
    PROVE  Keeps
<1>1. w \in Sessions /\ w \notin Imports
  BY Kinds
<1>2. CASE Verify(w)
  <2>1. UNCHANGED <<queue, stranded>> /\ tried' = tried \cup {Job(w)} /\ session[w].pc = "loaded"
    BY <1>2 DEF Verify
  <2>2. Only(w) /\ (Ends(w) \/ (GoesOn(w) /\ session'[w].pc = "verified"))
    BY <1>2, VerifyTyped
  <2>3. Past(w)'
    <3>1. CASE Ends(w)
      BY <1>1, <3>1, EndsFacts DEF Past
    <3>2. CASE GoesOn(w) /\ session'[w].pc = "verified"
      <4>1. session'[w].base = session[w].base
        BY <3>2 DEF GoesOn
      <4>2. Job(w)' = Job(w)
        BY <2>1, <3>2, <4>1, SameJob
      <4> QED
        BY <2>1, <4>2 DEF Past
    <3> QED
      BY <2>2, <3>1, <3>2
  <2>4. Tracked(w)
    BY <2>1 DEF Tracked
  <2> QED
    BY <2>1, <2>2, <2>3, <2>4, KeepsWorker
<1>3. CASE Reserve(w) \/ Enrich(w)
  <2>1. UNCHANGED <<queue, stranded, tried>>
    BY <1>3 DEF Reserve, Enrich, Jobs
  <2>2. Only(w) /\ GoesOn(w)
    BY <1>3, ReserveTyped, EnrichTyped
  <2>3. /\ session[w].pc \in {"verified", "reserved"} /\ session[w].pc # "closed"
        /\ session'[w].pc # "closed" /\ session'[w].base = session[w].base
    BY <1>3, <2>2, ReserveTyped, EnrichTyped DEF GoesOn
  <2>4. Job(w)' = Job(w)
    BY <2>3, SameJob
  <2>5. Past(w)' /\ Tracked(w)
    BY <2>1, <2>3, <2>4 DEF Past, Tracked, TriedInv
  <2> QED
    BY <2>1, <2>2, <2>5, KeepsWorker
<1>4. CASE WorkerCommit(w)
  <2>1. UNCHANGED <<queue, stranded, tried>> /\ Commit(w, Closed) /\ session[w].pc = "enriched"
    BY <1>4 DEF WorkerCommit, Jobs
  <2>2. Step(w, Closed)
    BY <2>1 DEF Commit
  <2>3. Only(w) /\ session'[w] = Closed
    BY <1>1, <2>2, StepOthers DEF Only
  <2>4. Past(w)' /\ Tracked(w)
    BY <2>1, <2>3, ClosedFields DEF Past, Tracked, TriedInv
  <2> QED
    BY <2>1, <2>3, <2>4, KeepsWorker
<1>5. CASE WorkerFails(w)
  <2>1. /\ queue \subseteq queue' /\ stranded \subseteq stranded' /\ tried' = tried
        /\ Step(w, Closed)
        /\ Gone(w) \/ Job(w) \in queue' \/ Job(w) \in stranded'
    BY <1>5 DEF WorkerFails, Rollback
  <2>2. Only(w) /\ session'[w] = Closed
    BY <1>1, <2>1, StepOthers DEF Only
  <2>3. Gone(w) => Job(w) \in tried
    BY DEF Gone, TriedInv
  <2>4. Past(w)' /\ Tracked(w)
    BY <2>1, <2>2, <2>3, ClosedFields DEF Past, Tracked
  <2> QED
    BY <2>1, <2>2, <2>4, KeepsWorker
<1> QED
  BY <1>2, <1>3, <1>4, <1>5

LEMMA ActKeeps ==
    ASSUME Typed, Typed', TriedInv, Act
    PROVE  Keeps
<1> USE DEF Jobs, Tables
<1>1. ASSUME NEW s \in Sessions \ Workers, NEW r, Step(s, r),
             queue \subseteq queue', stranded \subseteq stranded', tried' = tried
      PROVE  Keeps
  <2>1. \A w \in Workers : session'[w] = session[w]
    BY <1>1, StepOthers, Kinds
  <2> QED
    BY <1>1, <2>1, KeepsOthers
<1>2. ASSUME NEW i \in Imports, Read(i) \/ Insert(i) \/ ImportScores(i) \/ Publish(i)
      PROVE  Keeps
  <2>1. \E r : Step(i, r)
    BY <1>2 DEF Read, Insert, ImportScores, Publish, Scored
  <2>2. queue \subseteq queue' /\ stranded \subseteq stranded' /\ tried' = tried
    BY <1>2 DEF Read, Insert, ImportScores, Publish, Scored
  <2> QED
    BY <1>1, <2>1, <2>2, Kinds
<1>3. ASSUME NEW i \in Imports, ImportCommit(i) \/ ImportFails(i)
      PROVE  Keeps
  <2>1. Step(i, Done) /\ queue' = queue /\ stranded' = stranded /\ tried' = tried
    BY <1>3 DEF ImportCommit, ImportFails, Commit, Rollback
  <2> QED
    BY <1>1, <2>1, Kinds
<1>4. ASSUME NEW s \in Scorers, Activate(s) \/ ScoreOn(s)
      PROVE  Keeps
  <2>1. \E r : Step(s, r)
    BY <1>4 DEF Activate, ScoreOn, Score, ScoreCommit, ScoreFails, Scored, Commit, Rollback
  <2>2. queue' = queue /\ stranded' = stranded /\ tried' = tried
    BY <1>4 DEF Activate, ScoreOn, Score, ScoreCommit, ScoreFails, Scored
  <2> QED
    BY <1>1, <2>1, <2>2, Kinds
<1>5. ASSUME NEW s \in Suppressors, Suppress(s) \/ SuppressOn(s)
      PROVE  Keeps
  <2>1. \E r : Step(s, r)
    BY <1>5 DEF Suppress, SuppressOn, SuppressCommit, SuppressFails, Commit, Rollback
  <2>2. queue' = queue /\ stranded' = stranded /\ tried' = tried
    BY <1>5 DEF Suppress, SuppressOn, SuppressCommit, SuppressFails
  <2> QED
    BY <1>1, <2>1, <2>2, Kinds
<1>6. ASSUME session' = session, queue' = queue, stranded' = stranded, tried' = tried
      PROVE  Keeps
  BY <1>6, KeepsOthers
<1>7. ASSUME NEW e \in Emails, Erase(e)
      PROVE  Keeps
  BY <1>6, <1>7 DEF Erase
<1>8. ASSUME Reset
      PROVE  Keeps
  BY <1>6, <1>8 DEF Reset
<1> QED
  BY <1>2, <1>3, <1>4, <1>5, <1>7, <1>8, KeepsTake, KeepsWork DEF Act, ImportOn, WorkOn

(* The jobs of an import that has published them.                          *)
LEMMA PublishedJobs ==
    ASSUME Typed, Typed', Moved, NEW i \in Imports, session'[i].pc = "published"
    PROVE  /\ session'[i].new = session[i].new
           /\ \/ session[i].pc = "published"
              \/ \A e \in session[i].new : <<e, i>> \in queue' \cup stranded'
<1>1. CASE session'[i] = session[i]
  BY <1>1
<1>2. ASSUME Moves(i)
      PROVE  /\ session'[i].new = session[i].new
             /\ \A e \in session[i].new : <<e, i>> \in queue' \cup stranded'
  <2>1. GoesOn(i)
    BY <1>2, EndsFacts, Kinds DEF Moves, Reads, Loads
  <2>2. Publish(i) /\ session'[i].new = session[i].new
    BY <2>1 DEF GoesOn
  <2> QED
    BY <2>2 DEF Publish
<1>3. ~Commits(i)
  BY EndsFacts, Kinds DEF Commits
<1> QED
  BY <1>1, <1>2, <1>3, Kinds DEF Moved, Moves, Commits, Only, Erase

LEMMA TriedAct ==
    ASSUME Typed, Typed', TriedInv, Act
    PROVE  TriedInv'
<1>1. Keeps /\ Moved
  BY ActKeeps, ActMoves
<1>2. ASSUME NEW i \in Imports, session'[i].pc = "published", NEW e \in session'[i].new
      PROVE  Accounted(<<e, i>>)'
  BY <1>1, <1>2, PublishedJobs DEF Keeps, TriedInv, Accounted
<1>3. ASSUME NEW e \in Known', NEW id, id = lead'[e].id
      PROVE  Accounted(<<e, id>>)'
  <2>0. e \in Emails /\ lead'[e].id # Nobody
    BY DEF Known
  <2>1. ASSUME lead'[e].id = lead[e].id
        PROVE  Accounted(<<e, id>>)'
    <3>1. Accounted(<<e, id>>)
      BY <1>3, <2>0, <2>1 DEF Known, TriedInv
    <3> QED
      BY <1>1, <3>1 DEF Keeps
  <2>2. ASSUME NEW s \in Sessions, Commits(s)
        PROVE  Accounted(<<e, id>>)'
    <3>1. ASSUME e \in session[s].new, s \in Imports, lead'[e].id = s
          PROVE  Accounted(<<e, id>>)'
      <4>1. Accounted(<<e, id>>)
        BY <1>3, <2>2, <3>1 DEF Commits, TriedInv
      <4> QED
        BY <1>1, <4>1 DEF Keeps
    <3> QED
      BY <2>0, <2>1, <2>2, <3>1, CommitsFacts
  <2>3. CASE Still
    BY <2>1, <2>3 DEF Still
  <2>4. ASSUME NEW x \in Emails, Erase(x)
        PROVE  lead'[e].id = lead[e].id
    BY <2>0, <2>4 DEF Erase, Absent, Typed, TablesOK
  <2> QED
    BY <1>1, <2>1, <2>2, <2>3, <2>4 DEF Moved
<1>4. \A w \in Workers : Past(w)'
  BY <1>1 DEF Keeps
<1>5. \A w \in Workers : session'[w].pc \in {"verified", "reserved", "enriched"} => (Job(w) \in tried)'
  BY <1>4 DEF Past
<1> QED
  BY <1>2, <1>3, <1>5 DEF TriedInv

LEMMA TriedNext == Typed /\ Typed' /\ TriedInv /\ [Next]_vars => TriedInv'
<1> SUFFICES ASSUME Typed, Typed', TriedInv, [Next]_vars PROVE TriedInv'
  OBVIOUS
<1>1. CASE UNCHANGED vars
  <2>1. \A w : Job(w)' = Job(w)
    BY <1>1 DEF vars, Job, Of
  <2>2. \A j : Accounted(j) => Accounted(j)'
    BY <1>1, <2>1 DEF vars, Accounted
  <2>3. Known' = Known /\ lead' = lead /\ session' = session /\ tried' = tried
    BY <1>1 DEF vars, Known
  <2> QED
    BY <2>1, <2>2, <2>3 DEF TriedInv
<1>2. CASE Next
  BY <1>2, TriedAct DEF Next
<1> QED
  BY <1>1, <1>2

LEMMA TriedInit == Init => TriedInv
<1> SUFFICES ASSUME Init PROVE TriedInv
  OBVIOUS
<1>1. Known = {}
  BY DEF Init, Known, Absent
<1>2. \A s \in Sessions : session[s] = Closed
  BY DEF Init
<1> QED
  BY <1>1, <1>2, ClosedFields, Kinds DEF TriedInv

(* Every committed lead has a job that waits, or a worker that has it in    *)
(* hand, or was tried for verification - unless its job was not published,  *)
(* was lost, or ran before its import had committed.                        *)
THEOREM JobsHold == Spec => []EveryLeadTried
<1>1. TriedInv => EveryLeadTried
  BY DEF TriedInv, EveryLeadTried, Accounted
<1> QED
  BY <1>1, TriedInit, TriedNext, AlwaysTyped, PTL DEF Spec

-----------------------------------------------------------------------------
(* What the operator supplied *)

LEMMA TwoMembers ==
    ASSUME NEW S, IsFiniteSet(S), NEW x \in S, NEW y \in S, x # y
    PROVE  Cardinality(S) > 1
<1>1. IsFiniteSet({x}) /\ Cardinality({x}) = 1
  BY FS_Singleton
<1>2. Cardinality({x, y}) = 2
  <2>1. Cardinality({x} \cup {y}) = Cardinality({x}) + 1
    BY <1>1, FS_AddElement
  <2>2. {x} \cup {y} = {x, y}
    OBVIOUS
  <2> QED
    BY <1>1, <2>1, <2>2
<1>3. {x, y} \in SUBSET S
  OBVIOUS
<1>4. Cardinality({x, y}) <= Cardinality(S)
  BY <1>3, FS_Subset
<1>5. Cardinality(S) \in Nat
  BY FS_CardinalityType
<1> QED
  BY <1>2, <1>4, <1>5

(* What the history of addresses held twice records of a step.             *)
Mixings ==
    /\ mixed \subseteq mixed'
    /\ \A e \in Emails \ mixed' : \A s, t \in Imports \cup Workers :
          e \in Holds(s)' /\ e \in Holds(t)' => s = t

LEMMA NextMixings == ASSUME Next PROVE Mixings
<1>1. mixed' = mixed \cup {e \in Emails : Cardinality(InHand(Imports \cup Workers, e)') > 1}
  BY DEF Next
<1>2. IsFiniteSet(Imports \cup Workers)
  BY LeadsAssumption, FS_Union
<1>3. ASSUME NEW e \in Emails \ mixed', NEW s \in Imports \cup Workers, NEW t \in Imports \cup Workers,
             e \in Holds(s)', e \in Holds(t)'
      PROVE  s = t
  <2> DEFINE H == InHand(Imports \cup Workers, e)'
  <2>1. H \subseteq Imports \cup Workers /\ s \in H /\ t \in H
    BY <1>3 DEF InHand
  <2>2. ~(Cardinality(H) > 1)
    BY <1>1, <1>3
  <2>3. IsFiniteSet(H)
    BY <1>2, <2>1, FS_Subset
  <2> HIDE DEF H
  <2> QED
    BY <2>1, <2>2, <2>3, TwoMembers
<1> QED
  BY <1>1, <1>3 DEF Mixings

LEMMA InHolds ==
    ASSUME NEW s, NEW e
    PROVE  /\ e \in DOMAIN session[s].row \/ e \in session[s].new <=> e \in Holds(s)
           /\ e \in DOMAIN session'[s].row => e \in Holds(s)'
BY DEF Holds

LEMMA TitleMoves ==
    ASSUME Typed, Typed', TitleInv, Mixings, NEW s \in Sessions, Moves(s), lead' = lead
    PROVE  TitleInv'
<1>1. ASSUME NEW w \in Workers, NEW e \in Emails \ mixed', e \in DOMAIN session'[w].row,
             lead'[e].id = session'[w].base[e].id
      PROVE  lead'[e].title = session'[w].base[e].title
  <2>1. DOMAIN session'[w].row = DOMAIN session'[w].base /\ DOMAIN session[w].row = DOMAIN session[w].base
    BY Kinds DEF Typed, SessionsOK, SessionOK, Shaped
  <2>2. e \notin mixed
    BY DEF Mixings
  <2>3. CASE session'[w].base = session[w].base
    BY <1>1, <2>1, <2>2, <2>3 DEF TitleInv
  <2>4. CASE w = s
    <3>1. CASE Reads(s) \/ Ends(s)
      BY <1>1, <2>1, <2>4, <3>1, EndsFacts, EmptyPart DEF Reads
    <3>2. CASE Loads(s)
      <4> PICK E \in SUBSET Known : session'[s].base = [x \in E |-> lead[x]]
        BY <3>2 DEF Loads
      <4> QED
        BY <1>1, <2>1, <2>4
    <3>3. CASE GoesOn(s)
      BY <2>3, <2>4, <3>3 DEF GoesOn
    <3> QED
      BY <3>1, <3>2, <3>3 DEF Moves
  <2> QED
    BY <2>3, <2>4, Kinds DEF Moves, Only
<1>2. ASSUME NEW w \in Workers, NEW e \in Emails \ mixed', e \in DOMAIN session'[w].row,
             NEW t \in (Imports \cup Workers) \ {w}
      PROVE  (e \notin Holds(t))'
  BY <1>2, InHolds DEF Mixings
<1> QED
  BY <1>1, <1>2 DEF TitleInv

LEMMA TitleCommits ==
    ASSUME Typed, Typed', TitleInv, Mixings, NEW s \in Sessions, Commits(s)
    PROVE  TitleInv'
<1>1. Only(s) /\ Ends(s)
  BY DEF Commits
<1>2. ASSUME NEW w \in Workers, NEW e \in Emails \ mixed', e \in DOMAIN session'[w].row,
             lead'[e].id = session'[w].base[e].id
      PROVE  lead'[e].title = session'[w].base[e].title
  <2>1. w # s
    BY <1>1, <1>2, EndsFacts, EmptyPart
  <2>2. session'[w] = session[w] /\ e \notin mixed
    BY <1>1, <2>1, Kinds DEF Only, Mixings
  <2>3. /\ \A t \in (Imports \cup Workers) \ {w} : e \notin Holds(t)
        /\ lead[e].id = session[w].base[e].id => lead[e].title = session[w].base[e].title
    BY <1>2, <2>2 DEF TitleInv
  <2>4. CASE lead'[e] = lead[e]
    BY <1>2, <2>2, <2>3, <2>4
  <2>5. CASE s \in Imports \cup Workers
    <3>1. e \notin session[s].new /\ e \notin DOMAIN session[s].row
      BY <2>1, <2>3, <2>5, InHolds
    <3> QED
      BY <2>4, <3>1, CommitsFacts
  <2>6. CASE s \in Scorers \cup Suppressors
    <3>1. s \notin Imports /\ s \notin Workers
      BY <2>6, Kinds
    <3>2. CASE /\ e \in DOMAIN session[s].row
               /\ lead'[e] = Written(lead[e], session[s].base[e], session[s].row[e])
               /\ lead'[e].id = lead[e].id
      <4>1. /\ session[s].base[e] \in Row /\ session[s].row[e] \in Row /\ lead[e] \in Row
            /\ Edited(s, session[s].base[e], session[s].row[e])
        BY <3>2, SessionFacts DEF Typed, TablesOK
      <4>2. session[s].row[e].title = session[s].base[e].title
        BY <3>1, <4>1, Kinds DEF Edited
      <4>3. lead'[e].title = lead[e].title
        BY <3>2, <4>1, <4>2, WrittenRow
      <4> QED
        BY <1>2, <2>2, <2>3, <3>2, <4>3
    <3> QED
      BY <2>4, <3>1, <3>2, CommitsFacts
  <2> QED
    BY <2>5, <2>6, Kinds
<1>3. ASSUME NEW w \in Workers, NEW e \in Emails \ mixed', e \in DOMAIN session'[w].row,
             NEW t \in (Imports \cup Workers) \ {w}
      PROVE  (e \notin Holds(t))'
  BY <1>3, InHolds DEF Mixings
<1> QED
  BY <1>2, <1>3 DEF TitleInv

LEMMA TitleErase ==
    ASSUME Typed, Typed', TitleInv, Mixings, NEW x \in Emails, Erase(x)
    PROVE  TitleInv'
<1>1. session' = session /\ mixed \subseteq mixed'
  BY DEF Erase, Mixings
<1>2. \A e \in Emails : lead'[e] = IF e = x THEN Absent ELSE lead[e]
  BY DEF Erase, Typed, TablesOK
<1>3. ASSUME NEW w \in Workers, NEW e \in Emails \ mixed', e \in DOMAIN session'[w].row
      PROVE  /\ \A t \in (Imports \cup Workers) \ {w} : (e \notin Holds(t))'
             /\ lead'[e].id = session'[w].base[e].id => lead'[e].title = session'[w].base[e].title
  <2>1. \A t \in (Imports \cup Workers) \ {w} : (e \notin Holds(t))'
    BY <1>3, InHolds DEF Mixings
  <2>2. CASE e # x
    BY <1>1, <1>2, <1>3, <2>1, <2>2 DEF TitleInv
  <2>3. CASE e = x
    <3>1. session[w].base[e].id \in Imports
      BY <1>1, <1>3, SessionFacts, Kinds DEF Edited
    <3>2. lead'[e].id = Nobody
      BY <1>2, <2>3 DEF Absent
    <3> QED
      BY <1>1, <2>1, <3>1, <3>2, LeadsAssumption
  <2> QED
    BY <2>2, <2>3
<1> QED
  BY <1>3 DEF TitleInv

LEMMA TitleNext == Typed /\ Typed' /\ TitleInv /\ [Next]_vars => TitleInv'
<1> SUFFICES ASSUME Typed, Typed', TitleInv, [Next]_vars PROVE TitleInv'
  OBVIOUS
<1>1. ASSUME lead' = lead, session' = session, mixed \subseteq mixed'
      PROVE  TitleInv'
  BY <1>1 DEF TitleInv, Holds
<1>2. CASE UNCHANGED vars
  BY <1>1, <1>2 DEF vars
<1>3. CASE Next
  <2>1. Moved /\ Mixings
    BY <1>3, ActMoves, NextMixings DEF Next
  <2>2. mixed \subseteq mixed'
    BY <2>1 DEF Mixings
  <2> QED
    BY <1>1, <2>1, <2>2, TitleMoves, TitleCommits, TitleErase DEF Moved, Still
<1> QED
  BY <1>2, <1>3

LEMMA TitleInit == Init => TitleInv
<1> SUFFICES ASSUME Init PROVE TitleInv
  OBVIOUS
<1>1. \A w \in Workers : DOMAIN session[w].row = {}
  BY ClosedFields, EmptyPart, Kinds DEF Init
<1> QED
  BY <1>1 DEF TitleInv

(* A step leaves the title an operator or the CRM supplied, or is the CRM's. *)
TitleKept ==
    \A e \in Known \ mixed' :
       lead[e].title \in {"csv", "crm"} /\ lead'[e].id = lead[e].id =>
          lead'[e].title \in {lead[e].title, "crm"}

LEMMA KeptByCommit ==
    ASSUME Typed, RowsInv, TitleInv, Mixings, NEW s \in Sessions, Commits(s)
    PROVE  TitleKept
<1> SUFFICES ASSUME NEW e \in Known \ mixed', lead[e].title \in {"csv", "crm"},
                    lead'[e].id = lead[e].id
             PROVE  lead'[e].title \in {lead[e].title, "crm"}
  BY DEF TitleKept
<1>1. e \in Emails /\ e \notin mixed /\ lead[e] \in Row
  BY DEF Known, Mixings, Typed, TablesOK
<1>2. CASE e \in session[s].new /\ s \in Imports /\ lead'[e].id = s
  <2>1. s \in Finished
    BY <1>2 DEF RowsInv
  <2> QED
    BY <1>2, <2>1 DEF Finished, Commits
<1>3. CASE /\ e \in DOMAIN session[s].row
           /\ lead'[e] = Written(lead[e], session[s].base[e], session[s].row[e])
           /\ lead[e].id = session[s].base[e].id
  <2> DEFINE b == session[s].base[e]
             r == session[s].row[e]
  <2>1. b \in Row /\ r \in Row /\ Edited(s, b, r)
    BY <1>3, SessionFacts
  <2>2. lead'[e].title = IF r.title # b.title THEN r.title ELSE lead[e].title
    BY <1>1, <1>3, <2>1, WrittenRow
  <2>3. s \in Workers => lead[e].title = b.title
    BY <1>1, <1>3 DEF TitleInv
  <2>4. r.title = b.title \/ r.title = "crm" \/ (s \in Workers /\ b.title = "none")
    BY <2>1 DEF Edited
  <2> QED
    BY <2>2, <2>3, <2>4
<1>4. CASE lead'[e] = lead[e]
  BY <1>4
<1> QED
  BY <1>1, <1>2, <1>3, <1>4, CommitsFacts

(* apply_enrichment: what an operator supplied is never overwritten, unless *)
(* the import that supplied it overlapped with the worker.                  *)
THEOREM OperatorDataStands == Spec => OperatorDataKept
<1>1. Typed /\ RowsInv /\ TitleInv /\ [Next]_vars => [TitleKept]_vars
  <2> SUFFICES ASSUME Typed, RowsInv, TitleInv, Next PROVE TitleKept
    OBVIOUS
  <2>1. Moved /\ Mixings
    BY ActMoves, NextMixings DEF Next
  <2>2. CASE Still
    BY <2>2 DEF Still, TitleKept
  <2>3. ASSUME NEW x \in Emails, Erase(x)
        PROVE  TitleKept
    <3>1. \A e \in Emails : lead'[e] = IF e = x THEN Absent ELSE lead[e]
      BY <2>3 DEF Erase, Typed, TablesOK
    <3> QED
      BY <3>1 DEF TitleKept, Known, Absent
  <2> QED
    BY <2>1, <2>2, <2>3, KeptByCommit DEF Moved
<1> QED
  BY <1>1, TitleInit, TitleNext, AlwaysTyped, RowsStand, PTL
     DEF Spec, OperatorDataKept, TitleKept

-----------------------------------------------------------------------------
(* The run's invariant *)

LEMMA TypesHold == Typed /\ RowsInv /\ BudgetInv => TypeOK
<1> SUFFICES ASSUME Typed, RowsInv, BudgetInv PROVE TypeOK
  OBVIOUS
<1>1. calls \in 0..Budget
  BY LeadsAssumption DEF Typed, TablesOK, BudgetInv
<1>2. ASSUME NEW s \in Sessions
      PROVE  /\ session[s].pc \in {"closed", "read", "inserted", "published", "done", "loaded",
                                   "verified", "reserved", "enriched", "scored"}
             /\ session[s].asked \cup session[s].new \cup session[s].adds \subseteq Emails
             /\ DOMAIN session[s].row \subseteq Emails /\ DOMAIN session[s].base = DOMAIN session[s].row
             /\ \A e \in DOMAIN session[s].row : {session[s].base[e], session[s].row[e]} \subseteq Row
             /\ session[s].locks \subseteq DOMAIN session[s].row
             /\ session[s].uses \in {0, Calls} /\ session[s].called \in BOOLEAN
  <2>1. session[s] \in Session /\ Shaped(s, session[s])
    BY SessionFacts
  <2>2. /\ session[s].pc \in ImportPcs \cup WorkerPcs /\ session[s].adds \subseteq Emails
        /\ session[s].uses \in {0, Calls} /\ session[s].called \in BOOLEAN
    BY <2>1, SessionFields
  <2>3. session[s].locks \subseteq DOMAIN session[s].row
    BY <2>1 DEF Shaped
  <2> QED
    BY <2>2, <2>3, SessionFacts DEF ImportPcs, WorkerPcs
<1> QED
  BY <1>1, <1>2 DEF TypeOK, Typed, TablesOK, JobsOK, RowsInv

(* Types, suppression, the budget and the jobs: the invariant of the run.   *)
THEOREM LeadsHold == Spec => []LeadsInv
BY TypesHold, BudgetInit, BudgetNext, AlwaysTyped, RowsStand, SuppressionHolds, BudgetHolds,
   JobsHold, PTL DEF Spec, LeadsInv
=============================================================================
