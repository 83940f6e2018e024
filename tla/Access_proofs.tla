---------------------------- MODULE Access_proofs ----------------------------
(***************************************************************************)
(* Proofs about Access, for every set of users, keys, requests and logins  *)
(* and every bound: an org keeps an active owner, an identity its user,    *)
(* and a login code makes one session.                                     *)
(***************************************************************************)
EXTENDS Access, FiniteSetTheorems, TLAPS

USE AccessAssumption

-----------------------------------------------------------------------------
(* Types, and what a request is about *)

(* The rows a request names are of the kind it works on.                   *)
Well(r) ==
    /\ Open(r) => req[r].key \in Keys
    /\ req[r].kind = "edit" => req[r].on \in Users /\ Org[req[r].on] = Org[req[r].key]
    /\ req[r].kind = "create" => req[r].on \in Users
    /\ req[r].kind \in {"mint", "revoke"} => req[r].on \in Keys
    /\ req[r].kind = "exchange" => req[r].on \in Logins
    /\ req[r].pc = "burned" => req[r].kind = "exchange"

WellInv == TypeOK /\ \A r \in Requests : Well(r)

LEMMA NoRowTypes == NoUser \in User /\ Idle \in Request /\ NoLogin \in Login
BY DEF NoUser, User, Roles, Idle, Request, Kinds, Changes, Takings, NoLogin, Login

LEMMA InitWell == Init => WellInv
<1> SUFFICES ASSUME Init PROVE WellInv
  OBVIOUS
<1>1. user \in [Users -> User]
  BY DEF Init, NoUser, User
<1>2. req \in [Requests -> Request] /\ login \in [Logins -> Login]
  BY NoRowTypes DEF Init
<1>3. \A r \in Requests : Well(r)
  BY DEF Init, Well, Idle, Open
<1> QED
  BY <1>1, <1>2, <1>3 DEF Init, TypeOK, WellInv

(* A step of request r changes that request only.                          *)
LEMMA ReqStep ==
    ASSUME WellInv, NEW r \in Requests, NEW new \in Request, req' = [req EXCEPT ![r] = new],
           Well(r)'
    PROVE  req' \in [Requests -> Request] /\ \A x \in Requests : Well(x)'
<1>1. ASSUME NEW x \in Requests, x # r PROVE Well(x)'
  <2>1. req'[x] = req[x]
    BY <1>1 DEF WellInv, TypeOK
  <2> QED
    BY <1>1, <2>1 DEF WellInv, Well, Open
<1> QED
  BY <1>1 DEF WellInv, TypeOK

LEMMA SameReq ==
    ASSUME WellInv, UNCHANGED req
    PROVE  req' \in [Requests -> Request] /\ \A x \in Requests : Well(x)'
BY DEF WellInv, TypeOK, Well, Open

(* The end of a request.                                                   *)
LEMMA EndsType ==
    ASSUME WellInv, NEW r \in Requests, Ends(r)
    PROVE  /\ req' \in [Requests -> Request] /\ \A x \in Requests : Well(x)'
           /\ lock' \in [Keys -> Requests \cup {Nobody}]
           /\ req'[r].pc = "done" /\ ~req'[r].takes
           /\ \A x \in Requests : x # r => req'[x] = req[x]
           /\ \A k \in Keys : lock'[k] = IF lock[k] = r THEN Nobody ELSE lock[k]
<1> DEFINE new == [Idle EXCEPT !.pc = "done"]
<1>1. new \in Request /\ new.pc = "done" /\ ~new.takes
  BY DEF Idle, Request, Kinds, Changes, Takings
<1>2. req' = [req EXCEPT ![r] = new]
  BY DEF Ends
<1>3. new.kind = "service"
  BY DEF Idle
<1> HIDE DEF new
<1>4. req'[r] = new /\ \A x \in Requests : x # r => req'[x] = req[x]
  BY <1>2 DEF WellInv, TypeOK
<1>5. Well(r)'
  BY <1>1, <1>3, <1>4 DEF Well, Open
<1>6. \A k \in Keys : lock'[k] = IF lock[k] = r THEN Nobody ELSE lock[k]
  BY DEF Ends
<1>7. lock' \in [Keys -> Requests \cup {Nobody}]
  BY DEF Ends, WellInv, TypeOK
<1> QED
  BY <1>1, <1>2, <1>4, <1>5, <1>6, <1>7, ReqStep

LEMMA AuthenticateWell ==
    ASSUME WellInv, NEW r \in Requests, Authenticate(r)
    PROVE  /\ WellInv'
           /\ \A x \in Requests : x # r => req'[x] = req[x]
           /\ req'[r].pc \in {"dispatched", "done"} /\ ~req'[r].takes /\ ~req'[r].write
<1>1. PICK k \in Keys, kind \in Kinds, x \in Users \cup Keys \cup Logins, ch \in Changes :
          /\ key[k] # "absent"
          /\ kind = "edit" => x \in Users /\ Visible(x, k)
          /\ kind = "create" => x \in Users /\ MadeBy(x, k)
          /\ kind = "revoke" => x \in Keys /\ Visible(x, k)
          /\ kind = "mint" => x \in Keys /\ MadeBy(x, k) /\ Fresh(x)
          /\ kind = "exchange" => x \in Logins
          /\ kind = "service" => x = k
          /\ kind = "create" => ch \in {"promote", "demote"}
          /\ kind \notin {"edit", "create"} => ch = "promote"
          /\ req' = [req EXCEPT ![r] = [Idle EXCEPT !.key = k, !.kind = kind, !.on = x, !.change = ch,
                       !.pc = IF key[k] = "live" THEN "dispatched" ELSE "done"]]
  BY DEF Authenticate
<1> DEFINE new == [Idle EXCEPT !.key = k, !.kind = kind, !.on = x, !.change = ch,
                               !.pc = IF key[k] = "live" THEN "dispatched" ELSE "done"]
<1>2. new \in Request
  BY DEF Idle, Request, Kinds, Changes, Takings
<1>3. new.key = k /\ new.kind = kind /\ new.on = x /\ ~new.takes /\ ~new.write
      /\ new.pc = IF key[k] = "live" THEN "dispatched" ELSE "done"
  BY DEF Idle
<1>4. req' = [req EXCEPT ![r] = new]
  BY <1>1
<1> HIDE DEF new
<1>5. req'[r] = new /\ \A y \in Requests : y # r => req'[y] = req[y]
  BY <1>4 DEF WellInv, TypeOK
<1>6. Well(r)'
  BY <1>1, <1>3, <1>5 DEF Well, Visible
<1>7. events' \in 0..MaxEvents
  BY DEF Authenticate, Event, WellInv, TypeOK
<1>8. req' \in [Requests -> Request] /\ \A y \in Requests : Well(y)'
  BY <1>2, <1>4, <1>6, ReqStep
<1>9. WellInv'
  BY <1>7, <1>8 DEF Authenticate, History, WellInv, TypeOK
<1> QED
  BY <1>3, <1>5, <1>9

(* The program counter and the decisions of r may change.                  *)
LEMMA PcStep ==
    ASSUME WellInv, NEW r \in Requests, NEW new, req' = [req EXCEPT ![r] = new],
           new.key = req[r].key, new.kind = req[r].kind, new.on = req[r].on,
           new \in Request, new.pc \in {"working", "closing", "done"},
           Open(r)
    PROVE  /\ req' \in [Requests -> Request] /\ \A x \in Requests : Well(x)'
           /\ req'[r] = new /\ \A x \in Requests : x # r => req'[x] = req[x]
<1>1. req'[r] = new /\ \A x \in Requests : x # r => req'[x] = req[x]
  BY DEF WellInv, TypeOK
<1>2. Well(r)'
  BY <1>1 DEF WellInv, Well, Open
<1> QED
  BY <1>1, <1>2, ReqStep

LEMMA StampedType ==
    ASSUME WellInv, NEW r \in Requests, Stamped(r), req[r].key \in Keys
    PROVE  /\ lock' \in [Keys -> Requests \cup {Nobody}]
           /\ lock[req[r].key] = Nobody /\ lock'[req[r].key] = r
           /\ \A k \in Keys : k # req[r].key => lock'[k] = lock[k]
BY DEF Stamped, WellInv, TypeOK

(* The first query of an endpoint, in a thread or on the loop.             *)
LEMMA QueryStep ==
    ASSUME WellInv, NEW r \in Requests, req[r].pc = "dispatched", Stamped(r), Query(r)
    PROVE  /\ req' \in [Requests -> Request] /\ \A x \in Requests : Well(x)'
           /\ \A x \in Requests : x # r => req'[x] = req[x]
           /\ req'[r].pc = "working" /\ req'[r].key = req[r].key /\ req'[r].on = req[r].on
           /\ req'[r].kind = req[r].kind /\ req'[r].change = req[r].change
           /\ req'[r].write = Decides(r)
           /\ req'[r].takes = (req[r].kind = "edit" /\ Decides(r) /\ req[r].change \in Takings)
           /\ contested' \in {contested, contested \cup {Org[req[r].key]}}
           /\ req'[r].takes /\ Taking(Org[req[r].key], r) # {} =>
                 contested' = contested \cup {Org[req[r].key]}
           /\ req'[r].takes \/ contested' = contested
           /\ lock' \in [Keys -> Requests \cup {Nobody}]
           /\ lock[req[r].key] = Nobody /\ lock'[req[r].key] = r
           /\ \A k \in Keys : k # req[r].key => lock'[k] = lock[k]
<1> DEFINE takes == req[r].kind = "edit" /\ Decides(r) /\ req[r].change \in Takings
           new == [req[r] EXCEPT !.pc = "working", !.write = Decides(r), !.takes = takes]
<1>0. req[r] \in Request /\ req[r].key \in Keys /\ Open(r)
  BY DEF WellInv, TypeOK, Well, Open
<1>1. req' = [req EXCEPT ![r] = new]
  BY DEF Query, WellInv, TypeOK
<1>2. Decides(r) \in BOOLEAN /\ takes \in BOOLEAN
  BY DEF Decides, Effective, Removes
<1>3. /\ new \in Request /\ new.pc = "working" /\ new.key = req[r].key /\ new.on = req[r].on
      /\ new.kind = req[r].kind /\ new.change = req[r].change
      /\ new.write = Decides(r) /\ new.takes = takes
  BY <1>0, <1>2 DEF Request
<1>4. /\ contested' = IF takes /\ Taking(Org[req[r].key], r) # {}
                      THEN contested \cup {Org[req[r].key]} ELSE contested
  BY DEF Query
<1>5. /\ lock' \in [Keys -> Requests \cup {Nobody}]
      /\ lock[req[r].key] = Nobody /\ lock'[req[r].key] = r
      /\ \A k \in Keys : k # req[r].key => lock'[k] = lock[k]
  BY <1>0, StampedType
<1> HIDE DEF new
<1>6. /\ req' \in [Requests -> Request] /\ \A x \in Requests : Well(x)'
      /\ req'[r] = new /\ \A x \in Requests : x # r => req'[x] = req[x]
  BY <1>0, <1>1, <1>3, PcStep
<1>7. req'[r].takes = takes
  BY <1>3, <1>6
<1> HIDE DEF takes
<1>8. /\ contested' \in {contested, contested \cup {Org[req[r].key]}}
      /\ takes /\ Taking(Org[req[r].key], r) # {} => contested' = contested \cup {Org[req[r].key]}
      /\ takes \/ contested' = contested
  BY <1>4
<1> QED
  BY <1>3, <1>5, <1>6, <1>7, <1>8 DEF takes

LEMMA LoginStepType ==
    ASSUME WellInv, NEW l \in Logins, NEW new \in Login, login' = [login EXCEPT ![l] = new]
    PROVE  /\ login' \in [Logins -> Login] /\ login'[l] = new
           /\ \A m \in Logins : m # l => login'[m] = login[m]
BY DEF WellInv, TypeOK

(* A step of login l, but for its first.                                   *)
LEMMA FoundLogin ==
    ASSUME WellInv, NEW l \in Logins, login[l].pc = "found", login[l].user \in Users,
           LoginCommit(l)
    PROVE  /\ user' \in [Users -> User] /\ login' \in [Logins -> Login]
           /\ linked' \subseteq Users \X Subjects
<1>1. Subject[l] \in Subjects
  OBVIOUS
<1>2. user' \in [Users -> User] /\ linked' \subseteq Users \X Subjects
  <2>1. CASE login[l].how = "known"
    BY <2>1 DEF LoginCommit, WellInv, TypeOK
  <2>2. CASE login[l].how = "link"
    <3>1. /\ user' = [user EXCEPT ![login[l].user].login = Subject[l]]
          /\ linked' = linked \cup {<<login[l].user, Subject[l]>>}
      BY <2>2 DEF LoginCommit
    <3> QED
      BY <1>1, <3>1 DEF WellInv, TypeOK, User
  <2>3. CASE login[l].how \notin {"known", "link"}
    <3>1. /\ user' = [user EXCEPT ![login[l].user] = [NoUser EXCEPT !.role = "viewer", !.login = Subject[l]]]
          /\ linked' = linked \cup {<<login[l].user, Subject[l]>>}
      BY <2>3 DEF LoginCommit
    <3>2. [NoUser EXCEPT !.role = "viewer", !.login = Subject[l]] \in User
      BY <1>1 DEF NoUser, User, Roles
    <3> QED
      BY <1>1, <3>1, <3>2 DEF WellInv, TypeOK
  <2> QED
    BY <2>1, <2>2, <2>3
<1>3. login' \in [Logins -> Login]
  <2> DEFINE new == [login[l] EXCEPT !.pc = "done",
                       !.code = IF @ = "none" /\ login[l].welcome THEN "live" ELSE @]
  <2>1. login' = [login EXCEPT ![l] = new]
    BY DEF LoginCommit, WellInv, TypeOK
  <2>2. login[l] \in Login
    BY DEF WellInv, TypeOK
  <2>3. new \in Login
    BY <2>2 DEF Login
  <2> HIDE DEF new
  <2> QED
    BY <2>1, <2>3, LoginStepType
<1> QED
  BY <1>2, <1>3

(* A commit writes the row of its request, by its kind.                    *)
LEMMA CommitWrites ==
    ASSUME WellInv, NEW r \in Requests, Commit(r)
    PROVE  /\ req[r].kind = "edit" =>
                 user' = [user EXCEPT ![req[r].on] = Edited(@, req[r].change)]
           /\ req[r].kind = "create" =>
                 /\ user[req[r].on].role = "none"
                 /\ user' = [user EXCEPT ![req[r].on].role =
                                  IF req[r].change = "demote" THEN "viewer" ELSE "owner"]
           /\ req[r].kind \notin {"edit", "create"} => user' = user
           /\ key' \in [Keys -> {"absent", "live", "revoked"}]
           /\ Ends(r)
<1>1. Well(r) /\ key \in [Keys -> {"absent", "live", "revoked"}]
  BY DEF WellInv, TypeOK
<1>2. key' \in [Keys -> {"absent", "live", "revoked"}]
  BY <1>1 DEF Commit, Well
<1> QED
  BY <1>2 DEF Commit, Conflict

LEMMA EditedType ==
    ASSUME NEW row \in User, NEW change \in Changes
    PROVE  /\ Edited(row, change) \in User
           /\ Edited(row, change).login = row.login
           /\ row.role # "none" => Edited(row, change).role # "none"
           /\ change \notin Takings /\ row.role = "owner" /\ row.active =>
                 Edited(row, change).role = "owner" /\ Edited(row, change).active
<1>1. CASE change = "demote"
  <2>1. Edited(row, change) = [row EXCEPT !.role = "viewer"]
    BY <1>1 DEF Edited
  <2> QED
    BY <1>1, <2>1 DEF User, Roles, Takings
<1>2. CASE change = "promote"
  <2>1. Edited(row, change) = [row EXCEPT !.role = "owner"]
    BY <1>2 DEF Edited
  <2> QED
    BY <2>1 DEF User, Roles
<1>3. CASE change = "disable"
  <2>1. Edited(row, change) = [row EXCEPT !.active = FALSE]
    BY <1>3 DEF Edited
  <2> QED
    BY <1>3, <2>1 DEF User, Roles, Takings
<1>4. CASE change = "enable"
  <2>1. Edited(row, change) = [row EXCEPT !.active = TRUE]
    BY <1>4 DEF Edited
  <2> QED
    BY <2>1 DEF User, Roles
<1> QED
  BY <1>1, <1>2, <1>3, <1>4 DEF Changes, Takings

LEMMA CommitWell ==
    ASSUME WellInv, NEW r \in Requests, Commit(r) PROVE WellInv'
<1>1. Ends(r) /\ Well(r) /\ req[r] \in Request
  BY CommitWrites DEF WellInv, TypeOK
<1>2. user' \in [Users -> User]
  <2>1. CASE req[r].kind = "edit"
    <3>1. req[r].on \in Users /\ req[r].change \in Changes
      BY <1>1, <2>1 DEF Well, Request
    <3>2. user[req[r].on] \in User /\ user \in [Users -> User]
      BY <3>1 DEF WellInv, TypeOK
    <3>3. Edited(user[req[r].on], req[r].change) \in User
      BY <3>1, <3>2, EditedType
    <3> QED
      BY <2>1, <3>1, <3>2, <3>3, CommitWrites
  <2>2. CASE req[r].kind = "create"
    <3> DEFINE role == IF req[r].change = "demote" THEN "viewer" ELSE "owner"
               row == [user[req[r].on] EXCEPT !.role = role]
    <3>1. req[r].on \in Users /\ user[req[r].on] \in User /\ user \in [Users -> User]
      BY <1>1, <2>2 DEF Well, WellInv, TypeOK
    <3>2. row \in User
      BY <3>1 DEF User, Roles
    <3>3. user' = [user EXCEPT ![req[r].on] = row]
      BY <2>2, <3>1, CommitWrites
    <3> HIDE DEF row
    <3> QED
      BY <3>1, <3>2, <3>3
  <2>3. CASE req[r].kind \notin {"edit", "create"}
    BY <2>3, CommitWrites DEF WellInv, TypeOK
  <2> QED
    BY <2>1, <2>2, <2>3
<1>3. owned' \subseteq Orgs
  BY DEF Commit, WellInv, TypeOK
<1> QED
  BY <1>1, <1>2, <1>3, CommitWrites, EndsType DEF Commit, WellInv, TypeOK

LEMMA ThreadQueriesWell ==
    ASSUME WellInv, NEW r \in Requests, req[r].pc = "dispatched", Stamped(r), Query(r),
           loop' \in {loop, Nobody}, UNCHANGED <<user, key, login, owned, linked, crossed, events>>
    PROVE  WellInv'
<1>1. Well(r)
  BY DEF WellInv
<1>2. contested' \subseteq Orgs
  <2>1. contested \subseteq Orgs
    BY DEF WellInv, TypeOK
  <2>2. CASE req[r].kind = "edit"
    <3>1. Org[req[r].key] \in Orgs
      BY <1>1, <2>2 DEF Well, Orgs
    <3> QED
      BY <2>1, <3>1, QueryStep
  <2>3. CASE req[r].kind # "edit"
    <3>1. contested' = contested
      BY <2>3, QueryStep
    <3> QED
      BY <2>1, <3>1
  <2> QED
    BY <2>2, <2>3
<1> QED
  BY <1>2, QueryStep DEF WellInv, TypeOK

LEMMA CloseStep ==
    ASSUME WellInv, NEW r \in Requests, Close(r)
    PROVE  /\ req' \in [Requests -> Request] /\ \A x \in Requests : Well(x)'
           /\ \A x \in Requests : x # r => req'[x] = req[x]
           /\ req'[r] = [req[r] EXCEPT !.pc = "closing"]
<1> DEFINE new == [req[r] EXCEPT !.pc = "closing"]
<1>1. req[r] \in Request /\ Open(r)
  BY DEF WellInv, TypeOK, Close, Open
<1>2. /\ new \in Request /\ new.pc = "closing" /\ new.key = req[r].key /\ new.on = req[r].on
      /\ new.kind = req[r].kind
  BY <1>1 DEF Request
<1>3. req' = [req EXCEPT ![r] = new]
  BY DEF Close, WellInv, TypeOK
<1> HIDE DEF new
<1>4. /\ req' \in [Requests -> Request] /\ \A x \in Requests : Well(x)'
      /\ req'[r] = new /\ \A x \in Requests : x # r => req'[x] = req[x]
  BY <1>1, <1>2, <1>3, PcStep
<1> QED
  BY <1>4 DEF new

LEMMA ExchangeWell ==
    ASSUME WellInv, NEW r \in Requests, Exchange(r)
    PROVE  /\ WellInv'
           /\ \A x \in Requests : x # r => req'[x] = req[x]
           /\ req'[r] = [req[r] EXCEPT !.pc = IF Redeemable(req[r].on) THEN "burned" ELSE "working"]
<1> DEFINE pc == IF Redeemable(req[r].on) THEN "burned" ELSE "working"
           new == [req[r] EXCEPT !.pc = pc]
<1>1. req[r] \in Request /\ Open(r) /\ Well(r) /\ req[r].kind = "exchange"
  BY DEF WellInv, TypeOK, Exchange, Open
<1>2. /\ new \in Request /\ new.pc = pc /\ new.key = req[r].key /\ new.on = req[r].on
      /\ new.kind = req[r].kind
  BY <1>1 DEF Request
<1>3. req' = [req EXCEPT ![r] = new]
  BY DEF Exchange, WellInv, TypeOK
<1>4. login' \in [Logins -> Login]
  <2>1. req[r].on \in Logins
    BY <1>1 DEF Well
  <2>2. login[req[r].on] \in Login /\ login \in [Logins -> Login]
    BY <2>1 DEF WellInv, TypeOK
  <2>3. [login[req[r].on] EXCEPT !.code = "spent"] \in Login
    BY <2>2 DEF Login
  <2>4. login' \in {login, [login EXCEPT ![req[r].on] = [login[req[r].on] EXCEPT !.code = "spent"]]}
    BY <2>2 DEF Exchange
  <2> QED
    BY <2>1, <2>2, <2>3, <2>4
<1> HIDE DEF new
<1>5. req'[r] = new /\ \A x \in Requests : x # r => req'[x] = req[x]
  BY <1>3 DEF WellInv, TypeOK
<1>6. Well(r)'
  BY <1>1, <1>2, <1>5 DEF Well, Open
<1>7. req' \in [Requests -> Request] /\ \A x \in Requests : Well(x)'
  BY <1>2, <1>3, <1>6, ReqStep
<1>8. WellInv'
  BY <1>4, <1>7 DEF Exchange, History, WellInv, TypeOK
<1> QED
  BY <1>5, <1>8 DEF new

LEMMA LookupWell ==
    ASSUME WellInv, NEW r \in Requests, Lookup(r)
    PROVE  /\ WellInv'
           /\ \A x \in Requests : x # r => req'[x] = req[x]
           /\ req'[r].pc = "working" /\ req'[r].takes = req[r].takes /\ req'[r].kind = req[r].kind
           /\ req'[r].key = req[r].key /\ req'[r].on = req[r].on
           /\ lock[req[r].key] = Nobody /\ \A k \in Keys : k # req[r].key => lock'[k] = lock[k]
<1> DEFINE u == login[req[r].on].user
           ok == Visible(u, req[r].key) /\ user[u].role # "none" /\ user[u].active
           new == [req[r] EXCEPT !.pc = "working", !.write = ok]
<1>1. req[r] \in Request /\ Open(r) /\ Well(r) /\ req[r].key \in Keys
  BY DEF WellInv, TypeOK, Lookup, Open, Well
<1>2. ok \in BOOLEAN
  BY DEF Visible
<1>3. req' = [req EXCEPT ![r] = new]
  BY DEF Lookup, WellInv, TypeOK
<1>4. login' = [login EXCEPT ![req[r].on].sessions = IF ok THEN @ + 1 ELSE @]
  BY DEF Lookup
<1> HIDE DEF ok
<1>5. /\ new \in Request /\ new.pc = "working" /\ new.key = req[r].key /\ new.on = req[r].on
      /\ new.kind = req[r].kind /\ new.takes = req[r].takes
  BY <1>1, <1>2 DEF Request
<1>6. login' \in [Logins -> Login]
  <2>1. req[r].on \in Logins
    BY <1>1 DEF Well, Lookup
  <2> QED
    BY <1>4, <2>1 DEF WellInv, TypeOK, Login
<1> HIDE DEF new
<1>7. /\ req' \in [Requests -> Request] /\ \A x \in Requests : Well(x)'
      /\ req'[r] = new /\ \A x \in Requests : x # r => req'[x] = req[x]
  BY <1>1, <1>3, <1>5, PcStep
<1>8. /\ lock' \in [Keys -> Requests \cup {Nobody}]
      /\ lock[req[r].key] = Nobody /\ \A k \in Keys : k # req[r].key => lock'[k] = lock[k]
  BY <1>1, StampedType DEF Lookup
<1>9. WellInv'
  BY <1>6, <1>7, <1>8 DEF Lookup, History, WellInv, TypeOK
<1> QED
  BY <1>5, <1>7, <1>8, <1>9

LEMMA RestartWell ==
    ASSUME WellInv, Restart
    PROVE  WellInv' /\ \A r \in Requests : ~req'[r].takes /\ req'[r].pc \in {"idle", "done"}
<1> DEFINE ended == [Idle EXCEPT !.pc = "done"]
<1>1. ended \in Request /\ Idle \in Request /\ ~ended.takes /\ ~Idle.takes
      /\ ended.pc = "done" /\ Idle.pc = "idle" /\ ended.kind = "service" /\ Idle.kind = "service"
  BY DEF Idle, Request, Kinds, Changes, Takings
<1>2. \A r \in Requests : req'[r] \in {Idle, ended}
  BY DEF Restart
<1>3. req' \in [Requests -> Request]
  BY <1>1, <1>2 DEF Restart
<1> HIDE DEF ended
<1>4. \A r \in Requests : Well(r)'
  BY <1>1, <1>2 DEF Well, Open
<1>5. login' \in [Logins -> Login]
  <2>1. ASSUME NEW l \in Logins PROVE login[l] \in Login /\ [login[l] EXCEPT !.pc = "done"] \in Login
    <3>1. login[l] \in Login
      BY DEF WellInv, TypeOK
    <3> QED
      BY <3>1 DEF Login
  <2> QED
    BY <2>1 DEF Restart
<1>6. lock' \in [Keys -> Requests \cup {Nobody}] /\ loop' = Nobody /\ events' \in 0..MaxEvents
  BY DEF Restart, Event, WellInv, TypeOK
<1> QED
  BY <1>1, <1>2, <1>3, <1>4, <1>5, <1>6 DEF Restart, History, WellInv, TypeOK

-----------------------------------------------------------------------------
(* Logins *)

FoundOf(l, u) == login[l].pc = "found" /\ login[l].user = u

(* A login has a user once it found one; its code makes a session at most  *)
(* once, and is handed out with the link, unless early.                    *)
LoginOK(l) ==
    /\ login[l].pc = "idle" => login[l].code = "none"
    /\ login[l].pc # "idle" => login[l].user \in Users
    /\ login[l].code \in {"none", "live"} => login[l].sessions = 0
    /\ login[l].sessions <= 1
    /\ login[l].pc = "found" /\ login[l].code # "none" => login[l].early
    /\ login[l].pc = "found" /\ login[l].how = "link" => user[login[l].user].role # "none"
    /\ login[l].pc # "idle" /\ login[l].how = "known" => <<login[l].user, Subject[l]>> \in linked
    /\ login[l].code # "none" /\ ~login[l].early => <<login[l].user, Subject[l]>> \in linked

(* A user two first logins did not find at once waits for one login, and   *)
(* for a first one only while no identity is linked.                       *)
OneIdentity(u) ==
    /\ \A l, m \in Logins : FoundOf(l, u) /\ FoundOf(m, u) => l = m
    /\ \A l \in Logins : FoundOf(l, u) /\ login[l].how # "known" =>
          \A s \in Subjects : <<u, s>> \notin linked
    /\ \A s, t \in Subjects : <<u, s>> \in linked /\ <<u, t>> \in linked => s = t

LinkInv ==
    /\ \A l \in Logins : LoginOK(l)
    /\ \A u \in Users : /\ user[u].login # Nobody => <<u, user[u].login>> \in linked
                        /\ \A s \in Subjects : <<u, s>> \in linked =>
                              user[u].role # "none" /\ user[u].login # Nobody
    /\ \A u \in Users : u \notin crossed => OneIdentity(u)

(* The request that burned a code is the only one that may make a session. *)
BurnedInv ==
    \A r \in Requests : req[r].pc = "burned" =>
       /\ login[req[r].on].code = "spent" /\ login[req[r].on].sessions = 0
       /\ \A x \in Requests : req[x].pc = "burned" /\ req[x].on = req[r].on => x = r

LEMMA InitLink == Init => LinkInv /\ BurnedInv
<1> SUFFICES ASSUME Init PROVE LinkInv /\ BurnedInv
  OBVIOUS
<1>1. \A l \in Logins : /\ login[l].pc = "idle" /\ login[l].code = "none" /\ login[l].sessions = 0
  BY DEF Init, NoLogin
<1>2. \A u \in Users : user[u].login = Nobody
  BY DEF Init, NoUser
<1>3. \A r \in Requests : req[r].pc = "idle"
  BY DEF Init, Idle
<1>4. linked = {}
  BY DEF Init
<1>5. \A l \in Logins : LoginOK(l)
  BY <1>1 DEF LoginOK
<1>6. \A u \in Users : OneIdentity(u)
  BY <1>1, <1>4 DEF OneIdentity, FoundOf
<1> QED
  BY <1>2, <1>3, <1>4, <1>5, <1>6 DEF LinkInv, BurnedInv

LEMMA SameLink ==
    ASSUME LinkInv, UNCHANGED <<user, login, linked, crossed>> PROVE LinkInv'
BY DEF LinkInv, LoginOK, OneIdentity, FoundOf

(* A step of a login that found its user.                                  *)
LEMMA LoginChange ==
    ASSUME WellInv, LinkInv, UNCHANGED <<user, linked, crossed>>, NEW l \in Logins,
           NEW new \in Login, login' = [login EXCEPT ![l] = new],
           new.user = login[l].user, new.how = login[l].how,
           new.pc = login[l].pc \/ new.pc = "done", LoginOK(l)'
    PROVE  LinkInv'
<1>1. login'[l] = new /\ \A m \in Logins : m # l => login'[m] = login[m]
  BY LoginStepType
<1>2. \A m \in Logins : LoginOK(m)'
  BY <1>1 DEF LinkInv, LoginOK
<1>3. \A m \in Logins, u \in Users : FoundOf(m, u)' => FoundOf(m, u) /\ login'[m].how = login[m].how
  BY <1>1 DEF FoundOf
<1>4. ASSUME NEW u \in Users, u \notin crossed PROVE OneIdentity(u)'
  <2>1. OneIdentity(u)
    BY <1>4 DEF LinkInv
  <2> QED
    BY <1>3, <2>1 DEF OneIdentity
<1> QED
  BY <1>2, <1>4 DEF LinkInv

LEMMA BurnedKept ==
    ASSUME BurnedInv,
           \A r \in Requests : req'[r].pc = "burned" =>
              /\ req[r].pc = "burned" /\ req'[r].on = req[r].on
              /\ login'[req[r].on].code = login[req[r].on].code
              /\ login'[req[r].on].sessions = login[req[r].on].sessions
    PROVE  BurnedInv'
BY DEF BurnedInv

LEMMA RedirectLink ==
    ASSUME WellInv, LinkInv, BurnedInv, NEW l \in Logins, Redirect(l)
    PROVE  WellInv' /\ LinkInv' /\ BurnedInv'
<1> DEFINE new == [login[l] EXCEPT !.code = "live", !.early = TRUE]
<1>1. login[l] \in Login /\ LoginOK(l)
  BY DEF WellInv, TypeOK, LinkInv
<1>2. /\ new \in Login /\ new.pc = "found" /\ new.user = login[l].user /\ new.how = login[l].how
      /\ new.code = "live" /\ new.early /\ new.sessions = login[l].sessions
  BY <1>1 DEF Login, Redirect
<1>3. login' = [login EXCEPT ![l] = new]
  BY DEF Redirect, WellInv, TypeOK
<1>4. UNCHANGED <<user, key, lock, req, loop, owned, contested, linked, crossed, events>>
  BY DEF Redirect, History
<1> HIDE DEF new
<1>5. login'[l] = new /\ login' \in [Logins -> Login] /\ \A m \in Logins : m # l => login'[m] = login[m]
  BY <1>2, <1>3, LoginStepType
<1>6. LoginOK(l)'
  BY <1>1, <1>2, <1>4, <1>5 DEF LoginOK, Redirect
<1>7. LinkInv'
  BY <1>2, <1>3, <1>4, <1>6, LoginChange DEF Redirect
<1>8. BurnedInv'
  <2>1. ASSUME NEW r \in Requests, req'[r].pc = "burned"
        PROVE  req[r].pc = "burned" /\ req'[r].on = req[r].on /\ login'[req[r].on] = login[req[r].on]
    <3>1. req[r].on \in Logins /\ req[r].on # l
      BY <1>4, <2>1 DEF BurnedInv, Redirect, WellInv, Well
    <3> QED
      BY <1>4, <1>5, <2>1, <3>1
  <2> QED
    BY <2>1, BurnedKept
<1> QED
  BY <1>4, <1>5, <1>7, <1>8, SameReq DEF WellInv, TypeOK

LEMMA LoginFailsLink ==
    ASSUME WellInv, LinkInv, BurnedInv, NEW l \in Logins, LoginFails(l)
    PROVE  WellInv' /\ LinkInv' /\ BurnedInv'
<1> DEFINE new == [login[l] EXCEPT !.pc = "done"]
<1>1. login[l] \in Login /\ LoginOK(l)
  BY DEF WellInv, TypeOK, LinkInv
<1>2. /\ new \in Login /\ new.pc = "done" /\ new.user = login[l].user /\ new.how = login[l].how
      /\ new.code = login[l].code /\ new.early = login[l].early /\ new.sessions = login[l].sessions
  BY <1>1 DEF Login, LoginFails
<1>3. login' = [login EXCEPT ![l] = new]
  BY DEF LoginFails, WellInv, TypeOK
<1>4. UNCHANGED <<user, key, lock, req, loop, owned, contested, linked, crossed, events>>
  BY DEF LoginFails, History
<1> HIDE DEF new
<1>5. login'[l] = new /\ login' \in [Logins -> Login] /\ \A m \in Logins : m # l => login'[m] = login[m]
  BY <1>2, <1>3, LoginStepType
<1>6. LoginOK(l)'
  BY <1>1, <1>2, <1>4, <1>5 DEF LoginOK, LoginFails
<1>7. LinkInv'
  BY <1>2, <1>3, <1>4, <1>6, LoginChange
<1>8. BurnedInv'
  <2>1. ASSUME NEW r \in Requests, req'[r].pc = "burned"
        PROVE  /\ req[r].pc = "burned" /\ req'[r].on = req[r].on
               /\ login'[req[r].on].code = login[req[r].on].code
               /\ login'[req[r].on].sessions = login[req[r].on].sessions
    <3>1. req[r].on \in Logins
      BY <1>4, <2>1 DEF WellInv, Well
    <3> QED
      BY <1>2, <1>4, <1>5, <2>1, <3>1
  <2> QED
    BY <2>1, BurnedKept
<1> QED
  BY <1>4, <1>5, <1>7, <1>8, SameReq DEF WellInv, TypeOK

LEMMA CodeExpiresLink ==
    ASSUME WellInv, LinkInv, BurnedInv, NEW l \in Logins, CodeExpires(l)
    PROVE  WellInv' /\ LinkInv' /\ BurnedInv'
<1> DEFINE new == [login[l] EXCEPT !.code = "spent"]
<1>1. login[l] \in Login /\ LoginOK(l)
  BY DEF WellInv, TypeOK, LinkInv
<1>2. /\ new \in Login /\ new.pc = login[l].pc /\ new.user = login[l].user /\ new.how = login[l].how
      /\ new.code = "spent" /\ new.early = login[l].early /\ new.sessions = login[l].sessions
  BY <1>1 DEF Login
<1>3. login' = [login EXCEPT ![l] = new]
  BY DEF CodeExpires, WellInv, TypeOK
<1>4. UNCHANGED <<user, key, lock, req, loop, owned, contested, linked, crossed, events>>
  BY DEF CodeExpires, History
<1> HIDE DEF new
<1>5. login'[l] = new /\ login' \in [Logins -> Login] /\ \A m \in Logins : m # l => login'[m] = login[m]
  BY <1>2, <1>3, LoginStepType
<1>6. LoginOK(l)'
  BY <1>1, <1>2, <1>4, <1>5 DEF LoginOK, CodeExpires
<1>7. LinkInv'
  BY <1>2, <1>3, <1>4, <1>6, LoginChange
<1>8. BurnedInv'
  <2>1. ASSUME NEW r \in Requests, req'[r].pc = "burned"
        PROVE  req[r].pc = "burned" /\ req'[r].on = req[r].on /\ login'[req[r].on] = login[req[r].on]
    <3>1. req[r].on \in Logins /\ req[r].on # l
      BY <1>4, <2>1 DEF BurnedInv, CodeExpires, WellInv, Well
    <3> QED
      BY <1>4, <1>5, <2>1, <3>1
  <2> QED
    BY <2>1, BurnedKept
<1> QED
  BY <1>4, <1>5, <1>7, <1>8, SameReq DEF WellInv, TypeOK

(* A login finds user u, who is crossed if another login has found it.     *)
LEMMA FoundStep ==
    ASSUME WellInv, LinkInv, NEW l \in Logins, login[l].pc = "idle", NEW u \in Users,
           NEW how \in {"known", "link", "new"}, Found(l, u, how), UNCHANGED <<user, linked>>,
           how = "known" => user[u].login = Subject[l],
           how = "link" => user[u].role # "none" /\ user[u].login = Nobody,
           how = "new" => user[u].role = "none"
    PROVE  /\ LinkInv' /\ login' \in [Logins -> Login] /\ crossed' \subseteq Users
           /\ \A m \in Logins : m # l => login'[m] = login[m]
<1> DEFINE new == [NoLogin EXCEPT !.pc = "found", !.user = u, !.how = how, !.welcome = user[u].active]
<1>1. user[u] \in User
  BY DEF WellInv, TypeOK
<1>2. /\ new \in Login /\ new.pc = "found" /\ new.user = u /\ new.how = how
      /\ new.code = "none" /\ new.sessions = 0
  BY <1>1 DEF NoLogin, Login, User
<1>3. /\ login' = [login EXCEPT ![l] = new]
      /\ crossed' = IF \E m \in Logins \ {l} : login[m].pc = "found" /\ login[m].user = u
                    THEN crossed \cup {u} ELSE crossed
  BY DEF Found
<1> HIDE DEF new
<1>4. login'[l] = new /\ login' \in [Logins -> Login] /\ \A m \in Logins : m # l => login'[m] = login[m]
  BY <1>2, <1>3, LoginStepType
<1>5. crossed' \subseteq Users /\ crossed \subseteq crossed'
  BY <1>3 DEF WellInv, TypeOK
<1>6. how = "known" => <<u, Subject[l]>> \in linked
  <2>1. Subject[l] # Nobody
    OBVIOUS
  <2> QED
    BY <2>1 DEF LinkInv
<1>7. \A m \in Logins : LoginOK(m)'
  <2>1. LoginOK(l)'
    BY <1>2, <1>4, <1>6 DEF LoginOK
  <2>2. \A m \in Logins : m # l => LoginOK(m)'
    BY <1>4 DEF LinkInv, LoginOK
  <2> QED
    BY <2>1, <2>2
<1>8. ASSUME NEW v \in Users, v \notin crossed' PROVE OneIdentity(v)'
  <2>1. OneIdentity(v)
    BY <1>5, <1>8 DEF LinkInv
  <2>2. CASE v # u
    <3>1. \A m \in Logins : FoundOf(m, v)' => FoundOf(m, v) /\ login'[m].how = login[m].how
      BY <1>2, <1>4, <2>2 DEF FoundOf
    <3> QED
      BY <2>1, <3>1 DEF OneIdentity
  <2>3. CASE v = u
    <3>1. \A m \in Logins : m # l => ~FoundOf(m, u)
      BY <1>3, <1>8, <2>3 DEF FoundOf
    <3>2. \A m \in Logins : FoundOf(m, u)' => m = l
      BY <1>4, <3>1 DEF FoundOf
    <3>3. how # "known" => \A s \in Subjects : <<u, s>> \notin linked
      BY DEF LinkInv
    <3> QED
      BY <1>2, <1>4, <2>1, <2>3, <3>2, <3>3 DEF OneIdentity
  <2> QED
    BY <2>2, <2>3
<1> QED
  BY <1>4, <1>5, <1>7, <1>8 DEF LinkInv

LEMMA CallbackLink ==
    ASSUME WellInv, LinkInv, BurnedInv, NEW l \in Logins, Callback(l)
    PROVE  WellInv' /\ LinkInv' /\ BurnedInv'
<1>1. PICK e \in {Email[u] : u \in Users}, verified, admit \in BOOLEAN :
          LET found == IF verified THEN Matches(e) ELSE {}
          IN  \/ \E u \in Known(l) : Found(l, u, "known")
              \/ /\ Known(l) = {} /\ Cardinality(found) = 1
                 /\ \E u \in found : Found(l, u, "link")
              \/ /\ Known(l) = {} /\ found = {} /\ admit
                 /\ \E u \in Newcomer(e) : Found(l, u, "new")
  BY DEF Callback
<1>2. /\ UNCHANGED <<user, key, lock, req, loop, owned, contested, linked>>
      /\ login[l].pc = "idle" /\ events' \in 0..MaxEvents
  BY DEF Callback, Event, WellInv, TypeOK
<1>3. /\ LinkInv' /\ login' \in [Logins -> Login] /\ crossed' \subseteq Users
      /\ \A m \in Logins : m # l => login'[m] = login[m]
  <2>1. CASE \E u \in Known(l) : Found(l, u, "known")
    BY <1>2, <2>1, FoundStep DEF Known
  <2>2. CASE \E u \in Matches(e) : Found(l, u, "link")
    BY <1>2, <2>2, FoundStep DEF Matches
  <2>3. CASE \E u \in Newcomer(e) : Found(l, u, "new")
    BY <1>2, <2>3, FoundStep DEF Newcomer
  <2> QED
    BY <1>1, <2>1, <2>2, <2>3
<1>4. BurnedInv'
  <2>1. ASSUME NEW r \in Requests, req'[r].pc = "burned"
        PROVE  req[r].pc = "burned" /\ req'[r].on = req[r].on /\ login'[req[r].on] = login[req[r].on]
    <3>1. req[r].on \in Logins /\ login[req[r].on].code = "spent"
      BY <1>2, <2>1 DEF BurnedInv, WellInv, Well
    <3>2. req[r].on # l
      BY <1>2, <3>1 DEF LinkInv, LoginOK
    <3> QED
      BY <1>2, <1>3, <2>1, <3>1, <3>2
  <2> QED
    BY <2>1, BurnedKept
<1> QED
  BY <1>2, <1>3, <1>4, SameReq DEF WellInv, TypeOK

(* The commit links the identity of a first login to its user.             *)
LEMMA LoginCommitLinks ==
    ASSUME WellInv, LinkInv, NEW l \in Logins, LoginCommit(l)
    PROVE  /\ login[l].user \in Users /\ login[l].user # Nobody
           /\ <<login[l].user, Subject[l]>> \in linked'
           /\ login[l].how = "known" => UNCHANGED <<user, linked>>
           /\ login[l].how # "known" =>
                 /\ linked' = linked \cup {<<login[l].user, Subject[l]>>}
                 /\ user'[login[l].user].login = Subject[l]
                 /\ user[login[l].user].role = "none" /\ login[l].how = "new" =>
                       user'[login[l].user].role = "viewer"
                 /\ login[l].how = "link" => user'[login[l].user].role = user[login[l].user].role
                                             /\ user'[login[l].user].active = user[login[l].user].active
           /\ login[l].how = "new" => user[login[l].user].role = "none"
           /\ \A v \in Users : v # login[l].user => user'[v] = user[v]
<1>1. login[l].user \in Users /\ LoginOK(l) /\ login[l] \in Login /\ login[l].pc = "found"
  BY DEF LinkInv, LoginOK, LoginCommit, WellInv, TypeOK
<1>2. login[l].how \in {"known", "link", "new"} /\ user \in [Users -> User]
  BY <1>1 DEF Login, WellInv, TypeOK
<1>3. CASE login[l].how = "known"
  <2>1. UNCHANGED <<user, linked>>
    BY <1>3 DEF LoginCommit
  <2>2. <<login[l].user, Subject[l]>> \in linked
    BY <1>1, <1>3 DEF LoginOK
  <2> QED
    BY <1>1, <1>3, <2>1, <2>2
<1>4. CASE login[l].how = "link"
  <2>1. /\ user' = [user EXCEPT ![login[l].user].login = Subject[l]]
        /\ linked' = linked \cup {<<login[l].user, Subject[l]>>}
    BY <1>4 DEF LoginCommit
  <2>2. user[login[l].user] \in User
    BY <1>1, <1>2
  <2>3. user'[login[l].user] = [user[login[l].user] EXCEPT !.login = Subject[l]]
    BY <1>1, <1>2, <2>1
  <2> QED
    BY <1>1, <1>2, <1>4, <2>1, <2>2, <2>3 DEF User
<1>5. CASE login[l].how = "new"
  <2>1. /\ user[login[l].user].role = "none"
        /\ user' = [user EXCEPT ![login[l].user] = [NoUser EXCEPT !.role = "viewer", !.login = Subject[l]]]
        /\ linked' = linked \cup {<<login[l].user, Subject[l]>>}
    BY <1>5 DEF LoginCommit
  <2>2. user'[login[l].user] = [NoUser EXCEPT !.role = "viewer", !.login = Subject[l]]
    BY <1>1, <1>2, <2>1
  <2>3. user'[login[l].user].role = "viewer" /\ user'[login[l].user].login = Subject[l]
    BY <2>2 DEF NoUser
  <2> QED
    BY <1>1, <1>2, <1>5, <2>1, <2>3
<1> QED
  BY <1>2, <1>3, <1>4, <1>5

LEMMA LoginCommitLink ==
    ASSUME WellInv, LinkInv, BurnedInv, NEW l \in Logins, LoginCommit(l)
    PROVE  WellInv' /\ LinkInv' /\ BurnedInv'
<1> DEFINE u == login[l].user
           new == [login[l] EXCEPT !.pc = "done",
                     !.code = IF @ = "none" /\ login[l].welcome THEN "live" ELSE @]
<1>1. login[l] \in Login /\ LoginOK(l) /\ login[l].pc = "found" /\ u \in Users
  BY LoginCommitLinks DEF WellInv, TypeOK, LinkInv, LoginCommit
<1>2. /\ new \in Login /\ new.pc = "done" /\ new.user = u /\ new.how = login[l].how
      /\ new.early = login[l].early /\ new.sessions = login[l].sessions
      /\ new.code \in {login[l].code, "live"} /\ (login[l].code # "none" => new.code = login[l].code)
  BY <1>1 DEF Login
<1>3. login' = [login EXCEPT ![l] = new]
  BY DEF LoginCommit, WellInv, TypeOK
<1>4. UNCHANGED <<key, lock, req, loop, owned, contested, crossed, events>>
  BY DEF LoginCommit
<1> HIDE DEF new
<1>5. login'[l] = new /\ login' \in [Logins -> Login] /\ \A m \in Logins : m # l => login'[m] = login[m]
  BY <1>2, <1>3, LoginStepType
<1>6. /\ <<u, Subject[l]>> \in linked' /\ linked \subseteq linked'
      /\ \A p \in linked' : p \in linked \/ (p = <<u, Subject[l]>> /\ login[l].how # "known")
  BY LoginCommitLinks
<1>7. \A m \in Logins : LoginOK(m)'
  <2>1. LoginOK(l)'
    <3>1. login'[l].code \in {login[l].code, "live"} /\ login'[l].sessions = login[l].sessions
          /\ login'[l].user = u /\ login'[l].pc = "done" /\ login'[l].how = login[l].how
      BY <1>2, <1>5
    <3>2. login[l].code # "none" => login'[l].code = login[l].code
      BY <1>2, <1>5
    <3>3. login[l].code \in {"none", "live", "spent"}
      BY <1>1 DEF Login
    <3>4. login[l].code \in {"none", "live"} => login[l].sessions = 0
      BY <1>1 DEF LoginOK
    <3>5. login[l].sessions <= 1
      BY <1>1 DEF LoginOK
    <3> HIDE DEF u
    <3>6. login'[l].code \in {"none", "live"} => login'[l].sessions = 0
      BY <3>1, <3>2, <3>4
    <3> QED
      BY <1>1, <1>6, <3>1, <3>5, <3>6 DEF LoginOK
  <2>2. \A v \in Users : user[v].role # "none" => user'[v].role # "none"
    <3>1. login[l].how \in {"known", "link", "new"}
      BY <1>1 DEF Login
    <3>2. CASE login[l].how = "known"
      BY <3>2, LoginCommitLinks
    <3>3. CASE login[l].how = "link"
      BY <3>3, LoginCommitLinks
    <3>4. CASE login[l].how = "new"
      BY <3>4, LoginCommitLinks
    <3> QED
      BY <3>1, <3>2, <3>3, <3>4
  <2>3. \A m \in Logins : m # l => LoginOK(m)'
    BY <1>5, <1>6, <2>2 DEF LinkInv, LoginOK
  <2> QED
    BY <2>1, <2>3
<1>8. ASSUME NEW v \in Users
      PROVE  /\ user'[v].login # Nobody => <<v, user'[v].login>> \in linked'
             /\ \A s \in Subjects : <<v, s>> \in linked' =>
                   user'[v].role # "none" /\ user'[v].login # Nobody
  <2>1. CASE v # u
    <3>1. user'[v] = user[v] /\ \A s \in Subjects : <<v, s>> \in linked' => <<v, s>> \in linked
      BY <1>6, <2>1, LoginCommitLinks
    <3> QED
      BY <1>6, <3>1 DEF LinkInv
  <2>2. CASE v = u /\ login[l].how = "known"
    <3>1. UNCHANGED <<user, linked>>
      BY <2>2, LoginCommitLinks
    <3> QED
      BY <3>1 DEF LinkInv
  <2>3. CASE v = u /\ login[l].how # "known"
    <3>0. Subject[l] \in Subjects
      OBVIOUS
    <3>1. user'[u].login = Subject[l] /\ Subject[l] # Nobody
      BY <2>3, <3>0, LoginCommitLinks
    <3>2. user'[u].role # "none"
      <4>1. CASE login[l].how = "new"
        BY <2>3, <4>1, LoginCommitLinks
      <4>2. CASE login[l].how = "link"
        BY <1>1, <2>3, <4>2, LoginCommitLinks DEF LoginOK
      <4> QED
        BY <1>1, <2>3, <4>1, <4>2 DEF Login
    <3> QED
      BY <1>6, <2>3, <3>1, <3>2
  <2> QED
    BY <2>1, <2>2, <2>3
<1>9. ASSUME NEW v \in Users, v \notin crossed' PROVE OneIdentity(v)'
  <2>1. OneIdentity(v)
    BY <1>4, <1>9 DEF LinkInv
  <2>2. \A m \in Logins : FoundOf(m, v)' => m # l /\ FoundOf(m, v) /\ login'[m].how = login[m].how
    BY <1>2, <1>5 DEF FoundOf
  <2>3. CASE v # u \/ login[l].how = "known"
    <3>1. \A s \in Subjects : <<v, s>> \in linked' => <<v, s>> \in linked
      BY <1>6, <2>3
    <3> QED
      BY <2>1, <2>2, <3>1 DEF OneIdentity
  <2>4. CASE v = u /\ login[l].how # "known"
    <3>1. FoundOf(l, v)
      BY <1>1, <2>4 DEF FoundOf
    <3>2. \A m \in Logins : ~FoundOf(m, v)'
      BY <2>1, <2>2, <3>1 DEF OneIdentity
    <3>3. \A s \in Subjects : <<v, s>> \in linked' => s = Subject[l]
      BY <1>6, <2>1, <2>4, <3>1 DEF OneIdentity
    <3> QED
      BY <3>2, <3>3 DEF OneIdentity
  <2> QED
    BY <2>3, <2>4
<1>10. LinkInv'
  BY <1>7, <1>8, <1>9 DEF LinkInv
<1>11. BurnedInv'
  <2>1. ASSUME NEW r \in Requests, req'[r].pc = "burned"
        PROVE  /\ req[r].pc = "burned" /\ req'[r].on = req[r].on
               /\ login'[req[r].on].code = login[req[r].on].code
               /\ login'[req[r].on].sessions = login[req[r].on].sessions
    <3>1. req[r].on \in Logins /\ login[req[r].on].code = "spent"
      BY <1>4, <2>1 DEF BurnedInv, WellInv, Well
    <3> QED
      BY <1>2, <1>4, <1>5, <2>1, <3>1
  <2> QED
    BY <2>1, BurnedKept
<1>12. user' \in [Users -> User] /\ linked' \subseteq Users \X Subjects
  BY <1>1, FoundLogin
<1> QED
  BY <1>4, <1>5, <1>10, <1>11, <1>12, SameReq DEF WellInv, TypeOK

LEMMA RestartLink ==
    ASSUME WellInv, LinkInv, Restart PROVE LinkInv' /\ BurnedInv'
<1>1. ASSUME NEW l \in Logins
      PROVE  /\ login'[l].user = login[l].user /\ login'[l].how = login[l].how
             /\ login'[l].code = login[l].code /\ login'[l].early = login[l].early
             /\ login'[l].sessions = login[l].sessions
             /\ login'[l].pc = IF login[l].pc = "found" THEN "done" ELSE login[l].pc
  <2>1. login[l] \in Login
    BY DEF WellInv, TypeOK
  <2>2. login'[l] = IF login[l].pc = "found" THEN [login[l] EXCEPT !.pc = "done"] ELSE login[l]
    BY DEF Restart
  <2> QED
    BY <2>1, <2>2 DEF Login
<1>2. UNCHANGED <<user, linked, crossed>>
  BY DEF Restart, History
<1>3. \A l \in Logins : LoginOK(l)'
  BY <1>1, <1>2 DEF LinkInv, LoginOK
<1>4. \A l \in Logins, u \in Users : ~FoundOf(l, u)'
  BY <1>1 DEF FoundOf
<1>5. LinkInv'
  BY <1>2, <1>3, <1>4 DEF LinkInv, OneIdentity
<1> QED
  BY <1>5, RestartWell DEF BurnedInv

(* What requests do to logins: one burns a code, and looks its user up.    *)
LEMMA ExchangeLink ==
    ASSUME WellInv, LinkInv, BurnedInv, NEW r \in Requests, Exchange(r)
    PROVE  LinkInv' /\ BurnedInv'
<1>0. PICK l \in Logins : l = req[r].on
  BY DEF WellInv, Well, Exchange
<1> DEFINE new == [login[l] EXCEPT !.code = "spent"]
<1>1. /\ \A x \in Requests : x # r => req'[x] = req[x]
      /\ req'[r] = [req[r] EXCEPT !.pc = IF Redeemable(l) THEN "burned" ELSE "working"]
      /\ req[r] \in Request
  BY <1>0, ExchangeWell DEF WellInv, TypeOK
<1>2. l \in Logins /\ login[l] \in Login /\ LoginOK(l)
  BY DEF WellInv, TypeOK, LinkInv
<1>3. UNCHANGED <<user, linked, crossed>>
  BY DEF Exchange, History
<1>4. CASE ~Redeemable(l)
  <2>1. UNCHANGED login /\ req'[r].pc = "working"
    BY <1>0, <1>1, <1>4 DEF Exchange, Request
  <2> QED
    BY <1>1, <1>3, <2>1, SameLink, BurnedKept
<1>5. CASE Redeemable(l)
  <2>1. /\ new \in Login /\ new.pc = login[l].pc /\ new.user = login[l].user
        /\ new.how = login[l].how /\ new.code = "spent" /\ new.early = login[l].early
        /\ new.sessions = login[l].sessions
    BY <1>2 DEF Login
  <2>2. login' = [login EXCEPT ![l] = new] /\ login[l].code = "live"
    BY <1>0, <1>5 DEF Exchange, Redeemable, WellInv, TypeOK
  <2> HIDE DEF new
  <2>3. login'[l] = new /\ \A m \in Logins : m # l => login'[m] = login[m]
    BY <1>2, <2>1, <2>2, LoginStepType
  <2>4. LoginOK(l)'
    BY <1>2, <1>3, <2>1, <2>2, <2>3 DEF LoginOK
  <2>5. LinkInv'
    BY <1>2, <1>3, <2>1, <2>2, <2>4, LoginChange
  <2>6. req'[r].pc = "burned" /\ req'[r].on = l
    BY <1>0, <1>1, <1>5 DEF Request
  <2>7. login'[l].code = "spent" /\ login'[l].sessions = 0
    BY <1>2, <2>1, <2>2, <2>3 DEF LoginOK
  <2>8. \A x \in Requests : req[x].pc = "burned" => req[x].on # l /\ req[x].on \in Logins
    BY <2>2 DEF BurnedInv, WellInv, Well
  <2>9. ASSUME NEW x \in Requests, req'[x].pc = "burned"
        PROVE  /\ login'[req'[x].on].code = "spent" /\ login'[req'[x].on].sessions = 0
               /\ \A y \in Requests : req'[y].pc = "burned" /\ req'[y].on = req'[x].on => y = x
    <3>1. CASE x = r
      BY <1>1, <2>6, <2>7, <2>8, <3>1
    <3>2. CASE x # r
      <4>1. req'[x] = req[x] /\ req[x].pc = "burned"
        BY <1>1, <2>9, <3>2
      <4>2. login'[req[x].on] = login[req[x].on] /\ req[x].on # l
        BY <2>3, <2>8, <4>1
      <4>3. \A y \in Requests : req'[y].pc = "burned" /\ req'[y].on = req[x].on => y # r
        BY <2>6, <4>2
      <4> QED
        BY <1>1, <4>1, <4>2, <4>3 DEF BurnedInv
    <3> QED
      BY <3>1, <3>2
  <2>10. BurnedInv'
    BY <2>9 DEF BurnedInv
  <2> QED
    BY <2>5, <2>10
<1> QED
  BY <1>4, <1>5

LEMMA LookupLink ==
    ASSUME WellInv, LinkInv, BurnedInv, NEW r \in Requests, Lookup(r)
    PROVE  LinkInv' /\ BurnedInv'
<1>0. PICK l \in Logins : l = req[r].on
  BY DEF WellInv, Well, Lookup
<1> DEFINE ok == Visible(login[l].user, req[r].key) /\ user[login[l].user].role # "none"
                    /\ user[login[l].user].active
           new == [login[l] EXCEPT !.sessions = IF ok THEN @ + 1 ELSE @]
<1>1. (\A x \in Requests : x # r => req'[x] = req[x]) /\ req'[r].pc = "working"
  BY LookupWell
<1>2. l \in Logins /\ login[l] \in Login /\ LoginOK(l) /\ login[l].code = "spent" /\ login[l].sessions = 0
  BY <1>0 DEF WellInv, TypeOK, LinkInv, Lookup, BurnedInv
<1>3. UNCHANGED <<user, linked, crossed>>
  BY DEF Lookup, History
<1>4. login' = [login EXCEPT ![l] = new]
  BY <1>0, <1>2 DEF Lookup, WellInv, TypeOK
<1> HIDE DEF ok
<1>5. /\ new \in Login /\ new.pc = login[l].pc /\ new.user = login[l].user
      /\ new.how = login[l].how /\ new.code = "spent" /\ new.early = login[l].early
      /\ new.sessions \in {0, 1}
  BY <1>2 DEF Login
<1> HIDE DEF new
<1>6. login'[l] = new /\ \A m \in Logins : m # l => login'[m] = login[m]
  BY <1>2, <1>4, <1>5, LoginStepType
<1>7. LoginOK(l)'
  BY <1>2, <1>3, <1>5, <1>6 DEF LoginOK
<1>8. LinkInv'
  BY <1>2, <1>3, <1>4, <1>5, <1>7, LoginChange
<1>9. \A x \in Requests : req'[x].pc = "burned" => /\ x # r /\ req[x].pc = "burned" /\ req'[x].on = req[x].on
                                                  /\ req[x].on \in Logins /\ req[x].on # l
  BY <1>0, <1>1 DEF BurnedInv, WellInv, Well, Lookup
<1>10. BurnedInv'
  BY <1>6, <1>9, BurnedKept
<1> QED
  BY <1>8, <1>10

LEMMA CommitLink ==
    ASSUME WellInv, LinkInv, BurnedInv, NEW r \in Requests, Commit(r)
    PROVE  LinkInv' /\ BurnedInv'
<1>1. UNCHANGED <<login, linked, crossed>>
  BY DEF Commit
<1>2. ASSUME NEW u \in Users
      PROVE  user'[u].login = user[u].login /\ (user[u].role # "none" => user'[u].role # "none")
  <2>1. user \in [Users -> User] /\ user[u] \in User /\ Well(r) /\ req[r].change \in Changes
    BY DEF WellInv, TypeOK, Request
  <2>2. CASE req[r].kind = "edit"
    <3>1. user' = [user EXCEPT ![req[r].on] = Edited(@, req[r].change)]
      BY <2>2, CommitWrites
    <3>2. user'[u] = user[u] \/ user'[u] = Edited(user[u], req[r].change)
      BY <2>1, <3>1
    <3> QED
      BY <2>1, <3>2, EditedType
  <2>3. CASE req[r].kind = "create"
    <3>0. user' = [user EXCEPT ![req[r].on].role = IF req[r].change = "demote" THEN "viewer" ELSE "owner"]
      BY <2>3, CommitWrites
    <3>1. user'[u] \in {user[u], [user[u] EXCEPT !.role = "viewer"], [user[u] EXCEPT !.role = "owner"]}
      BY <2>1, <3>0
    <3> QED
      BY <2>1, <3>1 DEF User
  <2>4. CASE req[r].kind \notin {"edit", "create"}
    BY <2>4, CommitWrites
  <2> QED
    BY <2>2, <2>3, <2>4
<1>3. LinkInv'
  <2>1. \A l \in Logins : LoginOK(l)'
    BY <1>1, <1>2 DEF LinkInv, LoginOK
  <2>2. \A u \in Users : u \notin crossed' => OneIdentity(u)'
    BY <1>1 DEF LinkInv, OneIdentity, FoundOf
  <2> QED
    BY <1>1, <1>2, <2>1, <2>2 DEF LinkInv
<1>4. (\A x \in Requests : x # r => req'[x] = req[x]) /\ req'[r].pc = "done"
  BY CommitWrites, EndsType
<1>5. BurnedInv'
  BY <1>1, <1>4, BurnedKept
<1> QED
  BY <1>3, <1>5

-----------------------------------------------------------------------------
(* Owners *)

(* A request that takes an owner away holds the row of its key.            *)
TakeOK(r) ==
    /\ req[r].takes => /\ req[r].pc \in {"working", "closing"} /\ req[r].kind = "edit"
                       /\ req[r].change \in Takings /\ req[r].write
                       /\ lock[req[r].key] = r
    /\ req[r].kind = "edit" /\ req[r].change \in Takings /\ req[r].write => req[r].takes

TakesIn(o, r) == req[r].takes /\ Org[req[r].key] = o

(* One request at a time takes an owner away, and leaves another.          *)
OrgOK(o) ==
    /\ \A r, x \in Requests : TakesIn(o, r) /\ TakesIn(o, x) => r = x
    /\ o \in owned => /\ Owners(o) # {}
                      /\ \A r \in Requests : TakesIn(o, r) => Owners(o) \ {req[r].on} # {}

OwnInv ==
    /\ \A r \in Requests : TakeOK(r)
    /\ \A o \in Orgs : o \notin contested => OrgOK(o)

LEMMA InitOwn == Init => OwnInv
<1> SUFFICES ASSUME Init PROVE OwnInv
  OBVIOUS
<1>1. \A r \in Requests : ~req[r].takes /\ req[r].kind = "service"
  BY DEF Init, Idle
<1>2. \A r \in Requests : TakeOK(r)
  BY <1>1 DEF TakeOK
<1>3. \A o \in owned : Owners(o) # {}
  BY DEF Init
<1> QED
  BY <1>1, <1>2, <1>3 DEF OwnInv, OrgOK, TakesIn

(* A step of r leaves what other requests hold.                            *)
LEMMA TakesKept ==
    ASSUME WellInv, OwnInv, NEW r \in Requests, \A x \in Requests : x # r => req'[x] = req[x],
           \A x \in Requests, k \in Keys : x # r /\ lock[k] = x => lock'[k] = x, TakeOK(r)'
    PROVE  \A x \in Requests : TakeOK(x)'
<1>1. ASSUME NEW x \in Requests, x # r PROVE TakeOK(x)'
  <2>1. req'[x] = req[x] /\ TakeOK(x)
    BY <1>1 DEF OwnInv
  <2>2. req[x].takes => lock'[req[x].key] = x
    BY <1>1, <2>1 DEF TakeOK, WellInv, Well, Open
  <2> QED
    BY <2>1, <2>2 DEF TakeOK
<1> QED
  BY <1>1

(* The owners of an org remain, and nobody begins to take one.             *)
LEMMA OrgKept ==
    ASSUME NEW o \in Orgs, OrgOK(o),
           \A u \in Owners(o) : u \in Owners(o)',
           \A x \in Requests : req'[x].takes =>
              req[x].takes /\ req'[x].key = req[x].key /\ req'[x].on = req[x].on,
           o \in owned' => o \in owned
    PROVE  OrgOK(o)'
<1>1. \A x \in Requests : TakesIn(o, x)' => TakesIn(o, x) /\ req'[x].on = req[x].on
  BY DEF TakesIn
<1> QED
  BY <1>1 DEF OrgOK

LEMMA OwnersKept ==
    ASSUME NEW o \in Orgs,
           \A u \in Users : user[u].role = "owner" /\ user[u].active =>
              user'[u].role = "owner" /\ user'[u].active
    PROVE  \A u \in Owners(o) : u \in Owners(o)'
BY DEF Owners, Rows

(* A step of a request that takes no owner and writes no user.             *)
LEMMA QuietOwn ==
    ASSUME WellInv, OwnInv, NEW r \in Requests, \A x \in Requests : x # r => req'[x] = req[x],
           \A x \in Requests, k \in Keys : x # r /\ lock[k] = x => lock'[k] = x, TakeOK(r)',
           UNCHANGED <<user, owned, contested>>,
           req'[r].takes => req[r].takes /\ req'[r].key = req[r].key /\ req'[r].on = req[r].on
    PROVE  OwnInv'
<1>1. \A x \in Requests : req'[x].takes =>
         req[x].takes /\ req'[x].key = req[x].key /\ req'[x].on = req[x].on
  OBVIOUS
<1>2. ASSUME NEW o \in Orgs, o \notin contested' PROVE OrgOK(o)'
  <2>1. OrgOK(o)
    BY <1>2 DEF OwnInv
  <2>2. \A u \in Owners(o) : u \in Owners(o)'
    BY OwnersKept
  <2> QED
    BY <1>1, <2>1, <2>2, OrgKept
<1>3. \A x \in Requests : TakeOK(x)'
  BY TakesKept
<1> QED
  BY <1>2, <1>3 DEF OwnInv

LEMMA SameOwn ==
    ASSUME OwnInv, UNCHANGED <<req, lock, owned, contested>>,
           \A u \in Users : user[u].role = "owner" /\ user[u].active =>
              user'[u].role = "owner" /\ user'[u].active
    PROVE  OwnInv'
<1>1. \A r \in Requests : TakeOK(r)'
  BY DEF OwnInv, TakeOK
<1>2. ASSUME NEW o \in Orgs, o \notin contested' PROVE OrgOK(o)'
  <2>1. OrgOK(o) /\ \A u \in Owners(o) : u \in Owners(o)'
    BY <1>2, OwnersKept DEF OwnInv
  <2> QED
    BY <2>1, OrgKept
<1> QED
  BY <1>1, <1>2 DEF OwnInv

LEMMA QueryOwn ==
    ASSUME WellInv, OwnInv, NEW r \in Requests, req[r].pc = "dispatched", Stamped(r), Query(r),
           UNCHANGED <<user, owned>>
    PROVE  OwnInv'
<1> DEFINE org == Org[req[r].key]
<1>1. /\ \A x \in Requests : x # r => req'[x] = req[x]
      /\ req'[r].pc = "working" /\ req'[r].key = req[r].key /\ req'[r].on = req[r].on
      /\ req'[r].kind = req[r].kind /\ req'[r].change = req[r].change
      /\ req'[r].write = Decides(r)
      /\ req'[r].takes = (req[r].kind = "edit" /\ Decides(r) /\ req[r].change \in Takings)
      /\ contested' \in {contested, contested \cup {org}}
      /\ req'[r].takes /\ Taking(org, r) # {} => contested' = contested \cup {org}
      /\ req'[r].takes \/ contested' = contested
      /\ lock[req[r].key] = Nobody /\ lock'[req[r].key] = r
      /\ \A k \in Keys : k # req[r].key => lock'[k] = lock[k]
  BY QueryStep
<1>2. req[r].key \in Keys
  BY DEF WellInv, Well, Open
<1>3. \A x \in Requests, k \in Keys : x # r /\ lock[k] = x => lock'[k] = x
  BY <1>1
<1>4. TakeOK(r)'
  BY <1>1 DEF TakeOK
<1>5. \A x \in Requests : TakeOK(x)'
  BY <1>1, <1>3, <1>4, TakesKept
<1>6. CASE ~req'[r].takes
  BY <1>1, <1>3, <1>4, <1>6, QuietOwn
<1>7. CASE req'[r].takes
  <2>0. req[r].kind = "edit" /\ Decides(r) /\ req[r].change \in Takings
    BY <1>1, <1>7
  <2>1. ASSUME NEW o \in Orgs, o \notin contested' PROVE OrgOK(o)'
    <3>1. OrgOK(o) /\ \A u \in Owners(o) : u \in Owners(o)'
      BY <1>1, <2>1, OwnersKept DEF OwnInv
    <3>2. CASE o # org
      <4>1. \A x \in Requests : TakesIn(o, x)' => x # r /\ TakesIn(o, x) /\ req'[x].on = req[x].on
        BY <1>1, <3>2 DEF TakesIn
      <4> QED
        BY <3>1, <4>1 DEF OrgOK
    <3>3. CASE o = org
      <4>1. Taking(org, r) = {}
        BY <1>1, <1>7, <2>1, <3>3
      <4>2. \A x \in Requests : x # r => ~TakesIn(org, x)
        <5> SUFFICES ASSUME NEW x \in Requests, x # r, TakesIn(org, x) PROVE FALSE
          OBVIOUS
        <5>1. req[x].takes /\ Org[req[x].key] = org /\ TakeOK(x)
          BY DEF TakesIn, OwnInv
        <5>2. req[x].pc \in {"working", "closing"} /\ lock[req[x].key] = x
          BY <5>1 DEF TakeOK
        <5>3. req[x].key = req[r].key
          BY <4>1, <5>1, <5>2 DEF Taking
        <5> QED
          BY <1>1, <5>2, <5>3
      <4>3. \A x \in Requests : TakesIn(org, x)' => x = r
        BY <1>1, <4>2 DEF TakesIn
      <4>4. o \in owned => Owners(o) \ {req[r].on} # {}
        <5> SUFFICES ASSUME o \in owned PROVE Owners(o) \ {req[r].on} # {}
          OBVIOUS
        <5>1. req[r].on \in Users /\ Org[req[r].on] = o /\ Effective(req[r].on, req[r].change)
          BY <2>0, <3>3 DEF WellInv, Well, Decides
        <5>2. CASE Removes(req[r].on, req[r].change)
          BY <5>1, <5>2 DEF Effective, Others
        <5>3. CASE ~Removes(req[r].on, req[r].change)
          <6>1. req[r].on \notin Owners(o)
            BY <2>0, <5>3 DEF Removes, Owners
          <6> QED
            BY <3>1, <6>1 DEF OrgOK
        <5> QED
          BY <5>2, <5>3
      <4>5. o \in owned => Owners(o)' \ {req[r].on} # {}
        BY <3>1, <4>4
      <4> QED
        BY <1>1, <3>3, <4>3, <4>5 DEF OrgOK
    <3> QED
      BY <3>2, <3>3
  <2> QED
    BY <1>5, <2>1 DEF OwnInv
<1> QED
  BY <1>6, <1>7

(* A commit takes no owner but of the org of a request that takes one.     *)
LEMMA CommitOwners ==
    ASSUME WellInv, OwnInv, NEW r \in Requests, Commit(r), NEW o \in Orgs,
           NEW u \in Owners(o), u \notin Owners(o)'
    PROVE  TakesIn(o, r) /\ u = req[r].on
<1>1. /\ user \in [Users -> User] /\ user[u] \in User /\ Well(r) /\ TakeOK(r)
      /\ req[r].change \in Changes /\ req[r].write /\ req[r].pc = "closing"
      /\ u \in Users /\ Org[u] = o /\ user[u].role = "owner" /\ user[u].active
  BY DEF WellInv, TypeOK, OwnInv, Request, Commit, Owners, Rows
<1>2. user'[u] # user[u]
  BY <1>1 DEF Owners, Rows
<1>3. CASE req[r].kind = "edit"
  <2>1. user' = [user EXCEPT ![req[r].on] = Edited(@, req[r].change)]
    BY <1>3, CommitWrites
  <2>2. u = req[r].on /\ user'[u] = Edited(user[u], req[r].change)
    BY <1>1, <1>2, <2>1
  <2>3. ~(user'[u].role = "owner" /\ user'[u].active)
    BY <1>1 DEF Owners, Rows
  <2>4. req[r].change \in Takings
    BY <1>1, <2>2, <2>3, EditedType
  <2> QED
    BY <1>1, <1>3, <2>2, <2>4 DEF TakeOK, TakesIn, Well
<1>4. CASE req[r].kind = "create"
  <2>1. /\ user[req[r].on].role = "none"
        /\ user' = [user EXCEPT ![req[r].on].role = IF req[r].change = "demote" THEN "viewer" ELSE "owner"]
    BY <1>4, CommitWrites
  <2>2. u = req[r].on
    BY <1>1, <1>2, <2>1
  <2> QED
    BY <1>1, <2>1, <2>2
<1>5. CASE req[r].kind \notin {"edit", "create"}
  BY <1>2, <1>5, CommitWrites
<1> QED
  BY <1>3, <1>4, <1>5

LEMMA CommitOwn ==
    ASSUME WellInv, OwnInv, NEW r \in Requests, Commit(r) PROVE OwnInv'
<1>1. /\ \A x \in Requests : x # r => req'[x] = req[x]
      /\ req'[r].pc = "done" /\ ~req'[r].takes
      /\ \A k \in Keys : lock'[k] = IF lock[k] = r THEN Nobody ELSE lock[k]
  BY CommitWrites, EndsType
<1>2. contested' = contested /\ owned' = owned \cup {o \in Orgs : Settled(o)'}
  BY DEF Commit
<1>3. TakeOK(r)'
  <2>1. Ends(r)
    BY CommitWrites
  <2>2. req'[r].kind = "service"
    BY <2>1 DEF Ends, Idle, WellInv, TypeOK
  <2> QED
    BY <1>1, <2>2 DEF TakeOK
<1>4. \A x \in Requests : TakeOK(x)'
  BY <1>1, <1>3, TakesKept
<1>5. ASSUME NEW o \in Orgs, o \notin contested' PROVE OrgOK(o)'
  <2>1. OrgOK(o)
    BY <1>2, <1>5 DEF OwnInv
  <2>2. \A x \in Requests : TakesIn(o, x)' => x # r /\ TakesIn(o, x) /\ req'[x].on = req[x].on
    BY <1>1 DEF TakesIn
  <2>3. \A x, y \in Requests : TakesIn(o, x)' /\ TakesIn(o, y)' => x = y
    BY <2>1, <2>2 DEF OrgOK
  <2>4. CASE o \in owned
    <3>1. CASE TakesIn(o, r)
      <4>1. \A x \in Requests : ~TakesIn(o, x)'
        BY <2>1, <2>2, <3>1 DEF OrgOK
      <4>2. PICK u \in Owners(o) : u # req[r].on
        BY <2>1, <2>4, <3>1 DEF OrgOK
      <4>3. u \in Owners(o)'
        BY <4>2, CommitOwners
      <4> QED
        BY <4>1, <4>3 DEF OrgOK
    <3>2. CASE ~TakesIn(o, r)
      <4>1. \A u \in Owners(o) : u \in Owners(o)'
        BY <3>2, CommitOwners
      <4> QED
        BY <2>1, <2>2, <2>3, <2>4, <4>1 DEF OrgOK
    <3> QED
      BY <3>1, <3>2
  <2>5. CASE o \notin owned
    <3>1. o \in owned' => Owners(o)' # {} /\ \A x \in Requests : ~TakesIn(o, x)'
      BY <1>2, <2>5 DEF Settled, TakesIn
    <3> QED
      BY <2>3, <3>1 DEF OrgOK
  <2> QED
    BY <2>4, <2>5
<1> QED
  BY <1>4, <1>5 DEF OwnInv

LEMMA LoginCommitOwn ==
    ASSUME WellInv, LinkInv, OwnInv, NEW l \in Logins, LoginCommit(l) PROVE OwnInv'
<1>1. UNCHANGED <<lock, req, owned, contested>>
  BY DEF LoginCommit
<1>2. \A u \in Users : user[u].role = "owner" /\ user[u].active =>
         user'[u].role = "owner" /\ user'[u].active
  <2>1. login[l].how \in {"known", "link", "new"}
    <3>1. login[l] \in Login
      BY DEF WellInv, TypeOK
    <3> QED
      BY <3>1 DEF Login
  <2>2. CASE login[l].how = "known"
    BY <2>2, LoginCommitLinks
  <2>3. \A u \in Users : u # login[l].user => user'[u] = user[u]
    BY LoginCommitLinks
  <2>4. CASE login[l].how = "link"
    <3>1. /\ user'[login[l].user].role = user[login[l].user].role
          /\ user'[login[l].user].active = user[login[l].user].active
      BY <2>4, LoginCommitLinks
    <3> QED
      BY <2>3, <3>1
  <2>5. CASE login[l].how = "new"
    <3>1. user[login[l].user].role = "none"
      BY <2>5, LoginCommitLinks
    <3> QED
      BY <2>3, <3>1
  <2> QED
    BY <2>1, <2>2, <2>4, <2>5
<1> QED
  BY <1>1, <1>2, SameOwn

LEMMA RestartOwn ==
    ASSUME WellInv, OwnInv, Restart PROVE OwnInv'
<1>1. /\ \A r \in Requests : ~req'[r].takes
      /\ \A r \in Requests : req'[r].kind = "service"
      /\ UNCHANGED <<user, owned, contested>>
  BY RestartWell DEF Restart, History, Idle
<1>2. \A r \in Requests : TakeOK(r)'
  BY <1>1 DEF TakeOK
<1>3. ASSUME NEW o \in Orgs, o \notin contested' PROVE OrgOK(o)'
  <2>1. OrgOK(o) /\ \A u \in Owners(o) : u \in Owners(o)'
    BY <1>1, <1>3, OwnersKept DEF OwnInv
  <2> QED
    BY <1>1, <2>1, OrgKept
<1> QED
  BY <1>2, <1>3 DEF OwnInv

-----------------------------------------------------------------------------
(* The invariant *)

Inv == WellInv /\ LinkInv /\ BurnedInv /\ OwnInv

LEMMA AuthenticateInv ==
    ASSUME Inv, NEW r \in Requests, Authenticate(r) PROVE Inv'
<1>1. /\ WellInv'
      /\ \A x \in Requests : x # r => req'[x] = req[x]
      /\ req'[r].pc \in {"dispatched", "done"} /\ ~req'[r].takes /\ ~req'[r].write
  BY AuthenticateWell DEF Inv
<1>2. UNCHANGED <<user, key, lock, loop, login, owned, contested, linked, crossed>>
  BY DEF Authenticate, History
<1>3. LinkInv'
  BY <1>2, SameLink DEF Inv
<1>4. BurnedInv'
  BY <1>1, <1>2, BurnedKept DEF Inv
<1>5. TakeOK(r)'
  BY <1>1 DEF TakeOK
<1>6. OwnInv'
  BY <1>1, <1>2, <1>5, QuietOwn DEF Inv
<1> QED
  BY <1>1, <1>3, <1>4, <1>6 DEF Inv

LEMMA QueriesInv ==
    ASSUME Inv, NEW r \in Requests, req[r].pc = "dispatched", Stamped(r), Query(r),
           loop' \in {loop, Nobody}, UNCHANGED <<user, key, login, owned, linked, crossed, events>>
    PROVE  Inv'
<1>1. WellInv'
  BY ThreadQueriesWell DEF Inv
<1>2. LinkInv'
  BY SameLink DEF Inv
<1>3. (\A x \in Requests : x # r => req'[x] = req[x]) /\ req'[r].pc = "working"
  BY QueryStep DEF Inv
<1>4. BurnedInv'
  BY <1>3, BurnedKept DEF Inv
<1>5. OwnInv'
  BY QueryOwn DEF Inv
<1> QED
  BY <1>1, <1>2, <1>4, <1>5 DEF Inv

LEMMA CloseInv ==
    ASSUME Inv, NEW r \in Requests, Close(r) PROVE Inv'
<1>1. UNCHANGED <<user, key, lock, loop, login, owned, contested, linked, crossed, events>>
  BY DEF Close, History
<1>2. /\ req' \in [Requests -> Request] /\ \A x \in Requests : Well(x)'
      /\ \A x \in Requests : x # r => req'[x] = req[x]
      /\ req'[r] = [req[r] EXCEPT !.pc = "closing"] /\ req[r] \in Request
  BY CloseStep DEF Inv, WellInv, TypeOK
<1>3. /\ req'[r].pc = "closing" /\ req'[r].takes = req[r].takes /\ req'[r].key = req[r].key
      /\ req'[r].on = req[r].on /\ req'[r].kind = req[r].kind /\ req'[r].change = req[r].change
      /\ req'[r].write = req[r].write
  BY <1>2 DEF Request
<1>4. WellInv'
  BY <1>1, <1>2 DEF Inv, WellInv, TypeOK
<1>5. LinkInv'
  BY <1>1, SameLink DEF Inv
<1>6. BurnedInv'
  BY <1>1, <1>2, <1>3, BurnedKept DEF Inv
<1>7. TakeOK(r)'
  BY <1>1, <1>3 DEF Inv, OwnInv, TakeOK
<1>8. OwnInv'
  BY <1>1, <1>2, <1>3, <1>7, QuietOwn DEF Inv
<1> QED
  BY <1>4, <1>5, <1>6, <1>8 DEF Inv

LEMMA RollbackInv ==
    ASSUME Inv, NEW r \in Requests, Rollback(r) PROVE Inv'
<1>1. UNCHANGED <<user, key, loop, login, owned, contested, linked, crossed, events>> /\ Ends(r)
  BY DEF Rollback, History
<1>2. /\ req' \in [Requests -> Request] /\ \A x \in Requests : Well(x)'
      /\ lock' \in [Keys -> Requests \cup {Nobody}]
      /\ req'[r].pc = "done" /\ ~req'[r].takes
      /\ \A x \in Requests : x # r => req'[x] = req[x]
      /\ \A k \in Keys : lock'[k] = IF lock[k] = r THEN Nobody ELSE lock[k]
  BY <1>1, EndsType DEF Inv
<1>3. req'[r].kind = "service"
  BY <1>1 DEF Ends, Idle, Inv, WellInv, TypeOK
<1>4. WellInv'
  BY <1>1, <1>2 DEF Inv, WellInv, TypeOK
<1>5. LinkInv'
  BY <1>1, SameLink DEF Inv
<1>6. BurnedInv'
  BY <1>1, <1>2, BurnedKept DEF Inv
<1>7. TakeOK(r)'
  BY <1>2, <1>3 DEF TakeOK
<1>8. OwnInv'
  BY <1>1, <1>2, <1>7, QuietOwn DEF Inv
<1> QED
  BY <1>4, <1>5, <1>6, <1>8 DEF Inv

LEMMA ExchangeInv ==
    ASSUME Inv, NEW r \in Requests, Exchange(r) PROVE Inv'
<1>1. /\ WellInv'
      /\ \A x \in Requests : x # r => req'[x] = req[x]
      /\ req'[r] = [req[r] EXCEPT !.pc = IF Redeemable(req[r].on) THEN "burned" ELSE "working"]
      /\ req[r] \in Request /\ req[r].kind = "exchange"
  BY ExchangeWell DEF Inv, WellInv, TypeOK, Exchange
<1>2. UNCHANGED <<user, lock, owned, contested>>
  BY DEF Exchange, History
<1>3. req'[r].takes = req[r].takes /\ req'[r].kind = req[r].kind /\ req'[r].key = req[r].key
      /\ req'[r].on = req[r].on
  BY <1>1 DEF Request
<1>4. TakeOK(r)'
  BY <1>1, <1>3 DEF Inv, OwnInv, TakeOK
<1>5. OwnInv'
  BY <1>1, <1>2, <1>3, <1>4, QuietOwn DEF Inv
<1> QED
  BY <1>1, <1>5, ExchangeLink DEF Inv

LEMMA LookupInv ==
    ASSUME Inv, NEW r \in Requests, Lookup(r) PROVE Inv'
<1>1. /\ WellInv'
      /\ \A x \in Requests : x # r => req'[x] = req[x]
      /\ req'[r].takes = req[r].takes /\ req'[r].kind = req[r].kind
      /\ req'[r].key = req[r].key /\ req'[r].on = req[r].on
      /\ lock[req[r].key] = Nobody /\ \A k \in Keys : k # req[r].key => lock'[k] = lock[k]
  BY LookupWell DEF Inv
<1>2. UNCHANGED <<user, owned, contested>> /\ req[r].kind = "exchange"
  BY DEF Lookup, History, Inv, WellInv, Well
<1>3. TakeOK(r)'
  BY <1>1, <1>2 DEF Inv, OwnInv, TakeOK
<1>4. \A x \in Requests, k \in Keys : x # r /\ lock[k] = x => lock'[k] = x
  BY <1>1
<1>5. OwnInv'
  BY <1>1, <1>2, <1>3, <1>4, QuietOwn DEF Inv
<1> QED
  BY <1>1, <1>5, LookupLink DEF Inv

LEMMA LoginStepInv ==
    ASSUME Inv, NEW l \in Logins, LoginStep(l) PROVE Inv'
<1>1. CASE Callback(l)
  <2>1. UNCHANGED <<user, req, lock, owned, contested>>
    BY <1>1 DEF Callback
  <2> QED
    BY <1>1, <2>1, CallbackLink, SameOwn DEF Inv
<1>2. CASE Redirect(l)
  <2>1. UNCHANGED <<user, req, lock, owned, contested>>
    BY <1>2 DEF Redirect, History
  <2> QED
    BY <1>2, <2>1, RedirectLink, SameOwn DEF Inv
<1>3. CASE LoginCommit(l)
  BY <1>3, LoginCommitLink, LoginCommitOwn DEF Inv
<1>4. CASE LoginFails(l)
  <2>1. UNCHANGED <<user, req, lock, owned, contested>>
    BY <1>4 DEF LoginFails, History
  <2> QED
    BY <1>4, <2>1, LoginFailsLink, SameOwn DEF Inv
<1>5. CASE CodeExpires(l)
  <2>1. UNCHANGED <<user, req, lock, owned, contested>>
    BY <1>5 DEF CodeExpires, History
  <2> QED
    BY <1>5, <2>1, CodeExpiresLink, SameOwn DEF Inv
<1> QED
  BY <1>1, <1>2, <1>3, <1>4, <1>5 DEF LoginStep

LEMMA LoopBlocksInv ==
    ASSUME Inv, NEW r \in Requests, LoopBlocks(r) PROVE Inv'
<1>1. UNCHANGED <<user, key, lock, req, login, owned, contested, linked, crossed, events>>
      /\ loop' = r
  BY DEF LoopBlocks, History
<1>2. WellInv'
  BY <1>1, SameReq DEF Inv, WellInv, TypeOK
<1> QED
  BY <1>1, <1>2, SameLink, SameOwn, BurnedKept DEF Inv

LEMMA MintByScriptInv ==
    ASSUME Inv, NEW k \in Keys, MintByScript(k) PROVE Inv'
<1>1. UNCHANGED <<user, lock, req, loop, login, owned, contested, linked, crossed>>
  BY DEF MintByScript, History
<1>2. key' \in [Keys -> {"absent", "live", "revoked"}] /\ events' \in 0..MaxEvents
  BY DEF MintByScript, Event, Inv, WellInv, TypeOK
<1>3. WellInv'
  BY <1>1, <1>2, SameReq DEF Inv, WellInv, TypeOK
<1> QED
  BY <1>1, <1>3, SameLink, SameOwn, BurnedKept DEF Inv

LEMMA StutterInv == ASSUME Inv, UNCHANGED vars PROVE Inv'
<1>1. UNCHANGED <<user, key, lock, req, loop, login, owned, contested, linked, crossed, events>>
  BY DEF vars
<1>2. WellInv'
  BY <1>1, SameReq DEF Inv, WellInv, TypeOK
<1> QED
  BY <1>1, <1>2, SameLink, SameOwn, BurnedKept DEF Inv

LEMMA NextInv == Inv /\ [Next]_vars => Inv'
<1> SUFFICES ASSUME Inv, [Next]_vars PROVE Inv'
  OBVIOUS
<1>1. ASSUME NEW r \in Requests, LoopStep(r) PROVE Inv'
  <2>1. CASE LoopBlocks(r)
    BY <2>1, LoopBlocksInv
  <2>2. CASE LoopQueries(r)
    BY <2>2, QueriesInv DEF LoopQueries
  <2>3. CASE Close(r)
    BY <2>3, CloseInv
  <2> QED
    BY <1>1, <2>1, <2>2, <2>3 DEF LoopStep
<1>2. ASSUME NEW r \in Requests, ThreadStep(r) PROVE Inv'
  <2>1. CASE ThreadQueries(r)
    BY <2>1, QueriesInv DEF ThreadQueries
  <2>2. CASE Exchange(r)
    BY <2>2, ExchangeInv
  <2>3. CASE Lookup(r)
    BY <2>3, LookupInv
  <2>4. CASE Commit(r)
    BY <2>4, CommitWell, CommitLink, CommitOwn DEF Inv
  <2>5. CASE Rollback(r)
    BY <2>5, RollbackInv
  <2> QED
    BY <1>2, <2>1, <2>2, <2>3, <2>4, <2>5 DEF ThreadStep
<1>3. CASE Restart
  BY <1>3, RestartWell, RestartLink, RestartOwn DEF Inv
<1> QED
  BY <1>1, <1>2, <1>3, AuthenticateInv, LoginStepInv, MintByScriptInv, StutterInv DEF Next

-----------------------------------------------------------------------------
(* The theorems *)

THEOREM Inductive == Spec => []Inv
<1>1. Init => Inv
  BY InitWell, InitLink, InitOwn DEF Inv
<1> QED
  BY <1>1, NextInv, PTL DEF Spec

(* Every row, request and login has its type.                              *)
THEOREM TypeCorrect == Spec => []TypeOK
<1>1. Inv => TypeOK
  BY DEF Inv, WellInv
<1> QED
  BY <1>1, Inductive, PTL

LEMMA OneLink == LinkInv /\ WellInv => LinkedForGood
<1> SUFFICES ASSUME LinkInv, WellInv, NEW u \in Users \ crossed
             PROVE  Cardinality({p \in linked : p[1] = u}) <= 1
  BY DEF LinkedForGood
<1> DEFINE P == {p \in linked : p[1] = u}
<1>1. CASE P = {}
  <2>1. Cardinality(P) = 0
    BY <1>1, FS_EmptySet
  <2> QED
    BY <2>1
<1>2. CASE P # {}
  <2>1. PICK p \in linked : p[1] = u
    BY <1>2
  <2>2. \A q \in linked : q[2] \in Subjects /\ q = <<q[1], q[2]>>
    BY DEF WellInv, TypeOK
  <2>3. OneIdentity(u)
    BY DEF LinkInv
  <2>4. ASSUME NEW q \in linked, q[1] = u PROVE q = p
    <3>1. q[2] \in Subjects /\ p[2] \in Subjects /\ q = <<u, q[2]>> /\ p = <<u, p[2]>>
      BY <2>1, <2>2, <2>4
    <3>2. q[2] = p[2]
      BY <2>3, <3>1 DEF OneIdentity
    <3> QED
      BY <3>1, <3>2
  <2>5. P = {p}
    BY <2>1, <2>4
  <2>6. Cardinality(P) = 1
    BY <2>5, FS_Singleton
  <2> QED
    BY <2>6
<1> QED
  BY <1>1, <1>2

LEMMA InvAccess == Inv => AccessInv
<1> SUFFICES ASSUME Inv PROVE AccessInv
  OBVIOUS
<1>1. OwnerRemains
  BY DEF Inv, WellInv, TypeOK, OwnInv, OrgOK, OwnerRemains
<1>2. LinkedForGood
  BY OneLink DEF Inv
<1>3. SessionsExact
  BY DEF Inv, LinkInv, LoginOK, SessionsExact
<1> QED
  BY <1>1, <1>2, <1>3 DEF Inv, WellInv, AccessInv

(* An org keeps an active owner unless edits under two keys overlapped, an *)
(* identity stays with its user unless two first logins crossed, and a     *)
(* code makes one session, of a user whose link is committed.              *)
THEOREM AccessIsKept == Spec => []AccessInv
BY Inductive, InvAccess, PTL

=============================================================================
