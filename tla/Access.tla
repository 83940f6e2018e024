------------------------------- MODULE Access -------------------------------
(***************************************************************************)
(* The API process, and the users and keys of its orgs: authentication of  *)
(* a request (api/auth.py), users and owners (api/routers/users.py), keys  *)
(* (api/routers/keys.py, create_key.py), and first logins by SSO           *)
(* (api/routers/sso.py, sso/oidc.py).                                      *)
(*                                                                         *)
(* The process has one event loop.  It authenticates requests, runs the    *)
(* endpoints declared async, and closes each request's transaction; other  *)
(* endpoints run in threads.  Authentication stamps the key's last_used_at *)
(* in the request's own transaction: its first query flushes the stamp and *)
(* keeps the key's row locked until the transaction ends.                  *)
(***************************************************************************)
EXTENDS Naturals, FiniteSets

CONSTANTS Users, Keys,        \* rows of users and of api_keys, present or not
          Org,                \* the org of each of them
          Email,              \* the address of each user
          DefaultOrg,
          First, Minted,      \* the roles and the keys there are at first
          Requests,           \* requests to the API
          Logins, Subjects,   \* logins by SSO, and the identities that
          Subject,            \* log in by them
          Nobody,
          MaxEvents           \* bound on requests, logins, restarts and keys
                              \* minted by script together

Roles == {"none", "owner", "viewer"}          \* none: no such row

ASSUME AccessAssumption ==
    /\ Nobody \notin Users \cup Keys \cup Requests \cup Subjects /\ MaxEvents \in Nat
    /\ Subject \in [Logins -> Subjects]
    /\ First \in [Users -> Roles] /\ Minted \subseteq Keys
    /\ IsFiniteSet(Requests)
    /\ \A u, v \in Users : u # v => <<Org[u], Email[u]>> # <<Org[v], Email[v]>>

VARIABLES user,      \* the committed rows of users
          key,       \* "absent", "live" or "revoked"
          lock,      \* the request whose stamp holds the row of each key
          req,       \* the requests
          loop,      \* the request the event loop waits for the database in
          login,     \* the callbacks, and the login codes they hand out
          owned,     \* history: orgs that have had an active owner while no
                     \* request was taking one away
          contested, \* history: orgs in which requests that take an owner away
                     \* overlapped under different keys
          linked,    \* history: users and the identities linked to them
          crossed,   \* history: users two first logins found at once
          events

vars == <<user, key, lock, req, loop, login, owned, contested, linked, crossed, events>>
History == <<owned, contested, linked, crossed>>

Kinds == {"edit", "create", "exchange", "mint", "revoke", "service"}
Takings == {"demote", "disable"}              \* edits that may take an owner
Changes == Takings \cup {"promote", "enable"}

User == [role : Roles, active : BOOLEAN, login : Subjects \cup {Nobody}]
Request == [pc : {"idle", "dispatched", "burned", "working", "closing", "done"},
            key : Keys \cup {Nobody}, kind : Kinds, on : Users \cup Keys \cup Logins \cup {Nobody},
            change : Changes, write : BOOLEAN, takes : BOOLEAN]
Login == [pc : {"idle", "found", "done"}, user : Users \cup {Nobody}, how : {"known", "link", "new"},
          welcome : BOOLEAN, code : {"none", "live", "spent"}, early : BOOLEAN, sessions : Nat]

NoUser == [role |-> "none", active |-> TRUE, login |-> Nobody]
Idle == [pc |-> "idle", key |-> Nobody, kind |-> "service", on |-> Nobody, change |-> "promote",
         write |-> FALSE, takes |-> FALSE]
NoLogin == [pc |-> "idle", user |-> Nobody, how |-> "known", welcome |-> FALSE,
            code |-> "none", early |-> FALSE, sessions |-> 0]

Rows(o) == {u \in Users : Org[u] = o /\ user[u].role # "none"}
Owners(o) == {u \in Rows(o) : user[u].role = "owner" /\ user[u].active}
Orgs == {Org[u] : u \in Users}

TypeOK ==
    /\ user \in [Users -> User]
    /\ key \in [Keys -> {"absent", "live", "revoked"}]
    /\ lock \in [Keys -> Requests \cup {Nobody}]
    /\ req \in [Requests -> Request]
    /\ loop \in Requests \cup {Nobody}
    /\ login \in [Logins -> Login]
    /\ owned \cup contested \subseteq Orgs
    /\ linked \subseteq Users \X Subjects /\ crossed \subseteq Users
    /\ events \in 0..MaxEvents

Event == events < MaxEvents /\ events' = events + 1

Init ==
    /\ user = [u \in Users |-> [NoUser EXCEPT !.role = First[u]]]
    /\ key = [k \in Keys |-> IF k \in Minted THEN "live" ELSE "absent"]
    /\ lock = [k \in Keys |-> Nobody] /\ loop = Nobody
    /\ req = [r \in Requests |-> Idle] /\ login = [l \in Logins |-> NoLogin]
    /\ owned = {o \in Orgs : Owners(o) # {}} /\ contested = {} /\ linked = {} /\ crossed = {}
    /\ events = 0

-----------------------------------------------------------------------------
(* The life of a request.                                                  *)

(* tenancy.py: a statement sees the rows of the org of the key, and a row  *)
(* made is of that org.                                                    *)
Visible(x, k) == Org[x] = Org[k]
MadeBy(x, k) == Org[x] = Org[k]

(* A row no request is about to insert.                                    *)
Fresh(k) == key[k] = "absent" /\ \A r \in Requests : ~(req[r].kind = "mint" /\ req[r].on = k)

(* require_scope: on the loop, before the endpoint.  Its query of the key  *)
(* comes before the stamp, so it waits for nobody.                         *)
Authenticate(r) ==
    /\ req[r].pc = "idle" /\ loop = Nobody /\ Event
    /\ \E k \in Keys, kind \in Kinds, x \in Users \cup Keys \cup Logins, ch \in Changes :
          /\ key[k] # "absent"
          /\ kind = "edit" => x \in Users /\ Visible(x, k)
          /\ kind = "create" => x \in Users /\ MadeBy(x, k)
          /\ kind = "revoke" => x \in Keys /\ Visible(x, k)
          /\ kind = "mint" => x \in Keys /\ MadeBy(x, k) /\ Fresh(x)
          /\ kind = "exchange" => x \in Logins
          /\ kind = "service" => x = k
          /\ kind = "create" => ch \in {"promote", "demote"}
          /\ kind \notin {"edit", "create"} => ch = "promote"
          /\ req' = [req EXCEPT ![r] = [Idle EXCEPT !.key = k, !.kind = kind, !.on = x, !.change = ch,
                       !.pc = IF key[k] = "live" THEN "dispatched" ELSE "done"]]
    /\ UNCHANGED <<user, key, lock, loop, login, History>>

(* Mutant: the stamp is committed on its own.                              *)
StampedApart(r) == UNCHANGED lock

(* The flush of the stamp.                                                 *)
Stamped(r) == lock[req[r].key] = Nobody /\ lock' = [lock EXCEPT ![req[r].key] = r]

(* _other_active_owners                                                    *)
Others(u) == Owners(Org[u]) \ {u}

Removes(u, change) ==
    /\ change \in Takings /\ user[u].role = "owner"
    /\ change = "disable" => user[u].active

(* update_user: an org must always keep one active owner.                  *)
Effective(u, change) ==
    /\ user[u].role # "none"
    /\ Removes(u, change) => Others(u) # {}
    /\ CASE change = "demote" -> user[u].role = "owner"
         [] change = "promote" -> user[u].role # "owner"
         [] change = "disable" -> user[u].active
         [] OTHER -> ~user[u].active

(* What the endpoint decides to write; a refusal rolls back.               *)
Decides(r) ==
    LET x == req[r].on
    IN  CASE req[r].kind = "edit" -> Effective(x, req[r].change)
          [] req[r].kind = "create" -> user[x].role = "none"
          [] req[r].kind = "revoke" -> key[x] = "live"
          [] OTHER -> TRUE

Taking(o, r) == {x \in Requests \ {r} : req[x].pc \in {"working", "closing"} /\ req[x].takes
                                          /\ Org[req[x].key] = o /\ req[x].key # req[r].key}

(* The first query of an endpoint, and what it decides by its queries.  An *)
(* edit that does not remove an owner now may do so when it commits.       *)
Query(r) ==
    LET takes == req[r].kind = "edit" /\ Decides(r) /\ req[r].change \in Takings
    IN  /\ req' = [req EXCEPT ![r].pc = "working", ![r].write = Decides(r), ![r].takes = takes]
        /\ contested' = IF takes /\ Taking(Org[req[r].key], r) # {}
                        THEN contested \cup {Org[req[r].key]} ELSE contested

(* In a thread, waiting for the row costs the loop nothing.                *)
ThreadQueries(r) ==
    /\ req[r].pc = "dispatched" /\ req[r].kind \notin {"service", "exchange"}
    /\ Stamped(r) /\ Query(r)
    /\ UNCHANGED <<user, key, loop, login, owned, linked, crossed, events>>

(* sync_now, activate, import_list and others are async: their queries run *)
(* on the loop, which waits with them.                                     *)
LoopBlocks(r) ==
    /\ req[r].pc = "dispatched" /\ req[r].kind = "service" /\ loop = Nobody
    /\ lock[req[r].key] # Nobody
    /\ loop' = r
    /\ UNCHANGED <<user, key, lock, req, login, History, events>>

LoopQueries(r) ==
    /\ req[r].pc = "dispatched" /\ req[r].kind = "service" /\ loop \in {Nobody, r}
    /\ Stamped(r) /\ Query(r)
    /\ loop' = Nobody
    /\ UNCHANGED <<user, key, login, owned, linked, crossed, events>>

(* The endpoint returned, or the service it called answered: the loop has  *)
(* the transaction closed, in a thread.                                    *)
Close(r) ==
    /\ req[r].pc = "working" /\ loop = Nobody
    /\ req' = [req EXCEPT ![r].pc = "closing"]
    /\ UNCHANGED <<user, key, lock, loop, login, History, events>>

(* Mutant: the session of a refused request is not closed.                 *)
EndsLeaking(r) ==
    /\ lock' = [k \in Keys |-> IF lock[k] = r /\ req[r].write THEN Nobody ELSE lock[k]]
    /\ req' = [req EXCEPT ![r] = [Idle EXCEPT !.pc = "done"]]

(* The end of a request frees the row.                                     *)
Ends(r) ==
    /\ lock' = [k \in Keys |-> IF lock[k] = r THEN Nobody ELSE lock[k]]
    /\ req' = [req EXCEPT ![r] = [Idle EXCEPT !.pc = "done"]]

Edited(row, change) ==
    CASE change = "demote" -> [row EXCEPT !.role = "viewer"]
      [] change = "promote" -> [row EXCEPT !.role = "owner"]
      [] change = "disable" -> [row EXCEPT !.active = FALSE]
      [] OTHER -> [row EXCEPT !.active = TRUE]

(* A user another request or login inserted meanwhile fails the insertion. *)
Conflict(r) == req[r].kind = "create" /\ user[req[r].on].role # "none"

Settled(o) == Owners(o) # {} /\ \A r \in Requests : ~(req[r].takes /\ Org[req[r].key] = o)

(* Only the columns the endpoint changed are written.  A revocation writes *)
(* the row of a key, which a request may hold by its stamp.                *)
Commit(r) ==
    LET x == req[r].on
    IN  /\ req[r].pc = "closing" /\ req[r].write /\ ~Conflict(r)
        /\ req[r].kind = "revoke" => lock[x] \in {Nobody, r}
        /\ user' = CASE req[r].kind = "edit" -> [user EXCEPT ![x] = Edited(@, req[r].change)]
                     [] req[r].kind = "create" -> [user EXCEPT ![x].role = IF req[r].change = "demote" THEN "viewer" ELSE "owner"]
                     [] OTHER -> user
        /\ key' = CASE req[r].kind = "mint" -> [key EXCEPT ![x] = "live"]
                    [] req[r].kind = "revoke" -> [key EXCEPT ![x] = "revoked"]
                    [] OTHER -> key
        /\ Ends(r)
        /\ owned' = owned \cup {o \in Orgs : Settled(o)'}
        /\ UNCHANGED <<loop, login, contested, linked, crossed, events>>

(* What request r waits for a row of.                                      *)
WaitsFor(r) ==
    IF req[r].pc = "closing" /\ req[r].write /\ req[r].kind = "revoke" THEN lock[req[r].on]
    ELSE IF loop = r THEN lock[req[r].key] ELSE Nobody

Rollback(r) ==
    /\ req[r].pc = "closing"
    /\ \/ ~req[r].write
       \/ Conflict(r)
       \/ WaitsFor(r) \in Requests \ {r} /\ WaitsFor(WaitsFor(r)) = r   \* PostgreSQL detects it
    /\ Ends(r)
    /\ UNCHANGED <<user, key, loop, login, History, events>>

Open(r) == req[r].pc \in {"dispatched", "burned", "working", "closing"}

(* The process dies, or is restarted: open transactions are rolled back.   *)
Restart ==
    /\ Event
    /\ \E r \in Requests : Open(r)
    /\ req' = [r \in Requests |-> IF req[r].pc = "idle" THEN Idle ELSE [Idle EXCEPT !.pc = "done"]]
    /\ login' = [l \in Logins |-> IF login[l].pc = "found" THEN [login[l] EXCEPT !.pc = "done"] ELSE login[l]]
    /\ lock' = [k \in Keys |-> Nobody] /\ loop' = Nobody
    /\ UNCHANGED <<user, key, History>>

(* create_key.py                                                           *)
MintByScript(k) ==
    /\ Fresh(k) /\ Event
    /\ key' = [key EXCEPT ![k] = "live"]
    /\ UNCHANGED <<user, lock, req, loop, login, History>>

-----------------------------------------------------------------------------
(* Logins by SSO.                                                          *)

(* _link_or_provision: users of every org with that verified address and   *)
(* no identity yet.                                                        *)
Matches(e) == {u \in Users : user[u].role # "none" /\ Email[u] = e /\ user[u].login = Nobody}

Known(l) == {u \in Users : user[u].login = Subject[l]}
Newcomer(e) == {u \in Users : Org[u] = DefaultOrg /\ Email[u] = e /\ user[u].role = "none"}

Found(l, u, how) ==
    /\ login' = [login EXCEPT ![l] = [NoLogin EXCEPT !.pc = "found", !.user = u, !.how = how,
                                     !.welcome = user[u].active]]
    /\ crossed' = IF \E m \in Logins \ {l} : login[m].pc = "found" /\ login[m].user = u
                  THEN crossed \cup {u} ELSE crossed

(* oidc_callback: the identity, a single match, or a newcomer if the       *)
(* operator lets them in.  State, token and claims are the provider's and  *)
(* may fail.  A disabled user gets no code; the link is made all the same. *)
Callback(l) ==
    /\ login[l].pc = "idle" /\ loop = Nobody /\ Event
    /\ \E e \in {Email[u] : u \in Users}, verified, admit \in BOOLEAN :
          LET found == IF verified THEN Matches(e) ELSE {}
          IN  \/ \E u \in Known(l) : Found(l, u, "known")
              \/ /\ Known(l) = {} /\ Cardinality(found) = 1
                 /\ \E u \in found : Found(l, u, "link")
              \/ /\ Known(l) = {} /\ found = {} /\ admit
                 /\ \E u \in Newcomer(e) : Found(l, u, "new")
    /\ UNCHANGED <<user, key, lock, req, loop, owned, contested, linked>>

(* A FastAPI that answers before it closes the transaction hands the code  *)
(* out first.                                                              *)
Redirect(l) ==
    /\ login[l].pc = "found" /\ login[l].welcome /\ login[l].code = "none"
    /\ login' = [login EXCEPT ![l].code = "live", ![l].early = TRUE]
    /\ UNCHANGED <<user, key, lock, req, loop, History, events>>

(* The transaction links the identity; a newcomer whose row is there by    *)
(* now violates uq_user_org_email.                                         *)
LoginCommit(l) ==
    LET u == login[l].user
    IN  /\ login[l].pc = "found" /\ loop = Nobody
        /\ CASE login[l].how = "known" -> UNCHANGED <<user, linked>>
             [] login[l].how = "link" -> /\ user' = [user EXCEPT ![u].login = Subject[l]]
                                         /\ linked' = linked \cup {<<u, Subject[l]>>}
             [] OTHER -> /\ user[u].role = "none"
                         /\ user' = [user EXCEPT ![u] = [NoUser EXCEPT !.role = "viewer", !.login = Subject[l]]]
                         /\ linked' = linked \cup {<<u, Subject[l]>>}
        /\ login' = [login EXCEPT ![l].pc = "done", 
                                  ![l].code = IF @ = "none" /\ login[l].welcome THEN "live" ELSE @]
        /\ UNCHANGED <<key, lock, req, loop, owned, contested, crossed, events>>

LoginFails(l) ==
    /\ login[l].pc = "found" /\ loop = Nobody
    /\ login[l].how = "new" /\ user[login[l].user].role # "none"
    /\ login' = [login EXCEPT ![l].pc = "done"]
    /\ UNCHANGED <<user, key, lock, req, loop, History, events>>

(* A login code lives for a minute.                                        *)
CodeExpires(l) ==
    /\ login[l].code = "live"
    /\ login' = [login EXCEPT ![l].code = "spent"]
    /\ UNCHANGED <<user, key, lock, req, loop, History, events>>

(* redeem_login_code: the first redeemer sets the tombstone.               *)
Redeemable(l) == login[l].code = "live"

(* sso_exchange: the code is burned before anything else.                  *)
Exchange(r) ==
    LET l == req[r].on
    IN  /\ req[r].pc = "dispatched" /\ req[r].kind = "exchange"
        /\ IF Redeemable(l)
           THEN /\ req' = [req EXCEPT ![r].pc = "burned"]
                /\ login' = [login EXCEPT ![l].code = "spent"]
           ELSE req' = [req EXCEPT ![r].pc = "working"] /\ UNCHANGED login
        /\ UNCHANGED <<user, key, lock, loop, History, events>>

(* The user of the code is looked up in the org of the key.                *)
Lookup(r) ==
    LET l == req[r].on
        u == login[l].user
        ok == Visible(u, req[r].key) /\ user[u].role # "none" /\ user[u].active
    IN  /\ req[r].pc = "burned" /\ Stamped(r)
        /\ login' = [login EXCEPT ![l].sessions = IF ok THEN @ + 1 ELSE @]
        /\ req' = [req EXCEPT ![r].pc = "working", ![r].write = ok]
        /\ UNCHANGED <<user, key, loop, History, events>>

-----------------------------------------------------------------------------
LoopStep(r) == LoopBlocks(r) \/ LoopQueries(r) \/ Close(r)
ThreadStep(r) == ThreadQueries(r) \/ Exchange(r) \/ Lookup(r) \/ Commit(r) \/ Rollback(r)
LoginStep(l) == Callback(l) \/ Redirect(l) \/ LoginCommit(l) \/ LoginFails(l) \/ CodeExpires(l)

Next ==
    \/ \E r \in Requests : Authenticate(r) \/ LoopStep(r) \/ ThreadStep(r)
    \/ \E l \in Logins : LoginStep(l)
    \/ \E k \in Keys : MintByScript(k)
    \/ Restart

(* The loop, the threads and the services called come to an end, if the    *)
(* database lets them.                                                     *)
Fairness == \A r \in Requests : WF_vars(LoopStep(r)) /\ WF_vars(ThreadStep(r))

Spec == Init /\ [][Next]_vars /\ Fairness

-----------------------------------------------------------------------------
(* Properties                                                              *)

(* users.py: "an org must always keep one active owner".  It does as long  *)
(* as requests that take an owner away do not overlap under different      *)
(* keys: the row of the key, which the stamp locks, makes the requests of  *)
(* one key follow each other.                                              *)
OwnerRemains == \A o \in owned \ contested : Owners(o) # {}

(* sso.py: an identity is linked to a user without one, so it stays unless *)
(* two first logins found the user at the same time.                       *)
LinkedForGood == \A u \in Users \ crossed : Cardinality({p \in linked : p[1] = u}) <= 1

(* oidc.py: a code redeems exactly once; sessions are of users whose link  *)
(* is committed, unless the answer went out first.                         *)
SessionsExact ==
    \A l \in Logins : /\ login[l].sessions <= 1
                      /\ login[l].sessions = 1 /\ ~login[l].early => <<login[l].user, Subject[l]>> \in linked

AccessInv == TypeOK /\ OwnerRemains /\ LinkedForGood /\ SessionsExact

(* The requests that keep the loop waiting: the one it runs waits for a    *)
(* row, whose holder may wait for another.                                 *)
Ahead ==
    LET f[n \in 0..Cardinality(Requests)] ==
          IF n = 0 THEN {loop} ELSE f[n - 1] \cup {WaitsFor(x) : x \in f[n - 1] \ {Nobody}}
    IN  f[Cardinality(Requests)] \ {loop, Nobody}

(* One of them cannot end its transaction without the loop.                *)
Hung == \E r \in Ahead : req[r].pc # "closing"

(* Every request ends, unless the process hangs: the event loop waits for  *)
(* the stamp of a request that needs the loop to end.                      *)
RequestsEnd ==
    \A r \in Requests : Open(r) ~> req[r].pc = "done" \/ Hung

(* plans/m0.1-auth.md: last_used_at is stamped "best-effort, no extra      *)
(* round trip blocking the request".                                       *)
StampIsBestEffort == ~Hung

=============================================================================
