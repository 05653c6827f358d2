------------------------------ MODULE PermCache ------------------------------
(***************************************************************************)
(* The permission authority of the SSO service: the four Check methods of  *)
(* src/internal/services/permsvc/perm.go, the Redis permission repository  *)
(* they read and fill (perm_repo/redis_perm_repo.go), and the Postgres     *)
(* permission repository that is the source of truth (perm_repository.go). *)
(*                                                                         *)
(* Every Check call is served by one worker (one goroutine per gRPC call). *)
(* A call is three steps, each one I/O round trip of the code:             *)
(*   Lookup     -- PermissionCtx(key): a live, readable entry is a hit     *)
(*                 and the call returns; anything else falls through;      *)
(*   StoreQuery -- the repository method of the kind; an error ends the    *)
(*                 call; a decision moves on to the cache write;           *)
(*   CacheSet   -- SetPermCtx(key, duration, perm), whose failure is only  *)
(*                 logged; the call returns the store's decision.          *)
(* Between any two steps other calls run, the clock advances and an        *)
(* administrator may change the user's role permissions in the database.   *)
(***************************************************************************)
EXTENDS Integers

CONSTANTS
    Users,        \* user ids of the requests
    Apps,         \* app ids of the requests
    AppRows,      \* database: the app ids the apps table holds
    Workers,      \* concurrent gRPC calls
    Kinds,        \* the Check kinds exercised, a subset of AllKinds
    TickSeconds,  \* seconds per tick of the model clock
    MaxTime       \* last tick of the model clock

\* The four Check methods, named by the prefix of their cache key.
AllKinds == {"dwnld", "dlt", "upd", "chg"}

\* DownloadPermDuration, DeletePermDuration, UpdatePermDuration,
\* ChangePermDuration, in seconds (perm.go).
PermDuration == [dwnld |-> 3600, upd |-> 3600, chg |-> 1200, dlt |-> 600]

\* The permission id each repository method passes to hasPermission.
PermId == [dlt |-> 1, dwnld |-> 2, upd |-> 3, chg |-> 4]

PermIds == {PermId[k] : k \in Kinds}

ASSUME ConstAssumption ==
    /\ Kinds \subseteq AllKinds /\ Kinds # {}
    /\ Users # {} /\ Apps # {} /\ Workers # {}
    /\ AppRows \subseteq Apps
    /\ TickSeconds \in Nat \ {0}
    /\ \A k \in AllKinds : PermDuration[k] % TickSeconds = 0
    /\ MaxTime \in Nat

\* Slip: `time.Duration(seconds)` without the time.Second factor, a
\* lifetime in nanoseconds that Redis rounds to nothing.
TTLNoSecond(k) == (PermDuration[k] \div 1000000000) \div TickSeconds

\* The kind's cache lifetime in ticks: SetPermCtx passes
\* time.Second * time.Duration(seconds) to Redis SET.
TTL(k) == PermDuration[k] \div TickSeconds

\* Slip: one of the four copied Check methods keeps another's key prefix.
KeyCopyPasted(k, u, a) == <<"dlt", u, a>>

\* fmt.Sprintf("<kind>permission: %d:%d", userID, appID): the four
\* prefixes differ and ':' separates the two numbers, so the key names the
\* triple and nothing else.
Key(k, u, a) == <<k, u, a>>

Keys == Kinds \X Users \X Apps

\* An absent Redis key.
NoEntry == [perm |-> FALSE, exp |-> 0]

\* The (bool, error) a Check call returns; NoResp while none is pending.
\* Every store failure is reported as storage.ErrAppNotFound (perm.go).
Reply(b, e) == [perm |-> b, err |-> e]
NoResp == Reply(FALSE, "pending")
Granted(b) == Reply(b, "nil")
ErrAppNotFound == Reply(FALSE, "ErrAppNotFound")

VARIABLES
    now,        \* the clock, in ticks
    rolePerms,  \* database: permission ids the user's roles grant
    cache,      \* Redis: key -> [perm, exp]; absent once now >= exp
    pc,         \* worker -> "idle" | "lookup" | "store" | "set" | "done"
    req,        \* worker -> [kind, user, app] of its current call
    val,        \* worker -> decision read from the store
    resp,       \* worker -> reply of its call, once it has returned
    everHeld    \* history: <<user, permission id>> pairs ever in rolePerms

vars == <<now, rolePerms, cache, pc, req, val, resp, everHeld>>

Requests == [kind : Kinds, user : Users, app : Apps]

\* The request slot of a worker that serves no call.
NoReq == CHOOSE r \in Requests : TRUE

ReqKey(w) == Key(req[w].kind, req[w].user, req[w].app)

MaxTTL == TTL("dwnld")

TypeOK ==
    /\ now \in 0..MaxTime
    /\ rolePerms \in [Users -> SUBSET PermIds]
    /\ cache \in [Keys -> {NoEntry} \cup [perm : BOOLEAN, exp : 1..(MaxTime + MaxTTL)]]
    /\ pc \in [Workers -> {"idle", "lookup", "store", "set", "done"}]
    /\ req \in [Workers -> Requests]
    /\ val \in [Workers -> BOOLEAN]
    /\ resp \in [Workers -> {NoResp, ErrAppNotFound} \cup {Granted(b) : b \in BOOLEAN}]
    /\ everHeld \subseteq Users \X PermIds

-----------------------------------------------------------------------------
\* Users start with any role permissions; Redis is empty.
Init ==
    /\ now = 0
    /\ rolePerms \in [Users -> SUBSET PermIds]
    /\ cache = [key \in Keys |-> NoEntry]
    /\ pc = [w \in Workers |-> "idle"]
    /\ req = [w \in Workers |-> NoReq]
    /\ val = [w \in Workers |-> FALSE]
    /\ resp = [w \in Workers |-> NoResp]
    /\ everHeld = {up \in Users \X PermIds : up[2] \in rolePerms[up[1]]}

\* A gRPC call of kind k for (userID, appID) reaches the service.
Start(w, r) ==
    /\ pc[w] = "idle"
    /\ pc' = [pc EXCEPT ![w] = "lookup"]
    /\ req' = [req EXCEPT ![w] = r]
    /\ UNCHANGED <<now, rolePerms, cache, val, resp, everHeld>>

\* PermissionCtx(key) then `if cachedPerms != nil { return cachedPerms.Perm }`.
\* A Redis error (redisUp = FALSE) is logged and treated as a miss, as is
\* an absent key.
Lookup(w, redisUp) ==
    LET e == cache[ReqKey(w)] IN
    /\ pc[w] = "lookup"
    /\ IF redisUp /\ e # NoEntry
         THEN /\ pc' = [pc EXCEPT ![w] = "done"]
              /\ resp' = [resp EXCEPT ![w] = Granted(e.perm)]
         ELSE /\ pc' = [pc EXCEPT ![w] = "store"]
              /\ UNCHANGED resp
    /\ UNCHANGED <<now, rolePerms, cache, req, val, everHeld>>

\* The repository method of the kind: appExists(appID) -- whose boolean,
\* appID \in AppRows, is dropped, and whose SELECT EXISTS always has a row --
\* then hasPermission = UserPermissions + CheckPerm. A permission id the
\* user's roles do not grant is the error "taboo action"; a database error
\* (dbUp = FALSE) is an error too. The service reports every store error
\* as ErrAppNotFound and returns without touching the cache.
StoreDecision(u, k) == PermId[k] \in rolePerms[u]

StoreQuery(w, dbUp) ==
    /\ pc[w] = "store"
    /\ IF dbUp /\ StoreDecision(req[w].user, req[w].kind)
         THEN /\ pc' = [pc EXCEPT ![w] = "set"]
              /\ val' = [val EXCEPT ![w] = TRUE]
              /\ UNCHANGED resp
         ELSE /\ pc' = [pc EXCEPT ![w] = "done"]
              /\ resp' = [resp EXCEPT ![w] = ErrAppNotFound]
              /\ UNCHANGED val
    /\ UNCHANGED <<now, rolePerms, cache, req, everHeld>>

\* SetPermCtx(key, <kind>PermDuration, permission): Redis expires the key
\* that many seconds after this write. A failed write is only logged.
\* The call returns permission.Perm.
CacheSet(w, redisUp) ==
    /\ pc[w] = "set"
    /\ cache' = IF redisUp
                  THEN [cache EXCEPT ![ReqKey(w)] =
                          [perm |-> val[w], exp |-> now + TTL(req[w].kind)]]
                  ELSE cache
    /\ pc' = [pc EXCEPT ![w] = "done"]
    /\ resp' = [resp EXCEPT ![w] = Granted(val[w])]
    /\ UNCHANGED <<now, rolePerms, req, val, everHeld>>

\* The reply has been sent and the goroutine of the call ends.
Finish(w) ==
    /\ pc[w] = "done"
    /\ pc' = [pc EXCEPT ![w] = "idle"]
    /\ req' = [req EXCEPT ![w] = NoReq]
    /\ val' = [val EXCEPT ![w] = FALSE]
    /\ resp' = [resp EXCEPT ![w] = NoResp]
    /\ UNCHANGED <<now, rolePerms, cache, everHeld>>

-----------------------------------------------------------------------------
(* The environment: role administration happens outside this service, in   *)
(* the database, and time passes. Only revocation is modelled: a grant can  *)
(* make no TRUE decision wrong, while a revoke is what a cached TRUE may    *)
(* outlive. The roles a run starts from are any roles at all (Init).        *)

Revoke(u, p) ==
    /\ p \in rolePerms[u]
    /\ rolePerms' = [rolePerms EXCEPT ![u] = @ \ {p}]
    /\ UNCHANGED <<now, cache, pc, req, val, resp, everHeld>>

\* A tick of the clock; Redis drops the keys whose expiry it reaches.
Tick ==
    /\ now < MaxTime
    /\ now' = now + 1
    /\ cache' = [key \in Keys |->
                   IF cache[key] # NoEntry /\ cache[key].exp <= now + 1
                     THEN NoEntry ELSE cache[key]]
    /\ UNCHANGED <<rolePerms, pc, req, val, resp, everHeld>>

Next ==
    \/ \E w \in Workers :
         \/ \E r \in Requests : Start(w, r)
         \/ \E up \in BOOLEAN : Lookup(w, up) \/ StoreQuery(w, up) \/ CacheSet(w, up)
         \/ Finish(w)
    \/ \E u \in Users, p \in PermIds : Revoke(u, p)
    \/ Tick

Spec == Init /\ [][Next]_vars

-----------------------------------------------------------------------------
(* Properties.                                                             *)

\* Authorization soundness of the cache-aside path: a Check call of kind k
\* for user u that returns TRUE -- from Redis or from the store -- is backed
\* by a grant of k's permission id to u that really was in the database at
\* some time. Breaks if the four key formats, the repository method of a
\* kind, or CheckPerm's membership test mix up kinds or users.
GrantWasHeld ==
    \A w \in Workers :
        resp[w] = Granted(TRUE) => <<req[w].user, PermId[req[w].kind]>> \in everHeld

\* Spec 3 and 4.3: "every permission decision is scoped by both user id and
\* app id"; an unknown app is denied (Forbidden). A Check call that returns
\* TRUE names an app of the apps table. The repository calls appExists but
\* drops the boolean it returns, so the decision ignores the app.
AppScoped ==
    \A w \in Workers : resp[w] = Granted(TRUE) => req[w].app \in AppRows

=============================================================================
