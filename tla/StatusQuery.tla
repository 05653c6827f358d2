---------------------------- MODULE StatusQuery ----------------------------
(***************************************************************************)
(* The status lookups of the SSO service: the IsBanned, LastLogin and      *)
(* CurrentRole handlers of grpc/status/server_hnd.go, their validators     *)
(* (grpc/status_validation), the service methods of services/statsvc/      *)
(* stat.go and the repository methods of storage/repository/stat_repo.     *)
(*                                                                         *)
(* Each call makes one database round trip and nothing in this code writes *)
(* the rows it reads, so a call is one step: validation, the Acquire of a  *)
(* pool connection, the query, the service's and the handler's mapping of  *)
(* its error. Calls run on workers of their own, as gRPC calls do. The one *)
(* state calls share is the connection pool: no method releases the        *)
(* connection it acquired, so every call that got one keeps it for good.   *)
(*                                                                         *)
(* The handlers' StatusSvc interface does not match statsvc.Status's      *)
(* method names and types, nor statsvc.UserStatus StatRepository's, and no *)
(* status server is registered (app/grpc/app.go); the model composes the   *)
(* three layers as the spec's control flow does, passing each error on.    *)
(***************************************************************************)
EXTENDS Integers

CONSTANTS
    Users,              \* user ids of the requests (non-zero)
    Rows,               \* database: the user ids the users table holds
    Banned,             \* database: the users whose account_locked is set
    Workers,            \* concurrent gRPC calls
    RepoAsWritten,      \* see module Auth: pgx's ErrNoRows may not wrap sql.ErrNoRows
    ValidatorAsWritten, \* see module Server: ValidateStruct gets field values
    PoolSize            \* MaxConns of the repository's pgxpool

Ops == {"IsBanned", "LastLogin", "CurrentRole"}

\* A user id of zero in the request.
ZeroId == "zero"

\* The values an answer carries: the account_locked flag, the user's
\* last_login (named by the user), a role, or none.
Locked(b) == IF b THEN "locked" ELSE "unlocked"
EmptyRole == "emptyRole"
StoredRole == "role"
NoVal == "noval"
Vals == {"locked", "unlocked"} \cup Users \cup {EmptyRole, StoredRole, NoVal}

Codes == {"OK", "InvalidArgument", "NotFound", "Internal"}

NoOut == [code |-> "none", val |-> NoVal]

VARIABLES
    pc,       \* worker -> "idle" | "done"
    q,        \* worker -> its request
    out,      \* worker -> its answer: a code and a value
    faulted,  \* worker -> its call met a database error
    leased    \* pool connections acquired and not released

vars == <<pc, q, out, faulted, leased>>

\* Where the database fails during a call: not at all, at Acquire (the dial
\* of a new connection), or at the query after Acquire.
Failures == {"none", "acquire", "query"}

TypeOK ==
    /\ pc \in [Workers -> {"idle", "done"}]
    /\ q \in [Workers -> [op : Ops, uid : Users \cup {ZeroId}]]
    /\ out \in [Workers -> [code : Codes, val : Vals] \cup {NoOut}]
    /\ faulted \in [Workers -> BOOLEAN]
    /\ leased \in 0..PoolSize

-----------------------------------------------------------------------------
\* IsBannedValidation, LastLoginValidation, CurrentRoleRequest: UserId
\* Required and Length(1, 10) (user ids of the model have at most ten
\* digits). As written ValidateStruct fails on the first field.
ValidRequest(uid) == ~ValidatorAsWritten /\ uid # ZeroId

\* What the repository method returns: [err, val], given whether GetConn
\* got a connection and whether the query then met the database. A failed
\* Acquire is a plain error for every method. A failed query is a plain
\* error; row.Scan's missing row is storage.ErrUserNotFound when pgx's
\* ErrNoRows wraps sql.ErrNoRows. CurrentUsrRole drops the error of Query
\* and of ForEachRow (which, scanning two columns into one destination,
\* fails on every row) and returns an empty role, nil.
RepoResults(op, u, acquired, queryUp) ==
    LET noRow == IF RepoAsWritten THEN {"ErrUserNotFound", "err"}
                                  ELSE {"ErrUserNotFound"}
    IN  CASE ~acquired              -> {[err |-> "err", val |-> NoVal]}
          [] op = "CurrentRole"     -> {[err |-> "nil", val |-> EmptyRole]}
          [] ~queryUp               -> {[err |-> "err", val |-> NoVal]}
          [] u \notin Rows          -> {[err |-> e, val |-> NoVal] : e \in noRow}
          [] op = "IsBanned"        -> {[err |-> "nil", val |-> Locked(u \in Banned)]}
          [] op = "LastLogin"       -> {[err |-> "nil", val |-> u]}

\* The error the service method returns for the repository's error:
\* CheckIsUserBanned wraps storage.ErrAppNotFound whatever it got;
\* LastLogin keeps ErrUserNotFound and turns the rest into
\* ErrInvalidCredentials; CurrentUserRole turns ErrUserNotFound into
\* ErrDoesntAllowed and the rest into ErrAppNotFound.
ServiceErr(op, e) ==
    CASE e = "nil"          -> "nil"
      [] op = "IsBanned"    -> "ErrAppNotFound"
      [] op = "LastLogin"   -> IF e = "ErrUserNotFound" THEN "ErrUserNotFound"
                                                      ELSE "ErrInvalidCredentials"
      [] op = "CurrentRole" -> IF e = "ErrUserNotFound" THEN "ErrDoesntAllowed"
                                                      ELSE "ErrAppNotFound"

\* Every handler: storage.ErrUserNotFound is NotFound, any other error
\* Internal, success OK with the value.
HandlerOut(e, v) ==
    CASE e = "nil"             -> [code |-> "OK", val |-> v]
      [] e = "ErrUserNotFound" -> [code |-> "NotFound", val |-> NoVal]
      [] OTHER                 -> [code |-> "Internal", val |-> NoVal]

-----------------------------------------------------------------------------
Init ==
    /\ pc = [w \in Workers |-> "idle"]
    /\ q = [w \in Workers |-> [op |-> "IsBanned", uid |-> ZeroId]]
    /\ out = [w \in Workers |-> NoOut]
    /\ faulted = [w \in Workers |-> FALSE]
    /\ leased = 0

\* GetConn: pgxpool's Acquire. No connection is ever released, so none is
\* idle: Acquire dials a new one while the pool is below PoolSize (failing
\* when the database is down), and once the pool is full it waits until
\* the call's context ends and returns that context's error.
Acquires(fail) == fail # "acquire" /\ leased < PoolSize

\* A status call of worker w: the handler validates the request, the
\* service calls the repository, and the errors are mapped back up. The
\* connection the repository acquired is kept (no conn.Release).
Lookup(w, op, u, fail) ==
    /\ pc[w] = "idle"
    /\ pc' = [pc EXCEPT ![w] = "done"]
    /\ q' = [q EXCEPT ![w] = [op |-> op, uid |-> u]]
    /\ IF ValidRequest(u)
         THEN /\ \E r \in RepoResults(op, u, Acquires(fail), fail = "none") :
                   out' = [out EXCEPT ![w] = HandlerOut(ServiceErr(op, r.err), r.val)]
              /\ faulted' = [faulted EXCEPT ![w] = fail # "none"]
              /\ leased' = IF Acquires(fail) THEN leased + 1 ELSE leased
         ELSE /\ out' = [out EXCEPT ![w] = [code |-> "InvalidArgument", val |-> NoVal]]
              /\ UNCHANGED <<faulted, leased>>

\* The answer is sent.
Finish(w) ==
    /\ pc[w] = "done"
    /\ pc' = [pc EXCEPT ![w] = "idle"]
    /\ out' = [out EXCEPT ![w] = NoOut]
    /\ faulted' = [faulted EXCEPT ![w] = FALSE]
    /\ UNCHANGED <<q, leased>>

Next ==
    \E w \in Workers :
        \/ \E op \in Ops, u \in Users \cup {ZeroId}, fail \in Failures :
              Lookup(w, op, u, fail)
        \/ Finish(w)

Spec == Init /\ [][Next]_vars

-----------------------------------------------------------------------------
(* Properties.                                                             *)

\* Spec 4.5: each lookup maps NotFound to NotFound and anything else to
\* Internal, and otherwise answers what the store holds. A valid call about
\* a user of the table, with no database error, is answered OK with the
\* stored value; one about an absent user NotFound; one whose query failed
\* Internal.
StatusFollowsSpec ==
    \A w \in Workers :
        (pc[w] = "done" /\ q[w].uid # ZeroId /\ out[w].code # "InvalidArgument") =>
            LET u == q[w].uid
                stored == CASE q[w].op = "IsBanned"    -> Locked(u \in Banned)
                            [] q[w].op = "LastLogin"   -> u
                            [] q[w].op = "CurrentRole" -> StoredRole
            IN  CASE faulted[w]    -> out[w].code = "Internal"
                  [] u \notin Rows -> out[w].code = "NotFound"
                  [] OTHER         -> out[w] = [code |-> "OK", val |-> stored]

=============================================================================
