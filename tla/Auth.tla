-------------------------------- MODULE Auth --------------------------------
(***************************************************************************)
(* The credential verifier of the SSO service: RegisterNewUser and Login   *)
(* of src/internal/services/authsvc/auth.go, over the Postgres user        *)
(* repository (storage/repository/auth_repo/userrepository.go) and the     *)
(* token minting of lib/jwt/jwt.go.                                        *)
(*                                                                         *)
(* Each call is served by one worker (one goroutine per gRPC call) and is  *)
(* cut into the repository round trips it makes; other calls run between  *)
(* them. Register: hash, SaveUser's existence check, SaveUser's insert.    *)
(* IsAdmin: IsUsrAdmin.                                                     *)
(* Login: User (with the bcrypt compare that follows it), App (with the    *)
(* refresh-token signing that follows it), SaveRefresh (with the access-   *)
(* token signing that follows it). Signing with an HMAC []byte key cannot  *)
(* fail, so the two NewToken calls have no error branch here.              *)
(*                                                                         *)
(* Any repository call may fail on the database (dbUp = FALSE). As the    *)
(* repository is written, SaveUser, App and SaveRefresh also fail on every *)
(* call (SaveUser's check passes two arguments to a one-placeholder query  *)
(* and scans four columns into one; App scans two columns into three;      *)
(* saveRefreshQuery has a stray ')'), and whether User's missing row is    *)
(* storage.ErrUserNotFound depends on whether the pgx build's ErrNoRows    *)
(* wraps sql.ErrNoRows. RepoAsWritten = TRUE models this; FALSE models the *)
(* method contracts that spec section 1 says the core depends on.          *)
(***************************************************************************)
EXTENDS Integers

CONSTANTS
    Emails,         \* emails of the requests
    Passwords,      \* passwords of the requests, given by their byte length
    Apps,           \* app ids of the requests
    AppRows,        \* database: the app ids the apps table holds
    Workers,        \* concurrent gRPC calls
    RepoAsWritten   \* see above

ASSUME AuthAssumption ==
    /\ Emails # {} /\ Apps # {} /\ Workers # {}
    /\ Passwords \subseteq Nat \ {0} /\ Passwords # {}
    /\ AppRows \subseteq Apps
    /\ RepoAsWritten \in BOOLEAN

\* bcrypt.GenerateFromPassword rejects passwords longer than 72 bytes.
BcryptMaxLen == 72

Hashable(p) == p <= BcryptMaxLen

\* Slip: the error of CompareHashAndPassword read the wrong way round.
PasswordMatchesInverted(hash, p) == hash # p

\* bcrypt.CompareHashAndPassword(user.HashedPass, pass) == nil.
PasswordMatches(hash, p) == hash = p

NoUser == 0

\* Replies of the service (the error each path wraps, or success).
Replies == {"pending", "ok", "ErrHash", "ErrUserAlreadyExists", "ErrSaveUser",
            "ErrUserNotFound", "ErrInvalidCredentials", "ErrInvalidAppID",
            "ErrSaveRefresh", "ErrIsAdmin"}

Requests ==
    [op : {"register"}, email : Emails, pass : Passwords]
      \cup [op : {"login"}, email : Emails, pass : Passwords, app : Apps]
      \cup [op : {"isadmin"}, email : Emails]

NoReq == [op |-> "register", email |-> CHOOSE e \in Emails : TRUE,
          pass |-> CHOOSE p \in Passwords : TRUE]

VARIABLES
    users,        \* database: email -> stored password (its bcrypt hash), or NoUser
    refreshRows,  \* database: <<email, app>> claims of the saved refresh tokens
    pc,           \* worker -> step of its call
    req,          \* worker -> its request
    hash,         \* worker -> the stored hash its Login read, or NoUser
    faulted,      \* worker -> a database error hit its call (history)
    reply         \* worker -> reply of its call

vars == <<users, refreshRows, pc, req, hash, faulted, reply>>

Steps == {"idle", "hash", "check", "insert", "user", "app", "save", "admin",
          "done"}

TypeOK ==
    /\ users \in [Emails -> Passwords \cup {NoUser}]
    /\ refreshRows \subseteq Emails \X Apps
    /\ pc \in [Workers -> Steps]
    /\ req \in [Workers -> Requests]
    /\ hash \in [Workers -> Passwords \cup {NoUser}]
    /\ faulted \in [Workers -> BOOLEAN]
    /\ reply \in [Workers -> Replies]

-----------------------------------------------------------------------------
Init ==
    /\ users = [e \in Emails |-> NoUser]
    /\ refreshRows = {}
    /\ pc = [w \in Workers |-> "idle"]
    /\ req = [w \in Workers |-> NoReq]
    /\ hash = [w \in Workers |-> NoUser]
    /\ faulted = [w \in Workers |-> FALSE]
    /\ reply = [w \in Workers |-> "pending"]

\* Ends the call of w with reply r.
Return(w, r) ==
    /\ pc' = [pc EXCEPT ![w] = "done"]
    /\ reply' = [reply EXCEPT ![w] = r]

\* Moves the call of w to step s.
Goto(w, s) == pc' = [pc EXCEPT ![w] = s] /\ UNCHANGED reply

\* Records whether the database call of this step failed.
Fault(w, dbUp) == faulted' = [faulted EXCEPT ![w] = @ \/ ~dbUp]

\* The first step of each service method.
FirstStep == [register |-> "hash", login |-> "user", isadmin |-> "admin"]

\* A gRPC Register, Login or IsAdmin call reaches the service.
Start(w, r) ==
    /\ pc[w] = "idle"
    /\ pc' = [pc EXCEPT ![w] = FirstStep[r.op]]
    /\ req' = [req EXCEPT ![w] = r]
    /\ UNCHANGED <<users, refreshRows, hash, faulted, reply>>

\* RegisterNewUser: bcrypt.GenerateFromPassword, "error while hashing
\* password" when it fails.
HashPassword(w) ==
    /\ pc[w] = "hash"
    /\ IF Hashable(req[w].pass) THEN Goto(w, "check") ELSE Return(w, "ErrHash")
    /\ UNCHANGED <<users, refreshRows, req, hash, faulted>>

\* SaveUser: the existence check. A failed query is "failed to check
\* database"; an existing user is storage.ErrUserExists, which the service
\* turns into ErrUserAlreadyExists; any other error is "error while saving
\* user".
CheckExists(w, dbUp) ==
    /\ pc[w] = "check"
    /\ CASE ~dbUp \/ RepoAsWritten      -> Return(w, "ErrSaveUser")
         [] users[req[w].email] # NoUser -> Return(w, "ErrUserAlreadyExists")
         [] OTHER                        -> Goto(w, "insert")
    /\ Fault(w, dbUp)
    /\ UNCHANGED <<users, refreshRows, req, hash>>

\* SaveUser: the INSERT ... RETURNING; any error but a recognised 23505 is
\* "failed to create user". As written the INSERT is never reached (the
\* check fails first), and the 23505 test could never match: it asserts
\* github.com/jackc/pgconn's (v4) PgError, while pgx v5 returns its own
\* pgconn type, so a duplicate would be "failed to create user" too. The
\* contract (RepoAsWritten = FALSE) reports the duplicate the unique
\* constraint stops as storage.ErrUserExists.
InsertUser(w, dbUp) ==
    /\ pc[w] = "insert"
    /\ CASE ~dbUp \/ RepoAsWritten       -> Return(w, "ErrSaveUser") /\ UNCHANGED users
         [] users[req[w].email] # NoUser -> Return(w, "ErrUserAlreadyExists") /\ UNCHANGED users
         [] OTHER                        -> /\ Return(w, "ok")
                                            /\ users' = [users EXCEPT ![req[w].email] = req[w].pass]
    /\ Fault(w, dbUp)
    /\ UNCHANGED <<refreshRows, req, hash>>

\* User(email) reports a missing row as storage.ErrUserNotFound only when
\* errors.Is(pgx's ErrNoRows, sql.ErrNoRows); otherwise as a plain error.
NotFoundErrors ==
    IF RepoAsWritten THEN {"ErrUserNotFound", "ErrInvalidCredentials"}
                     ELSE {"ErrUserNotFound"}

\* Login: User(email); ErrUserNotFound is returned as such, any other
\* error as ErrInvalidCredentials; then bcrypt.CompareHashAndPassword,
\* ErrInvalidCredentials on a mismatch.
LookupUser(w, dbUp) ==
    LET stored == users[req[w].email] IN
    /\ pc[w] = "user"
    /\ CASE ~dbUp                 -> Return(w, "ErrInvalidCredentials")
         [] stored = NoUser       -> \E r \in NotFoundErrors : Return(w, r)
         [] ~PasswordMatches(stored, req[w].pass)
                                  -> Return(w, "ErrInvalidCredentials")
         [] OTHER                 -> Goto(w, "app")
    /\ hash' = [hash EXCEPT ![w] = IF dbUp THEN stored ELSE NoUser]
    /\ Fault(w, dbUp)
    /\ UNCHANGED <<users, refreshRows, req>>

\* Login: App(appID), any error is ErrInvalidAppID; then the refresh token
\* is signed (tokenTTL * 400).
LookupApp(w, dbUp) ==
    /\ pc[w] = "app"
    /\ IF dbUp /\ ~RepoAsWritten /\ req[w].app \in AppRows
         THEN Goto(w, "save")
         ELSE Return(w, "ErrInvalidAppID")
    /\ Fault(w, dbUp)
    /\ UNCHANGED <<users, refreshRows, req, hash>>

\* Slip: SaveRefresh's two arguments passed the other way round.
RefreshRowSwapped(w) == <<req[w].app, req[w].email>>

\* The refresh token Login saves, by the claims it signs: the user and the
\* app (jwt.go NewToken: uid, email, app_id).
RefreshRow(w) == <<req[w].email, req[w].app>>

\* Slip: the error SaveRefresh returns is not looked at.
SaveRefreshErrDropped(w, dbUp) == FALSE

\* `if err := a.refreshSaver.SaveRefresh(...); err != nil`.
SaveRefreshErr(w, dbUp) == ~dbUp \/ RepoAsWritten

\* Login: SaveRefresh(refreshToken, user.ID, ...): the row is written when
\* the INSERT succeeds; an error ends the call. Then the access token
\* (tokenTTL) is signed and returned.
SaveRefresh(w, dbUp) ==
    /\ pc[w] = "save"
    /\ refreshRows' = IF dbUp /\ ~RepoAsWritten
                        THEN refreshRows \cup {RefreshRow(w)}
                        ELSE refreshRows
    /\ Return(w, IF SaveRefreshErr(w, dbUp) THEN "ErrSaveRefresh" ELSE "ok")
    /\ Fault(w, dbUp)
    /\ UNCHANGED <<users, req, hash>>

\* IsUsrAdmin reports a missing user as storage.ErrAppNotFound, which IsAdmin
\* wraps as ErrInvalidAppID, only when pgx's ErrNoRows wraps sql.ErrNoRows;
\* otherwise as a plain error.
NoAdminRowErrors ==
    IF RepoAsWritten THEN {"ErrInvalidAppID", "ErrIsAdmin"}
                     ELSE {"ErrInvalidAppID"}

\* IsAdmin: IsUsrAdmin(userID), the LEFT JOIN of users with is_admin; a
\* missing user is no row; any other error is returned wrapped. The flag
\* itself is not told apart by any property and is left out.
IsUsrAdmin(w, dbUp) ==
    /\ pc[w] = "admin"
    /\ CASE ~dbUp                          -> Return(w, "ErrIsAdmin")
         [] users[req[w].email] = NoUser   -> \E r \in NoAdminRowErrors : Return(w, r)
         [] OTHER                          -> Return(w, "ok")
    /\ Fault(w, dbUp)
    /\ UNCHANGED <<users, refreshRows, req, hash>>

\* The reply has been sent and the goroutine of the call ends.
Finish(w) ==
    /\ pc[w] = "done"
    /\ pc' = [pc EXCEPT ![w] = "idle"]
    /\ req' = [req EXCEPT ![w] = NoReq]
    /\ hash' = [hash EXCEPT ![w] = NoUser]
    /\ faulted' = [faulted EXCEPT ![w] = FALSE]
    /\ reply' = [reply EXCEPT ![w] = "pending"]
    /\ UNCHANGED <<users, refreshRows>>

Next ==
    \E w \in Workers :
        \/ \E r \in Requests : Start(w, r)
        \/ HashPassword(w)
        \/ Finish(w)
        \/ \E up \in BOOLEAN :
             \/ CheckExists(w, up) \/ InsertUser(w, up)
             \/ LookupUser(w, up) \/ LookupApp(w, up) \/ SaveRefresh(w, up)
             \/ IsUsrAdmin(w, up)

Spec == Init /\ [][Next]_vars

-----------------------------------------------------------------------------
(* Properties.                                                             *)

\* Spec 4.2: "issuing an access token without a durable refresh record is
\* not permitted": a Login that returns an access token for (email, app)
\* has the refresh token of that user and app saved in the database.
SessionHasRefresh ==
    \A w \in Workers :
        pc[w] = "done" /\ req[w].op = "login" /\ reply[w] = "ok" =>
            RefreshRow(w) \in refreshRows

\* Spec 8: a registered user logs in with its password. A Login that met
\* no database error, for an email whose user it found with the password
\* it was given, and an app of the apps table, returns an access token.
LoginSucceeds ==
    \A w \in Workers :
        (/\ pc[w] = "done" /\ req[w].op = "login" /\ ~faulted[w]
         /\ hash[w] = req[w].pass /\ req[w].app \in AppRows)
            => reply[w] = "ok"

\* Spec 4.2: Register "fails with AlreadyExists if the store reports a
\* duplicate ...; fails with Internal for any other store error". A
\* Register for an email no one else registers, that met no database
\* error, returns a user id.
RegisterFailsOnlyOnStore ==
    \A w \in Workers :
        (/\ pc[w] = "done" /\ req[w].op = "register" /\ ~faulted[w]
         /\ reply[w] # "ErrUserAlreadyExists")
            => reply[w] = "ok"

=============================================================================
