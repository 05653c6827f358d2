------------------------------- MODULE Server -------------------------------
(***************************************************************************)
(* The gRPC server as app/grpc/app.go builds it: the auth interceptor of   *)
(* interceptors/middlware.go runs for every unary RPC (grpc.UnaryInterceptor *)
(* on line 43), and only the auth service of grpc/auth/server_hnd.go is    *)
(* registered. A call passes the interceptor, then its handler validates   *)
(* the request (grpc/auth_validation), calls the credential verifier       *)
(* (module Auth, one Auth worker per gRPC call) and maps the error it      *)
(* returns to a gRPC code.                                                 *)
(*                                                                         *)
(* Clients hold the access tokens Login returned to them and the tokens in *)
(* Minted, made elsewhere. A user is named by its email, which is also the *)
(* uid of its tokens. The clock is not modelled: tokens are checked at     *)
(* tick 0 and expiry is left to TokenGate.                                 *)
(*                                                                         *)
(* The validators hand ozzo's ValidateStruct the field values instead of  *)
(* pointers to the fields, and ValidateStruct answers that with an         *)
(* internal error before it looks at any rule. ValidatorAsWritten = TRUE   *)
(* models this; FALSE models the rules the validators declare.             *)
(***************************************************************************)
EXTENDS Jwt

CONSTANTS
    Passwords,          \* password byte lengths of the requests
    UsernameLens,       \* username lengths of Register requests
    AppRows,            \* database: the app ids the apps table holds
    Workers,            \* concurrent gRPC calls, one client each
    RepoAsWritten,      \* see module Auth
    ValidatorAsWritten, \* see above
    Minted              \* tokens the clients hold from elsewhere

ASSUME ServerAssumption ==
    /\ Workers # {} /\ ValidatorAsWritten \in BOOLEAN
    /\ UsernameLens \subseteq Nat /\ Minted \subseteq Tokens
    /\ Passwords \subseteq Nat /\ Passwords # {}

VARIABLES
    users, refreshRows, pc, req, hash, faulted, reply,  \* of module Auth
    spc,    \* worker -> step of its call in the server
    call,   \* worker -> its request and the token it carries
    held,   \* worker -> the tokens its client holds
    code    \* worker -> the gRPC code of its answer

A == INSTANCE Auth WITH Emails <- Users

authVars == <<users, refreshRows, pc, req, hash, faulted, reply>>
vars == <<authVars, spc, call, held, code>>

\* A user id of zero in an IsAdmin request.
ZeroId == "zero"

Bodies ==
    [op : {"login"}, email : Users, pass : Passwords, app : Apps]
      \cup [op : {"register"}, email : Users, pass : Passwords, uname : UsernameLens]
      \cup [op : {"isadmin"}, email : Users \cup {ZeroId}]

\* No metadata, or no "authorization" entry in it.
NoCred == [none |-> TRUE]

NoCall == [body |-> [op |-> "isadmin", email |-> ZeroId], cred |-> NoCred]

Codes == {"OK", "Unauthenticated", "InvalidArgument", "AlreadyExists",
          "NotFound", "Internal"}

NoCode == "none"

\* "rejected" by the interceptor, "invalid" by the validator, "done" by the
\* handler after the service returned.
SSteps == {"idle", "gate", "validate", "service", "rejected", "invalid", "done"}

TypeOK ==
    /\ A!TypeOK
    /\ spc \in [Workers -> SSteps]
    /\ call \in [Workers -> [body : Bodies, cred : Tokens \cup {NoCred}]]
    /\ held \in [Workers -> SUBSET Tokens]
    /\ code \in [Workers -> Codes \cup {NoCode}]

-----------------------------------------------------------------------------
\* The rules the validators declare: Login's password Length(8, 50),
\* Register's password Length(6, 100) and username Length(3, 20), IsAdmin's
\* user id Required. Emails of the model are well-formed addresses and app
\* ids non-zero numbers of at most 15 digits, so their rules hold.
WellFormed(b) ==
    CASE b.op = "login"    -> b.pass \in 8..50
      [] b.op = "register" -> b.pass \in 6..100 /\ b.uname \in 3..20
      [] b.op = "isadmin"  -> b.email # ZeroId

\* ValidateUserLoginRequest, ValidateUsrRegisterRequest, ValidateIsAdminRequest.
ValidRequest(b) == ~ValidatorAsWritten /\ WellFormed(b)

\* A validation error: Login and Register answer InvalidArgument, IsAdmin
\* answers Internal.
InvalidCode(op) == IF op = "isadmin" THEN "Internal" ELSE "InvalidArgument"

\* errors.Is(err, target) on the service's errors: each wraps exactly the
\* sentinel the model names it by.
WrapsErr(r, target) == r = target

\* Slip: an unmatched error returned as it is instead of through
\* status.Error, which gRPC sends as Unknown (the permission handlers do so).
HandlerCodeRawErr(op, r) ==
    CASE r = "ok"        -> "OK"
      [] op = "login"    -> IF WrapsErr(r, "ErrInvalidCredentials")
                              THEN "InvalidArgument" ELSE "Unknown"
      [] op = "register" -> IF WrapsErr(r, "ErrUserNotFound")
                              THEN "AlreadyExists" ELSE "Unknown"
      [] op = "isadmin"  -> IF WrapsErr(r, "ErrAppNotFound")
                              THEN "NotFound" ELSE "Unknown"

\* The handlers' mapping of the service's error: Login tests
\* authsvc.ErrInvalidCredentials, Register tests storage.ErrUserNotFound,
\* IsAdmin tests storage.ErrAppNotFound; anything else is Internal. Login's
\* test of an empty token never fires, since NewToken cannot fail here.
HandlerCode(op, r) ==
    CASE r = "ok"        -> "OK"
      [] op = "login"    -> IF WrapsErr(r, "ErrInvalidCredentials")
                              THEN "InvalidArgument" ELSE "Internal"
      [] op = "register" -> IF WrapsErr(r, "ErrUserNotFound")
                              THEN "AlreadyExists" ELSE "Internal"
      [] op = "isadmin"  -> IF WrapsErr(r, "ErrAppNotFound")
                              THEN "NotFound" ELSE "Internal"

\* The request the handler passes to the service.
ServiceReq(b) ==
    CASE b.op = "login"    -> [op |-> "login", email |-> b.email, pass |-> b.pass,
                               app |-> b.app]
      [] b.op = "register" -> [op |-> "register", email |-> b.email, pass |-> b.pass]
      [] b.op = "isadmin"  -> [op |-> "isadmin", email |-> b.email]

-----------------------------------------------------------------------------
Init ==
    /\ A!Init
    /\ spc = [w \in Workers |-> "idle"]
    /\ call = [w \in Workers |-> NoCall]
    /\ held = [w \in Workers |-> Minted]
    /\ code = [w \in Workers |-> NoCode]

\* A client sends a request, with no token or one it holds.
Call(w, b, c) ==
    /\ spc[w] = "idle"
    /\ spc' = [spc EXCEPT ![w] = "gate"]
    /\ call' = [call EXCEPT ![w] = [body |-> b, cred |-> c]]
    /\ UNCHANGED <<authVars, held, code>>

\* Slip: the validator's verdict ignored once a token is present.
InterceptAnyBearer(w) ==
    /\ spc[w] = "gate"
    /\ IF call[w].cred # NoCred
         THEN spc' = [spc EXCEPT ![w] = "validate"] /\ UNCHANGED code
         ELSE /\ spc' = [spc EXCEPT ![w] = "rejected"]
              /\ code' = [code EXCEPT ![w] = "Unauthenticated"]
    /\ UNCHANGED <<authVars, call, held>>

\* UnaryAuthInterceptor, for every method: no token or one that fails
\* ValidateToken is Unauthenticated; otherwise the handler runs.
Intercept(w) ==
    /\ spc[w] = "gate"
    /\ IF call[w].cred # NoCred /\ Validates(call[w].cred, 0)
         THEN spc' = [spc EXCEPT ![w] = "validate"] /\ UNCHANGED code
         ELSE /\ spc' = [spc EXCEPT ![w] = "rejected"]
              /\ code' = [code EXCEPT ![w] = "Unauthenticated"]
    /\ UNCHANGED <<authVars, call, held>>

\* The handler's validation; a valid request is passed to the service.
Validate(w) ==
    LET b == call[w].body IN
    /\ spc[w] = "validate"
    /\ IF ValidRequest(b)
         THEN /\ spc' = [spc EXCEPT ![w] = "service"]
              /\ A!Start(w, ServiceReq(b))
              /\ UNCHANGED code
         ELSE /\ spc' = [spc EXCEPT ![w] = "invalid"]
              /\ code' = [code EXCEPT ![w] = InvalidCode(b.op)]
              /\ UNCHANGED authVars
    /\ UNCHANGED <<call, held>>

\* One repository round trip of the service serving w.
Serve(w) ==
    /\ spc[w] = "service"
    /\ \/ A!HashPassword(w)
       \/ \E up \in BOOLEAN :
            \/ A!CheckExists(w, up) \/ A!InsertUser(w, up)
            \/ A!LookupUser(w, up) \/ A!LookupApp(w, up) \/ A!SaveRefresh(w, up)
            \/ A!IsUsrAdmin(w, up)
    /\ UNCHANGED <<spc, call, held, code>>

\* The service returned: the handler maps its error, and a Login's access
\* token goes back to the client.
Respond(w) ==
    /\ spc[w] = "service" /\ pc[w] = "done"
    /\ spc' = [spc EXCEPT ![w] = "done"]
    /\ code' = [code EXCEPT ![w] = HandlerCode(req[w].op, reply[w])]
    /\ held' = IF req[w].op = "login" /\ reply[w] = "ok"
                 THEN [held EXCEPT ![w] = @ \cup
                         {NewToken(req[w].email, req[w].app, AccessTTL, 0)}]
                 ELSE held
    /\ A!Finish(w)
    /\ UNCHANGED call

\* The answer reaches the client.
Finish(w) ==
    /\ spc[w] \in {"rejected", "invalid", "done"}
    /\ spc' = [spc EXCEPT ![w] = "idle"]
    /\ call' = [call EXCEPT ![w] = NoCall]
    /\ code' = [code EXCEPT ![w] = NoCode]
    /\ UNCHANGED <<authVars, held>>

Next ==
    \E w \in Workers :
        \/ \E b \in Bodies, c \in {NoCred} \cup held[w] : Call(w, b, c)
        \/ Intercept(w) \/ Validate(w) \/ Serve(w) \/ Respond(w) \/ Finish(w)

Spec == Init /\ [][Next]_vars

\* The Go runtime runs every runnable goroutine, and every database call
\* returns, with a result or an error: no step of a call that can be taken
\* is postponed for ever. Clients are not obliged to send anything.
Fairness ==
    \A w \in Workers :
        WF_vars(Intercept(w) \/ Validate(w) \/ Serve(w) \/ Respond(w))

FairSpec == Spec /\ Fairness

-----------------------------------------------------------------------------
(* Properties.                                                             *)

\* Spec 2 and 7: the interceptor runs ahead of every handler and validation
\* errors never reach the service layer. Whenever the credential verifier
\* is serving a call, that call carried a token ValidateToken accepts and a
\* request the validator passed, and the server is waiting for that very
\* call.
ServiceOnlyBehindChecks ==
    \A w \in Workers :
        pc[w] # "idle" =>
            /\ spc[w] = "service"
            /\ call[w].cred # NoCred /\ Validates(call[w].cred, 0)
            /\ ValidRequest(call[w].body)
            /\ req[w] = ServiceReq(call[w].body)

\* Spec 4.2: "a client never receives a usable session without a
\* corresponding durable refresh record". Every token a client holds that
\* this service issued names a user and app whose refresh token is saved.
HeldSessionsDurable ==
    \A w \in Workers : \A t \in held[w] \ Minted :
        <<t.uid, t.app>> \in refreshRows

\* Spec 6 and 4.2: Login is how a client gets a token. A well-formed Login
\* call eventually reaches the credential verifier. The interceptor of
\* app.go line 43 guards Login too, so a client without a token never gets
\* there.
LoginReachesVerifier ==
    \A w \in Workers :
        (spc[w] = "gate" /\ call[w].body.op = "login" /\ WellFormed(call[w].body))
            ~> (spc[w] = "service")

\* Spec 7: "validation errors are rejected at the boundary": a request the
\* validator rejects breaks one of the rules it declares.
ValidatorRejectsOnlyMalformed ==
    \A w \in Workers : spc[w] = "invalid" => ~WellFormed(call[w].body)

\* The code spec 4.2, 6 and 7 give each outcome of a service call: a
\* database error is Internal; a duplicate Register is AlreadyExists; a
\* Login for an unknown email or with a wrong password is InvalidArgument;
\* an IsAdmin for an unknown user is NotFound; success is OK.
SpecCode(w) ==
    LET r == req[w]
        missing == users[r.email] = A!NoUser IN
    CASE faulted[w]                                   -> "Internal"
      [] r.op = "register" /\ reply[w] = "ErrUserAlreadyExists" -> "AlreadyExists"
      [] r.op = "login" /\ (missing \/ hash[w] # r.pass) -> "InvalidArgument"
      [] r.op = "isadmin" /\ missing                   -> "NotFound"
      [] reply[w] = "ok"                              -> "OK"
      [] OTHER                                        -> "Internal"

\* Spec 7's taxonomy at the boundary: when a handler answers a call its
\* service served, the code is the one SpecCode gives that outcome.
AnswersFollowTaxonomy ==
    [][\A w \in Workers :
         (spc[w] = "service" /\ spc'[w] = "done") => code'[w] = SpecCode(w)]_vars

=============================================================================
