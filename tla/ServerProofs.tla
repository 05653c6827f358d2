----------------------------- MODULE ServerProofs -----------------------------
(* Machine-checked proofs about Server, for every value of the constants   *)
(* that JwtAssumption and ServerAssumption allow. The steps of the auth     *)
(* service are Auth's actions through the instance A; their facts are      *)
(* proved here again over Server's variables.                              *)
EXTENDS Server, TLAPS

\* Each step of a service call belongs to the method its request names (as
\* in AuthProofs).
StepMatchesOp ==
    \A w \in Workers :
        /\ pc[w] \in {"hash", "check", "insert"} => req[w].op = "register"
        /\ pc[w] \in {"user", "app", "save"} => req[w].op = "login"
        /\ pc[w] = "admin" => req[w].op = "isadmin"

TInv == TypeOK /\ StepMatchesOp

-----------------------------------------------------------------------------
(* Requests and tokens.                                                    *)

LEMMA RequestFields ==
    ASSUME NEW r \in A!Requests
    PROVE  /\ r.op \in {"register", "login", "isadmin"}
           /\ r.email \in Users
           /\ r.op = "register" => r.pass \in Passwords
           /\ r.op = "login" => r.pass \in Passwords /\ r.app \in Apps
  BY DEF A!Requests

LEMMA NoReqType == A!NoReq \in A!Requests
  <1>1. PICK e \in Users, p \in Passwords : TRUE
    BY JwtAssumption, ServerAssumption
  <1>2. QED
    BY <1>1 DEF A!NoReq, A!Requests

\* The request a handler passes on for a body its validator accepted is a
\* request of the service, of the same method. IsAdmin's zero user id never
\* gets that far.
LEMMA ServiceReqType ==
    ASSUME NEW b \in Bodies, ValidRequest(b)
    PROVE  ServiceReq(b) \in A!Requests /\ ServiceReq(b).op = b.op
  <1>1. CASE b.op = "login"
    BY <1>1 DEF Bodies, ServiceReq, A!Requests
  <1>2. CASE b.op = "register"
    BY <1>2 DEF Bodies, ServiceReq, A!Requests
  <1>3. CASE b.op = "isadmin"
    <2>1. b.email # ZeroId
      BY <1>3 DEF ValidRequest, WellFormed
    <2>2. b.email \in Users
      BY <1>3, <2>1 DEF Bodies
    <2>3. QED
      BY <1>3, <2>2 DEF ServiceReq, A!Requests
  <1>4. QED
    BY <1>1, <1>2, <1>3 DEF Bodies

\* The access token Login hands back is a token of the model.
LEMMA NewTokenType ==
    ASSUME NEW u \in Users, NEW a \in Apps
    PROVE  NewToken(u, a, AccessTTL, 0) \in Tokens
  <1>1. AccessTTL \in Nat \ {0} /\ MaxTime \in Nat /\ IssuerSecret \in Secrets
    BY JwtAssumption
  <1>2. 0 + AccessTTL \in 0..(MaxTime + 400 * AccessTTL)
    BY <1>1
  <1>3. QED
    BY <1>1, <1>2 DEF NewToken, Tokens

-----------------------------------------------------------------------------
(* Type correctness.                                                       *)

LEMMA TInvInit == Init => TInv
  BY NoReqType, ServerAssumption
     DEF Init, A!Init, TInv, TypeOK, A!TypeOK, StepMatchesOp, A!Replies, A!Steps,
         SSteps, NoCall, Bodies, Codes, NoCode

LEMMA TInvStep == TInv /\ [Next]_vars => TInv'
  <1> SUFFICES ASSUME TInv, [Next]_vars PROVE TInv'
    OBVIOUS
  <1> USE DEF TInv, TypeOK, A!TypeOK
  <1>1. ASSUME NEW w \in Workers, NEW b \in Bodies, NEW c \in {NoCred} \cup held[w],
               Call(w, b, c)
        PROVE  TInv'
    BY <1>1 DEF Call, SSteps, StepMatchesOp, authVars
  <1>2. ASSUME NEW w \in Workers, Intercept(w)
        PROVE  TInv'
    BY <1>2 DEF Intercept, SSteps, Codes, StepMatchesOp, authVars
  <1>3. ASSUME NEW w \in Workers, Validate(w)
        PROVE  TInv'
    <2> DEFINE b == call[w].body
    <2>1. CASE ValidRequest(b)
      <3>1. ServiceReq(b) \in A!Requests /\ ServiceReq(b).op = b.op
        BY <2>1, ServiceReqType
      <3>2. b.op \in {"register", "login", "isadmin"}
        BY DEF Bodies
      <3>3. A!FirstStep[b.op] \in A!Steps
        BY <3>2 DEF A!FirstStep, A!Steps
      <3>4. StepMatchesOp'
        BY <1>3, <2>1, <3>1, <3>2 DEF Validate, A!Start, A!FirstStep, StepMatchesOp
      <3>5. QED
        BY <1>3, <2>1, <3>1, <3>3, <3>4 DEF Validate, A!Start, SSteps
    <2>2. CASE ~ValidRequest(b)
      BY <1>3, <2>2 DEF Validate, SSteps, Codes, InvalidCode, StepMatchesOp, authVars
    <2>3. QED
      BY <2>1, <2>2
  <1>4. ASSUME NEW w \in Workers, Serve(w)
        PROVE  TInv'
    <2> USE DEF A!Goto, A!Return, A!Fault, A!Steps, A!Replies, StepMatchesOp
    <2>1. CASE A!HashPassword(w)
      BY <1>4, <2>1 DEF Serve, A!HashPassword
    <2>2. ASSUME NEW up \in BOOLEAN, A!CheckExists(w, up)
          PROVE  TInv'
      BY <1>4, <2>2 DEF Serve, A!CheckExists
    <2>3. ASSUME NEW up \in BOOLEAN, A!InsertUser(w, up)
          PROVE  TInv'
      <3>1. req[w].pass \in Passwords /\ req[w].email \in Users
        BY <2>3, RequestFields DEF A!InsertUser
      <3>2. QED
        BY <1>4, <2>3, <3>1 DEF Serve, A!InsertUser
    <2>4. ASSUME NEW up \in BOOLEAN, A!LookupUser(w, up)
          PROVE  TInv'
      <3>1. users[req[w].email] \in Passwords \cup {A!NoUser}
        BY RequestFields
      <3>2. QED
        BY <1>4, <2>4, <3>1 DEF Serve, A!LookupUser, A!NotFoundErrors
    <2>5. ASSUME NEW up \in BOOLEAN, A!LookupApp(w, up)
          PROVE  TInv'
      BY <1>4, <2>5 DEF Serve, A!LookupApp
    <2>6. ASSUME NEW up \in BOOLEAN, A!SaveRefresh(w, up)
          PROVE  TInv'
      <3>1. A!RefreshRow(w) \in Users \X Apps
        BY <2>6, RequestFields DEF A!SaveRefresh, A!RefreshRow
      <3>2. QED
        BY <1>4, <2>6, <3>1 DEF Serve, A!SaveRefresh
    <2>7. ASSUME NEW up \in BOOLEAN, A!IsUsrAdmin(w, up)
          PROVE  TInv'
      BY <1>4, <2>7 DEF Serve, A!IsUsrAdmin, A!NoAdminRowErrors
    <2>8. QED
      BY <1>4, <2>1, <2>2, <2>3, <2>4, <2>5, <2>6, <2>7 DEF Serve
  <1>5. ASSUME NEW w \in Workers, Respond(w)
        PROVE  TInv'
    <2>1. req[w].op = "login" => req[w].email \in Users /\ req[w].app \in Apps
      BY RequestFields
    <2>2. req[w].op = "login" =>
            NewToken(req[w].email, req[w].app, AccessTTL, 0) \in Tokens
      BY <2>1, NewTokenType
    <2>3. HandlerCode(req[w].op, reply[w]) \in Codes
      <3>1. req[w].op \in {"register", "login", "isadmin"}
        BY RequestFields
      <3>2. QED
        BY <3>1 DEF HandlerCode, WrapsErr, Codes
    <2>4. QED
      BY <1>5, <2>2, <2>3, NoReqType
         DEF Respond, A!Finish, SSteps, StepMatchesOp, A!Steps, A!Replies,
             authVars
  <1>6. ASSUME NEW w \in Workers, Finish(w)
        PROVE  TInv'
    BY <1>6 DEF Finish, SSteps, NoCall, NoCode, Bodies, StepMatchesOp, authVars
  <1>7. CASE UNCHANGED vars
    BY <1>7 DEF vars, authVars, StepMatchesOp
  <1>8. QED
    BY <1>1, <1>2, <1>3, <1>4, <1>5, <1>6, <1>7 DEF Next

\* The composed server stays well typed for every instance: in particular,
\* the handlers only pass requests of the service on, the codes they answer
\* are gRPC codes, and the tokens clients hold are tokens.
THEOREM TypeCorrect == Spec => []TypeOK
  <1>1. Spec => []TInv
    BY TInvInit, TInvStep, PTL DEF Spec
  <1>2. QED
    BY <1>1, PTL DEF TInv

-----------------------------------------------------------------------------
(* What a service round trip changes.                                      *)

\* One repository round trip of w's service call (Serve) touches only the
\* auth state: the call stays at a step of its method, keeps its request,
\* leaves every other call alone and never deletes a refresh row.
LEMMA ServeFrame ==
    ASSUME TInv, NEW w \in Workers, Serve(w)
    PROVE  /\ spc' = spc /\ call' = call /\ held' = held /\ code' = code
           /\ req' = req
           /\ pc'[w] # "idle"
           /\ \A u \in Workers \ {w} : pc'[u] = pc[u] /\ reply'[u] = reply[u]
           /\ refreshRows \subseteq refreshRows'
  <1> DEFINE Frame ==
         /\ spc' = spc /\ call' = call /\ held' = held /\ code' = code
         /\ req' = req /\ pc'[w] # "idle"
         /\ \A u \in Workers \ {w} : pc'[u] = pc[u] /\ reply'[u] = reply[u]
         /\ refreshRows \subseteq refreshRows'
  <1> USE DEF TInv, TypeOK, A!TypeOK, A!Goto, A!Return, A!Fault
  <1>1. CASE A!HashPassword(w)
    BY <1>1 DEF Serve, A!HashPassword
  <1>3. ASSUME NEW up \in BOOLEAN, A!CheckExists(w, up)
        PROVE  Frame
    BY <1>3 DEF Serve, A!CheckExists
  <1>4. ASSUME NEW up \in BOOLEAN, A!InsertUser(w, up)
        PROVE  Frame
    BY <1>4 DEF Serve, A!InsertUser
  <1>5. ASSUME NEW up \in BOOLEAN, A!LookupUser(w, up)
        PROVE  Frame
    BY <1>5 DEF Serve, A!LookupUser
  <1>6. ASSUME NEW up \in BOOLEAN, A!LookupApp(w, up) \/ A!IsUsrAdmin(w, up)
        PROVE  Frame
    BY <1>6 DEF Serve, A!LookupApp, A!IsUsrAdmin
  <1>7. ASSUME NEW up \in BOOLEAN, A!SaveRefresh(w, up)
        PROVE  Frame
    BY <1>7 DEF Serve, A!SaveRefresh
  <1>8. QED
    BY <1>1, <1>3, <1>4, <1>5, <1>6, <1>7 DEF Serve

-----------------------------------------------------------------------------
(* The service runs only behind the interceptor and the validator.         *)

\* What a call has passed, by the server step it is at: a call past the
\* interceptor carries a token ValidateToken accepts; a call at the service
\* passed its validator and its service request is the one its handler
\* built; and a service call runs only while the server waits for it.
CheckedAt(w) ==
    /\ spc[w] \in {"validate", "service"} =>
          call[w].cred # NoCred /\ Validates(call[w].cred, 0)
    /\ spc[w] = "service" =>
          ValidRequest(call[w].body) /\ req[w] = ServiceReq(call[w].body)
    /\ pc[w] # "idle" => spc[w] = "service"

\* The inductive invariant behind ServiceOnlyBehindChecks. It is needed
\* because the property speaks only of calls inside the service, while the
\* interceptor's verdict is taken two steps before the service starts.
CInv == TInv /\ \A w \in Workers : CheckedAt(w)

LEMMA CInvInit == Init => CInv
  BY TInvInit DEF Init, A!Init, CInv, CheckedAt

LEMMA CInvStep == CInv /\ [Next]_vars => CInv'
  <1> SUFFICES ASSUME TInv, \A w \in Workers : CheckedAt(w), [Next]_vars
               PROVE  TInv' /\ \A w \in Workers : CheckedAt(w)'
    BY DEF CInv
  <1>1. TInv'
    BY TInvStep
  <1> SUFFICES ASSUME NEW v \in Workers PROVE CheckedAt(v)'
    BY <1>1
  <1>2. CheckedAt(v)
    OBVIOUS
  <1> USE DEF TInv, TypeOK, A!TypeOK
  <1>3. ASSUME NEW w \in Workers, NEW b \in Bodies, NEW c \in {NoCred} \cup held[w],
               Call(w, b, c)
        PROVE  CheckedAt(v)'
    BY <1>2, <1>3 DEF Call, CheckedAt, authVars
  <1>4. ASSUME NEW w \in Workers, Intercept(w)
        PROVE  CheckedAt(v)'
    BY <1>2, <1>4 DEF Intercept, CheckedAt, authVars
  <1>5. ASSUME NEW w \in Workers, Validate(w)
        PROVE  CheckedAt(v)'
    <2>1. CASE w = v /\ ValidRequest(call[w].body)
      <3>1. call[w].body.op \in {"register", "login", "isadmin"}
        BY DEF Bodies
      <3>2. QED
        BY <1>2, <1>5, <2>1, <3>1 DEF Validate, A!Start, A!FirstStep, CheckedAt
    <2>2. CASE w = v /\ ~ValidRequest(call[w].body)
      BY <1>2, <1>5, <2>2 DEF Validate, CheckedAt, authVars
    <2>3. CASE w # v
      BY <1>2, <1>5, <2>3 DEF Validate, A!Start, CheckedAt, authVars
    <2>4. QED
      BY <2>1, <2>2, <2>3
  <1>6. ASSUME NEW w \in Workers, Serve(w)
        PROVE  CheckedAt(v)'
    <2>1. spc[w] = "service"
      BY <1>6 DEF Serve
    <2>2. QED
      BY <1>2, <1>6, <2>1, ServeFrame DEF CheckedAt
  <1>7. ASSUME NEW w \in Workers, Respond(w)
        PROVE  CheckedAt(v)'
    BY <1>2, <1>7 DEF Respond, A!Finish, CheckedAt
  <1>8. ASSUME NEW w \in Workers, Finish(w)
        PROVE  CheckedAt(v)'
    BY <1>2, <1>8 DEF Finish, CheckedAt, authVars
  <1>9. CASE UNCHANGED vars
    BY <1>2, <1>9 DEF vars, authVars, CheckedAt
  <1>10. QED
    BY <1>3, <1>4, <1>5, <1>6, <1>7, <1>8, <1>9 DEF Next

\* Spec 2 and 7, for every instance: while the credential verifier serves a
\* call, that call carried a token ValidateToken accepts and a request its
\* validator passed, and the service works on the request the handler built
\* from it.
THEOREM ChecksSound == Spec => []ServiceOnlyBehindChecks
  <1>1. CInv => ServiceOnlyBehindChecks
    BY DEF CInv, CheckedAt, ServiceOnlyBehindChecks
  <1>2. QED
    BY <1>1, CInvInit, CInvStep, PTL DEF Spec

-----------------------------------------------------------------------------
(* Every token a client holds from Login has its refresh row.              *)

\* Auth's SessionHasRefresh for worker w: a Login that returned an access
\* token has its refresh row saved.
SessionAt(w) ==
    pc[w] = "done" /\ req[w].op = "login" /\ reply[w] = "ok" =>
        A!RefreshRow(w) \in refreshRows

\* HeldSessionsDurable for the client of worker w.
HeldAt(w) == \A t \in held[w] \ Minted : <<t.uid, t.app>> \in refreshRows

\* The inductive invariant behind HeldSessionsDurable: the handler hands a
\* token out (Respond) only for a Login whose service returned "ok", and
\* such a Login has saved its refresh row (SessionAt).
HInv == TInv /\ \A w \in Workers : SessionAt(w) /\ HeldAt(w)

\* No step deletes a refresh row.
LEMMA RowsGrow == TInv /\ [Next]_vars => refreshRows \subseteq refreshRows'
  <1> SUFFICES ASSUME TInv, [Next]_vars PROVE refreshRows \subseteq refreshRows'
    OBVIOUS
  <1>1. ASSUME NEW w \in Workers, Serve(w) PROVE refreshRows \subseteq refreshRows'
    BY <1>1, ServeFrame
  <1>2. QED
    BY <1>1 DEF Next, vars, authVars, Call, Intercept, Validate, A!Start, Respond,
                A!Finish, Finish

\* A Serve step that ends a Login with "ok" has just saved its refresh row.
LEMMA ServeSession ==
    ASSUME TInv, NEW w \in Workers, Serve(w)
    PROVE  SessionAt(w)'
  <1> SUFFICES ASSUME pc'[w] = "done", req'[w].op = "login", reply'[w] = "ok"
               PROVE  A!RefreshRow(w)' \in refreshRows'
    BY DEF SessionAt
  <1> USE DEF TInv, TypeOK, A!TypeOK, A!Goto, A!Return, A!Fault, StepMatchesOp
  <1>1. CASE A!HashPassword(w)
    BY <1>1 DEF A!HashPassword
  <1>2. ASSUME NEW up \in BOOLEAN,
               A!CheckExists(w, up) \/ A!InsertUser(w, up) \/ A!IsUsrAdmin(w, up)
        PROVE  A!RefreshRow(w)' \in refreshRows'
    BY <1>2 DEF A!CheckExists, A!InsertUser, A!IsUsrAdmin
  <1>3. ASSUME NEW up \in BOOLEAN, A!LookupUser(w, up) \/ A!LookupApp(w, up)
        PROVE  A!RefreshRow(w)' \in refreshRows'
    BY <1>3 DEF A!LookupUser, A!LookupApp, A!NotFoundErrors
  <1>4. ASSUME NEW up \in BOOLEAN, A!SaveRefresh(w, up)
        PROVE  A!RefreshRow(w)' \in refreshRows'
    <2>1. up /\ ~RepoAsWritten
      BY <1>4 DEF A!SaveRefresh, A!SaveRefreshErr
    <2>2. QED
      BY <1>4, <2>1 DEF A!SaveRefresh, A!RefreshRow
  <1>5. QED
    BY <1>1, <1>2, <1>3, <1>4 DEF Serve

LEMMA HInvInit == Init => HInv
  BY TInvInit DEF Init, A!Init, HInv, SessionAt, HeldAt

LEMMA HInvStep == HInv /\ [Next]_vars => HInv'
  <1> SUFFICES ASSUME TInv, \A w \in Workers : SessionAt(w) /\ HeldAt(w), [Next]_vars
               PROVE  TInv' /\ \A w \in Workers : SessionAt(w)' /\ HeldAt(w)'
    BY DEF HInv
  <1>1. TInv'
    BY TInvStep
  <1>2. refreshRows \subseteq refreshRows'
    BY RowsGrow
  <1> SUFFICES ASSUME NEW v \in Workers PROVE SessionAt(v)' /\ HeldAt(v)'
    BY <1>1
  <1>3. SessionAt(v) /\ HeldAt(v)
    OBVIOUS
  \* A step that leaves v's service call and v's tokens alone keeps both.
  <1>4. (/\ pc'[v] = pc[v] /\ req'[v] = req[v] /\ reply'[v] = reply[v]
         /\ held'[v] = held[v]) => SessionAt(v)' /\ HeldAt(v)'
    BY <1>2, <1>3 DEF SessionAt, HeldAt, A!RefreshRow
  <1> USE DEF TInv, TypeOK, A!TypeOK
  <1>5. ASSUME NEW w \in Workers, NEW b \in Bodies, NEW c \in {NoCred} \cup held[w],
               Call(w, b, c)
        PROVE  SessionAt(v)' /\ HeldAt(v)'
    BY <1>4, <1>5 DEF Call, authVars
  <1>6. ASSUME NEW w \in Workers, Intercept(w) \/ Finish(w)
        PROVE  SessionAt(v)' /\ HeldAt(v)'
    BY <1>4, <1>6 DEF Intercept, Finish, authVars
  <1>7. ASSUME NEW w \in Workers, Validate(w)
        PROVE  SessionAt(v)' /\ HeldAt(v)'
    <2>1. CASE w = v /\ ValidRequest(call[w].body)
      <3>1. ServiceReq(call[w].body).op \in {"register", "login", "isadmin"}
        BY <2>1, ServiceReqType DEF Bodies
      <3>2. pc'[v] # "done" /\ held'[v] = held[v] /\ refreshRows' = refreshRows
        BY <1>7, <2>1, <3>1 DEF Validate, A!Start, A!FirstStep
      <3>3. QED
        BY <1>3, <3>2 DEF SessionAt, HeldAt
    <2>2. CASE ~(w = v /\ ValidRequest(call[w].body))
      BY <1>4, <1>7, <2>2 DEF Validate, A!Start, authVars
    <2>3. QED
      BY <2>1, <2>2
  <1>8. ASSUME NEW w \in Workers, Serve(w)
        PROVE  SessionAt(v)' /\ HeldAt(v)'
    <2>1. CASE w = v
      <3>1. SessionAt(v)'
        BY <1>8, <2>1, ServeSession
      <3>2. HeldAt(v)'
        BY <1>2, <1>3, <1>8, ServeFrame DEF HeldAt
      <3>3. QED
        BY <3>1, <3>2
    <2>2. CASE w # v
      BY <1>4, <1>8, <2>2, ServeFrame
    <2>3. QED
      BY <2>1, <2>2
  <1>9. ASSUME NEW w \in Workers, Respond(w)
        PROVE  SessionAt(v)' /\ HeldAt(v)'
    <2>1. CASE w = v
      <3> DEFINE tok == NewToken(req[v].email, req[v].app, AccessTTL, 0)
      <3>1. SessionAt(v)'
        BY <1>9, <2>1 DEF Respond, A!Finish, SessionAt
      <3>2. refreshRows' = refreshRows
        BY <1>9 DEF Respond, A!Finish
      <3>3. req[v].op = "login" /\ reply[v] = "ok" =>
              <<tok.uid, tok.app>> \in refreshRows
        BY <1>3, <1>9, <2>1 DEF Respond, SessionAt, A!RefreshRow, NewToken
      <3>4. held'[v] \subseteq held[v] \cup {tok}
        BY <1>9, <2>1 DEF Respond
      <3>5. held'[v] # held[v] => req[v].op = "login" /\ reply[v] = "ok"
        BY <1>9, <2>1 DEF Respond
      <3>6. HeldAt(v)'
        BY <1>3, <3>2, <3>3, <3>4, <3>5 DEF HeldAt
      <3>7. QED
        BY <3>1, <3>6
    <2>2. CASE w # v
      BY <1>4, <1>9, <2>2 DEF Respond, A!Finish
    <2>3. QED
      BY <2>1, <2>2
  <1>10. CASE UNCHANGED vars
    BY <1>4, <1>10 DEF vars, authVars
  <1>11. QED
    BY <1>5, <1>6, <1>7, <1>8, <1>9, <1>10 DEF Next

\* Spec 4.2, for every instance: every access token a client holds that
\* this service issued (Login's handler returned it) names a user and app
\* whose refresh token is saved in the database, whatever calls of other
\* clients ran in between and whichever database calls failed.
THEOREM SessionsDurable == Spec => []HeldSessionsDurable
  <1>1. HInv => HeldSessionsDurable
    BY DEF HInv, HeldAt, HeldSessionsDurable
  <1>2. QED
    BY <1>1, HInvInit, HInvStep, PTL DEF Spec

=============================================================================
