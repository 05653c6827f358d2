------------------------------ MODULE AuthProofs ------------------------------
(* Machine-checked proofs about Auth, for every value of the constants that *)
(* AuthAssumption allows.                                                  *)
EXTENDS Auth, TLAPS

\* Each step of a call belongs to the service method its request names:
\* Register's hash, check and insert, Login's user, app and save, IsAdmin's
\* admin. Start picks the first step from the request's op, and each later
\* step only follows one of the same method.
StepMatchesOp ==
    \A w \in Workers :
        /\ pc[w] \in {"hash", "check", "insert"} => req[w].op = "register"
        /\ pc[w] \in {"user", "app", "save"} => req[w].op = "login"
        /\ pc[w] = "admin" => req[w].op = "isadmin"

\* The inductive invariant behind TypeOK: what SaveRefresh writes is a pair
\* of an email and an app only because a call at step "save" is a Login.
TInv == TypeOK /\ StepMatchesOp

-----------------------------------------------------------------------------
(* Requests.                                                               *)

\* What a request carries, by its op.
LEMMA RequestFields ==
    ASSUME NEW r \in Requests
    PROVE  /\ r.op \in {"register", "login", "isadmin"}
           /\ r.email \in Emails
           /\ r.op = "register" => r.pass \in Passwords
           /\ r.op = "login" => r.pass \in Passwords /\ r.app \in Apps
  BY DEF Requests

LEMMA NoReqType == NoReq \in Requests
  <1>1. PICK e \in Emails, p \in Passwords : TRUE
    BY AuthAssumption
  <1>2. QED
    BY <1>1 DEF NoReq, Requests

\* A password is never the NoUser marker, so a hash read for a missing user
\* never equals the password of the request.
LEMMA NoUserIsNoPassword == NoUser \notin Passwords
  BY AuthAssumption DEF NoUser

-----------------------------------------------------------------------------
(* Type correctness.                                                       *)

LEMMA TInvInit == Init => TInv
  BY NoReqType DEF Init, TInv, TypeOK, StepMatchesOp, Replies, Steps

LEMMA TInvStep == TInv /\ [Next]_vars => TInv'
  <1> SUFFICES ASSUME TInv, [Next]_vars PROVE TInv'
    OBVIOUS
  <1> USE DEF TInv, TypeOK
  <1>1. ASSUME NEW w \in Workers, NEW r \in Requests, Start(w, r)
        PROVE  TInv'
    <2>1. r.op \in {"register", "login", "isadmin"}
      BY RequestFields
    <2>2. FirstStep[r.op] \in Steps
      BY <2>1 DEF FirstStep, Steps
    <2>3. StepMatchesOp'
      BY <1>1, <2>1 DEF Start, StepMatchesOp, FirstStep
    <2>4. QED
      BY <1>1, <2>2, <2>3 DEF Start
  <1>2. ASSUME NEW w \in Workers, HashPassword(w)
        PROVE  TInv'
    BY <1>2 DEF HashPassword, Goto, Return, StepMatchesOp, Steps, Replies
  <1>3. ASSUME NEW w \in Workers, NEW up \in BOOLEAN, CheckExists(w, up)
        PROVE  TInv'
    BY <1>3 DEF CheckExists, Goto, Return, Fault, StepMatchesOp, Steps, Replies
  <1>4. ASSUME NEW w \in Workers, NEW up \in BOOLEAN, InsertUser(w, up)
        PROVE  TInv'
    <2>1. req[w].op = "register"
      BY <1>4 DEF InsertUser, StepMatchesOp
    <2>2. req[w].pass \in Passwords /\ req[w].email \in Emails
      BY <2>1, RequestFields
    <2>3. QED
      BY <1>4, <2>2 DEF InsertUser, Return, Fault, StepMatchesOp, Steps, Replies
  <1>5. ASSUME NEW w \in Workers, NEW up \in BOOLEAN, LookupUser(w, up)
        PROVE  TInv'
    <2>1. req[w].email \in Emails
      BY RequestFields
    <2>2. users[req[w].email] \in Passwords \cup {NoUser}
      BY <2>1
    <2>3. QED
      BY <1>5, <2>2 DEF LookupUser, Goto, Return, Fault, StepMatchesOp, Steps,
                        Replies, NotFoundErrors
  <1>6. ASSUME NEW w \in Workers, NEW up \in BOOLEAN, LookupApp(w, up)
        PROVE  TInv'
    BY <1>6 DEF LookupApp, Goto, Return, Fault, StepMatchesOp, Steps, Replies
  <1>7. ASSUME NEW w \in Workers, NEW up \in BOOLEAN, SaveRefresh(w, up)
        PROVE  TInv'
    <2>1. req[w].op = "login"
      BY <1>7 DEF SaveRefresh, StepMatchesOp
    <2>2. RefreshRow(w) \in Emails \X Apps
      BY <2>1, RequestFields DEF RefreshRow
    <2>3. QED
      BY <1>7, <2>2 DEF SaveRefresh, Return, Fault, StepMatchesOp, Steps, Replies
  <1>8. ASSUME NEW w \in Workers, NEW up \in BOOLEAN, IsUsrAdmin(w, up)
        PROVE  TInv'
    BY <1>8 DEF IsUsrAdmin, Return, Fault, StepMatchesOp, Steps, Replies,
                NoAdminRowErrors
  <1>9. ASSUME NEW w \in Workers, Finish(w)
        PROVE  TInv'
    BY <1>9, NoReqType DEF Finish, StepMatchesOp, Steps, Replies
  <1>10. CASE UNCHANGED vars
    BY <1>10 DEF vars, StepMatchesOp
  <1>11. QED
    BY <1>1, <1>2, <1>3, <1>4, <1>5, <1>6, <1>7, <1>8, <1>9, <1>10 DEF Next

\* The Auth model stays well typed for every instance: in particular, the
\* rows SaveRefresh writes are (email, app) pairs.
THEOREM TypeCorrect == Spec => []TypeOK
  <1>1. Spec => []TInv
    BY TInvInit, TInvStep, PTL DEF Spec
  <1>2. QED
    BY <1>1, PTL DEF TInv

-----------------------------------------------------------------------------
(* Every access token has its refresh row.                                 *)

\* The saved refresh rows only grow: no step deletes one.
LEMMA RowsGrow == [Next]_vars => refreshRows \subseteq refreshRows'
  BY DEF Next, vars, Start, HashPassword, CheckExists, InsertUser, LookupUser,
         LookupApp, SaveRefresh, IsUsrAdmin, Finish

\* The inductive invariant behind SessionHasRefresh: it holds with TInv,
\* which tells that a call at step "save" is a Login.
SInv == TInv /\ SessionHasRefresh

LEMMA SInvStep == SInv /\ [Next]_vars => SInv'
  <1> SUFFICES ASSUME TInv, SessionHasRefresh, [Next]_vars
               PROVE  TInv' /\ SessionHasRefresh'
    BY DEF SInv
  <1>1. TInv'
    BY TInvStep
  <1>2. refreshRows \subseteq refreshRows'
    BY RowsGrow
  <1> SUFFICES ASSUME NEW v \in Workers, pc'[v] = "done", req'[v].op = "login",
                      reply'[v] = "ok"
               PROVE  RefreshRow(v)' \in refreshRows'
    BY <1>1 DEF SessionHasRefresh
  <1> USE DEF TInv, TypeOK
  <1>3. ASSUME NEW w \in Workers, NEW r \in Requests, Start(w, r)
        PROVE  RefreshRow(v)' \in refreshRows'
    <2>1. CASE w = v
      BY <1>3, <2>1 DEF Start, FirstStep
    <2>2. CASE w # v
      BY <1>3, <2>2, <1>2 DEF Start, SessionHasRefresh, RefreshRow
    <2>3. QED
      BY <2>1, <2>2
  <1>4. ASSUME NEW w \in Workers, HashPassword(w)
               \/ \E up \in BOOLEAN : CheckExists(w, up) \/ InsertUser(w, up)
        PROVE  RefreshRow(v)' \in refreshRows'
    <2>1. CASE w = v
      BY <1>4, <2>1 DEF HashPassword, CheckExists, InsertUser, Goto, Return,
                        StepMatchesOp
    <2>2. CASE w # v
      BY <1>4, <2>2, <1>2 DEF HashPassword, CheckExists, InsertUser, Goto,
                              Return, Fault, SessionHasRefresh, RefreshRow
    <2>3. QED
      BY <2>1, <2>2
  <1>5. ASSUME NEW w \in Workers, NEW up \in BOOLEAN,
               LookupUser(w, up) \/ LookupApp(w, up) \/ IsUsrAdmin(w, up)
        PROVE  RefreshRow(v)' \in refreshRows'
    <2>1. CASE w = v
      BY <1>5, <2>1 DEF LookupUser, LookupApp, IsUsrAdmin, Goto, Return,
                        NotFoundErrors, NoAdminRowErrors, StepMatchesOp
    <2>2. CASE w # v
      BY <1>5, <2>2, <1>2 DEF LookupUser, LookupApp, IsUsrAdmin, Goto, Return,
                              Fault, SessionHasRefresh, RefreshRow
    <2>3. QED
      BY <2>1, <2>2
  <1>6. ASSUME NEW w \in Workers, NEW up \in BOOLEAN, SaveRefresh(w, up)
        PROVE  RefreshRow(v)' \in refreshRows'
    <2>1. CASE w = v
      <3>1. up /\ ~RepoAsWritten
        BY <1>6, <2>1 DEF SaveRefresh, Return, SaveRefreshErr
      <3>2. QED
        BY <1>6, <2>1, <3>1 DEF SaveRefresh, RefreshRow
    <2>2. CASE w # v
      BY <1>6, <2>2, <1>2 DEF SaveRefresh, Return, Fault, SessionHasRefresh,
                              RefreshRow
    <2>3. QED
      BY <2>1, <2>2
  <1>7. ASSUME NEW w \in Workers, Finish(w)
        PROVE  RefreshRow(v)' \in refreshRows'
    <2>1. CASE w = v
      BY <1>7, <2>1 DEF Finish
    <2>2. CASE w # v
      BY <1>7, <2>2 DEF Finish, SessionHasRefresh, RefreshRow
    <2>3. QED
      BY <2>1, <2>2
  <1>8. CASE UNCHANGED vars
    BY <1>8 DEF vars, SessionHasRefresh, RefreshRow
  <1>9. QED
    BY <1>3, <1>4, <1>5, <1>6, <1>7, <1>8 DEF Next

\* Spec 4.2, for every instance: a Login that returned an access token for
\* (email, app) has that user's refresh token for the app saved (Login
\* signs the access token only after SaveRefresh has returned nil).
THEOREM SessionSound == Spec => []SessionHasRefresh
  <1>1. Init => SInv
    BY TInvInit DEF Init, SInv, SessionHasRefresh
  <1>2. QED
    BY <1>1, SInvStep, PTL DEF Spec, SInv

-----------------------------------------------------------------------------
(* A registered user logs in.                                              *)

\* The inductive invariant behind LoginSucceeds: it holds with TInv, which
\* tells that the calls at Login's steps are Logins with a password.
LInv == TInv /\ LoginSucceeds

LEMMA LInvStep ==
    ASSUME ~RepoAsWritten
    PROVE  LInv /\ [Next]_vars => LInv'
  <1> SUFFICES ASSUME TInv, LoginSucceeds, [Next]_vars
               PROVE  TInv' /\ LoginSucceeds'
    BY DEF LInv
  <1>1. TInv'
    BY TInvStep
  <1> SUFFICES ASSUME NEW v \in Workers, pc'[v] = "done", req'[v].op = "login",
                      ~faulted'[v], hash'[v] = req'[v].pass, req'[v].app \in AppRows
               PROVE  reply'[v] = "ok"
    BY <1>1 DEF LoginSucceeds
  <1> USE DEF TInv, TypeOK
  \* The steps of a call that is not v's leave v's call as it was.
  <1> DEFINE Same == /\ pc'[v] = pc[v] /\ req'[v] = req[v] /\ hash'[v] = hash[v]
                     /\ faulted'[v] = faulted[v] /\ reply'[v] = reply[v]
  <1>2. Same => reply'[v] = "ok"
    BY DEF LoginSucceeds
  <1>3. ASSUME NEW w \in Workers, NEW r \in Requests, Start(w, r)
        PROVE  reply'[v] = "ok"
    <2>1. CASE w = v
      BY <1>3, <2>1 DEF Start, FirstStep
    <2>2. CASE w # v
      BY <1>3, <2>2, <1>2 DEF Start
    <2>3. QED
      BY <2>1, <2>2
  <1>4. ASSUME NEW w \in Workers, HashPassword(w)
               \/ \E up \in BOOLEAN : CheckExists(w, up) \/ InsertUser(w, up)
                                       \/ IsUsrAdmin(w, up)
        PROVE  reply'[v] = "ok"
    <2>1. CASE w = v
      BY <1>4, <2>1 DEF HashPassword, CheckExists, InsertUser, IsUsrAdmin, Goto,
                        Return, StepMatchesOp
    <2>2. CASE w # v
      BY <1>4, <2>2, <1>2 DEF HashPassword, CheckExists, InsertUser, IsUsrAdmin,
                              Goto, Return, Fault
    <2>3. QED
      BY <2>1, <2>2
  <1>5. ASSUME NEW w \in Workers, NEW up \in BOOLEAN, LookupUser(w, up)
        PROVE  reply'[v] = "ok"
    <2>1. CASE w = v
      \* Every outcome that ends the call at this step contradicts the
      \* hypotheses: a failed query is a fault, a missing user leaves the
      \* hash NoUser, which is no password, and a mismatch is a mismatch.
      <3>1. req[v].pass \in Passwords
        BY <1>5, <2>1, RequestFields DEF LookupUser, StepMatchesOp
      <3>2. up
        BY <1>5, <2>1 DEF LookupUser, Fault
      <3>3. hash'[v] = users[req[v].email]
        BY <1>5, <2>1, <3>2 DEF LookupUser
      <3>4. users[req[v].email] # NoUser
        BY <1>5, <2>1, <3>1, <3>3, NoUserIsNoPassword DEF LookupUser
      <3>5. PasswordMatches(users[req[v].email], req[v].pass)
        BY <1>5, <2>1, <3>3 DEF LookupUser, PasswordMatches
      <3>6. pc'[v] = "app"
        BY <1>5, <2>1, <3>2, <3>4, <3>5 DEF LookupUser, Goto
      <3>7. QED
        BY <3>6
    <2>2. CASE w # v
      BY <1>5, <2>2, <1>2 DEF LookupUser, Goto, Return, Fault
    <2>3. QED
      BY <2>1, <2>2
  <1>6. ASSUME NEW w \in Workers, NEW up \in BOOLEAN, LookupApp(w, up)
        PROVE  reply'[v] = "ok"
    <2>1. CASE w = v
      <3>1. up
        BY <1>6, <2>1 DEF LookupApp, Fault
      <3>2. pc'[v] = "save"
        BY <1>6, <2>1, <3>1 DEF LookupApp, Goto
      <3>3. QED
        BY <3>2
    <2>2. CASE w # v
      BY <1>6, <2>2, <1>2 DEF LookupApp, Goto, Return, Fault
    <2>3. QED
      BY <2>1, <2>2
  <1>7. ASSUME NEW w \in Workers, NEW up \in BOOLEAN, SaveRefresh(w, up)
        PROVE  reply'[v] = "ok"
    <2>1. CASE w = v
      <3>1. up
        BY <1>7, <2>1 DEF SaveRefresh, Fault
      <3>2. QED
        BY <1>7, <2>1, <3>1 DEF SaveRefresh, SaveRefreshErr, Return
    <2>2. CASE w # v
      BY <1>7, <2>2, <1>2 DEF SaveRefresh, Return, Fault
    <2>3. QED
      BY <2>1, <2>2
  <1>8. ASSUME NEW w \in Workers, Finish(w)
        PROVE  reply'[v] = "ok"
    <2>1. CASE w = v
      BY <1>8, <2>1 DEF Finish
    <2>2. CASE w # v
      BY <1>8, <2>2, <1>2 DEF Finish
    <2>3. QED
      BY <2>1, <2>2
  <1>9. CASE UNCHANGED vars
    BY <1>9, <1>2 DEF vars
  <1>10. QED
    BY <1>3, <1>4, <1>5, <1>6, <1>7, <1>8, <1>9 DEF Next

-----------------------------------------------------------------------------
(* What Login does, for both values of RepoAsWritten.                      *)

\* No Login call has returned an access token.
NoLoginSucceeds ==
    \A w \in Workers : ~(pc[w] = "done" /\ req[w].op = "login" /\ reply[w] = "ok")

\* As written, SaveRefresh never inserts: refresh rows never change.
LEMMA RowsFixed ==
    ASSUME RepoAsWritten
    PROVE  [Next]_vars => refreshRows' = refreshRows
  <1> SUFFICES ASSUME [Next]_vars PROVE refreshRows' = refreshRows
    OBVIOUS
  <1>1. ASSUME NEW w \in Workers, NEW up \in BOOLEAN, SaveRefresh(w, up)
        PROVE  refreshRows' = refreshRows
    BY <1>1 DEF SaveRefresh
  <1>2. QED
    BY <1>1 DEF Next, vars, Start, HashPassword, Finish, CheckExists,
                InsertUser, LookupUser, LookupApp, IsUsrAdmin

\* Spec 8 against the code, for every instance. With the repository as
\* written, App's Scan (two columns into three destinations) and
\* saveRefreshQuery (a stray ')') fail on every call, and no Login ever
\* returns an access token. With repository methods that keep the
\* contracts of spec section 1 (those queries repaired, and a missing row
\* reported as storage.ErrUserNotFound), a Login that met no database
\* error, found its user with the password it was given and names an app
\* of the apps table returns one (LoginSucceeds).
THEOREM LoginSound ==
    Spec => [](IF RepoAsWritten THEN NoLoginSucceeds ELSE LoginSucceeds)
  <1>1. CASE RepoAsWritten
    <2> DEFINE RInv == SInv /\ refreshRows = {}
    <2>1. Init => RInv
      BY TInvInit DEF Init, SInv, SessionHasRefresh
    <2>2. RInv /\ [Next]_vars => RInv'
      BY <1>1, SInvStep, RowsFixed
    <2>3. RInv => IF RepoAsWritten THEN NoLoginSucceeds ELSE LoginSucceeds
      BY <1>1 DEF SInv, SessionHasRefresh, NoLoginSucceeds
    <2>4. QED
      BY <2>1, <2>2, <2>3, PTL DEF Spec
  <1>2. CASE ~RepoAsWritten
    <2>1. Init => LInv
      BY TInvInit DEF Init, LInv, LoginSucceeds
    <2>2. LInv /\ [Next]_vars => LInv'
      BY <1>2, LInvStep
    <2>3. LInv => IF RepoAsWritten THEN NoLoginSucceeds ELSE LoginSucceeds
      BY <1>2 DEF LInv
    <2>4. QED
      BY <2>1, <2>2, <2>3, PTL DEF Spec
  <1>3. QED
    BY <1>1, <1>2

=============================================================================
