--------------------------- MODULE TokenGateProofs ---------------------------
(***************************************************************************)
(* Proofs about the request gate, for every choice of users, apps,         *)
(* secrets, workers, access lifetime and clock bound that JwtAssumption    *)
(* allows.                                                                 *)
(***************************************************************************)
EXTENDS TokenGate, TLAPS

\* A token NewToken signs at any tick of the clock is a token of the model:
\* its expiry is at most MaxTime plus the refresh lifetime.
LEMMA NewTokenType ==
    ASSUME NEW u \in Users, NEW a \in Apps, NEW ttl \in TokenTTLs,
           NEW n \in 0..MaxTime
    PROVE  NewToken(u, a, ttl, n) \in Tokens
<1>1. n + ttl \in 0..(MaxTime + 400 * AccessTTL)
  BY JwtAssumption DEF TokenTTLs
<1>2. IssuerSecret \in Secrets
  BY JwtAssumption
<1>. QED BY <1>1, <1>2 DEF NewToken, Tokens

\* The initial state is well typed.
LEMMA TypeInit == Init => TypeOK
BY JwtAssumption DEF Init, TypeOK, Metadata, NoMD

\* Every step of the gate keeps the state well typed: in particular every
\* metadata a call arrives with is one of the model's, and the subject the
\* interceptor puts in the context is a user id.
LEMMA TypeStep == TypeOK /\ [Next]_vars => TypeOK'
<1> SUFFICES ASSUME TypeOK, [Next]_vars PROVE TypeOK'
  OBVIOUS
<1>1. CASE \E u \in Users, a \in Apps : Issue(u, a)
  <2>1. PICK u \in Users, a \in Apps : Issue(u, a)
    BY <1>1
  <2>2. \A ttl \in TokenTTLs : NewToken(u, a, ttl, now) \in Tokens
    BY NewTokenType DEF TypeOK
  <2>. QED BY <2>1, <2>2 DEF Issue, TypeOK
<1>2. ASSUME NEW w \in Workers,
             NEW m \in {NoMD, NoAuth} \cup {Bearer(t) : t \in issued \cup Foreign},
             Arrive(w, m)
      PROVE  TypeOK'
  <2>1. m \in Metadata
    BY DEF Metadata, Foreign, TypeOK
  <2>. QED BY <1>2, <2>1 DEF Arrive, TypeOK
<1>3. ASSUME NEW w \in Workers, Gate(w) PROVE TypeOK'
  <2>1. md[w].kind = "token" => md[w].tok.uid \in Users
    BY DEF TypeOK, Metadata, NoMD, NoAuth, Bearer, Tokens
  <2>. QED BY <1>3, <2>1 DEF Gate, TypeOK
<1>4. ASSUME NEW w \in Workers, Finish(w) PROVE TypeOK'
  BY <1>4 DEF Finish, TypeOK, Metadata, NoUid
<1>5. CASE Tick
  BY <1>5, JwtAssumption DEF Tick, TypeOK
<1>6. CASE UNCHANGED vars
  BY <1>6 DEF vars, TypeOK
<1>. QED BY <1>1, <1>2, <1>3, <1>4, <1>5, <1>6 DEF Next

\* The gate's state stays well typed in every behaviour.
THEOREM TypeCorrect == Spec => []TypeOK
BY TypeInit, TypeStep, PTL DEF Spec

-----------------------------------------------------------------------------
(* Refinement of the abstract gate AGate.                                  *)

\* ValidateToken's verdict can only go from TRUE to FALSE as the clock
\* advances: every check but the expiry ignores the clock.
LEMMA ValidatesMonotone ==
    ASSUME NEW t \in Tokens, NEW n \in Nat
    PROVE  Validates(t, n + 1) => Validates(t, n)
BY DEF Validates, NotExpired, Tokens

\* The mapped initial state is the abstract one: no call carries a token.
LEMMA RefInit == Init => AG!AInit
<1> SUFFICES ASSUME Init PROVE AG!AInit
  OBVIOUS
<1>1. \A w \in Workers : md[w].kind = "none"
  BY DEF Init, NoMD
<1>2. ValidMap = [w \in Workers |-> FALSE]
  BY <1>1 DEF ValidMap, CallValid
<1>3. SubjMap = [w \in Workers |-> NoUid]
  BY <1>1 DEF SubjMap, CallSubject
<1>. QED BY <1>2, <1>3 DEF Init, AG!AInit

\* The mapped state, read off the metadata and the clock.
LEMMA MapFacts ==
    /\ ValidMap \in [Workers -> BOOLEAN]
    /\ \A w \in Workers : ValidMap[w] = (md[w].kind = "token" /\ Validates(md[w].tok, now))
    /\ \A w \in Workers : SubjMap[w] = IF md[w].kind = "token" THEN md[w].tok.uid ELSE NoUid
    /\ DOMAIN SubjMap = Workers
BY DEF ValidMap, SubjMap, CallValid, CallSubject

\* Every step of the gate is a step of the abstract gate or leaves the
\* mapped state alone.
LEMMA RefStep == TypeOK /\ TypeOK' /\ [Next]_vars => [AG!ANext]_AG!avars
<1> SUFFICES ASSUME TypeOK, TypeOK', [Next]_vars PROVE [AG!ANext]_AG!avars
  OBVIOUS
<1>0. MapFacts /\ MapFacts'
  BY MapFacts, PTL
<1>1. CASE \E u \in Users, a \in Apps : Issue(u, a)
  <2>1. ValidMap' = ValidMap /\ SubjMap' = SubjMap
    BY <1>1 DEF Issue, ValidMap, SubjMap, CallValid, CallSubject
  <2>. QED BY <1>1, <2>1 DEF Issue, AG!avars
<1>2. ASSUME NEW w \in Workers, NEW m, Arrive(w, m) PROVE AG!ANext
  <2>1. ValidMap'[w] => SubjMap'[w] \in Users
    BY <1>0, <1>2 DEF Arrive, TypeOK, Metadata, NoMD, NoAuth, Bearer, Tokens
  <2>2. SubjMap'[w] \in Users \cup {NoUid}
    BY <1>0, <1>2 DEF Arrive, TypeOK, Metadata, NoMD, NoAuth, Bearer, Tokens
  <2>3. ValidMap' = [ValidMap EXCEPT ![w] = ValidMap'[w]]
    BY <1>2 DEF Arrive, TypeOK, ValidMap, CallValid
  <2>4. SubjMap' = [SubjMap EXCEPT ![w] = SubjMap'[w]]
    BY <1>2 DEF Arrive, TypeOK, SubjMap, CallSubject
  <2>5. AG!Present(w, ValidMap'[w], SubjMap'[w])
    BY <1>2, <2>1, <2>3, <2>4 DEF Arrive, AG!Present
  <2>. QED BY <1>0, <2>2, <2>5 DEF AG!ANext
<1>3. ASSUME NEW w \in Workers, Gate(w) PROVE AG!ANext
  <2>1. ValidMap' = ValidMap /\ SubjMap' = SubjMap
    BY <1>3 DEF Gate, ValidMap, SubjMap, CallValid, CallSubject
  <2>2. CASE ValidMap[w]
    <3>1. AG!Admit(w)
      BY <1>0, <1>3, <2>1, <2>2 DEF Gate, AG!Admit, TypeOK
    <3>. QED BY <3>1 DEF AG!ANext
  <2>3. CASE ~ValidMap[w]
    <3>1. AG!Reject(w)
      BY <1>0, <1>3, <2>1, <2>3 DEF Gate, AG!Reject, TypeOK
    <3>. QED BY <3>1 DEF AG!ANext
  <2>. QED BY <2>2, <2>3
<1>4. ASSUME NEW w \in Workers, Finish(w) PROVE AG!ANext
  <2>1. ValidMap' = [ValidMap EXCEPT ![w] = FALSE]
    BY <1>4 DEF Finish, TypeOK, NoMD, ValidMap, CallValid
  <2>2. SubjMap' = [SubjMap EXCEPT ![w] = NoUid]
    BY <1>4 DEF Finish, TypeOK, NoMD, SubjMap, CallSubject
  <2>3. AG!Done(w)
    BY <1>4, <2>1, <2>2 DEF Finish, AG!Done
  <2>. QED BY <2>3 DEF AG!ANext
<1>5. CASE Tick
  <2>1. \A w \in Workers : ValidMap'[w] => ValidMap[w]
    <3> SUFFICES ASSUME NEW w \in Workers, ValidMap'[w] PROVE ValidMap[w]
      OBVIOUS
    <3>1. md[w].kind = "token" /\ md[w].tok \in Tokens
      BY <1>0, <1>5 DEF Tick, TypeOK, Metadata, NoMD, NoAuth, Bearer
    <3>2. now \in Nat /\ now' = now + 1
      BY <1>5 DEF Tick, TypeOK
    <3>. QED BY <1>0, <1>5, <3>1, <3>2, ValidatesMonotone DEF Tick
  <2>2. SubjMap' = SubjMap
    BY <1>5 DEF Tick, SubjMap, CallSubject
  <2>3. AG!Expire
    BY <1>0, <1>5, <2>1, <2>2 DEF Tick, AG!Expire
  <2>. QED BY <2>3 DEF AG!ANext
<1>6. CASE UNCHANGED vars
  <2>1. ValidMap' = ValidMap /\ SubjMap' = SubjMap
    BY <1>6 DEF vars, ValidMap, SubjMap, CallValid, CallSubject
  <2>. QED BY <1>6, <2>1 DEF vars, AG!avars
<1>. QED BY <1>1, <1>2, <1>3, <1>4, <1>5, <1>6 DEF Next

\* Spec 4.4 in full, for every instance: the gate implements the abstract
\* gate under the mapping that reads a call's acceptability off its token
\* and the clock.
THEOREM GateRefinesAGate == Spec => GateImplementsAGate
<1>1. TypeOK /\ TypeOK' /\ [Next]_vars => [AG!ANext]_AG!avars
  BY RefStep
<1>. QED BY <1>1, RefInit, TypeCorrect, PTL DEF Spec, GateImplementsAGate, AG!ASpec

=============================================================================
