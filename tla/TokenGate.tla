------------------------------ MODULE TokenGate ------------------------------
(***************************************************************************)
(* The request gate of the SSO service: the unary auth interceptor of      *)
(* src/internal/interceptors/middlware.go in front of every RPC, the JWT   *)
(* validation it calls (lib/jwt/jwt.go ValidateToken) and the tokens Login *)
(* mints (jwt.go NewToken).                                                *)
(*                                                                         *)
(* The tokens and their check are those of module Jwt. Clients present    *)
(* the tokens Login issued and any token of a small set made by others,   *)
(* with any secret, algorithm, uid type and expiry.                        *)
(***************************************************************************)
EXTENDS Jwt

CONSTANT Workers    \* concurrent gRPC calls

ASSUME GateAssumption == Workers # {}

\* The metadata a call may arrive with: none, none under "authorization",
\* or a token there.
NoMD == [kind |-> "none"]
NoAuth == [kind |-> "noauth"]
Bearer(t) == [kind |-> "token", tok |-> t]
Metadata == {NoMD, NoAuth} \cup {Bearer(t) : t \in Tokens}

VARIABLES
    now,      \* the clock, in ticks
    issued,   \* tokens Login has returned or saved
    pc,       \* worker -> "idle" | "gate" | "handler" | "rejected"
    md,       \* worker -> the metadata its call carries
    ctxUid    \* worker -> the user id the interceptor put in the context

vars == <<now, issued, pc, md, ctxUid>>

NoUid == "none"

TypeOK ==
    /\ now \in 0..MaxTime
    /\ issued \subseteq Tokens
    /\ pc \in [Workers -> {"idle", "gate", "handler", "rejected"}]
    /\ md \in [Workers -> Metadata]
    /\ ctxUid \in [Workers -> Users \cup {NoUid}]

-----------------------------------------------------------------------------
Init ==
    /\ now = 0
    /\ issued = {}
    /\ pc = [w \in Workers |-> "idle"]
    /\ md = [w \in Workers |-> NoMD]
    /\ ctxUid = [w \in Workers |-> NoUid]

\* A Login that gets past its checks signs a refresh and an access token.
Issue(u, a) ==
    /\ issued' = issued \cup {NewToken(u, a, ttl, now) : ttl \in TokenTTLs}
    /\ UNCHANGED <<now, pc, md, ctxUid>>

\* A call arrives with some metadata.
Arrive(w, m) ==
    /\ pc[w] = "idle"
    /\ pc' = [pc EXCEPT ![w] = "gate"]
    /\ md' = [md EXCEPT ![w] = m]
    /\ UNCHANGED <<now, issued, ctxUid>>

\* Slip: the error of ValidateToken tested the wrong way round
\* (if err == nil { return Unauthenticated }).
GateErrInverted(w) ==
    LET m == md[w] IN
    /\ pc[w] = "gate"
    /\ IF m.kind = "token" /\ ~Validates(m.tok, now)
         THEN /\ pc' = [pc EXCEPT ![w] = "handler"]
              /\ ctxUid' = [ctxUid EXCEPT ![w] = m.tok.uid]
         ELSE /\ pc' = [pc EXCEPT ![w] = "rejected"]
              /\ UNCHANGED ctxUid
    /\ UNCHANGED <<now, issued, md>>

\* UnaryAuthInterceptor: no metadata, no "authorization" entry, or a token
\* that fails ValidateToken is Unauthenticated; otherwise the user id goes
\* into the context under UserIDKey and the handler runs.
Gate(w) ==
    LET m == md[w] IN
    /\ pc[w] = "gate"
    /\ IF m.kind = "token" /\ Validates(m.tok, now)
         THEN /\ pc' = [pc EXCEPT ![w] = "handler"]
              /\ ctxUid' = [ctxUid EXCEPT ![w] = m.tok.uid]
         ELSE /\ pc' = [pc EXCEPT ![w] = "rejected"]
              /\ UNCHANGED ctxUid
    /\ UNCHANGED <<now, issued, md>>

\* The call returns; its context is discarded.
Finish(w) ==
    /\ pc[w] \in {"handler", "rejected"}
    /\ pc' = [pc EXCEPT ![w] = "idle"]
    /\ md' = [md EXCEPT ![w] = NoMD]
    /\ ctxUid' = [ctxUid EXCEPT ![w] = NoUid]
    /\ UNCHANGED <<now, issued>>

Tick ==
    /\ now < MaxTime
    /\ now' = now + 1
    /\ UNCHANGED <<issued, pc, md, ctxUid>>

Next ==
    \/ \E u \in Users, a \in Apps : Issue(u, a)
    \/ \E w \in Workers :
         \/ \E m \in {NoMD, NoAuth} \cup {Bearer(t) : t \in issued \cup Foreign} :
              Arrive(w, m)
         \/ Gate(w)
         \/ Finish(w)
    \/ Tick

Spec == Init /\ [][Next]_vars

-----------------------------------------------------------------------------
(* Properties.                                                             *)

\* Spec 8: "Validate(Issue(user, app, ttl)) returns the same subject id as
\* user's id, for any ttl > 0": every token Login issued that has not
\* expired passes ValidateToken.
IssuedTokensValidate ==
    \A t \in issued : now < t.exp => Validates(t, now)

-----------------------------------------------------------------------------
(* Refinement of the abstract gate.                                        *)

\* The credential of w's call is acceptable when it is a token that passes
\* ValidateToken at the current tick; its subject is the token's uid.
CallValid(w) == md[w].kind = "token" /\ Validates(md[w].tok, now)
CallSubject(w) == IF md[w].kind = "token" THEN md[w].tok.uid ELSE NoUid
ValidMap == [w \in Workers |-> CallValid(w)]
SubjMap == [w \in Workers |-> CallSubject(w)]

AG == INSTANCE AGate WITH apc <- pc, valid <- ValidMap, subj <- SubjMap,
                          ctx <- ctxUid

\* Spec 4.4, both ways: the interceptor hands a call to its handler exactly
\* when its token validates at that moment, with the token's subject in the
\* context, rejects it otherwise, and a waiting call's token can only lose
\* validity as the clock advances (ValidateToken's checks are monotone in
\* time).
GateImplementsAGate == AG!ASpec

=============================================================================
