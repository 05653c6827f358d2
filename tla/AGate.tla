-------------------------------- MODULE AGate --------------------------------
(***************************************************************************)
(* What the request gate promises, without tokens (spec 2 and 4.4): a call *)
(* presents a credential that is acceptable or not; an acceptable one lets *)
(* the call reach its handler with the credential's subject in the context *)
(* and an unacceptable one ends the call before any handler runs. A        *)
(* credential can stop being acceptable while calls wait (it expires) but  *)
(* never becomes acceptable later.                                         *)
(***************************************************************************)
CONSTANTS
    Workers,    \* concurrent calls
    Users,      \* subjects a credential may name
    NoUid       \* no subject

VARIABLES
    apc,        \* worker -> "idle" | "gate" | "handler" | "rejected"
    valid,      \* worker -> the credential of its call is acceptable now
    subj,       \* worker -> the subject its credential names, or NoUid
    ctx         \* worker -> the subject in the call's context, or NoUid

avars == <<apc, valid, subj, ctx>>

AInit ==
    /\ apc = [w \in Workers |-> "idle"]
    /\ valid = [w \in Workers |-> FALSE]
    /\ subj = [w \in Workers |-> NoUid]
    /\ ctx = [w \in Workers |-> NoUid]

\* A call arrives with a credential; only a credential naming a subject can
\* be acceptable.
Present(w, ok, s) ==
    /\ apc[w] = "idle"
    /\ ok => s \in Users
    /\ apc' = [apc EXCEPT ![w] = "gate"]
    /\ valid' = [valid EXCEPT ![w] = ok]
    /\ subj' = [subj EXCEPT ![w] = s]
    /\ UNCHANGED ctx

\* An acceptable credential: the handler runs with its subject.
Admit(w) ==
    /\ apc[w] = "gate" /\ valid[w]
    /\ apc' = [apc EXCEPT ![w] = "handler"]
    /\ ctx' = [ctx EXCEPT ![w] = subj[w]]
    /\ UNCHANGED <<valid, subj>>

\* An unacceptable credential: the call ends unauthenticated.
Reject(w) ==
    /\ apc[w] = "gate" /\ ~valid[w]
    /\ apc' = [apc EXCEPT ![w] = "rejected"]
    /\ UNCHANGED <<valid, subj, ctx>>

\* The call ends and its context is discarded.
Done(w) ==
    /\ apc[w] \in {"handler", "rejected"}
    /\ apc' = [apc EXCEPT ![w] = "idle"]
    /\ valid' = [valid EXCEPT ![w] = FALSE]
    /\ subj' = [subj EXCEPT ![w] = NoUid]
    /\ ctx' = [ctx EXCEPT ![w] = NoUid]

\* Time passes: some credentials stop being acceptable, none starts.
Expire ==
    /\ valid' \in [Workers -> BOOLEAN]
    /\ \A w \in Workers : valid'[w] => valid[w]
    /\ UNCHANGED <<apc, subj, ctx>>

ANext ==
    \/ \E w \in Workers :
         \/ \E ok \in BOOLEAN, s \in Users \cup {NoUid} : Present(w, ok, s)
         \/ Admit(w) \/ Reject(w) \/ Done(w)
    \/ Expire

ASpec == AInit /\ [][ANext]_avars

=============================================================================
