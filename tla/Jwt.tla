--------------------------------- MODULE Jwt ---------------------------------
(***************************************************************************)
(* The token service of lib/jwt/jwt.go: the tokens NewToken signs and the *)
(* check ValidateToken makes, shared by the request gate (TokenGate) and   *)
(* the composed server (Server).                                           *)
(*                                                                         *)
(* A token is its claim set and how it was signed. NewToken writes uid as  *)
(* the Go int user.ID, so it travels as a JSON number ("num"); a string    *)
(* uid ("str") only occurs in tokens made elsewhere.                       *)
(*                                                                         *)
(* The issuer's secret is SECRET_JWT (app/app.go), the validator's is      *)
(* JWT_SECRET (app/grpc/app.go); the two are constants.                    *)
(***************************************************************************)
EXTENDS Integers

CONSTANTS
    Users,          \* user ids
    Apps,           \* app ids
    Secrets,        \* signing keys a token may carry
    IssuerSecret,   \* SECRET_JWT, the key NewToken signs with
    GateSecret,     \* JWT_SECRET, the key ValidateToken checks with
    AccessTTL,      \* tokenTTL, in ticks
    MaxTime         \* last tick of the model clock

ASSUME JwtAssumption ==
    /\ Users # {} /\ Apps # {}
    /\ IssuerSecret \in Secrets /\ GateSecret \in Secrets
    /\ AccessTTL \in Nat \ {0} /\ MaxTime \in Nat

\* Login signs a refresh token (tokenTTL * 400) and an access token (tokenTTL).
TokenTTLs == {AccessTTL, 400 * AccessTTL}

Tokens == [uid : Users, uidType : {"num", "str"}, app : Apps,
           exp : 0..(MaxTime + 400 * AccessTTL), alg : {"HS256", "RS256"},
           key : Secrets]

\* Tokens a client may hold that this service did not issue.
Foreign == {t \in Tokens : t.exp <= MaxTime + 1}

\* jwt v5 validates "exp" as now.Before(exp): valid strictly before it.
NotExpired(t, n) == n < t.exp

\* ValidateToken: jwt.Parse with the HMAC check of the key function and the
\* secret, the expiry check of jwt v5, then claims["uid"].(string).
Validates(t, n) ==
    /\ t.alg = "HS256"
    /\ t.key = GateSecret
    /\ NotExpired(t, n)
    /\ t.uidType = "str"

\* Slip: exp written with UnixMilli instead of Unix.
NewTokenMillis(u, a, ttl, n) ==
    [uid |-> u, uidType |-> "num", app |-> a, exp |-> (n + ttl) * 1000,
     alg |-> "HS256", key |-> IssuerSecret]

\* NewToken(user, app, duration): claims uid (an int), app_id and
\* exp = now + duration, signed HS256 with the issuer's secret.
NewToken(u, a, ttl, n) ==
    [uid |-> u, uidType |-> "num", app |-> a, exp |-> n + ttl,
     alg |-> "HS256", key |-> IssuerSecret]

=============================================================================
