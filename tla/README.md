# TLA+ verification of the SSO service

This directory models the Go service under `src/` in TLA+. It model-checks the models with TLC and proves their main invariants with TLAPS. The service is a single gRPC process in front of Postgres and Redis. Each gRPC call runs in a goroutine of its own, so calls interleave at every database or Redis round trip.

## The system

| Part | Code | State it touches |
|---|---|---|
| PermissionAuthority | `services/permsvc/perm.go`, `perm_repo/redis_perm_repo.go`, `perm_repo/perm_repository.go` | Redis keys `<kind>permission: <user>:<app>` with a lifetime; Postgres roles and permissions (read only) |
| CredentialVerifier and TokenIssuer (Register, Login, IsAdmin) | `services/authsvc/auth.go`, `auth_repo/userrepository.go`, `auth_repo/sql_queries.go`, `lib/jwt/jwt.go` | Postgres `users`, `apps`, `refresh_tokens` |
| RequestGate | `interceptors/middlware.go`, `lib/jwt/jwt.go` (ValidateToken), `app/grpc/app.go`, `app/app.go` | none (secret from the environment) |
| gRPC handlers and validation | `grpc/*/server_hnd.go`, `grpc/*_validation/*.go` | none: they validate, call a service and map errors to codes |
| Server | `app/grpc/app.go` | the interceptor in front of the auth handlers |
| StatusQuery | `services/statsvc/stat.go`, `stat_repo/*` | Postgres (read only) |
| Setup | `cmd/sso/main.go`, `config`, `lib/metric`, `lib/jaeger`, `lib/postgresql`, `lib/redis` | start-up only |

The parts interact as follows:

- A call passes through the interceptor (RequestGate), then a handler, then a service, then the repositories.
- `app.go` wires only the auth service. It builds the token issuer from `SECRET_JWT`, while `grpcapp.New` builds the validator from `JWT_SECRET`.
- `permsvc.New` never sets the Redis repository, and no handler for permissions or status is registered. The permission and status services can therefore only be reached by their own wiring, which does not exist yet.
- The models below check the services against their repository contracts, as spec section 1 describes them.

### What is hard to test here

The hazards are listed one by one in `PROJECT.json` under "hazards". The main ones are:

- **Stale cached grants.** A Check call may read a grant, the grant is then revoked, and the call caches the old grant for a full lifetime.
- **Error paths the service does not handle as promised.**
  - A Redis write failure is only logged.
  - The Redis miss test is inverted.
  - Login returns a different error for an unknown email than for a wrong password.
- **Check-then-insert races** between concurrent Register calls of one email. Only the unique constraint stops the second INSERT. The 23505 test asserts the v4 `pgconn.PgError` type against pgx v5's errors, so as written it never matches.
- **Leaked pool connections.** The status repository never releases what it acquires, so after `PoolSize` calls every status call fails.
- **Ordering within Login.** The refresh token must be saved before the access token is released.
- **Numeric edges:**
  - Cache lifetimes are in seconds, scaled by `time.Second`.
  - bcrypt accepts at most 72 bytes, while the validator allows 100.
- **SQL that cannot run as written** in SaveUser, App and SaveRefresh.
- **Token round trip.** `uid` is signed as an int but read back as a string.

## Modules

### `PermCache` (PermissionAuthority)

The four Check methods are copies of one another that differ in key prefix, lifetime and repository method. The model has one call shape, parameterised by kind.

State:

| Variable | What it models |
|---|---|
| `now` | the clock, in ticks of `TickSeconds` |
| `rolePerms` | the permission ids the user's roles grant in Postgres |
| `cache` | the Redis keys, each with its value and expiry |
| `pc`, `req`, `val`, `resp` | per worker (one goroutine per call): its step, its request, the decision it read, its reply |
| `everHeld` | a history of every (user, permission id) pair ever granted |

Actions:

| Action | Code |
|---|---|
| `Start` | the call enters `Check*` |
| `Lookup` | `PermissionCtx` plus `if cachedPerms != nil`. A Redis error is a miss. |
| `StoreQuery` | the repository method. `appExists`'s boolean is dropped; `UserPermissions` and `CheckPerm` decide. Every error returns `ErrAppNotFound` and skips the cache. |
| `CacheSet` | `SetPermCtx` with the kind's duration. A failure is only logged. Returns the decision. |
| `Finish` | the goroutine ends |
| `Revoke` | the environment: an administrator removes a grant in Postgres |
| `Tick` | the environment: the clock advances and Redis drops the keys that have expired |

Only revocation is modelled, since a grant cannot make a returned TRUE wrong.

`PermCacheStale` extends the model with `revokedAt`, the tick of each revocation. It states the staleness bound of spec section 4.3 as an action property.

### `Auth` (CredentialVerifier and TokenIssuer)

RegisterNewUser and Login are cut at their repository round trips:

- **Register:** `HashPassword` (bcrypt), then `CheckExists` (SaveUser's SELECT), then `InsertUser` (the INSERT with the unique constraint, 23505).
- **Login:** `LookupUser` (User plus the bcrypt compare), then `LookupApp` (App plus signing the refresh token), then `SaveRefresh` (the INSERT plus signing the access token).
- **IsAdmin:** `IsUsrAdmin`, one query. A missing user is `ErrInvalidAppID` when pgx's ErrNoRows wraps sql.ErrNoRows (`NoAdminRowErrors`), and any other error is returned wrapped.

Modelling choices:

- Every database call takes `dbUp \in BOOLEAN`.
- HMAC signing with a `[]byte` key cannot fail, so NewToken has no error branch.
- Passwords are represented by their byte length, which is all bcrypt looks at besides equality.
- A token is represented by its claims (email, app).
- The constant `RepoAsWritten` chooses between two behaviours of the repository:
  - the SQL and Scan calls as written, which make SaveUser, App and SaveRefresh always fail and make User's missing-row error depend on the pgx version;
  - the contracts those methods document.

### `Jwt`, `TokenGate` and `AGate` (RequestGate)

`Jwt` holds the token algebra that `TokenGate` and `Server` share: the claim sets, `NewToken` and `Validates`.

A token is represented by its claim set and the way it was signed:

- the uid, and whether it is a JSON number or a string;
- the app;
- the expiry, in ticks;
- the algorithm;
- the key.

State and actions of `TokenGate`:

- `issued` holds the tokens Login signed. `Issue` adds both of Login's tokens, the refresh token (400 × tokenTTL) and the access token (tokenTTL). Both are signed with `IssuerSecret` (SECRET_JWT).
- A call `Arrive`s carrying no metadata, metadata without `authorization`, or a bearer token. The token is either an issued one or one of a small set of foreign tokens, covering every algorithm, key, uid type and expiry up to MaxTime + 1.
- `Gate` is the whole `UnaryAuthInterceptor`. It either rejects the call (Unauthenticated), or it puts the token's subject into the context and hands the call to the handler.
- `Validates` is `ValidateToken` as the code computes it: the algorithm is HMAC, the key is `GateSecret` (JWT_SECRET), the time is strictly before `exp` (jwt v5), and `claims["uid"]` is a string.

`AGate` is what the interceptor promises, with tokens abstracted away. A call presents a credential that is valid or not, with a subject. It is admitted only if valid, with that subject in the context, and rejected only if invalid. Validity may only be lost, as time passes. `TokenGate` maps to it by `valid[w] = "w carries a token that Validates now"` and `subj[w] = that token's uid` (`ValidMap`, `SubjMap`). The run `token_gate` checks `GateImplementsAGate`, and the theorem `GateRefinesAGate` proves it.

### `Server` (the composition)

`Server` puts the pieces together as `app/grpc/app.go` wires them:

- `Auth` is instantiated with the emails as the users of the tokens.
- A client `Call`s Login, Register or IsAdmin with a token it holds or none.
- `Intercept` is the interceptor (`Validates`).
- `Validate` is the handler's validator. Under `ValidatorAsWritten` it always fails, as `ValidateStruct` does when given field values.
- `Serve` runs one repository round trip of `Auth`.
- `Respond` is the handler's error-to-code mapping (`HandlerCode`), and hands Login's access token to the client (`held`).

`Minted` is the set of tokens clients hold at the start: one valid token, or none.

### `StatusQuery`

IsBanned, LastLogin and CurrentRole make one read-only database round trip each, and nothing in the code writes the rows they read. So a call is one `Lookup` step, followed by `Finish`. The step is made of:

- the validator;
- `Acquires`, GetConn's pool Acquire;
- `RepoResults`, the repository, where the database may fail at Acquire or at the query, plus the pgx missing-row question;
- `ServiceErr`, the service's wrapping;
- `HandlerOut`, the handler's codes.

The one state that calls share is the pgxpool (`leased`, at most `PoolSize`). No method calls `conn.Release`, so every call that acquired a connection keeps it. While the pool is below `PoolSize`, Acquire dials a new connection, and that fails when the database is down. Once the pool is full, Acquire waits until the call's context ends and returns that context's error. Every status call after the first `PoolSize` is then answered Internal, however healthy the database is. Spec section 5 calls a leaked handle a defect.

The handler's interface does not match `statsvc`'s method names, and no status server is registered. The model composes the layers as the spec's control flow does.

## Runs

| Run | Checks | Result |
|---|---|---|
| `token_gate` (MCTokenGate.cfg) | TypeOK, GateImplementsAGate | pass; about 38k states. Setup: 1 user, 1 app, 2 secrets, 2 workers (symmetric), access TTL of 1 tick, clock to 2, foreign tokens expiring at 0 to 3. |
| `token_round_trip` | IssuedTokensValidate | **violated.** A token Login just issued, under the same secret the gate checks, is rejected because `uid` is a number. |
| `perm_cache` (MCPermCache.cfg) | TypeOK, GrantWasHeld | pass; about 620k distinct states. Setup: 2 users (symmetric), 2 workers (symmetric), kinds dlt (1 tick) and chg (2 ticks), ticks of 600 s up to tick 3, and any initial roles. |
| `perm_app_scope` | AppScoped | **violated.** A TRUE is returned for an app id absent from `apps`. |
| `perm_stale_ttl` | ReturnedWithinTTL | **violated.** Worker 1 reads a grant, the grant is revoked, a tick passes, worker 1 caches the grant, and worker 2 is served it one tick later still. |
| `auth` (MCAuth.cfg) | TypeOK, SessionHasRefresh, LoginSucceeds | pass; about 46k states. Setup: 2 emails, 2 workers, one app in the table and one not, passwords of 20 and 72 bytes (bcrypt's limit), the repository contracts. |
| `auth_register` | RegisterFailsOnlyOnStore | **violated.** As written, SaveUser's existence check always errors; an 80-byte password, which the validator accepts, fails in bcrypt (both reached with `RepoAsWritten` TRUE and passwords of 20 and 80 bytes). |
| `server` (MCServer.cfg) | TypeOK, ServiceOnlyBehindChecks, HeldSessionsDurable | pass; about 17k states. Setup: one email, two apps (one in the table), two clients (symmetric), one holding a valid token, passwords of 5 and 20 bytes, user names of 2 and 8 characters, database faults. The service runs only behind the interceptor and the validator, and every access token a client holds has its refresh row. |
| `server_bootstrap` | LoginReachesVerifier (under `FairSpec`) | **violated.** A client with no token calls Login; the interceptor rejects it for ever. |
| `server_validator` | ValidatorRejectsOnlyMalformed | **violated.** With the validators as written, a well-formed Login is answered InvalidArgument. |
| `server_codes` | AnswersFollowTaxonomy | **violated.** A database failure in Login is answered InvalidArgument. Also reached: a Login for an unknown email answered Internal while a wrong password is InvalidArgument (so a caller can probe which emails are registered), a duplicate Register answered Internal, and IsAdmin for an unknown user answered Internal. |
| `status_spec` (three user ids, two in the table, one banned, two workers) | StatusFollowsSpec | **violated.** CurrentRole answers OK with an empty role for a present user with the database up. It does the same for absent users and for queries that failed after Acquire; only a failed Acquire is Internal. With CurrentRole left out, the leaked pool gives a second counterexample: after `PoolSize` calls, a fault-free IsBanned of a present user is answered Internal. Pool size 2. |

The bounds are chosen so that the hard cases happen:

- In `perm_cache`, two kinds with different lifetimes and three ticks let an entry be written, hit and expire.
- Also in `perm_cache`, two workers let a write race a revocation and a hit.
- In `auth`, two workers on two emails reach the concurrent-Register race and Login running alongside Register.
- The 72-byte password sits exactly on bcrypt's limit.
- In `server`, passwords and user names on both sides of the validators' bounds make both validation outcomes happen, and the app outside the table makes Login fail after the user lookup.

Each property of a passing run is checked against a mutant, a plausible slip in the code that must break it:

| Mutant | Breaks |
|---|---|
| the lifetime without `time.Second` | TypeOK |
| a copy-pasted key prefix | GrantWasHeld |
| SaveRefresh's arguments swapped | TypeOK |
| SaveRefresh's error dropped | SessionHasRefresh |
| an inverted bcrypt compare | LoginSucceeds |
| exp written with UnixMilli | TypeOK of TokenGate |
| the gate's error test inverted | GateImplementsAGate |
| an unmatched error returned raw (code Unknown) | TypeOK of Server |
| the token's validity ignored once present | ServiceOnlyBehindChecks |
| SaveRefresh's error dropped | HeldSessionsDurable |

Fairness: `Server`'s `FairSpec` assumes weak fairness of each client's server-side steps (interceptor, validator, service round trip, reply). A gRPC call runs in a goroutine of its own, the Go scheduler runs every runnable goroutine, and each database call returns, with an error if need be. The clients' own calls are not fair: a client may stop calling. Under this fairness, the one liveness question, whether a client with no token ever reaches the credential check, fails (`server_bootstrap`).

## Proofs (checked by `tlapm`)

### `TokenGateProofs`

These proofs assume only `JwtAssumption` and `GateAssumption`.

- **`TypeCorrect`**: `Spec => []TypeOK`. The `NewTokenType` lemma bounds every expiry Login signs by MaxTime + 400 × AccessTTL.
- **`GateRefinesAGate`**: `Spec => GateImplementsAGate`. `RefInit` maps the initial state to `AInit`. `RefStep` shows that each step, from a well-typed state, is a step of `AGate` or a stutter under the mapping, with one case per action. For `Tick`, `ValidatesMonotone` shows that a token valid at the new time was valid at the old one, which is `Expire`. The function equalities of the mapping are proved by expanding `ValidMap` and `SubjMap`.

### `PermCacheProofs`

The proofs rest only on `ConstAssumption`: the kinds, the non-empty sets, and a tick length that divides every lifetime.

- **`TypeCorrect`**: `Spec => []TypeOK`, from `TypeInit` and `TypeStep`. `TypeStep` has one step per action. The `TTLBounds` lemma bounds every expiry by `MaxTime + MaxTTL`.
- **`GrantSound`**: `Spec => []GrantWasHeld`.
  - `GrantWasHeld` is not inductive: a step can return a cached TRUE or a store decision whose origin the invariant does not describe.
  - The proof therefore uses the inductive invariant `IInv`. Besides `GrantWasHeld`, it says:
    - every current grant is in `everHeld`;
    - every live TRUE Redis entry names a pair in `everHeld`;
    - every decision waiting in step "set" is in `everHeld`;
    - every call that has not returned has no reply.
  - TLC checked `IInv` as an invariant on the `perm_cache` instance before it was proved. `IInvInit` and `IInvStep` prove it, with one case per action.

### `AuthProofs`

These proofs assume only `AuthAssumption` (with `JwtAssumption` through `Jwt`).

- **`TypeCorrect`**: `Spec => []TypeOK`.
  - `TypeOK` alone is not inductive. Steps like `InsertUser` read `req[w].pass`, and `SaveRefresh` reads `req[w].app`, and those fields exist only in requests of the right kind.
  - The proof therefore strengthens it with `StepMatchesOp`: a worker in step hash, check or insert serves a Register; one in user, app or save serves a Login; and one in admin serves an IsAdmin.
  - `RequestFields` lists the fields each request kind has. `TInvInit` and `TInvStep` prove `TInv == TypeOK /\ StepMatchesOp`, with one case per action.
- **`SessionSound`**: `Spec => []SessionHasRefresh`.
  - `RowsGrow` shows that no step deletes a refresh row.
  - Only `SaveRefresh` can end a Login with "ok". It does so only when the row was inserted, that is, when the database is up and the repository is not `RepoAsWritten`.
  - Every other step either leaves the worker alone or moves it off "done".
- **`LoginSound`**: `Spec => [](IF RepoAsWritten THEN NoLoginSucceeds ELSE LoginSucceeds)`, the result for both values of `RepoAsWritten`:
  - **As written**, App's Scan (two columns into three destinations) and `saveRefreshQuery` (a stray `)`) fail on every call, and no Login returns an access token (`NoLoginSucceeds`). The proof adds `refreshRows = {}` to the session invariant: `RowsFixed` shows SaveRefresh never inserts, and `SessionHasRefresh` then leaves no Login answering "ok".
  - **With repository methods that keep spec section 1's contracts** (those queries repaired, and a missing row reported as `storage.ErrUserNotFound`), `LoginSucceeds` holds. The `LookupUser` case carries the argument: a present user with the matching hash moves on to the app lookup. This half is the instance the `auth` run checks.

### `ServerProofs`

These proofs assume `ServerAssumption`. This sitting added the conjunct `Passwords \subseteq Nat /\ Passwords # {}`, which the bcrypt check of `Auth` needs for its type, and which `MCServer`'s `{5, 20}` satisfies.

`Server` uses `Auth` through `A == INSTANCE Auth`. `tlapm` cannot cite a theorem of an instantiated module, so the facts `AuthProofs` proves are proved again over `Server`'s variables, expanding the `A!` definitions.

- **`TypeCorrect`**: `Spec => []TypeOK`, with the same `StepMatchesOp` strengthening as in `AuthProofs`.
  - `ServiceReqType` shows that the request a valid call body becomes is an `Auth` request of the same kind.
  - `NewTokenType` shows that the access token Respond hands out is one of `Tokens`.
- **`ChecksSound`**: `Spec => []ServiceOnlyBehindChecks`. The inductive invariant `CInv` adds `CheckedAt(w)` for each worker:
  - a worker in step validate or service carries a credential that the interceptor validated;
  - a worker in step service has a valid body whose service request is `req[w]`;
  - an `Auth` step runs only for a worker in step service.

  `ServeFrame` is the lemma every later case uses. A `Serve(w)` step changes only `Auth`'s variables, leaves the other workers' `Auth` state alone, and never deletes a refresh row.
- **`SessionsDurable`**: `Spec => []HeldSessionsDurable`. The inductive invariant `HInv` adds, for every worker:
  - `SessionAt(w)`, which is `Auth`'s SessionHasRefresh for that worker: a Login that ended "ok" has its row. `ServeSession` shows it for the `Serve` step, one case per `Auth` action.
  - `HeldAt(w)`, which is the property for w's client. Only `Respond` adds a token, and it does so only when the service's Login ended "ok". `SessionAt(w)` gives the row named by the token's uid and app, and `RowsGrow` keeps every row afterwards.

TLC checked each strengthened invariant on the instance of its run before it was proved: on MCAuth it reached 58,216 states, and on MCServer 17,249 states.

Only TLC checks the following:

- **Liveness and ENABLED.** This covers `LoginReachesVerifier`. TLAPS cannot reason about them.
- **The properties of the violation runs.** They are false on the code as written; their runs show the counterexamples.
- **`StatusQuery`'s `StatusFollowsSpec`.** It is false on the code, and its run shows the counterexample.
- **`PermCacheStale`'s `ReturnedWithinTTL`.** It is a violation run.

Modules that use recursive operators are kept free of theorems.

## Not modelled (yet)

- **The permission handlers** (`grpc/permissions`). Nothing can reach them: they are not registered, their interface names do not match `permsvc`, and `Register` passes the server by value while the methods have pointer receivers. Reading them shows that they test errors `permsvc` never returns, so a store failure would be a raw error (Dlt, Upd) or a plain `false` (Dwnld, Chg).
- **A nil issuer.** When SECRET_JWT is unset and the error of NewService is ignored, Login panics. The secret mismatch itself is a choice of constants.
- **ozzo's Length rule on integers** (status validators, Login's app id). The validators fail earlier, as written, so the rule is never reached.
- **The IsAdmin flag itself.** No property tells its value apart, so only the error paths are modelled.
- **The permission repository's signatures.** Its methods take `(appID, userID)` and return `bool`, while `permsvc`'s interfaces expect `(userID, appID)` and a `models.Permission`, so the two cannot be wired together as written. `PermCache` assumes working wiring, just as it assumes the Redis repository that `New` never sets.
- **Setup code:** start-up I/O only.
- **The unused Redis admin cache.**

## Plan

1. An action property for `Server` (a code is set only by Respond or a rejection), proved from `CInv`.
2. Refinement of the permission cache to an abstract "decision = some past grant" specification.
3. A run that states the concurrent-Register contract (the loser gets AlreadyExists) against the service alone.
