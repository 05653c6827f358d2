---------------------------- MODULE PermCacheStale ----------------------------
(* PermCache with one more history variable: the tick of each permission's *)
(* last revocation, to compare what a Check call returns with how long ago *)
(* the database stopped granting it.                                       *)
EXTENDS PermCache

VARIABLE revokedAt   \* user -> permission id -> tick of the last revoke, or -1

svars == <<vars, revokedAt>>

\* revokedAt follows every step of PermCache: a permission that leaves
\* rolePerms in the step is stamped with the current tick.
RecordRevokes ==
    revokedAt' = [u \in Users |-> [p \in PermIds |->
                    IF p \in rolePerms[u] /\ p \notin rolePerms'[u]
                      THEN now ELSE revokedAt[u][p]]]

StaleSpec ==
    /\ Init /\ revokedAt = [u \in Users |-> [p \in PermIds |-> -1]]
    /\ [][Next /\ RecordRevokes]_svars

\* Spec 4.3: "the value returned by a Check call never reflects data older
\* than its TTL window". When a call returns TRUE from Redis, its user held
\* the permission in the database at some tick less than the kind's TTL ago.
\* The code starts the Redis expiry when it writes the cache (SetPermCtx),
\* not when it read the store, so a revoke between the two can outlive it.
ReturnedWithinTTL ==
    [][\A w \in Workers :
         (pc[w] = "lookup" /\ pc'[w] = "done" /\ resp'[w] = Granted(TRUE)) =>
            LET u == req[w].user
                p == PermId[req[w].kind]
            IN  p \in rolePerms[u] \/ now - revokedAt[u][p] < TTL(req[w].kind)
      ]_svars
=============================================================================
