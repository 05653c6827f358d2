\* One user, one app, two concurrent calls, the delete kind (TTL 1 tick of
\* 600 s), four ticks: enough for a call to read the store, lose the CPU
\* across a revoke and a tick, and then write the cache.
CONSTANTS
    u1 = u1
    a1 = a1
    w1 = w1
    w2 = w2
    Users <- MCUsers
    Apps <- MCApps
    AppRows <- MCApps
    Workers <- MCWorkers
    Kinds = {"dlt"}
    TickSeconds = 600
    MaxTime = 3
SPECIFICATION StaleSpec
PROPERTY ReturnedWithinTTL
