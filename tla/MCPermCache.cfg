\* Two users, one app, two concurrent calls, the delete and change-option
\* kinds (TTL 1 and 2 ticks of 600 s), five ticks: entries are written,
\* hit, expire and are refilled while roles change.
CONSTANTS
    u1 = u1
    u2 = u2
    a1 = a1
    a2 = a2
    w1 = w1
    w2 = w2
    Users <- MCUsers
    Apps <- MCApps
    AppRows <- MCApps
    Workers <- MCWorkers
    Kinds = {"dlt", "chg"}
    TickSeconds = 600
    MaxTime = 3
SPECIFICATION Spec
SYMMETRY Symmetry
INVARIANTS
    TypeOK
    GrantWasHeld
