\* The gate with one user and app, the service's secret and one other,
\* two concurrent calls, tokens expiring within the three ticks.
CONSTANTS
    u1 = u1
    a1 = a1
    s1 = s1
    s2 = s2
    w1 = w1
    w2 = w2
    Users <- MCUsers
    Apps <- MCApps
    Secrets <- MCSecrets
    IssuerSecret = s1
    GateSecret = s1
    Workers <- MCWorkers
    AccessTTL = 1
    MaxTime = 2
SPECIFICATION Spec
SYMMETRY Symmetry
INVARIANT TypeOK
PROPERTY GateImplementsAGate
