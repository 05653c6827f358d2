\* The same instance, checked against the mapping of spec 4.5.
CONSTANTS
    u1 = u1
    u2 = u2
    u3 = u3
    w1 = w1
    w2 = w2
    Users <- MCUsers
    Rows = {u1, u2}
    Banned = {u1}
    Workers <- MCWorkers
    RepoAsWritten = FALSE
    ValidatorAsWritten = FALSE
    PoolSize = 2
SPECIFICATION Spec
SYMMETRY Symmetry
INVARIANT StatusFollowsSpec
