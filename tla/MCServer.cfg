\* The server behind its checks: one user, an app of the table and one
\* not, two clients that hold a token the validator accepts, passwords of
\* 5 and 20 bytes, usernames of 2 and 8 characters, the repository
\* contracts and the rules the validators declare.
CONSTANTS
    e1 = e1
    a1 = a1
    a2 = a2
    s1 = s1
    w1 = w1
    w2 = w2
    Users <- MCUsers
    Apps <- MCApps
    Secrets = {s1}
    IssuerSecret = s1
    GateSecret = s1
    AccessTTL = 1
    MaxTime = 0
    Passwords = {5, 20}
    UsernameLens = {2, 8}
    AppRows = {a1}
    Workers <- MCWorkers
    RepoAsWritten = FALSE
    ValidatorAsWritten = FALSE
    Minted <- MCMinted
SPECIFICATION Spec
SYMMETRY Symmetry
INVARIANT TypeOK ServiceOnlyBehindChecks HeldSessionsDurable
