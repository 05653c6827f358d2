\* The server as wired, except that the validators apply their rules:
\* clients start with no token and keep the fairness of FairSpec.
CONSTANTS
    e1 = e1
    a1 = a1
    a2 = a2
    s1 = s1
    w1 = w1
    w2 = w2
    Users <- MCUsers
    Apps <- MCApps
    Secrets = {s1}
    IssuerSecret = s1
    GateSecret = s1
    AccessTTL = 1
    MaxTime = 0
    Passwords = {5, 20}
    UsernameLens = {2, 8}
    AppRows = {a1}
    Workers <- MCWorkers
    RepoAsWritten = FALSE
    ValidatorAsWritten = FALSE
    Minted <- MCMintedNone
SPECIFICATION FairSpec
PROPERTY LoginReachesVerifier
