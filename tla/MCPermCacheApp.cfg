\* One user, two request apps of which only a1 has a row in the apps table,
\* one call, the delete kind, no clock: enough for a Check on the unknown
\* app to reach the repository.
CONSTANTS
    u1 = u1
    u2 = u2
    a1 = a1
    a2 = a2
    w1 = w1
    w2 = w2
    Users <- MCOneUser
    Apps <- MCTwoApps
    AppRows <- MCApps
    Workers <- MCOneWorker
    Kinds = {"dlt"}
    TickSeconds = 600
    MaxTime = 0
SPECIFICATION Spec
INVARIANT AppScoped
