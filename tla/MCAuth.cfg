\* Register and Login against the repository contracts: two emails, two
\* apps of which one is in the apps table, passwords at bcrypt's limit and
\* below it, two concurrent calls.
CONSTANTS
    e1 = e1
    e2 = e2
    a1 = a1
    a2 = a2
    w1 = w1
    w2 = w2
    Emails <- MCEmails
    Apps <- MCApps
    AppRows <- MCOneApp
    Workers <- MCWorkers
    Passwords = {20, 72}
    RepoAsWritten = FALSE
SPECIFICATION Spec
SYMMETRY Symmetry
INVARIANTS TypeOK SessionHasRefresh LoginSucceeds
