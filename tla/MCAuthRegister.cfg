\* A Register with the repository as written, or with a password longer
\* than bcrypt accepts (80 bytes; the validator accepts up to 100).
CONSTANTS
    e1 = e1
    e2 = e2
    a1 = a1
    a2 = a2
    w1 = w1
    w2 = w2
    Emails <- MCOneEmail
    Apps <- MCOneApp
    AppRows <- MCOneApp
    Workers <- MCOneWorker
    Passwords = {20, 80}
    RepoAsWritten = TRUE
SPECIFICATION Spec
INVARIANT RegisterFailsOnlyOnStore
