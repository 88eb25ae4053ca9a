\* Stores that may fail at every call, and monitors that run: what still holds,
\* and what is bound to happen.
CONSTANTS
    Threads = {t1, t2}
    Users = {u1}
    Sessions = {s1, s2}
    Assertions = {a1}
    NoUser = NoUser
    NoSession = NoSession
    StoreFaults = TRUE
SPECIFICATION FairSpec
INVARIANTS LoginReportsOnce SignoffEndsSession AuditTrail FailedLoginIsShut
PROPERTIES RequestsReturn ImplementsTickets
