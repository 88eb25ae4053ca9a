\* Stores that do not fail: what only these make true.
SPECIFICATION Spec
CONSTANTS
    Threads = {t1, t2}
    Users = {u1, u2}
    Sessions = {s1, s2, s3}
    Assertions = {a1}
    NoUser = NoUser
    NoSession = NoSession
    StoreFaults = FALSE
SYMMETRY Symmetry
INVARIANTS TypeOK ReplacedSessionIsDead NoSilentSession
