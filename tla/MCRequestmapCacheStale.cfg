\* A deletion resets the cache before its transaction commits.
CONSTANTS
    r1 = r1
    a1 = a1  a2 = a2
    A = A  B = B
    wide = wide  narrow = narrow
    Readers = {r1}
    Admins = {a1, a2}
    NoThread = NoThread
    NoPattern = NoPattern
    Patterns <- MCPatterns
    Hits <- MCHits
    Covers <- MCCovers
    Roles = {A, B}
    Ops = {"save", "deleteRole"}
    MaxEdits = 2
    RejectIfNoRule = FALSE
    Faults = FALSE
SPECIFICATION Spec
INVARIANTS CacheIsCurrent
SYMMETRY Symmetry
