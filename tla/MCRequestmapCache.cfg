\* Saves, renames and deletions, with failures, race with first uses.
CONSTANTS
    r1 = r1  r2 = r2
    a1 = a1  a2 = a2
    A = A  B = B
    wide = wide  narrow = narrow
    Readers = {r1, r2}
    Admins = {a1, a2}
    NoThread = NoThread
    NoPattern = NoPattern
    Patterns <- MCPatterns
    Hits <- MCHits
    Covers <- MCCovers
    Roles = {A, B}
    Ops = {"save", "updateRole", "deleteRole"}
    MaxEdits = 2
    RejectIfNoRule = FALSE
    Faults = TRUE
SPECIFICATION Spec
CONSTRAINT Bounded
INVARIANTS TypeOK SavesAreSeen CleanScan
SYMMETRY Symmetry
