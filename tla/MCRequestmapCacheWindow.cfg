\* A search that overlaps a reset.
CONSTANTS
    r1 = r1
    a1 = a1  a2 = a2
    A = A  B = B
    wide = wide  narrow = narrow
    Readers = {r1}
    Admins = {a1, a2}
    NoThread = NoThread
    NoPattern = NoPattern
    Patterns <- MCPatterns
    Hits <- MCHits
    Covers <- MCCovers
    Roles = {A, B}
    Ops = {"save"}
    MaxEdits = 1
    RejectIfNoRule = FALSE
    Faults = FALSE
SPECIFICATION Spec
INVARIANTS RuledUrlFindsRule
SYMMETRY Symmetry
