\* Nobody waits for ever, for the monitor or for a row.
CONSTANTS
    r1 = r1
    a1 = a1  a2 = a2
    A = A  B = B
    wide = wide  narrow = narrow
    Readers = {r1}
    Admins = {a1, a2}
    NoThread = NoThread
    NoPattern = NoPattern
    Patterns <- MCPatterns
    Hits <- MCHits
    Covers <- MCCovers
    Roles = {A, B}
    Ops = {"updateRole", "deleteRole"}
    MaxEdits = 2
    RejectIfNoRule = TRUE
    Faults = FALSE
SPECIFICATION FairSpec
PROPERTIES AdminReturns FindReturns
