\* An effect at the end of the queue and one beside it.
CONSTANTS
    Duration = 2
    MaxLag = 2
    Pages <- MCPages
SPECIFICATION Spec
INVARIANTS EndWaits
