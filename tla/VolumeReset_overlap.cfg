CONSTANTS
    Procs = {p1, p2}
    NVols = 2
    MaxFaults = 1
    MaxEdits = 1
SPECIFICATION Spec
SYMMETRY Symmetry
INVARIANTS TypeOK CompleteMeansGone
PROPERTY OnlyMarkedDeleted
