CONSTANTS
    Procs = {p1}
    NVols = 2
    MaxFaults = 0
    MaxEdits = 0
SPECIFICATION Spec
INVARIANT ListIsExact
