CONSTANTS
    Procs = {p1, p2}
    NVols = 2
    MaxFaults = 1
    MaxEdits = 0
SPECIFICATION FairSpec
PROPERTY ResetConverges
