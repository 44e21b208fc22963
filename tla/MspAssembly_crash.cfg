CONSTANTS
    Nothing = Nothing
    Procs = {p1}
    NLocals = 1
    NOrgs = 2
    NFiles = 3
    Roots = {r1}
    FaultKinds = {"kill"}
    MaxFaults = 1
    MaxEdits = 0
SPECIFICATION Spec
INVARIANT MissingFilesCreated
