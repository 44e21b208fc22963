CONSTANTS
    Nothing = Nothing
    Torn = Torn
    Procs = {p1, p2}
    NOrgs = 1
    NNodes = 1
    Passwords = {w1, w2, w3}
    Templates = {t1}
    KeyNames = {k1, k2}
    FaultKinds = {"kill", "error", "loss"}
    MaxFaults = 1
    MaxEdits = 1
SPECIFICATION Spec
SYMMETRY Symmetry
INVARIANTS TypeOK PassMeansReady RerunAgrees
PROPERTIES OnlyCreatorTouches NoDriftWritten
