CONSTANTS
    Keys = {"a", "b"}
    MaxSpaces = 6
    MaxLines = 6
SPECIFICATION Spec
INVARIANTS TypeOK AcceptsTheSubset LookupAgrees DoctorAgrees
CHECK_DEADLOCK FALSE
