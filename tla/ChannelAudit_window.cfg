CONSTANTS
    NNodes = 2
    Rules <- MCRules
    Config <- MCConfig
    Versions = {1, 2}
    Nothing = Nothing
    Torn = Torn
    MaxUpdates = 1
    MaxEdits = 1
SPECIFICATION FairSpec
INVARIANTS TypeOK PassMeansShared GovernedAfterPass ConsentersPresentTheirs
PROPERTY QuietWindowPasses
CHECK_DEADLOCK FALSE
