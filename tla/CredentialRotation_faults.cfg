CONSTANTS
    MaxFaults = 3
SPECIFICATION FairSpec
INVARIANTS TypeOK PairServes MixedOnlyStopped RollbackReady AcceptedMeansRotated
PROPERTIES ImplementsPairSwitch Settles
CHECK_DEADLOCK FALSE
