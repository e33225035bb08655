SPECIFICATION FairSpec
CONSTANTS
    MaxFaults = 1
    ReusedPIDs = {2, 3}
CHECK_DEADLOCK FALSE
INVARIANTS
    CleanWaitContains
    ReusedNeverSignalled
PROPERTIES
    JoinIsFinal
    KilledJoins
