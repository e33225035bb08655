SPECIFICATION Spec
CONSTANTS
    MaxFaults = 0
    ReusedPIDs = {2, 3}
CHECK_DEADLOCK FALSE
INVARIANTS
    OrdinaryDescendantsCaught
