SPECIFICATION Spec
CONSTANTS
    MaxFaults = 1
    ReusedPIDs = {2, 3}
CHECK_DEADLOCK FALSE
INVARIANTS
    InspectionFailuresReported
