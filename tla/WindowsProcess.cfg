SPECIFICATION FairSpec
CONSTANT MaxFaults = 2
CHECK_DEADLOCK FALSE
INVARIANTS
    HandlesUsedWhileOpen
    RunsOnlyInJob
    RefusedLeavesNothing
    CleanJoinReleasesAll
PROPERTY TerminatedJoins
