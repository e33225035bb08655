SPECIFICATION FairSpec
CONSTANTS
  Applications <- MCApplications
INVARIANTS
  ReleasedAfterDependents
  EverythingReleased
  ServesOverLiveBeans
  ContainmentNotSkipped
  CleanExit
PROPERTIES
  CommandEnds
CHECK_DEADLOCK FALSE
