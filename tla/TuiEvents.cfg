SPECIFICATION FairSpec
CONSTANTS
  MaxEvents = 3
  MaxRevision = 6
  UpdateCapacity = 1
INVARIANTS
  ResumesAfterPublished
PROPERTIES
  ShownAsLogged
  RevisionsIncrease
  FailureReachesTerminal
  RunShownToTheEnd
