SPECIFICATION Spec
CONSTANTS
  Keys = {1, 2}
  RunOf <- MCRunOf
  MaxDaemons = 2
  MaxRevision = 3
  MaxGenerations = 3
INVARIANTS
  MergedByObserver
  SnapshotRestoresAuthority
  OrderedByObserver
  AnsweredAsAnnounced
