SPECIFICATION FairSpec
CONSTANTS
  s1 = s1
  s2 = s2
  Stoppers = {s1, s2}
INVARIANTS
  PublishedImpliesListening
  StoppedReleasesEverything
PROPERTIES
  PublishedOnlyWhenServing
  ServeFailureEndsProcess
