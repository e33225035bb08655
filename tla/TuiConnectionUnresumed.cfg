SPECIFICATION Spec
CONSTANTS
  r1 = r1
  Runs = {r1}
  MaxClients = 2
  UpdateCapacity = 1
INVARIANTS
  InterruptedRunResumed
