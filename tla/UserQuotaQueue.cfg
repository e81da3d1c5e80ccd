CONSTANTS
  None = None
  Request = {1, 2, 3, 4}
  Cost <- MCCost
  Generation <- MCGeneration
  Invalid = {4}
  Anonymous = {4}
  Observation <- NoObservation
  InitialLimit = 2
  MaxInFlight = 2
  MaxPending = 2
  DedupWindow = 2
  ProbeDelay = 1
  MaxTime = 0
  MaxWindows = 0
  MaxDeferred = 1
  MaxDenials = 1
SPECIFICATION Spec
INVARIANTS TypeOK SlotAccounting LifeStages EveryWaiterWillHear
PROPERTIES OneGrantPerRequest GrantsInOrder
