CONSTANTS
  None = None
  Request = {1}
  Cost <- MCCost
  Generation <- MCGeneration
  Invalid = {}
  Anonymous = {}
  Observation <- MCObservation
  InitialLimit = None
  MaxInFlight = 1
  MaxPending = 1
  DedupWindow = 1
  ProbeDelay = 1
  MaxTime = 2
  MaxWindows = 2
  MaxDeferred = 0
  MaxDenials = 1
SPECIFICATION Spec
PROPERTIES OneRefillPerBoundary
