CONSTANTS
  None = None
  Request = {1, 2, 3}
  Cost <- MCCost
  Generation <- OneGeneration
  Invalid = {1}
  Anonymous = {}
  Observation <- NoObservation
  InitialLimit = None
  MaxInFlight = 1
  MaxPending = 1
  DedupWindow = 1
  ProbeDelay = 1
  MaxTime = 0
  MaxWindows = 0
  MaxDeferred = 1
  MaxDenials = 1
SPECIFICATION FairSpec
PROPERTIES EveryCallerAnswered
