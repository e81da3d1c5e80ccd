CONSTANTS
  None = None
  Request = {1, 2}
  Cost <- MCCost
  Generation <- MCGeneration
  Invalid = {}
  Anonymous = {}
  Observation <- StatedLimit
  InitialLimit = None
  MaxInFlight = 1
  MaxPending = 2
  DedupWindow = 2
  ProbeDelay = 1
  MaxTime = 1
  MaxWindows = 1
  MaxDeferred = 1
  MaxDenials = 1
SPECIFICATION FairSpec
PROPERTIES EveryCallerAnswered
