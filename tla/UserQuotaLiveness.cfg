CONSTANTS
  None = None
  Request = {1, 2}
  Cost <- MCCost
  Generation <- OneGeneration
  Invalid = {}
  Anonymous = {}
  Observation <- UnstatedLimit
  InitialLimit = None
  MaxInFlight = 1
  MaxPending = 1
  DedupWindow = 1
  ProbeDelay = 1
  MaxTime = 1
  MaxWindows = 2
  MaxDeferred = 1
  MaxDenials = 1
SPECIFICATION FairSpec
INVARIANTS NoLostWakeup WorkWithinSlots
PROPERTIES EveryCallerAnswered NoRefundWithinWindow
