CONSTANTS
  None = None
  Request = {1, 2}
  Cost <- MCCost
  Generation <- MCGeneration
  Invalid = {}
  Anonymous = {}
  Observation <- NoObservation
  InitialLimit = 0
  MaxInFlight = 1
  MaxPending = 1
  DedupWindow = 1
  ProbeDelay = 1
  MaxTime = 0
  MaxWindows = 0
  MaxDeferred = 0
  MaxDenials = 1
SPECIFICATION Spec
INVARIANTS DenialIsAuthoritative
