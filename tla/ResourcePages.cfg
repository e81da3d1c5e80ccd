CONSTANTS
  None = None
  Pages = 4
  WindowSize = 3
  Limit <- MCLimit
  MaxAttempt = 1
SPECIFICATION FairSpec
INVARIANTS PagesTypeOK
PROPERTIES PassIsKept PageStartsOnce PassEnds
