CONSTANTS
  None = None
  u1 = u1
  u2 = u2
  old = old
  older = older
  invalid = invalid
  PageCount <- MCPageCount
  User <- MCUser
  Listing <- MCListing
  Valid <- MCValid
  Carried <- MCCarried
  SampleLimit = 1
  UserWindow = 1
  SliceSize = 1
  RecentCap = 1
  BatchSize = 1
  MaxActiveRemediations = 1
  MaxExhausted = 1
SPECIFICATION FairSpec
INVARIANTS RootTypeOK EveryUserAccounted NothingSkipped CompletedRemediationActivatedAll
PROPERTIES EverythingEnds
