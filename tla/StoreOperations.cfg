CONSTANTS
  None = None
  User = {}
  Document = {}
  StateKey = {}
  InitialGeneration = 0
  Sequence = {"a", "b"}
  Partition = {1}
  MaxActiveRemediations = 4
  Scope = {"qa", "qb"}
  ScopeOf <- MCScopeOf
  ClientCommand <- MCOperations
  Malformed = {}
  CommandWindow = 1
  AuthorityMayFail = FALSE
  MaxQueue = 1
SPECIFICATION FairSpec
INVARIANTS QuotaIsInvalidated
PROPERTIES SyncStartsAlone DeactivationEnds
CHECK_DEADLOCK FALSE
