CONSTANTS
  None = None
  User = {u}
  Document = {}
  StateKey = {}
  InitialGeneration = 0
  Sequence = {"a"}
  Partition = {1}
  MaxActiveRemediations = 4
  Scope = {"qa"}
  ScopeOf <- MCScopeOf
  ClientCommand <- MCCancel
  Malformed = {}
  CommandWindow = 1
  AuthorityMayFail = FALSE
  MaxQueue = 1
SPECIFICATION Spec
INVARIANTS NoGhostOperation
CHECK_DEADLOCK FALSE
