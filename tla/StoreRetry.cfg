CONSTANTS
  None = None
  User = {}
  Document = {d}
  StateKey = {}
  InitialGeneration = 0
  Sequence = {"a"}
  Partition = {}
  MaxActiveRemediations = 4
  Scope = {"qa"}
  ScopeOf <- MCScopeOf
  ClientCommand <- MCRetry
  Malformed = {6}
  CommandWindow = 1
  AuthorityMayFail = TRUE
  MaxQueue = 1
SPECIFICATION Spec
INVARIANTS TypeOK ControllerBelievesTheRecord
PROPERTIES FencedLifecycle
CHECK_DEADLOCK FALSE
