CONSTANTS
  Indices = {1, 2}
  Corded = {0, 255}
  MaxLinks = 3
  MaxObjects = 4
SPECIFICATION NodesSpec
INVARIANTS
  ScriptsKeepTheirDevice
  QuietAgrees
PROPERTIES
  InRangeGetsScript
  JoinReturns
CHECK_DEADLOCK FALSE
