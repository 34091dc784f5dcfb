CONSTANTS
  Paths = {pad}
  Late = {}
  MaxPlugs = 1
  MaxObjects = 2
SPECIFICATION Spec
INVARIANTS
  OneScriptPerDevice
CHECK_DEADLOCK FALSE
