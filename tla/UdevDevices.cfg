CONSTANTS
  Paths = {pad, wiimote}
  Late = {wiimote}
  MaxPlugs = 2
  MaxObjects = 4
SPECIFICATION FairSpec
INVARIANTS
  ScriptsHaveDevices
PROPERTIES
  PromiseSpec
  PlugsAreFollowed
  InterruptEndsDaemon
CHECK_DEADLOCK FALSE
