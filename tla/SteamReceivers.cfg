CONSTANTS
  Paths = {cable, radio}
  Wired = {cable}
  MaxObjects = 3
  MaxPlugged = 1
  MaxReports = 2
  MaxUevents = 2
SPECIFICATION FairSpec
INVARIANTS
  ControllersAgree
  RequestsExclusive
PROPERTIES
  PromiseSpec
  RemovalReturns
  ControllerGetsScript
  ShutdownEnds
CHECK_DEADLOCK FALSE
