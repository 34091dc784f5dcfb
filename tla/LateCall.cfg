CONSTANTS
  t1 = t1
  t2 = t2
  Timers = {}
  Reader = reader
  MaxLoads = 2
  JoinsReader = FALSE
  DeviceMayFail = FALSE
  InitMayFail = FALSE
  ConnectIn <- InInitOnly
SPECIFICATION Spec
INVARIANTS
  HandlersOfThisLoad
CHECK_DEADLOCK FALSE
