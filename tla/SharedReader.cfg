CONSTANTS
  t1 = t1
  t2 = t2
  Timers <- OneTimer
  Reader = reader
  MaxLoads = 3
  JoinsReader = FALSE
  DeviceMayFail = FALSE
  InitMayFail = TRUE
  ConnectIn <- Anywhere
SPECIFICATION FairSpec
INVARIANTS
  CallIsAwaited
  BlockedIsServed
PROPERTIES
  StopReturns
CHECK_DEADLOCK FALSE
