CONSTANTS
  t1 = t1
  t2 = t2
  Timers <- TwoTimers
  Reader = reader
  MaxLoads = 2
  JoinsReader = TRUE
  DeviceMayFail = TRUE
  InitMayFail = FALSE
  ConnectIn <- WhileLoaded
SPECIFICATION FairSpec
INVARIANTS
  StopWakesLoop
  DeviceProtocol
PROPERTIES
  LifecycleSpec
  ErrorEndsScript
CHECK_DEADLOCK FALSE
