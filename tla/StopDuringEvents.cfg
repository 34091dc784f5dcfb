CONSTANTS
  t1 = t1
  t2 = t2
  Timers = {}
  Reader = reader
  MaxLoads = 1
  JoinsReader = TRUE
  DeviceMayFail = FALSE
  InitMayFail = FALSE
  ConnectIn <- InInitOnly
SPECIFICATION FairSpec
PROPERTIES
  FinalizeOnUnload
CHECK_DEADLOCK FALSE
