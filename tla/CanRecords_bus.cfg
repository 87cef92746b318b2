CONSTANTS
  r1 = r1
  r2 = r2
  Records = {r1, r2}
  None = None
  BusNames = {"CAN1"}
  Configs <- MCConfigs
  Signals = {"ok", "error"}
  CallbackLimit = 1
  IoLimit = 1
  BusLimit = 1
SPECIFICATION Spec
INVARIANTS TypeOK NeverStuck LatestValue OutputOrAlarm
PROPERTIES FreshData
CHECK_DEADLOCK FALSE
