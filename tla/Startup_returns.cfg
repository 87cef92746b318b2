SPECIFICATION Spec
CONSTANTS
  IPAC_MAX_CARRIERS = 3
  CallLimit = 6
  Worlds <- RepeatWorlds
INVARIANT ReportedGood
CHECK_DEADLOCK FALSE
