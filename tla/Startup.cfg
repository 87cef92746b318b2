SPECIFICATION Spec
CONSTANTS
  IPAC_MAX_CARRIERS = 3
  CallLimit = 6
  Worlds <- MCWorlds
INVARIANTS TypeOK WindowsDistinct ModuleServed PromTrusted RebootQuiet
CHECK_DEADLOCK FALSE
