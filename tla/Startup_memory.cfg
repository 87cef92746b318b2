SPECIFICATION Spec
CONSTANTS
  IPAC_MAX_CARRIERS = 3
  CallLimit = 6
  Worlds <- FactoryWorlds
INVARIANT MemoryOrNull
CHECK_DEADLOCK FALSE
