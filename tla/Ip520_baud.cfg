\* The rate of a port is changed twice, the second time to one the driver does not have.
SPECIFICATION Spec
CONSTANTS
  LastPort = 1
  Tuned = {1}
  EchoPorts = {0}
  Bauds = {300, 57600}
  Opts <- MCOpts
  FifoSize = 2
  RingSize = 2
  CharLimit <- MCChars
  InputLimit = 1
  TuneLimit = 2
INVARIANTS
  ClockDivided
CHECK_DEADLOCK FALSE
