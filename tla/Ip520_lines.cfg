\* Two ports: one that keeps its settings, one whose settings change. 300 is no rate of this driver.
SPECIFICATION FairSpec
CONSTANTS
  LastPort = 1
  Tuned = {1}
  EchoPorts = {0}
  Bauds = {300, 57600}
  Opts <- MCOpts
  FifoSize = 2
  RingSize = 2
  CharLimit <- MCChars
  InputLimit = 1
  TuneLimit = 1
INVARIANTS
  TypeOK
  SettingsHold
PROPERTIES
  NothingLost
  EveryCharSent
CHECK_DEADLOCK FALSE
