\* Two ports of one block: a writer and echoed input on port 0, input only on port 1.
SPECIFICATION FairSpec
CONSTANTS
  w1 = w1
  w2 = w2
  LastPort = 1
  Writers = {w1}
  PortOf <- OneEach
  EchoPorts = {0}
  RingSize = 2
  CharLimit = 3
  None = None
INVARIANTS
  TypeOK
  Armed
  LineDriven
PROPERTIES
  NothingLost
  EveryCharSent
  EveryPortServed
