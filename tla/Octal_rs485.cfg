\* Two tasks that write to one port.
SPECIFICATION Spec
CONSTANTS
  w1 = w1
  w2 = w2
  LastPort = 1
  Writers = {w1, w2}
  PortOf <- SamePort
  EchoPorts = {}
  RingSize = 1
  CharLimit = 2
  None = None
INVARIANTS
  LineDriven
