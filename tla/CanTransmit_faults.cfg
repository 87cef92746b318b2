\* Two tasks, every fault of the bus.
SPECIFICATION FairSpec
CONSTANTS
  Writers = {w1, w2}
  RtrWriters = {w1, w2}
  Shells = {}
  Commands = {}
  ChipFaults = {"error", "off", "overrun"}
  None = None
  Free = Free
  Chip = Chip
INVARIANTS
  NoLostToken
PROPERTIES
  TransmitterComesBack
  RecoversFromBusOff
