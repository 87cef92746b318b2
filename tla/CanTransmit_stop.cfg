\* A shell that stops and restarts the bus, and a chip that goes off it.
SPECIFICATION Spec
CONSTANTS
  Writers = {w1}
  RtrWriters = {}
  Shells = {s1}
  Commands = {"stop", "restart"}
  ChipFaults = {"error", "off"}
  None = None
  Free = Free
  Chip = Chip
INVARIANT
  StopSilences
