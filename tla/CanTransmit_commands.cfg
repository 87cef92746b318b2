\* Two tasks, two shells that stop, restart and reset the bus, errors and bus-off.
SPECIFICATION Spec
CONSTANTS
  Writers = {w1, w2}
  RtrWriters = {w1, w2}
  Shells = {s1, s2}
  Commands = {"stop", "restart", "reset"}
  ChipFaults = {"error", "off"}
  None = None
  Free = Free
  Chip = Chip
SYMMETRY Symmetry
INVARIANT
  ListenersInformed
PROPERTY
  StopHolds
