\* Two tasks and a receiver that can overrun.
SPECIFICATION Spec
CONSTANTS
  Writers = {w1, w2}
  RtrWriters = {}
  Shells = {}
  Commands = {}
  ChipFaults = {"overrun"}
  None = None
  Free = Free
  Chip = Chip
INVARIANT
  ExclusiveAccess
