\* One task, and a shell that resets the bus; the bus is well.
SPECIFICATION Spec
CONSTANTS
  Writers = {w1}
  RtrWriters = {}
  Shells = {s1}
  Commands = {"reset"}
  ChipFaults = {}
  None = None
  Free = Free
  Chip = Chip
INVARIANT
  NoLostToken
