\* Three tasks, one of them sending remote requests; bus errors, nothing worse.
SPECIFICATION FairSpec
CONSTANTS
  Writers = {w1, w2, w3}
  RtrWriters = {w3}
  Shells = {}
  Commands = {}
  ChipFaults = {"error"}
  None = None
  Free = Free
  Chip = Chip
INVARIANTS
  TypeOK
  ExclusiveAccess
  WholeFrame
  NeverBusy
PROPERTIES
  SentWhatWasAsked
  AccessProtocol
  EveryWriteReturns
