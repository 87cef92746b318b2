\* Two tasks below canRecvTask that ask for the same identifier.
SPECIFICATION FairSpec
CONSTANTS
  r1 = r1
  r2 = r2
  a = a
  b = b
  Readers = {r1, r2}
  HighReaders = {}
  Ids = {a, b}
  Wants <- SameId
  QueueSize = 2
  FrameLimit = 2
  None = None
INVARIANTS
  ReadSound
  NoLeftovers
  NoWildCopy
PROPERTIES
  EveryReadReturns
  EveryMessageHandled
