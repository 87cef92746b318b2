\* A task above canRecvTask and one below, a short queue, more frames than it holds.
SPECIFICATION Spec
CONSTANTS
  r1 = r1
  r2 = r2
  a = a
  b = b
  Readers = {r1, r2}
  HighReaders = {r1}
  Ids = {a, b}
  Wants <- OneEach
  QueueSize = 2
  FrameLimit = 4
  None = None
INVARIANTS
  TypeOK
  ReceiverServed
PROPERTIES
  InOrder
