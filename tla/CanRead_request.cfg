\* One task below canRecvTask, and other nodes that use its identifier.
SPECIFICATION Spec
CONSTANTS
  r1 = r1
  r2 = r2
  a = a
  b = b
  Readers = {r1}
  HighReaders = {}
  Ids = {a}
  Wants <- SameId
  QueueSize = 2
  FrameLimit = 2
  None = None
PROPERTY
  SendsRequest
