CONSTANTS
  a1 = a1
  a2 = a2
  NoSender = NoSender
  MeshIds <- MC_MeshIds
  SenderPorts <- MC_SenderPorts
  RefNums = {7, 8}
  Requests <- MC_Requests
  Replies <- MC_Replies
  ChunkSize = 2
  SimpleMax = 3
  MaxTrackedParts = 3
  DataSize = 7
  MaxConcat = 2
  MaxPending = 1
  ConcatTimeout = 1
  PendingTimeout = 2
  MaxRequests = 2
  FreshRefs = TRUE
SPECIFICATION Spec
INVARIANT TypeOK ForwardIntegrity ReplyRouting
PROPERTY SlotsReclaimed ImplementsRelay
