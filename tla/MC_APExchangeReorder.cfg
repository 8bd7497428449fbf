CONSTANTS
  Text = Text
  Wmlc = Wmlc
  Ports = {1001, 1002}
  RefNums = {7, 8}
  Replies <- MC_TextReplies
  ChunkSize = 2
  SimpleMax = 3
  MaxTrackedParts = 3
  MaxConcat = 2
  WaitTimeout = 1
  ConcatTimeout = 2
  MaxRequests = 2
  FreshRefs = TRUE
  MaxDuplicates = 1
SPECIFICATION Spec
INVARIANT ClientGetsReply
