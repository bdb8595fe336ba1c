SPECIFICATION FairSpec
CONSTANTS
  Sender = {s1}
  Rank = {r1, r2}
  Node = node
  Bin <- OneBin
  Stride <- StrideOne
  Begin = 1
  End = 3
  Timeout = 2
  NetworkOnly = FALSE
  MaxSend = 4
PROPERTIES
  ImplementsChannel
