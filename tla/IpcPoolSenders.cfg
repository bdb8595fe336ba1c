SPECIFICATION Spec
CONSTANTS
  Sender = {s1, s2}
  Rank = {r1}
  Node = node
  Bin <- TwoBins
  Stride <- StrideTwo
  Begin = 1
  End = 4
  Timeout = 1
  NetworkOnly = TRUE
  MaxSend = 2
SYMMETRY SenderSymmetry
INVARIANTS
  BlocksDisjoint
  ExclusiveOwnership
  NothingLost
PROPERTIES
  BlockKeepsOwner
