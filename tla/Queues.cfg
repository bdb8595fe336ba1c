SPECIFICATION QueuesSpec
CONSTANTS
  p1 = p1
  p2 = p2
  t1 = t1
  t2 = t2
  t3 = t3
  Thief = {t1, t2}
  TaskQueueSize = 2
  MaxTask = 4
  Overrun = FALSE
  Producers <- MCProducers
  Sends <- MCSends
  Consumer = {t1, t2}
  MaxCalls = 2
  BLOCK_SIZE = 2
  IMPLICIT_INITIAL_INDEX_SIZE = 1
  initialBlockPoolSize = 1
  User = {t1, t2, t3}
  Node = {n1, n2}
  Null = Null
  MaxOps = 2
  Thread = {t1, t2, t3}
  HashedId <- MCHashedId
  INITIAL_IMPLICIT_PRODUCER_HASH_SIZE = 4
  MaxLooks = 6
SYMMETRY Swap
INVARIANTS EachTaskOnce RightElement CallsToldRight NodesAccounted OneProducerEach
CHECK_DEADLOCK FALSE
