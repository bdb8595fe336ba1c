SPECIFICATION StructuresSpec
CONSTANTS
  Message = {m1, m2, m3}
  IntBits = 2
  LongPriority = {3}
  kKeptEmptyLevels = 2
  SCHED_TABLE_SIZE = 8
  UintBits = 9
  FreqChoice <- Frequencies
  PE = {o, r1, r2}
  Owner = o
  Requests = {192, 448, 2000}
  cutOffNum = 5
  InitSize = 1648
  ExpandSize = 1264
  Limit = 2000
  MaxMalloc = 4
  MaxFree = 4
  Cond = {idle}
  Interval <- Intervals
  MaxSkip = 2
  Resolution = 1
  MaxId = 2
  MaxRaise = 1
  MaxTime = 5
  MaxDepth = 4
  Handle = {1, 2}
  RecvHandle = {1, 2}
  NumBuf = 2
  Recycle = FALSE
  MaxSend = 3
  MaxRef = 2
  Worker = {w1, w2, w3}
  InitialCount = 3
  MaxRounds = 3
INVARIANTS EveryHandlerPolled SlotsAccounted CalledOnce  SentByTheLast
            
PROPERTY ImplementsPrioList
CHECK_DEADLOCK FALSE
