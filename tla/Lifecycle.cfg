SPECIFICATION LifecycleSpec
CONSTANTS
  Node = {n1, n2}
  Rank = {r0, r1, r2}
  rank0 = r0
  MaxCalls = 2
  Layouts <- MCLayouts
  Jobs <- MCJobs
  CST_W = 4
INVARIANTS GlobalBarrier NothingTooEarly TornDownLast
PROPERTIES KeepsPromise CallsReturn StartupCompletes EveryProcessEnds
CHECK_DEADLOCK FALSE
