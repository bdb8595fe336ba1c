SPECIFICATION MessagingSpec
CONSTANTS
  Producer = {p1, p2}
  Consumer = {c1, c2}
  owner = c1
  MaxPush = 3
  NumThreads = 3
  NumDevices = 2
  Room = 1
  backend_poll_thread = 3
  Ops <- MCOps
  Owner <- MCOwner
  Kept = {"y"}
  Client = {client}
  NumPes = 7
  Requests <- MCRequests
  MaxConn = 3
  Main = Main
  Standin = {s1, s2}
  Thread = {t1, t2}
  Future = {f1}
  NULL = NULL
  MaxCalls = 9
  MaxCtv = 1
INVARIANTS CreditIsBacked AckAfterData   
PROPERTIES QueueDrains TransferCompletes EveryPostCompletes EveryConnectionCloses EveryoneAwakenedRuns
CHECK_DEADLOCK FALSE
