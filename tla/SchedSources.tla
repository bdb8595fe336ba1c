---------------------------- MODULE SchedSources ----------------------------
(***************************************************************************)
(* What a PE's scheduler loop takes messages from (scheduler_take.h), and  *)
(* what the rest of the system does to it: other PEs, the network and the  *)
(* shared-memory pool add messages at any time, other PEs take node-level  *)
(* messages and steal tasks, and the handlers this PE runs add local work. *)
(*                                                                         *)
(* A source is the number of messages in it.  The node priority queue      *)
(* tells apart messages of priority at least as high as the local work     *)
(* (ahead) from the others (behind).                                       *)
(***************************************************************************)
EXTENDS Integers

CONSTANTS
    Cap,                \* bound on the length of a source
    OtherPes,           \* whether the process has other PEs
    Stream,             \* the sources that messages are added to
    node_queue_max,     \* node-level messages in a row
    thread_queue_max    \* thread-queue messages in a row

ASSUME SourceAssumption ==
    /\ Cap \in Nat \ {0}
    /\ OtherPes \in BOOLEAN
    /\ Stream \subseteq {"thread", "node", "ahead", "behind", "local", "task", "stop"}
    /\ node_queue_max \in Nat \ {0}
    /\ thread_queue_max \in Nat \ {0}

VARIABLES
    tq,       \* ConverseQueue of this PE
    nq,       \* ConverseNodeQueue of the process
    ahead,    \* CsdNodeQueue: priority at least that of the local work
    behind,   \* CsdNodeQueue: lower priority
    sq,       \* CsdSchedQueue of this PE
    tasks,    \* task queue of this PE
    held,     \* CsdNodeQueueLock is held by another PE
    stop,     \* stopFlag of this PE
    poll,     \* the loop was entered by CsdSchedulePoll
    idle,     \* CmiGetIdle
    closed    \* the program has no more messages to send

queues == <<tq, nq, ahead, behind, sq, tasks, held>>
sources == <<queues, stop, closed>>
entry == <<poll, idle>>

SourcesOK ==
    /\ tq \in 0 .. Cap /\ nq \in 0 .. Cap
    /\ ahead \in 0 .. Cap /\ behind \in 0 .. Cap
    /\ sq \in 0 .. Cap /\ tasks \in 0 .. Cap
    /\ held \in BOOLEAN /\ stop \in BOOLEAN /\ closed \in BOOLEAN
    /\ poll \in BOOLEAN /\ idle \in BOOLEAN

SourcesInit ==
    /\ tq = 0 /\ nq = 0 /\ ahead = 0 /\ behind = 0 /\ tasks = 0
    /\ sq \in 0 .. 1
    /\ held = FALSE /\ stop = FALSE /\ closed = FALSE
    /\ poll \in BOOLEAN /\ idle = FALSE

\* The node priority queue's length, CsdNodeQueueLenGet.
nodeLen == ahead + behind

\* CmiPushPE, CmiPushNode, CsdNodeEnqueueGeneral of others, the network's
\* deliveries and the blocks that CmiSchedulerPollIpc moves.
Arrive ==
    /\ ~ closed
    /\ \/ "thread" \in Stream /\ tq < Cap /\ tq' = tq + 1 /\ UNCHANGED <<nq, ahead, behind>>
       \/ "node" \in Stream /\ nq < Cap /\ nq' = nq + 1 /\ UNCHANGED <<tq, ahead, behind>>
       \/ "ahead" \in Stream /\ ~ held /\ ahead < Cap /\ ahead' = ahead + 1
          /\ UNCHANGED <<tq, nq, behind>>
       \/ "behind" \in Stream /\ ~ held /\ behind < Cap /\ behind' = behind + 1
          /\ UNCHANGED <<tq, nq, ahead>>
    /\ UNCHANGED <<sq, tasks, held, stop, closed>>

\* Another PE of the process takes a node-queue message or steals a task.
OthersTake ==
    /\ OtherPes
    /\ \/ nq > 0 /\ nq' = nq - 1 /\ tasks' = tasks
       \/ tasks > 0 /\ tasks' = tasks - 1 /\ nq' = nq
    /\ UNCHANGED <<tq, ahead, behind, sq, held, stop, closed>>

\* Another PE polls the node priority queue: it takes the lock, then it takes
\* the first message, or leaves it because its own work goes first.
OtherLocks ==
    /\ OtherPes
    /\ ~ held /\ nodeLen > 0
    /\ held' = TRUE
    /\ UNCHANGED <<tq, nq, ahead, behind, sq, tasks, stop, closed>>

\* The first message of the node priority queue, if it still has one.
TakeFirst ==
    \/ ahead > 0 /\ ahead' = ahead - 1 /\ behind' = behind
    \/ ahead = 0 /\ behind > 0 /\ behind' = behind - 1 /\ ahead' = ahead

OtherUnlocks ==
    /\ held
    /\ held' = FALSE
    /\ TakeFirst \/ (~ closed /\ UNCHANGED <<ahead, behind>>)
    /\ UNCHANGED <<tq, nq, sq, tasks, stop, closed>>

\* A callback of this PE, run by CcdRaiseCondition or CsdPeriodic between two
\* messages, adds local work.
Callback ==
    /\ ~ closed
    /\ "local" \in Stream /\ sq < Cap /\ sq' = sq + 1
    /\ UNCHANGED <<tq, nq, ahead, behind, tasks, held, stop, closed>>

\* The loop is entered again: CsdScheduler(-1), which resets the stop flag, or
\* CsdSchedulePoll.
Enter ==
    /\ poll' \in BOOLEAN
    /\ stop' = (stop /\ poll')
    /\ UNCHANGED <<queues, idle, closed>>

Close ==
    /\ ~ closed
    /\ closed' = TRUE
    /\ UNCHANGED <<queues, stop>>

Others == Close \/ Arrive \/ OthersTake \/ OtherLocks \/ OtherUnlocks

\* CmiHandleMessage, with s and k messages left in the local and the task
\* queue: the handler may add to either, or stop this PE's scheduler.
Handle(s, k) ==
    \/ sq' = s /\ tasks' = k /\ stop' = stop
    \/ ~ closed /\ "local" \in Stream /\ s < Cap /\ sq' = s + 1 /\ tasks' = k /\ stop' = stop
    \/ ~ closed /\ "task" \in Stream /\ k < Cap /\ tasks' = k + 1 /\ sq' = s /\ stop' = stop
    \/ ~ closed /\ "stop" \in Stream /\ stop' = TRUE /\ sq' = s /\ tasks' = k

\* CmiTakeThreadQueue, CmiTakeNodeQueue, CmiTakeThreadPrioQueue and
\* CmiTakeTaskQueue on a source that has a message, and running it.
RunThread ==
    /\ tq > 0 /\ tq' = tq - 1
    /\ Handle(sq, tasks)
    /\ UNCHANGED <<nq, ahead, behind, held, closed>>
RunNode ==
    /\ nq > 0 /\ nq' = nq - 1
    /\ Handle(sq, tasks)
    /\ UNCHANGED <<tq, ahead, behind, held, closed>>
RunLocal ==
    /\ sq > 0
    /\ Handle(sq - 1, tasks)
    /\ UNCHANGED <<tq, nq, ahead, behind, held, closed>>
RunTask ==
    /\ tasks > 0
    /\ Handle(sq, tasks - 1)
    /\ UNCHANGED <<tq, nq, ahead, behind, held, closed>>

\* Running the first message of the node priority queue; the lock is free.
RunNodePrio ==
    /\ ~ held
    /\ TakeFirst
    /\ Handle(sq, tasks)
    /\ UNCHANGED <<tq, nq, held, closed>>

Empty == tq = 0 /\ nq = 0 /\ nodeLen = 0 /\ sq = 0 /\ tasks = 0
=============================================================================
