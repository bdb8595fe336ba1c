------------------------- MODULE RandomizedScheduler -------------------------
(***************************************************************************)
(* The loop of scheduler_randomized.cpp (+randomized_msgq): every          *)
(* iteration moves messages from the sources into this PE's pool, then     *)
(* draws one of the pool's messages and runs it.  The draw is a            *)
(* nondeterministic choice, so the pool is the number of messages in it.   *)
(* CsdSchedulePollRandomized returns where the other loop goes idle.       *)
(***************************************************************************)
EXTENDS SchedSources

CONSTANT
    MaxPool    \* pools of at least this many messages are not told apart

VARIABLES
    pc,      \* where in the iteration
    pool,    \* messages in the pool
    bound,   \* messages the current drain may still move
    took     \* whether this iteration moved a message

loopVars == <<pool, bound, took>>
vars == <<sources, entry, pc, loopVars>>

TypeOK ==
    /\ SourcesOK
    /\ pc \in {"top", "node", "nodeprio", "task", "size", "thread", "sched", "draw", "returned"}
    /\ pool \in 0 .. MaxPool
    /\ bound \in 0 .. Cap
    /\ took \in BOOLEAN

LoopInit == pool = 0 /\ bound = 0 /\ took = FALSE

Init == SourcesInit /\ pc = "top" /\ LoopInit

-----------------------------------------------------------------------------
\* CmiSchedulerPollIpc: nothing, or messages for this PE or the process.
PollIpc ==
    \/ took' = FALSE /\ UNCHANGED sources
    \/ /\ ~ closed /\ took' = TRUE
       /\ \/ "thread" \in Stream /\ tq < Cap /\ tq' = tq + 1 /\ nq' = nq
          \/ "node" \in Stream /\ nq < Cap /\ nq' = nq + 1 /\ tq' = tq
       /\ UNCHANGED <<ahead, behind, sq, tasks, held, stop, closed>>

\* fillPool begins, or the loop ends.
Top ==
    /\ pc = "top"
    /\ \/ stop /\ ~ poll /\ pc' = "returned" /\ UNCHANGED <<sources, took>>
       \/ (~ stop \/ poll) /\ pc' = "node" /\ PollIpc
    /\ UNCHANGED <<pool, bound, entry>>

Call ==
    /\ pc = "returned"
    /\ pc' = "top"
    /\ Enter
    /\ UNCHANGED loopVars

Least(a, b) == IF a <= b THEN a ELSE b

\* drainInto took a message.
Pooled == pool' = Least(pool + 1, MaxPool) /\ took' = TRUE
NotPooled == UNCHANGED <<sources, pool, took>>

\* The shared sources: at most one message of each.
TakeNodeQueue ==
    /\ pc = "node" /\ pc' = "nodeprio"
    /\ \/ /\ nq > 0 /\ nq' = nq - 1 /\ Pooled
          /\ UNCHANGED <<tq, ahead, behind, sq, tasks, held, stop, closed>>
       \/ nq = 0 /\ NotPooled
    /\ UNCHANGED <<bound, entry>>

TakeNodePrioQueue ==
    /\ pc = "nodeprio" /\ pc' = "task"
    /\ \/ /\ ~ held /\ TakeFirst /\ Pooled
          /\ UNCHANGED <<tq, nq, sq, tasks, held, stop, closed>>
       \/ (held \/ nodeLen = 0) /\ NotPooled
    /\ UNCHANGED <<bound, entry>>

TakeTaskQueue ==
    /\ pc = "task" /\ pc' = "size"
    /\ \/ /\ tasks > 0 /\ tasks' = tasks - 1 /\ Pooled
          /\ UNCHANGED <<tq, nq, ahead, behind, sq, held, stop, closed>>
       \/ tasks = 0 /\ NotPooled
    /\ UNCHANGED <<bound, entry>>

\* The thread queue's size when its drain starts.
ThreadSize ==
    /\ pc = "size" /\ pc' = "thread"
    /\ bound' = tq
    /\ UNCHANGED <<sources, pool, took, entry>>

DrainThreadQueue ==
    /\ pc = "thread"
    /\ \/ /\ bound > 0 /\ tq > 0 /\ tq' = tq - 1 /\ Pooled
          /\ pc' = pc /\ bound' = bound - 1
          /\ UNCHANGED <<nq, ahead, behind, sq, tasks, held, stop, closed>>
       \/ (bound = 0 \/ tq = 0) /\ pc' = "sched" /\ bound' = sq /\ NotPooled
    /\ UNCHANGED entry

DrainSchedQueue ==
    /\ pc = "sched"
    /\ \/ /\ bound > 0 /\ sq > 0 /\ sq' = sq - 1 /\ Pooled
          /\ pc' = pc /\ bound' = bound - 1
          /\ UNCHANGED <<tq, nq, ahead, behind, tasks, held, stop, closed>>
       \/ (bound = 0 \/ sq = 0) /\ pc' = "draw" /\ bound' = bound /\ NotPooled
    /\ UNCHANGED entry

\* drawFromPool: one message less.
Drawn ==
    /\ pool > 0
    /\ \/ pool' = pool - 1
       \/ pool = MaxPool /\ ~ closed /\ pool' = MaxPool

\* drawFromPool and the message's handler, or idle.
Draw ==
    /\ pc = "draw"
    /\ \/ /\ Drawn
          /\ Handle(sq, tasks)
          /\ idle' = FALSE /\ pc' = "top"
          /\ UNCHANGED <<tq, nq, ahead, behind, held, closed>>
       \/ /\ pool = 0
          /\ idle' = (idle \/ ~ took)
          /\ pc' = IF poll /\ ~ took THEN "returned" ELSE "top"
          /\ UNCHANGED <<sources, pool>>
    /\ UNCHANGED <<bound, took, poll>>

-----------------------------------------------------------------------------
Step ==
    \/ Top \/ Call
    \/ TakeNodeQueue \/ TakeNodePrioQueue \/ TakeTaskQueue
    \/ ThreadSize \/ DrainThreadQueue \/ DrainSchedQueue \/ Draw

Elsewhere ==
    /\ Others \/ (pc = "top" /\ Callback)
    /\ UNCHANGED <<entry, pc, loopVars>>

Next == Step \/ Elsewhere

Spec == Init /\ [][Next]_vars
==============================================================================
