---------------------------- MODULE OldScheduler ----------------------------
(***************************************************************************)
(* The loop of scheduler_old.cpp (+old-scheduler): CsdSchedulerOld, and    *)
(* CsdSchedulePollOld, which is the same loop but returns where the other  *)
(* one goes idle.  One step per check or pop; the rest of the system takes *)
(* steps in between.                                                       *)
(***************************************************************************)
EXTENDS SchedSources

VARIABLES
    pc,           \* where in the iteration
    nq_streak,    \* node-level messages in a row, not counted past the maximum
    tq_streak,    \* thread-queue messages in a row, not counted past the maximum
    threadWait,   \* history, for one call of the loop: node-level messages run
                  \* while the thread queue waits
    localWait     \* history: messages run while the local queue waits, since the
                  \* last local or node priority message

loopVars == <<nq_streak, tq_streak, threadWait, localWait>>
vars == <<sources, entry, pc, loopVars>>

M == node_queue_max
K == thread_queue_max

\* The bound on localWait: M node-level messages around each of K thread ones.
LocalBound == K * (M + 1) + M

TypeOK ==
    /\ SourcesOK
    /\ pc \in {"top", "popnode", "thread", "prio", "trylock", "local", "returned"}
    /\ nq_streak \in 0 .. M
    /\ tq_streak \in 0 .. K
    /\ threadWait \in 0 .. M + 1
    /\ localWait \in 0 .. LocalBound + 1

LoopInit == nq_streak = 0 /\ tq_streak = 0 /\ threadWait = 0 /\ localWait = 0

Init == SourcesInit /\ pc = "top" /\ LoopInit

Least(a, b) == IF a <= b THEN a ELSE b
Count(n, max) == Least(n + 1, max)

\* What a message that is run does to the two histories.
WaitForThread(source) ==
    threadWait' = IF tq > 0 /\ source \in {"node", "nodeprio"}
                  THEN Count(threadWait, M + 1) ELSE 0
WaitForLocal(source) ==
    localWait' = IF sq > 0 /\ source \in {"node", "thread"}
                 THEN Count(localWait, LocalBound + 1) ELSE 0

\* A message of the given source was run: idle is released, the iteration ends.
Ran(source) ==
    /\ pc' = "top"
    /\ idle' = FALSE /\ poll' = poll
    /\ WaitForThread(source)
    /\ WaitForLocal(source)

NoRun == UNCHANGED <<sources, poll, threadWait, localWait>>

-----------------------------------------------------------------------------
\* (mutant) The node queue is polled first whatever the streak.
NodeQueueTurnAlways == nq > 0

\* The condition of the node-queue branch.
NodeQueueTurn ==
    /\ nq > 0
    /\ \/ nq_streak < M
       \/ tq = 0 /\ sq = 0

Top ==
    /\ pc = "top"
    /\ pc' = IF stop /\ ~ poll THEN "returned"
             ELSE IF NodeQueueTurn THEN "popnode" ELSE "thread"
    /\ UNCHANGED <<nq_streak, tq_streak, idle>>
    /\ NoRun

\* The streaks are local to a call.
Call ==
    /\ pc = "returned"
    /\ pc' = "top"
    /\ Enter
    /\ nq_streak' = 0 /\ tq_streak' = 0
    /\ threadWait' = 0 /\ localWait' = 0

\* Another PE may have taken the message the count showed: nothing is run.
PopNode ==
    /\ pc = "popnode"
    /\ UNCHANGED tq_streak
    /\ \/ /\ RunNode
          /\ nq_streak' = Count(nq_streak, M)
          /\ Ran("node")
       \/ /\ nq = 0
          /\ pc' = "top"
          /\ UNCHANGED <<nq_streak, idle>>
          /\ NoRun

ThreadTurn == tq_streak < K \/ sq = 0

\* The thread-queue branch; its only consumer finds a message if the count says
\* there is one.
Thread ==
    /\ pc = "thread"
    /\ \/ /\ tq > 0
          /\ nq_streak' = 0
          /\ \/ ThreadTurn /\ RunThread /\ Ran("thread") /\ tq_streak' = Count(tq_streak, K)
             \/ ~ ThreadTurn /\ RunLocal /\ Ran("local") /\ tq_streak' = 0
       \/ /\ tq = 0
          /\ tq_streak' = 0
          /\ pc' = "prio"
          /\ UNCHANGED <<nq_streak, idle>>
          /\ NoRun

\* (mutant) The node priority queue is polled only when there is local work.
NodePrioTurnLocal == sq > 0 /\ nodeLen > 0

\* The node priority queue's turn: its length is read before the lock.
NodePrioTurn == (nq_streak < M \/ sq = 0) /\ nodeLen > 0

Prio ==
    /\ pc = "prio"
    /\ \/ NodePrioTurn /\ pc' = "trylock" /\ nq_streak' = nq_streak
       \/ ~ NodePrioTurn /\ pc' = "local" /\ nq_streak' = 0
    /\ UNCHANGED <<tq_streak, idle>>
    /\ NoRun

\* By now another PE may hold the lock or have emptied the queue.
TryLock ==
    /\ pc = "trylock"
    /\ UNCHANGED tq_streak
    /\ \/ /\ RunNodePrio
          /\ nq_streak' = Count(nq_streak, M)
          /\ Ran("nodeprio")
       \/ /\ held \/ nodeLen = 0
          /\ nq_streak' = 0
          /\ pc' = "local"
          /\ UNCHANGED idle
          /\ NoRun

\* The local queue, then the task queue; then CsdSchedulerOld is idle, and
\* CsdSchedulePollOld returns.
Local ==
    /\ pc = "local"
    /\ UNCHANGED <<nq_streak, tq_streak>>
    /\ \/ RunLocal /\ Ran("local")
       \/ sq = 0 /\ RunTask /\ Ran("task")
       \/ /\ sq = 0 /\ tasks = 0
          /\ pc' = IF poll THEN "returned" ELSE "top"
          /\ idle' = (idle \/ ~ poll)
          /\ NoRun

-----------------------------------------------------------------------------
Step == Top \/ Call \/ PopNode \/ Thread \/ Prio \/ TryLock \/ Local

Elsewhere ==
    /\ Others \/ (pc = "top" /\ Callback)
    /\ UNCHANGED <<entry, pc, loopVars>>

Next == Step \/ Elsewhere

Spec == Init /\ [][Next]_vars

-----------------------------------------------------------------------------
\* Node-level messages, however many there are, run at most node_queue_max in a
\* row while a message waits in the thread queue, in one call of the loop.
ThreadQueueServed == threadWait <= M

\* As long as no node priority message runs, at most LocalBound node-queue and
\* thread-queue messages run while a message waits in the local queue, in one
\* call of the loop.
LocalQueueServed == localWait <= LocalBound
=============================================================================
