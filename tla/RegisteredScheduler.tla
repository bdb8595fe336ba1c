------------------------- MODULE RegisteredScheduler -------------------------
(***************************************************************************)
(* The default scheduler loop (scheduler_registered.cpp): build the slot   *)
(* table, then in each iteration deliver shared-memory messages, try the   *)
(* thread queue, try the node-level queues, and sweep the table from the   *)
(* loop counter on until a handler has run a message.                      *)
(*                                                                         *)
(* CsdSchedulePollRegistered is the same loop, and returns where this one  *)
(* goes idle.  One step per queue polled; the rest of the system takes     *)
(* steps in between.                                                       *)
(***************************************************************************)
EXTENDS SchedSources, SlotTable

CONSTANT
    PollsProgress     \* t_pollsProgress: this PE polls the network

VARIABLES
    pc,                     \* where in the iteration
    loop_counter,           \* modulo the table size
    t,                      \* slots swept in this iteration
    t_nodeStreak,           \* node-level messages in a row, not counted past the maximum
    t_progressFoundNothing,
    ipcDone,                \* shared-memory messages came in this iteration
    nodeWait                \* history: node-level messages run ahead of waiting
                            \* local work since a message of another kind ran
                            \* or the network delivered

loopVars == <<loop_counter, t, t_nodeStreak, t_progressFoundNothing, ipcDone, nodeWait>>
vars == <<sources, entry, tableVars, pc, loopVars>>

M == node_queue_max

\* The handlers in the order CmiQueueRegisterInitThread lists them.
Handler == <<"thread", "nodeprio", "local", "progress", "task">>

TypeOK ==
    /\ SourcesOK /\ TableOK
    /\ pc \in {"build", "top", "thread", "first", "ahead", "slot",
               "slot_thread", "slot_first", "slot_ahead", "returned"}
    /\ loop_counter \in Slot
    /\ t \in 0 .. SCHED_TABLE_SIZE
    /\ t_nodeStreak \in 0 .. M
    /\ t_progressFoundNothing \in BOOLEAN /\ ipcDone \in BOOLEAN
    /\ nodeWait \in 0 .. M + 1

LoopInit ==
    /\ loop_counter = 0 /\ t = 0 /\ t_nodeStreak = 0
    /\ t_progressFoundNothing = FALSE /\ ipcDone = FALSE
    /\ nodeWait = 0

Init == SourcesInit /\ TableInit /\ pc = "build" /\ LoopInit

Count(n, max) == IF n < max THEN n + 1 ELSE max

NoRun == UNCHANGED <<sources, poll, nodeWait>>

\* A handler ran a message: idle is released, the iteration ends.
Ran ==
    /\ pc' = "top"
    /\ loop_counter' = (loop_counter + 1) % SCHED_TABLE_SIZE
    /\ idle' = FALSE /\ poll' = poll
    /\ t' = 0 /\ ipcDone' = FALSE
    /\ UNCHANGED t_progressFoundNothing

RanOther == Ran /\ nodeWait' = 0 /\ UNCHANGED t_nodeStreak

-----------------------------------------------------------------------------
\* CmiQueueRegisterInitThread, then the loop is entered.
Build ==
    /\ pc = "build"
    /\ \/ BuildStep /\ pc' = pc
       \/ stage = "built" /\ pc' = "top" /\ UNCHANGED tableVars
    /\ UNCHANGED <<loop_counter, t, t_nodeStreak, t_progressFoundNothing, ipcDone, idle>>
    /\ NoRun

\* CmiSchedulerPollIpc: nothing, or messages for this PE or the process.
PollIpc ==
    \/ ipcDone' = FALSE /\ UNCHANGED sources
    \/ /\ ~ closed /\ ipcDone' = TRUE
       /\ \/ "thread" \in Stream /\ tq < Cap /\ tq' = tq + 1 /\ nq' = nq
          \/ "node" \in Stream /\ nq < Cap /\ nq' = nq + 1 /\ tq' = tq
       /\ UNCHANGED <<ahead, behind, sq, tasks, held, stop, closed>>

\* The top of an iteration, or the end of the loop.
Top ==
    /\ pc = "top"
    /\ \/ /\ stop /\ ~ poll
          /\ pc' = "returned"
          /\ UNCHANGED <<sources, t_progressFoundNothing, ipcDone>>
       \/ /\ ~ stop \/ poll
          /\ pc' = "thread"
          /\ t_progressFoundNothing' = FALSE
          /\ PollIpc
    /\ UNCHANGED <<tableVars, t, loop_counter, t_nodeStreak, entry, nodeWait>>

\* The loop counter is local to a call, the streak is not.
Call ==
    /\ pc = "returned"
    /\ pc' = "top"
    /\ Enter
    /\ loop_counter' = 0
    /\ UNCHANGED <<tableVars, t, t_nodeStreak, t_progressFoundNothing, ipcDone, nodeWait>>

\* Go on to another place of the same iteration, nothing having been run.
GoTo(where) ==
    /\ pc' = where
    /\ UNCHANGED <<loop_counter, t_progressFoundNothing, ipcDone, idle>>
    /\ NoRun

NextSlot == GoTo("slot") /\ t' = t + 1

\* pollConverseThreadQueue, ahead of the sweep or after progress.
Thread ==
    /\ pc \in {"thread", "slot_thread"}
    /\ \/ RunThread /\ RanOther
       \/ /\ tq = 0
          /\ GoTo(IF pc = "thread" THEN "first" ELSE "slot_first")
          /\ UNCHANGED <<t, t_nodeStreak>>
    /\ UNCHANGED tableVars

\* pollNodeQueuesFirst returned false, to the loop or to pollProgress.
NotFirst == IF pc \in {"first", "ahead"} THEN GoTo("slot") /\ t' = t ELSE NextSlot

RanNodeLevel ==
    /\ Ran
    /\ t_nodeStreak' = Count(t_nodeStreak, M)
    /\ nodeWait' = IF sq > 0 THEN Count(nodeWait, M + 1) ELSE 0

\* It is local work's turn.
LocalTurn == t_nodeStreak >= M /\ sq > 0

\* pollNodeQueuesFirst: the streak and the node queue.
NodeFirst ==
    /\ pc \in {"first", "slot_first"}
    /\ \/ LocalTurn /\ t_nodeStreak' = 0 /\ NotFirst
       \/ ~ LocalTurn /\ RunNode /\ RanNodeLevel
       \/ /\ ~ LocalTurn /\ nq = 0
          /\ GoTo(IF pc = "first" THEN "ahead" ELSE "slot_ahead")
          /\ UNCHANGED <<t, t_nodeStreak>>
    /\ UNCHANGED tableVars

\* CmiTakeNodePrioQueueIfAhead finds a message that local work does not precede.
IsAhead == ~ held /\ (ahead > 0 \/ (behind > 0 /\ sq = 0))

\* pollNodeQueuesFirst: the node priority queue.
NodeAhead ==
    /\ pc \in {"ahead", "slot_ahead"}
    /\ \/ IsAhead /\ RunNodePrio /\ RanNodeLevel
       \/ ~ IsAhead /\ t_nodeStreak' = 0 /\ NotFirst
    /\ UNCHANGED tableVars

-----------------------------------------------------------------------------
HandlerAt(k) == IF poll_handlers[k] = 0 THEN "nowork" ELSE Handler[poll_handlers[k]]

\* (mutant) The sweep ends at the end of the table.
CurrentNoWrap ==
    IF loop_counter + t >= SCHED_TABLE_SIZE THEN "nowork" ELSE HandlerAt(loop_counter + t)

\* The handler the sweep has come to.
Current == HandlerAt((loop_counter + t) % SCHED_TABLE_SIZE)

\* pollProgress: skipped if it found nothing before in this sweep; what progress
\* delivers comes in through the queues.
PollProgress ==
    \/ /\ PollsProgress /\ ~ t_progressFoundNothing
       /\ \/ /\ pc' = "slot_thread"
             /\ nodeWait' = 0
             /\ UNCHANGED <<t, t_progressFoundNothing>>
          \/ /\ t_progressFoundNothing' = TRUE
             /\ pc' = pc /\ t' = t + 1
             /\ nodeWait' = nodeWait
       /\ UNCHANGED <<sources, loop_counter, ipcDone, entry>>
    \/ ~ (PollsProgress /\ ~ t_progressFoundNothing) /\ NextSlot

\* One slot of the sweep.
Sweep ==
    /\ pc = "slot" /\ t < SCHED_TABLE_SIZE
    /\ \/ Current = "thread" /\ RunThread /\ RanOther
       \/ Current = "thread" /\ tq = 0 /\ NextSlot /\ UNCHANGED t_nodeStreak
       \/ Current = "nodeprio" /\ RunNodePrio /\ RanOther
       \/ Current = "nodeprio" /\ (held \/ nodeLen = 0) /\ NextSlot /\ UNCHANGED t_nodeStreak
       \/ Current = "local" /\ RunLocal /\ RanOther
       \/ Current = "local" /\ sq = 0 /\ NextSlot /\ UNCHANGED t_nodeStreak
       \/ Current = "task" /\ RunTask /\ RanOther
       \/ Current = "task" /\ tasks = 0 /\ NextSlot /\ UNCHANGED t_nodeStreak
       \/ Current = "progress" /\ PollProgress /\ UNCHANGED t_nodeStreak
       \/ Current = "nowork" /\ NextSlot /\ UNCHANGED t_nodeStreak
    /\ UNCHANGED tableVars

\* A message of the local queue is run.
RunsLocal == pc = "slot" /\ t < SCHED_TABLE_SIZE /\ Current = "local" /\ pc' = "top"

\* No slot had work: idle, unless shared-memory messages came in; a poll returns.
SweptAll ==
    /\ pc = "slot" /\ t = SCHED_TABLE_SIZE
    /\ idle' = (idle \/ ~ ipcDone)
    /\ pc' = IF poll /\ ~ ipcDone THEN "returned" ELSE "top"
    /\ loop_counter' = (loop_counter + 1) % SCHED_TABLE_SIZE
    /\ t' = 0 /\ ipcDone' = FALSE
    /\ UNCHANGED <<tableVars, t_nodeStreak, t_progressFoundNothing>>
    /\ NoRun

-----------------------------------------------------------------------------
Step == Build \/ Top \/ Call \/ Thread \/ NodeFirst \/ NodeAhead \/ Sweep \/ SweptAll

Elsewhere ==
    /\ Others \/ (pc = "top" /\ Callback)
    /\ UNCHANGED <<entry, tableVars, pc, loopVars>>

Next == Step \/ Elsewhere

Spec == Init /\ [][Next]_vars

-----------------------------------------------------------------------------
\* Where the network delivers nothing meanwhile, at most node_queue_max node-level messages run in a
\* row ahead of local work that waits (scheduler_registered.cpp, the second
\* ordering rule).
LocalTurnComes == nodeWait <= M
==============================================================================
