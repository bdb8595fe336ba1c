------------------------------ MODULE Scheduler ------------------------------
(***************************************************************************)
(* CsdScheduler and CsdSchedulePoll of scheduler.cpp: the command line     *)
(* picks one of three loops when the program starts, and every call of     *)
(* either function runs that loop.  The loops share the sources and the    *)
(* idle state, and promise the same things about them.                     *)
(***************************************************************************)
EXTENDS SchedSources, SlotTable

CONSTANTS
    Backend,         \* the loops to choose from
    PollsProgress,   \* as in RegisteredScheduler
    MaxPool          \* as in RandomizedScheduler

ASSUME BackendAssumption ==
    /\ Backend \subseteq {"old", "registered", "randomized"}
    /\ PollsProgress \in BOOLEAN
    /\ MaxPool \in Nat \ {0}

VARIABLES
    backend,                                         \* the loop in use
    pc,                                              \* where it is
    nq_streak, tq_streak, threadWait, localWait,     \* of OldScheduler
    loop_counter, t, t_nodeStreak,
    t_progressFoundNothing, ipcDone, nodeWait,       \* of RegisteredScheduler
    pool, bound, took                                \* of RandomizedScheduler

Old == INSTANCE OldScheduler
Registered == INSTANCE RegisteredScheduler
Randomized == INSTANCE RandomizedScheduler

oldVars == <<nq_streak, tq_streak, threadWait, localWait>>
registeredVars == <<tableVars, loop_counter, t, t_nodeStreak, t_progressFoundNothing,
                    ipcDone, nodeWait>>
randomizedVars == <<pool, bound, took>>
vars == <<sources, entry, backend, pc, oldVars, registeredVars, randomizedVars>>

\* CmiSchedulerInitArgs.
Init ==
    /\ backend \in Backend
    /\ pc = IF backend = "registered" THEN "build" ELSE "top"
    /\ SourcesInit /\ TableInit
    /\ Old!LoopInit /\ Registered!LoopInit /\ Randomized!LoopInit

CsdScheduler ==
    \/ backend = "old" /\ Old!Step /\ UNCHANGED <<registeredVars, randomizedVars>>
    \/ backend = "registered" /\ Registered!Step /\ UNCHANGED <<oldVars, randomizedVars>>
    \/ backend = "randomized" /\ Randomized!Step /\ UNCHANGED <<oldVars, registeredVars>>

loops == <<entry, pc, oldVars, registeredVars, randomizedVars>>

\* The rest of the system; a callback runs only between two messages.
Elsewhere == (Others \/ (pc = "top" /\ Callback)) /\ UNCHANGED loops

Next == (CsdScheduler \/ Elsewhere) /\ UNCHANGED backend

Spec == Init /\ [][Next]_vars

\* The PE keeps running its loop, and other PEs release the lock.
FairSpec ==
    /\ Spec
    /\ WF_vars(CsdScheduler /\ UNCHANGED backend)
    /\ WF_vars(OtherUnlocks /\ UNCHANGED <<loops, backend>>)

-----------------------------------------------------------------------------
TypeOK ==
    CASE backend = "old" -> Old!TypeOK
      [] backend = "registered" -> Registered!TypeOK
      [] backend = "randomized" -> Randomized!TypeOK

\* The two streak counters of scheduler_old.cpp: node-level messages, however
\* many there are, run at most node_queue_max in a row while a message waits in
\* the thread queue; and as long as no node priority message runs, at most
\* LocalBound others run while a message waits in the local queue.  The second
\* ordering rule of scheduler_registered.cpp: where the network delivers nothing
\* meanwhile, at most node_queue_max node-level messages run in a row ahead of
\* local work that waits.
StreaksBound ==
    /\ backend = "old" => Old!ThreadQueueServed /\ Old!LocalQueueServed
    /\ backend = "registered" => Registered!LocalTurnComes

\* The PE goes idle, and a poll returns, only when it has no local work and no
\* tasks of its own, and no messages in its pool: whatever the loop counter, the
\* streaks and the other PEs' steals, every queue has been looked at.
IdleOnlyWhenDone ==
    [][(idle' /\ ~ idle) \/ (pc' = "returned" /\ poll)
         => /\ sq = 0 /\ pool = 0
            /\ backend # "randomized" => tasks = 0]_vars

\* A source that refills while the randomized loop drains it cannot keep the loop
\* from running a message.
DrawReached == backend = "randomized" => []<>(pc = "draw" \/ pc = "returned")

\* If arrivals end, whatever other PEs take or lock meanwhile, everything queued
\* is run, and the PE is idle or polling.
Drains == closed ~> [](Empty /\ pool = 0 /\ (poll \/ idle))

\* Drains and DrawReached: messages run while others arrive, and in the end all.
EverythingRuns == Drains /\ DrawReached

\* Infinitely often the local queue is empty or a message of it is run.
LocalServed == []<>(sq = 0) \/ []<><<Registered!RunsLocal>>_vars

\* From some time on only the node queue, and the PE itself, have messages.
NodeStream == backend = "registered" /\ <>[](tq = 0 /\ nodeLen = 0 /\ tasks = 0)

\* One iteration skips the node queues if the PE has local work, so a stream of
\* node messages cannot starve it (scheduler_registered.cpp, README.md).
NodeStreamServesLocal == NodeStream => LocalServed
=============================================================================
