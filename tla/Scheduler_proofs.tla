-------------------------- MODULE Scheduler_proofs --------------------------
(***************************************************************************)
(* Proofs about the three scheduler loops, for queues of any length, any   *)
(* maxima of the streaks and any table.  Of the slot table they use that   *)
(* the local queue, and the task queue if there are tasks, have a slot     *)
(* (Polled); that a table is built so is EveryHandlerPolled of SlotTable.  *)
(***************************************************************************)
EXTENDS MCScheduler, TLAPS

Max == node_queue_max

\* A finished table has a slot for the PE's own queues.
Polled ==
  stage = "built" =>
    /\ \E k \in Slot : Registered!HandlerAt(k) = "local"
    /\ "task" \in Stream => \E k \in Slot : Registered!HandlerAt(k) = "task"

\* What each queue has is a number of messages.
Lengths ==
  /\ tq \in Nat /\ nq \in Nat /\ ahead \in Nat /\ behind \in Nat /\ sq \in Nat /\ tasks \in Nat
  /\ "task" \notin Stream => tasks = 0

\* The sources, and the parts of the state that belong to a loop not in use.
SourceInv ==
  /\ Lengths
  /\ backend \in {"old", "registered", "randomized"}
  /\ pool \in Nat /\ (backend # "randomized" => pool = 0)
  /\ pc = "returned" /\ poll => sq = 0 /\ pool = 0 /\ (backend # "randomized" => tasks = 0)

-----------------------------------------------------------------------------
\* scheduler_old.cpp

\* Messages that waiting for the local queue costs up to the j-th thread message.
Upto(j) == j * (Max + 1)

OldType ==
  /\ pc \in {"top", "popnode", "thread", "prio", "trylock", "local", "returned"}
  /\ nq_streak \in 0 .. Max /\ tq_streak \in 0 .. thread_queue_max
  /\ threadWait \in Nat /\ localWait \in Nat

\* The thread queue waits for no more messages than the streak counts.
ThreadInv ==
  /\ threadWait <= nq_streak
  /\ threadWait > 0 => tq > 0
  /\ pc = "popnode" => nq_streak < Max \/ threadWait = 0
  /\ pc \in {"prio", "trylock", "local"} => threadWait = 0

\* The local queue waits for a streak of node messages around each thread
\* message of a streak; the streaks are reset only when its turn has come.
LocalInv ==
  /\ localWait > 0 => sq > 0
  /\ pc = "popnode" => nq_streak < Max \/ localWait = 0
  /\ pc \notin {"prio", "trylock", "local"} => localWait <= Upto(tq_streak) + nq_streak
  /\ localWait <= Upto(thread_queue_max) + Max

OldInv == backend = "old" => OldType /\ ThreadInv /\ LocalInv

-----------------------------------------------------------------------------
\* scheduler_registered.cpp

InSlot == pc \in {"slot_thread", "slot_first", "slot_ahead"}

SlotAt(d) == Registered!HandlerAt((loop_counter + d) % SCHED_TABLE_SIZE)

RegType ==
  /\ pc \in {"build", "top", "thread", "first", "ahead", "slot", "slot_thread", "slot_first",
             "slot_ahead", "returned"}
  /\ pc # "build" => stage = "built"
  /\ loop_counter \in Slot /\ t \in 0 .. SCHED_TABLE_SIZE
  /\ t_nodeStreak \in 0 .. Max /\ nodeWait \in 0 .. Max

\* A streak is ended, with local work waiting, only by a sweep of the table.
NodeInv ==
  /\ nodeWait > 0 => sq > 0
  /\ pc # "slot" => nodeWait <= t_nodeStreak
  /\ pc \in {"ahead", "slot_ahead"} => t_nodeStreak < Max \/ sq = 0
  /\ InSlot => nodeWait = 0

\* The slots a sweep has passed had no work, and have none.
SweepInv ==
  /\ pc # "slot" /\ ~InSlot => t = 0
  /\ InSlot => t < SCHED_TABLE_SIZE /\ SlotAt(t) = "progress"
  /\ \A d \in 0 .. t - 1 : /\ SlotAt(d) = "local" => sq = 0
                           /\ SlotAt(d) = "task" => tasks = 0

RegInv == backend = "registered" => RegType /\ NodeInv /\ SweepInv

-----------------------------------------------------------------------------
\* scheduler_randomized.cpp: where an iteration has taken nothing, the drain of
\* the local queue found it empty.
RandInv ==
  backend = "randomized" =>
    /\ pc \in {"top", "node", "nodeprio", "task", "size", "thread", "sched", "draw", "returned"}
    /\ bound \in Nat
    /\ pc = "sched" /\ ~took => bound = sq
    /\ pc = "draw" /\ ~took => sq = 0

LoopInv == SourceInv /\ OldInv /\ RegInv /\ RandInv

-----------------------------------------------------------------------------
\* Whatever a handler adds, or another PE takes, lengths are numbers, and the
\* local queue shrinks only when a message of it is run.
LEMMA HandleKeeps ==
  ASSUME NEW s \in Nat, NEW k \in Nat, "task" \notin Stream => k = 0, Handle(s, k)
  PROVE  sq' \in Nat /\ sq' >= s /\ tasks' \in Nat /\ ("task" \notin Stream => tasks' = 0)
  BY DEF Handle

\* Running a message takes it from its queue.
LEMMA RunKeeps ==
  ASSUME Lengths, RunThread \/ RunNode \/ RunNodePrio \/ RunLocal \/ RunTask
  PROVE  /\ Lengths'
         /\ RunNode \/ RunNodePrio \/ RunLocal \/ RunTask => tq' = tq
         /\ RunThread \/ RunNode \/ RunNodePrio \/ RunTask => sq' >= sq
<1> USE DEF Lengths
<1>1. RunThread => Lengths' /\ sq' >= sq
  BY HandleKeeps DEF RunThread
<1>2. RunNode => Lengths' /\ tq' = tq /\ sq' >= sq
  BY HandleKeeps DEF RunNode
<1>3. RunNodePrio => Lengths' /\ tq' = tq /\ sq' >= sq
  BY HandleKeeps DEF RunNodePrio, TakeFirst
<1>4. RunLocal => Lengths' /\ tq' = tq
  BY HandleKeeps DEF RunLocal
<1>5. RunTask => Lengths' /\ tq' = tq /\ sq' >= sq
  BY HandleKeeps DEF RunTask
<1> QED BY <1>1, <1>2, <1>3, <1>4, <1>5, Zenon

\* The rest of the system takes messages of the PE's own queues only from the
\* task queue, and adds to the local queue only between iterations.
LEMMA ElsewhereSources ==
  ASSUME Lengths, Others \/ (pc = "top" /\ Callback)
  PROVE  /\ Lengths' /\ tq' >= tq /\ sq' >= sq /\ tasks' <= tasks
         /\ pc # "top" => sq' = sq
<1> USE DEF Lengths
<1>1. CASE Others
  BY <1>1 DEF Others, Close, Arrive, OthersTake, OtherLocks, OtherUnlocks, TakeFirst, queues
<1>2. CASE pc = "top" /\ Callback
  BY <1>2 DEF Callback
<1> QED BY <1>1, <1>2

\* The three loops take from the same sources.
LEMMA SameSources ==
  /\ (Old!RunThread <=> RunThread) /\ (Old!RunNode <=> RunNode) /\ (Old!RunLocal <=> RunLocal)
  /\ (Old!RunTask <=> RunTask) /\ (Old!RunNodePrio <=> RunNodePrio)
  /\ (Registered!RunThread <=> RunThread) /\ (Registered!RunNode <=> RunNode)
  /\ (Registered!RunLocal <=> RunLocal) /\ (Registered!RunTask <=> RunTask)
  /\ (Registered!RunNodePrio <=> RunNodePrio)
  BY DEF Old!RunThread, RunThread, Old!RunNode, RunNode, Old!RunLocal, RunLocal, Old!RunTask,
    RunTask, Old!RunNodePrio, RunNodePrio, Old!Handle, Handle, Old!TakeFirst, TakeFirst,
    Registered!RunThread, Registered!RunNode, Registered!RunLocal, Registered!RunTask,
    Registered!RunNodePrio, Registered!Handle, Registered!TakeFirst

\* The bound on the local queue's wait grows with every thread message.
LEMMA UptoGrows ==
  ASSUME NEW j \in 0 .. thread_queue_max
  PROVE  Upto(j) \in Nat /\ Upto(j + 1) = Upto(j) + Max + 1 /\ Upto(j) <= Upto(thread_queue_max)
<1>1. Max \in Nat /\ thread_queue_max \in Nat
  BY SourceAssumption DEF Max
<1>2. (thread_queue_max - j) * (Max + 1) >= 0
  BY <1>1
<1> QED BY <1>1, <1>2 DEF Upto

-----------------------------------------------------------------------------
\* A step of scheduler_old.cpp's loop keeps the bounds on its streaks.
LEMMA OldKeeps ==
  ASSUME LoopInv, backend = "old", backend' = "old", pool' = pool, Old!Step
  PROVE  LoopInv'
<1> DEFINE K == thread_queue_max
           B == Old!LocalBound
<1>0. /\ Lengths /\ OldType /\ ThreadInv /\ LocalInv /\ pool = 0
      /\ Max \in Nat /\ Max > 0 /\ K \in Nat /\ K > 0
      /\ Upto(0) = 0 /\ B = Upto(K) + Max
      /\ \A j \in 0 .. K :
            Upto(j) \in Nat /\ Upto(j + 1) = Upto(j) + Max + 1 /\ Upto(j) <= Upto(K)
  <2>1. Max \in Nat /\ Max > 0 /\ K \in Nat /\ K > 0
    BY SourceAssumption DEF Max
  <2>2. Upto(0) = 0 /\ B = Upto(K) + Max
    BY <2>1 DEF Upto, Old!LocalBound, Old!M, Old!K, Max
  <2> QED BY <2>1, <2>2, UptoGrows DEF LoopInv, SourceInv, OldInv
<1> DEFINE Ok == /\ Lengths' /\ OldType' /\ ThreadInv' /\ LocalInv'
                 /\ pc' = "returned" /\ poll' => sq' = 0 /\ tasks' = 0
<1> SUFFICES Ok
  BY <1>0 DEF LoopInv, SourceInv, OldInv, RegInv, RandInv
<1>00. Old!M = Max /\ Old!K = K
  BY DEF Old!M, Old!K, Max
<1> HIDE DEF B, K, Ok
<1> USE <1>0, <1>00
<1>1. CASE Old!Top
  BY <1>1
  DEF Ok, OldType, ThreadInv, LocalInv, Old!Top, Old!NoRun, Old!NodeQueueTurn, Old!sources,
    Old!queues, Lengths, K
<1>2. CASE Old!Call
  BY <1>2
  DEF Ok, OldType, ThreadInv, LocalInv, Old!Call, Old!Enter, Old!queues, Lengths, K
<1>3. CASE Old!PopNode
  <2>1. CASE Old!RunNode /\ nq_streak' = Old!Count(nq_streak, Old!M) /\ Old!Ran("node")
             /\ tq_streak' = tq_streak
    <3>1. Lengths' /\ tq' = tq /\ sq' >= sq /\ pc = "popnode" /\ pc' = "top"
      BY <1>3, <2>1, RunKeeps, SameSources DEF Old!PopNode, Old!Ran
    <3> QED BY <2>1, <3>1
      DEF Ok, OldType, ThreadInv, LocalInv, Old!Ran, Old!Count, Old!Least, Old!WaitForThread,
        Old!WaitForLocal, B, K, Lengths
  <2>2. CASE pc = "popnode" /\ pc' = "top" /\ UNCHANGED <<nq_streak, tq_streak, idle>> /\ Old!NoRun
    BY <2>2
    DEF Ok, OldType, ThreadInv, LocalInv, Old!NoRun, Old!sources, Old!queues, Lengths, K
  <2> QED BY <1>3, <2>1, <2>2 DEF Old!PopNode
<1>4. CASE Old!Thread
  <2>1. CASE Old!ThreadTurn /\ Old!RunThread /\ Old!Ran("thread") /\ nq_streak' = 0
             /\ tq_streak' = Old!Count(tq_streak, Old!K)
    <3>1. Lengths' /\ sq' >= sq /\ pc = "thread" /\ pc' = "top"
      BY <1>4, <2>1, RunKeeps, SameSources DEF Old!Thread, Old!Ran
    <3> QED BY <2>1, <3>1
      DEF Ok, OldType, ThreadInv, LocalInv, Old!Ran, Old!Count, Old!Least, Old!WaitForThread,
        Old!WaitForLocal, Old!ThreadTurn, B, K, Lengths
  <2>2. CASE Old!RunLocal /\ Old!Ran("local") /\ nq_streak' = 0 /\ tq_streak' = 0
    <3>1. Lengths' /\ pc' = "top"
      BY <2>2, RunKeeps, SameSources DEF Old!Ran
    <3> QED BY <2>2, <3>1
      DEF Ok, OldType, ThreadInv, LocalInv, Old!Ran, Old!WaitForThread, Old!WaitForLocal, K
  <2>3. CASE pc = "thread" /\ tq = 0 /\ tq_streak' = 0 /\ pc' = "prio"
             /\ UNCHANGED <<nq_streak, idle>> /\ Old!NoRun
    BY <2>3
    DEF Ok, OldType, ThreadInv, LocalInv, Old!NoRun, Old!sources, Old!queues, Lengths, K
  <2> QED BY <1>4, <2>1, <2>2, <2>3 DEF Old!Thread
<1>5. CASE Old!Prio
  BY <1>5
  DEF Ok, OldType, ThreadInv, LocalInv, Old!Prio, Old!NoRun, Old!sources, Old!queues, Lengths, K
<1>6. CASE Old!TryLock
  <2>1. CASE Old!RunNodePrio /\ nq_streak' = Old!Count(nq_streak, Old!M) /\ Old!Ran("nodeprio")
             /\ tq_streak' = tq_streak
    <3>1. Lengths' /\ tq' = tq /\ pc = "trylock" /\ pc' = "top"
      BY <1>6, <2>1, RunKeeps, SameSources DEF Old!TryLock, Old!Ran
    <3> QED BY <2>1, <3>1
      DEF Ok, OldType, ThreadInv, LocalInv, Old!Ran, Old!Count, Old!Least, Old!WaitForThread,
        Old!WaitForLocal, K, Lengths
  <2>2. CASE pc = "trylock" /\ nq_streak' = 0 /\ pc' = "local" /\ UNCHANGED <<tq_streak, idle>>
             /\ Old!NoRun
    BY <2>2
    DEF Ok, OldType, ThreadInv, LocalInv, Old!NoRun, Old!sources, Old!queues, Lengths, K
  <2> QED BY <1>6, <2>1, <2>2 DEF Old!TryLock
<1>7. CASE Old!Local
  <2>1. CASE (Old!RunLocal /\ Old!Ran("local")) \/ (Old!RunTask /\ Old!Ran("task"))
    <3>1. Lengths' /\ pc' = "top"
      BY <2>1, RunKeeps, SameSources DEF Old!Ran
    <3> QED BY <1>7, <2>1, <3>1
      DEF Ok, OldType, ThreadInv, LocalInv, Old!Local, Old!Ran, Old!WaitForThread,
        Old!WaitForLocal, K
  <2>2. CASE pc = "local" /\ sq = 0 /\ tasks = 0 /\ pc' = (IF poll THEN "returned" ELSE "top")
             /\ UNCHANGED <<nq_streak, tq_streak>> /\ Old!NoRun
    BY <2>2
    DEF Ok, OldType, ThreadInv, LocalInv, Old!NoRun, Old!sources, Old!queues, Lengths, K
  <2> QED BY <1>7, <2>1, <2>2 DEF Old!Local
<1> QED BY <1>1, <1>2, <1>3, <1>4, <1>5, <1>6, <1>7 DEF Old!Step

-----------------------------------------------------------------------------
\* From any start, as many steps as the table has slots pass every slot.
LEMMA SweepCovers ==
  ASSUME NEW n \in Nat \ {0}, NEW c \in 0 .. n - 1, NEW k \in 0 .. n - 1
  PROVE  \E d \in 0 .. n - 1 : (c + d) % n = k
<1>1. CASE k >= c
  <2>1. k - c \in 0 .. n - 1 /\ (c + (k - c)) % n = k
    BY <1>1
  <2> QED BY <2>1, Zenon
<1>2. CASE k < c
  <2>1. (k + n) % n = k
    OBVIOUS
  <2>2. (k + n) - c \in 0 .. n - 1 /\ c + ((k + n) - c) = k + n
    BY <1>2
  <2> QED BY <2>1, <2>2, Zenon
<1> QED BY <1>1, <1>2

\* The table has slots, and a streak a maximum.
LEMMA Sizes ==
  SCHED_TABLE_SIZE \in Nat /\ SCHED_TABLE_SIZE > 0 /\ Max \in Nat /\ Max > 0
<1>1. SCHED_TABLE_SIZE \in Nat /\ SCHED_TABLE_SIZE > 0
  <2>1. SCHED_TABLE_SIZE \in Nat \ {0}
    BY TableAssumption, Zenon
  <2> QED BY <2>1
<1>2. Max \in Nat /\ Max > 0
  BY SourceAssumption DEF Max
<1> QED BY <1>1, <1>2

\* The places of an iteration before, within and after the sweep.
RegOk ==
  /\ Lengths /\ RegType /\ NodeInv /\ SweepInv
  /\ pc = "returned" /\ poll => sq = 0 /\ tasks = 0

\* A message was run, from a queue of the PE or of the process.
LEMMA RegRan ==
  ASSUME RegOk, Lengths', Registered!Ran, stage = "built", stage' = stage,
         t_nodeStreak' \in 0 .. Max, nodeWait' \in Nat, nodeWait' <= t_nodeStreak',
         nodeWait' > 0 => sq' > 0
  PROVE  RegOk'
<1>1. /\ pc' = "top" /\ t' = 0
      /\ loop_counter' = (loop_counter + 1) % SCHED_TABLE_SIZE
  BY DEF Registered!Ran
<1>2. loop_counter' \in Slot
  <2>1. loop_counter \in Nat
    <3>1. loop_counter \in Slot
      BY DEF RegOk, RegType
    <3> QED BY ONLY <3>1, Sizes DEF Slot
  <2> QED BY ONLY <1>1, <2>1, Sizes DEF Slot
<1>3. RegType'
  BY <1>1, <1>2, Sizes DEF RegType
<1>4. NodeInv'
  BY <1>1 DEF NodeInv, InSlot
<1>5. SweepInv'
  BY <1>1 DEF SweepInv, InSlot
<1> QED BY <1>1, <1>3, <1>4, <1>5 DEF RegOk

\* Nothing was run, and the iteration goes on elsewhere.
LEMMA RegGoes ==
  ASSUME RegOk, pc # "build", UNCHANGED <<tq, nq, ahead, behind, sq, tasks>>,
         UNCHANGED <<poll_handlers, loop_counter, stage>>,
         pc' \in {"thread", "first", "ahead", "slot", "slot_thread", "slot_first", "slot_ahead"},
         t' \in 0 .. SCHED_TABLE_SIZE,
         t' = t \/ (t' = t + 1 /\ (SlotAt(t) = "local" => sq = 0) /\ (SlotAt(t) = "task" => tasks = 0)),
         t_nodeStreak' \in 0 .. Max, nodeWait' \in 0 .. Max, NodeInv',
         pc' # "slot" /\ ~InSlot' => t' = 0,
         InSlot' => t' < SCHED_TABLE_SIZE /\ t' = t /\ SlotAt(t) = "progress"
  PROVE  RegOk'
<1>1. \A d : SlotAt(d)' = SlotAt(d)
  BY DEF SlotAt, Registered!HandlerAt
<1>2. t \in Nat /\ SCHED_TABLE_SIZE \in Nat
  <2>1. t \in 0 .. SCHED_TABLE_SIZE
    BY DEF RegOk, RegType
  <2> QED BY ONLY <2>1, Sizes
<1>3. \A d \in 0 .. t' - 1 : d \in 0 .. t - 1 \/ (d = t /\ t' = t + 1)
  <2>1. t' = t \/ t' = t + 1
    OBVIOUS
  <2> QED BY ONLY <1>2, <2>1
<1>4. SweepInv'
  BY <1>1, <1>3, Zenon DEF RegOk, SweepInv
<1>5. RegType'
  BY DEF RegOk, RegType
<1>6. Lengths'
  BY DEF RegOk, Lengths
<1> QED BY <1>4, <1>5, <1>6 DEF RegOk

\* What the steps of the loop that do not run a message leave alone.
LEMMA RegSame ==
  /\ UNCHANGED Registered!tableVars => UNCHANGED <<poll_handlers, stage>>
  /\ Registered!NoRun => UNCHANGED <<tq, nq, ahead, behind, sq, tasks, poll, nodeWait>>
  /\ Registered!Current = SlotAt(t)
  BY DEF Registered!tableVars, Registered!NoRun, Registered!sources, Registered!queues,
    Registered!Current, SlotAt

\* The thread queue, ahead of the sweep or after progress.
LEMMA RegThread ==
  ASSUME RegOk, Registered!Thread
  PROVE  RegOk'
<1>0. pc \in {"thread", "slot_thread"} /\ stage = "built" /\ UNCHANGED <<poll_handlers, stage>>
      /\ t_nodeStreak \in 0 .. Max /\ nodeWait \in 0 .. Max /\ t \in 0 .. SCHED_TABLE_SIZE
  BY RegSame DEF Registered!Thread, RegOk, RegType
<1>1. CASE Registered!RunThread /\ Registered!RanOther
  <2>1. Lengths'
    BY <1>1, RunKeeps, SameSources DEF RegOk
  <2>2. Registered!Ran /\ nodeWait' = 0 /\ t_nodeStreak' = t_nodeStreak
    BY <1>1 DEF Registered!RanOther
  <2> QED BY <1>0, <2>1, <2>2, Sizes, RegRan
<1>2. CASE /\ Registered!GoTo(IF pc = "thread" THEN "first" ELSE "slot_first")
           /\ UNCHANGED <<t, t_nodeStreak>>
  <2>1. /\ UNCHANGED <<tq, nq, ahead, behind, sq, tasks, nodeWait, loop_counter, t, t_nodeStreak>>
        /\ pc' = IF pc = "thread" THEN "first" ELSE "slot_first"
    BY <1>2, RegSame DEF Registered!GoTo
  <2>2. NodeInv'
    BY <1>0, <2>1 DEF RegOk, NodeInv, InSlot
  <2>3. /\ pc' # "slot" /\ ~InSlot' => t' = 0
        /\ InSlot' => t' < SCHED_TABLE_SIZE /\ t' = t /\ SlotAt(t) = "progress"
    BY <1>0, <2>1 DEF RegOk, SweepInv, InSlot
  <2> QED BY <1>0, <2>1, <2>2, <2>3, RegGoes
<1> QED BY <1>1, <1>2 DEF Registered!Thread

\* A node-level message was run: the streak is not at its maximum, or nothing
\* waits in the local queue.
LEMMA RegRanNode ==
  ASSUME RegOk, Lengths', stage = "built", stage' = stage, Registered!RanNodeLevel,
         nodeWait <= t_nodeStreak, sq' >= sq, t_nodeStreak < Max \/ sq = 0
  PROVE  RegOk'
<1>1. Registered!Ran
  BY DEF Registered!RanNodeLevel
<1>2. /\ t_nodeStreak' = IF t_nodeStreak < Max THEN t_nodeStreak + 1 ELSE Max
      /\ nodeWait' = IF sq > 0 THEN (IF nodeWait < Max + 1 THEN nodeWait + 1 ELSE Max + 1) ELSE 0
  BY DEF Registered!RanNodeLevel, Registered!Count, Registered!M, Max
<1>3. t_nodeStreak \in 0 .. Max /\ nodeWait \in 0 .. Max /\ sq \in Nat /\ sq' \in Nat
  BY DEF RegOk, RegType, Lengths
<1>4. t_nodeStreak' \in 0 .. Max /\ nodeWait' \in Nat /\ nodeWait' <= t_nodeStreak'
      /\ (nodeWait' > 0 => sq' > 0)
  BY <1>2, <1>3, Sizes
<1> QED BY <1>1, <1>4, RegRan

\* The node-level queues were not polled, or had nothing: to the sweep.
LEMMA RegNotFirst ==
  ASSUME RegOk, pc \in {"first", "ahead", "slot_first", "slot_ahead"},
         UNCHANGED <<poll_handlers, stage>>, t_nodeStreak' = 0, Registered!NotFirst
  PROVE  RegOk'
<1>1. /\ UNCHANGED <<tq, nq, ahead, behind, sq, tasks, nodeWait, loop_counter>> /\ pc' = "slot"
      /\ t' = IF pc \in {"first", "ahead"} THEN t ELSE t + 1
  BY RegSame DEF Registered!NotFirst, Registered!GoTo, Registered!NextSlot
<1>2. NodeInv'
  BY <1>1 DEF RegOk, NodeInv, InSlot
<1>3. nodeWait \in 0 .. Max /\ t \in 0 .. SCHED_TABLE_SIZE
      /\ (pc \in {"slot_first", "slot_ahead"} => t < SCHED_TABLE_SIZE /\ SlotAt(t) = "progress")
  BY DEF RegOk, RegType, SweepInv, InSlot
<1>4. t' \in 0 .. SCHED_TABLE_SIZE
  BY <1>1, <1>3, Sizes
<1>5. pc' = "slot" /\ ~InSlot'
  BY <1>1 DEF InSlot
<1>6. 0 \in 0 .. Max
  BY Sizes
<1> QED BY <1>1, <1>2, <1>3, <1>4, <1>5, <1>6, RegGoes

\* The node-level queues, ahead of the sweep or after progress.
LEMMA RegNode ==
  ASSUME RegOk, Registered!NodeFirst \/ Registered!NodeAhead
  PROVE  RegOk'
<1>0. /\ pc \in {"first", "slot_first", "ahead", "slot_ahead"} /\ stage = "built"
      /\ UNCHANGED <<poll_handlers, stage>>
      /\ t_nodeStreak \in 0 .. Max /\ nodeWait \in 0 .. Max /\ t \in 0 .. SCHED_TABLE_SIZE
      /\ nodeWait <= t_nodeStreak /\ Lengths
  BY RegSame DEF Registered!NodeFirst, Registered!NodeAhead, RegOk, RegType, NodeInv
<1>1. CASE t_nodeStreak' = 0 /\ Registered!NotFirst
  BY <1>0, <1>1, RegNotFirst
<1>2. CASE /\ (~Registered!LocalTurn /\ Registered!RunNode)
              \/ (pc \in {"ahead", "slot_ahead"} /\ Registered!RunNodePrio)
           /\ Registered!RanNodeLevel
  <2>1. t_nodeStreak < Max \/ sq = 0
    <3>1. t_nodeStreak \in Int /\ Max \in Int /\ sq \in Nat
      BY <1>0, Sizes DEF Lengths
    <3> QED BY <1>2, <3>1 DEF Registered!LocalTurn, Registered!M, Max, RegOk, NodeInv
  <2>2. Lengths' /\ sq' >= sq
    BY <1>0, <1>2, RunKeeps, SameSources
  <2> QED BY <1>0, <1>2, <2>1, <2>2, RegRanNode
<1>3. CASE /\ pc \in {"first", "slot_first"} /\ ~Registered!LocalTurn
           /\ Registered!GoTo(IF pc = "first" THEN "ahead" ELSE "slot_ahead")
           /\ UNCHANGED <<t, t_nodeStreak>>
  <2>1. /\ UNCHANGED <<tq, nq, ahead, behind, sq, tasks, nodeWait, loop_counter, t, t_nodeStreak>>
        /\ pc' = IF pc = "first" THEN "ahead" ELSE "slot_ahead"
    BY <1>3, RegSame DEF Registered!GoTo
  <2>2. t_nodeStreak < Max \/ sq = 0
    <3>1. t_nodeStreak \in Int /\ Max \in Int /\ sq \in Nat
      BY <1>0, Sizes DEF Lengths
    <3> QED BY <1>3, <3>1 DEF Registered!LocalTurn, Registered!M, Max
  <2>3. NodeInv'
    BY <1>0, <1>3, <2>1, <2>2 DEF RegOk, NodeInv, InSlot
  <2>4. /\ pc' # "slot" /\ ~InSlot' => t' = 0
        /\ InSlot' => t' < SCHED_TABLE_SIZE /\ t' = t /\ SlotAt(t) = "progress"
    BY <1>0, <1>3, <2>1 DEF RegOk, SweepInv, InSlot
  <2> QED BY <1>0, <1>3, <2>1, <2>3, <2>4, RegGoes
<1> QED BY <1>1, <1>2, <1>3 DEF Registered!NodeFirst, Registered!NodeAhead

\* A slot of the sweep: its handler runs a message, or has none.
LEMMA RegSweep ==
  ASSUME RegOk, Registered!Sweep
  PROVE  RegOk'
<1>0. /\ pc = "slot" /\ t < SCHED_TABLE_SIZE /\ stage = "built"
      /\ UNCHANGED <<poll_handlers, stage>> /\ Registered!Current = SlotAt(t)
      /\ t_nodeStreak \in 0 .. Max /\ nodeWait \in 0 .. Max /\ t \in 0 .. SCHED_TABLE_SIZE
      /\ Lengths /\ (nodeWait > 0 => sq > 0)
  BY RegSame DEF Registered!Sweep, RegOk, RegType, NodeInv
<1>1. CASE /\ \/ Registered!RunThread \/ Registered!RunNodePrio
              \/ Registered!RunLocal \/ Registered!RunTask
           /\ Registered!RanOther
  <2>1. Lengths'
    BY <1>0, <1>1, RunKeeps, SameSources
  <2>2. Registered!Ran /\ nodeWait' = 0 /\ t_nodeStreak' = t_nodeStreak
    BY <1>1 DEF Registered!RanOther
  <2> QED BY <1>0, <2>1, <2>2, Sizes, RegRan
<1>2. CASE /\ UNCHANGED <<tq, nq, ahead, behind, sq, tasks, loop_counter, t_nodeStreak>>
           /\ pc' = "slot" /\ t' = t + 1 /\ nodeWait' = nodeWait
           /\ (SlotAt(t) = "local" => sq = 0) /\ (SlotAt(t) = "task" => tasks = 0)
  <2>1. NodeInv' /\ pc' = "slot" /\ ~InSlot'
    BY <1>0, <1>2 DEF NodeInv, InSlot
  <2>2. t' \in 0 .. SCHED_TABLE_SIZE
    BY <1>0, <1>2, Sizes
  <2> QED BY <1>0, <1>2, <2>1, <2>2, RegGoes
<1>3. CASE /\ UNCHANGED <<tq, nq, ahead, behind, sq, tasks, loop_counter, t_nodeStreak, t>>
           /\ pc' = "slot_thread" /\ nodeWait' = 0 /\ SlotAt(t) = "progress"
  <2>1. NodeInv' /\ pc' # "slot" /\ InSlot'
    BY <1>0, <1>3 DEF NodeInv, InSlot
  <2>2. 0 \in 0 .. Max
    BY Sizes
  <2> QED BY <1>0, <1>3, <2>1, <2>2, RegGoes
<1>4. Registered!NextSlot => /\ UNCHANGED <<tq, nq, ahead, behind, sq, tasks, loop_counter>>
                             /\ pc' = "slot" /\ t' = t + 1 /\ nodeWait' = nodeWait
  BY RegSame DEF Registered!NextSlot, Registered!GoTo
<1>5. CASE Registered!Current = "progress" /\ Registered!PollProgress /\ UNCHANGED t_nodeStreak
  <2>1. CASE Registered!NextSlot
    BY <1>0, <1>2, <1>4, <1>5, <2>1
  <2>2. CASE ~Registered!NextSlot
    BY <1>0, <1>2, <1>3, <1>5, <2>2
    DEF Registered!PollProgress, Registered!sources, Registered!queues
  <2> QED BY <2>1, <2>2
<1> QED BY <1>0, <1>1, <1>2, <1>4, <1>5 DEF Registered!Sweep

\* A sweep without a message: with every slot passed, the PE has no work of its own.
LEMMA RegSwept ==
  ASSUME RegOk, Polled, Registered!SweptAll
  PROVE  RegOk' /\ sq = 0 /\ tasks = 0 /\ UNCHANGED <<sq, tasks>>
<1>0. /\ pc = "slot" /\ t = SCHED_TABLE_SIZE /\ stage = "built" /\ stage' = stage
      /\ UNCHANGED <<tq, nq, ahead, behind, sq, tasks, nodeWait, t_nodeStreak>>
      /\ t' = 0 /\ loop_counter' = (loop_counter + 1) % SCHED_TABLE_SIZE
      /\ pc' \in {"returned", "top"}
      /\ Lengths /\ t_nodeStreak \in 0 .. Max
  BY RegSame DEF Registered!SweptAll, RegOk, RegType
<1>1. loop_counter \in 0 .. SCHED_TABLE_SIZE - 1 /\ (nodeWait > 0 => sq > 0) /\ nodeWait \in 0 .. Max
  BY DEF RegOk, RegType, Slot, NodeInv
<1>2. ASSUME NEW k \in Slot
      PROVE  \E d \in 0 .. t - 1 : SlotAt(d) = Registered!HandlerAt(k)
  <2>1. SCHED_TABLE_SIZE \in Nat \ {0} /\ k \in 0 .. SCHED_TABLE_SIZE - 1
    BY Sizes DEF Slot
  <2>2. PICK d \in 0 .. SCHED_TABLE_SIZE - 1 : (loop_counter + d) % SCHED_TABLE_SIZE = k
    BY <1>1, <2>1, SweepCovers, Zenon
  <2>3. SlotAt(d) = Registered!HandlerAt(k)
    BY <2>2, Zenon DEF SlotAt
  <2> QED BY <1>0, <2>3
<1>3. sq = 0 /\ tasks = 0
  <2>1. \A d \in 0 .. t - 1 : /\ SlotAt(d) = "local" => sq = 0
                              /\ SlotAt(d) = "task" => tasks = 0
    BY DEF RegOk, SweepInv
  <2>2. "task" \notin Stream => tasks = 0
    BY <1>0 DEF Lengths
  <2> QED BY <1>0, <1>2, <2>1, <2>2, Zenon DEF Polled
<1>4. nodeWait = 0
  BY <1>1, <1>3
<1>5. loop_counter' \in Slot
  BY ONLY <1>0, <1>1, Sizes DEF Slot
<1>6. RegType'
  BY <1>0, <1>4, <1>5, Sizes DEF RegType
<1>7. NodeInv'
  BY <1>0, <1>4 DEF NodeInv, InSlot
<1>8. SweepInv'
  BY <1>0 DEF SweepInv, InSlot
<1>9. Lengths'
  BY <1>0 DEF Lengths
<1> QED BY <1>0, <1>3, <1>6, <1>7, <1>8, <1>9 DEF RegOk

\* The table's construction, and the beginning and the end of the loop.
LEMMA RegEnds ==
  ASSUME RegOk, Registered!Build \/ Registered!Top \/ Registered!Call
  PROVE  RegOk'
<1>0. Lengths /\ RegType /\ NodeInv /\ SweepInv
  BY DEF RegOk
<1>1. CASE Registered!Build
  <2>1. /\ UNCHANGED <<tq, nq, ahead, behind, sq, tasks, nodeWait, t, t_nodeStreak, loop_counter>>
        /\ pc = "build" /\ (pc' = "build" \/ (pc' = "top" /\ stage' = "built"))
    BY <1>1, RegSame DEF Registered!Build
  <2>2. RegType' /\ NodeInv'
    BY <1>0, <2>1 DEF RegType, NodeInv, InSlot
  <2>3. SweepInv'
    BY <1>0, <2>1 DEF SweepInv, InSlot
  <2> QED BY <1>0, <2>1, <2>2, <2>3 DEF RegOk, Lengths
<1>2. CASE Registered!Top
  <2>1. /\ UNCHANGED <<sq, tasks, nodeWait, t, t_nodeStreak, loop_counter, stage>>
        /\ pc = "top" /\ (pc' = "thread" \/ (pc' = "returned" /\ ~poll')) /\ Lengths'
    <3>1. /\ UNCHANGED <<nodeWait, t, t_nodeStreak, loop_counter, stage>> /\ pc = "top"
          /\ pc' = "thread" \/ (pc' = "returned" /\ ~poll')
          /\ Registered!PollIpc \/ UNCHANGED <<tq, nq, ahead, behind, sq, tasks>>
      BY <1>2 DEF Registered!Top, Registered!sources, Registered!queues, Registered!entry,
        Registered!tableVars
    <3>2. /\ UNCHANGED <<ahead, behind, sq, tasks>>
          /\ tq' = tq \/ tq' = tq + 1
          /\ nq' = nq \/ nq' = nq + 1
      BY <3>1 DEF Registered!PollIpc, Registered!sources, Registered!queues
    <3>3. Lengths'
      BY <1>0, <3>2 DEF Lengths
    <3> QED BY <3>1, <3>2, <3>3
  <2>2. RegType' /\ NodeInv'
    BY <1>0, <2>1 DEF RegType, NodeInv, InSlot
  <2>3. SweepInv'
    BY <1>0, <2>1 DEF SweepInv, InSlot
  <2> QED BY <2>1, <2>2, <2>3 DEF RegOk
<1>3. CASE Registered!Call
  <2>1. /\ UNCHANGED <<tq, nq, ahead, behind, sq, tasks, nodeWait, t, t_nodeStreak, stage>>
        /\ loop_counter' = 0 /\ pc = "returned" /\ pc' = "top"
    BY <1>3, RegSame DEF Registered!Call, Registered!Enter, Registered!queues
  <2>2. 0 \in Slot
    BY Sizes DEF Slot
  <2>3. RegType' /\ NodeInv'
    BY <1>0, <2>1, <2>2 DEF RegType, NodeInv, InSlot
  <2>4. SweepInv'
    BY <1>0, <2>1 DEF SweepInv, InSlot
  <2> QED BY <1>0, <2>1, <2>3, <2>4 DEF RegOk, Lengths
<1> QED BY <1>1, <1>2, <1>3

\* A step of scheduler_registered.cpp's loop.
LEMMA RegKeeps ==
  ASSUME LoopInv, Polled, backend = "registered", backend' = "registered", pool' = pool,
         Registered!Step
  PROVE  LoopInv'
<1>1. RegOk /\ pool = 0
  BY DEF LoopInv, SourceInv, RegInv, RegOk
<1>2. RegOk'
  BY <1>1, RegEnds, RegThread, RegNode, RegSweep, RegSwept DEF Registered!Step
<1> QED BY <1>1, <1>2 DEF LoopInv, SourceInv, OldInv, RegInv, RandInv, RegOk

-----------------------------------------------------------------------------
\* A step of scheduler_randomized.cpp's loop: what it takes goes to the pool.
LEMMA RandKeeps ==
  ASSUME LoopInv, backend = "randomized", backend' = "randomized", Randomized!Step
  PROVE  LoopInv'
<1>0. /\ Lengths /\ pool \in Nat /\ bound \in Nat /\ MaxPool \in Nat
      /\ pc = "sched" /\ ~took => bound = sq
      /\ pc = "draw" /\ ~took => sq = 0
  BY BackendAssumption DEF LoopInv, SourceInv, RandInv
<1> DEFINE Ok == /\ Lengths' /\ pool' \in Nat /\ bound' \in Nat
                 /\ pc' \in {"top", "node", "nodeprio", "task", "size", "thread", "sched", "draw",
                             "returned"}
                 /\ pc' = "sched" /\ ~took' => bound' = sq'
                 /\ pc' = "draw" /\ ~took' => sq' = 0
                 /\ pc' = "returned" /\ poll' => sq' = 0 /\ pool' = 0
<1> SUFFICES Ok
  BY DEF LoopInv, SourceInv, OldInv, RegInv, RandInv
<1> HIDE DEF Ok
<1>1. Randomized!Pooled => pool' \in Nat /\ took'
  BY <1>0 DEF Randomized!Pooled, Randomized!Least
<1>2. Randomized!NotPooled => Lengths' /\ pool' \in Nat /\ sq' = sq /\ took' = took
  <2>1. Randomized!NotPooled => UNCHANGED <<tq, nq, ahead, behind, sq, tasks, pool, took>>
    BY DEF Randomized!NotPooled, Randomized!sources, Randomized!queues
  <2> QED BY <1>0, <2>1 DEF Lengths
<1>3. CASE Randomized!Top
  <2>1. /\ UNCHANGED <<pool, bound, poll, ahead, behind, sq, tasks>>
        /\ pc' = "node" \/ (pc' = "returned" /\ ~poll)
        /\ tq' = tq \/ tq' = tq + 1
        /\ nq' = nq \/ nq' = nq + 1
    BY <1>3 DEF Randomized!Top, Randomized!PollIpc, Randomized!sources, Randomized!queues,
      Randomized!entry
  <2>2. Lengths'
    BY <1>0, <2>1 DEF Lengths
  <2> QED BY <1>0, <2>1, <2>2 DEF Ok
<1>4. CASE Randomized!Call
  BY <1>0, <1>4 DEF Randomized!Call, Randomized!Enter, Randomized!queues, Randomized!loopVars,
    Lengths, Ok
<1>5. CASE Randomized!TakeNodeQueue
  <2>1. /\ pc' = "nodeprio" /\ bound' = bound
        /\ \/ Randomized!NotPooled
           \/ nq > 0 /\ nq' = nq - 1 /\ Randomized!Pooled /\ UNCHANGED <<tq, ahead, behind, sq, tasks>>
    BY <1>5 DEF Randomized!TakeNodeQueue
  <2>2. Lengths' /\ pool' \in Nat
    BY <1>0, <1>1, <1>2, <2>1 DEF Lengths
  <2> QED BY <1>0, <2>1, <2>2 DEF Ok
<1>6. CASE Randomized!TakeNodePrioQueue
  <2>1. /\ pc' = "task" /\ bound' = bound
        /\ \/ Randomized!NotPooled
           \/ ahead' \in Nat /\ behind' \in Nat /\ Randomized!Pooled /\ UNCHANGED <<tq, nq, sq, tasks>>
    <3>1. Randomized!TakeFirst => ahead' \in Nat /\ behind' \in Nat
      BY <1>0 DEF Randomized!TakeFirst, Lengths
    <3> QED BY <1>6, <3>1 DEF Randomized!TakeNodePrioQueue
  <2>2. Lengths' /\ pool' \in Nat
    BY <1>0, <1>1, <1>2, <2>1 DEF Lengths
  <2> QED BY <1>0, <2>1, <2>2 DEF Ok
<1>7. CASE Randomized!TakeTaskQueue
  <2>1. /\ pc' = "size" /\ bound' = bound
        /\ \/ Randomized!NotPooled
           \/ tasks > 0 /\ tasks' = tasks - 1 /\ Randomized!Pooled /\ UNCHANGED <<tq, nq, ahead, behind, sq>>
    BY <1>7 DEF Randomized!TakeTaskQueue
  <2>2. Lengths' /\ pool' \in Nat
    BY <1>0, <1>1, <1>2, <2>1 DEF Lengths
  <2> QED BY <1>0, <2>1, <2>2 DEF Ok
<1>8. CASE Randomized!ThreadSize
  BY <1>0, <1>8 DEF Randomized!ThreadSize, Randomized!sources, Randomized!queues, Lengths, Ok
<1>9. CASE Randomized!DrainThreadQueue
  <2>1. \/ Randomized!NotPooled /\ pc' = "sched" /\ bound' = sq
        \/ /\ Randomized!Pooled /\ pc' = "thread" /\ bound > 0 /\ bound' = bound - 1
           /\ tq > 0 /\ tq' = tq - 1 /\ UNCHANGED <<nq, ahead, behind, sq, tasks>>
    BY <1>9 DEF Randomized!DrainThreadQueue
  <2>2. Lengths' /\ pool' \in Nat /\ bound' \in Nat
    <3>1. CASE Randomized!NotPooled /\ bound' = sq
      BY <1>0, <1>2, <3>1 DEF Lengths
    <3>2. CASE /\ Randomized!Pooled /\ bound > 0 /\ bound' = bound - 1
               /\ tq > 0 /\ tq' = tq - 1 /\ UNCHANGED <<nq, ahead, behind, sq, tasks>>
      BY <1>0, <1>1, <3>2 DEF Lengths
    <3> QED BY <2>1, <3>1, <3>2, Zenon
  <2> QED BY <1>2, <2>1, <2>2 DEF Ok
<1>10. CASE Randomized!DrainSchedQueue
  <2>1. /\ pc = "sched"
        /\ \/ /\ Randomized!NotPooled /\ pc' = "draw" /\ bound' = bound
              /\ bound = 0 \/ sq = 0
           \/ /\ Randomized!Pooled /\ pc' = "sched" /\ bound > 0 /\ bound' = bound - 1
              /\ sq > 0 /\ sq' = sq - 1 /\ UNCHANGED <<tq, nq, ahead, behind, tasks>>
    BY <1>10 DEF Randomized!DrainSchedQueue
  <2>2. Lengths' /\ pool' \in Nat /\ bound' \in Nat
    <3>1. CASE Randomized!NotPooled /\ bound' = bound
      BY <1>0, <1>2, <3>1
    <3>2. CASE /\ Randomized!Pooled /\ bound > 0 /\ bound' = bound - 1
               /\ sq > 0 /\ sq' = sq - 1 /\ UNCHANGED <<tq, nq, ahead, behind, tasks>>
      BY <1>0, <1>1, <3>2 DEF Lengths
    <3> QED BY <2>1, <3>1, <3>2, Zenon
  <2>3. pc' = "draw" /\ ~ took' => sq' = 0
    BY <1>0, <1>2, <2>1
  <2> QED BY <1>1, <2>1, <2>2, <2>3 DEF Ok
<1>11. CASE Randomized!Draw
  <2>1. /\ pc = "draw" /\ pc' \in {"top", "returned"} /\ bound' = bound /\ poll' = poll
        /\ pc' = "returned" => pool = 0 /\ pool' = 0 /\ ~took /\ sq' = sq
    BY <1>11 DEF Randomized!Draw, Randomized!sources, Randomized!queues
  <2>2. CASE pool = 0 /\ UNCHANGED <<tq, nq, ahead, behind, sq, tasks, pool>>
    BY <1>0, <2>1, <2>2 DEF Lengths, Ok
  <2>3. CASE Randomized!Drawn /\ Randomized!Handle(sq, tasks)
             /\ UNCHANGED <<tq, nq, ahead, behind>>
    <3>1. Handle(sq, tasks)
      BY <2>3 DEF Randomized!Handle, Handle
    <3>2. Lengths'
      BY <1>0, <2>3, <3>1, HandleKeeps DEF Lengths
    <3>3. pool' \in Nat
      BY <1>0, <2>3 DEF Randomized!Drawn
    <3> QED BY <1>0, <2>1, <3>2, <3>3 DEF Ok
  <2> QED BY <1>11, <2>2, <2>3 DEF Randomized!Draw, Randomized!sources, Randomized!queues
<1> QED BY <1>3, <1>4, <1>5, <1>6, <1>7, <1>8, <1>9, <1>10, <1>11 DEF Randomized!Step

-----------------------------------------------------------------------------
\* The steps of the rest of the system.
LEMMA ElsewhereKeeps ==
  ASSUME LoopInv, Elsewhere, backend' = backend
  PROVE  LoopInv'
<1>1. /\ Lengths' /\ tq' >= tq /\ sq' >= sq /\ tasks' <= tasks
      /\ pc # "top" => sq' = sq
      /\ tq \in Nat /\ sq \in Nat /\ tasks \in Nat /\ tq' \in Nat /\ sq' \in Nat /\ tasks' \in Nat
  BY ElsewhereSources DEF Elsewhere, LoopInv, SourceInv, Lengths
<1>2. /\ UNCHANGED <<poll, pc, nq_streak, tq_streak, threadWait, localWait>>
      /\ UNCHANGED <<stage, poll_handlers, loop_counter, t, t_nodeStreak, nodeWait>>
      /\ UNCHANGED <<pool, bound, took>>
  BY DEF Elsewhere, loops, entry, oldVars, registeredVars, randomizedVars, tableVars
<1>3. SourceInv'
  <2>1. SourceInv
    BY Zenon DEF LoopInv
  <2>2. /\ tasks = 0 => tasks' = 0
        /\ pc = "returned" => sq' = sq
    BY <1>1
  <2> QED BY <1>1, <1>2, <2>1, <2>2, Zenon DEF SourceInv
<1>4. OldInv'
  <2> SUFFICES ASSUME backend = "old" PROVE OldType' /\ ThreadInv' /\ LocalInv'
    BY DEF OldInv
  <2>1. OldType /\ ThreadInv /\ LocalInv
    BY DEF LoopInv, OldInv
  <2>2. OldType'
    BY <1>2, <2>1 DEF OldType
  <2>3. ThreadInv'
    <3>1. threadWait > 0 => tq' > 0
      BY <1>1, <2>1 DEF ThreadInv
    <3> QED BY <1>2, <2>1, <3>1 DEF ThreadInv
  <2>4. Upto(tq_streak)' = Upto(tq_streak)
    BY <1>2 DEF Upto, Max
  <2>5. LocalInv'
    <3>1. localWait > 0 => sq' > 0
      BY <1>1, <2>1 DEF OldType, LocalInv
    <3> QED BY <1>2, <2>1, <2>4, <3>1, Upto(thread_queue_max)' = Upto(thread_queue_max)
        DEF LocalInv, Upto, Max
  <2> QED BY <2>2, <2>3, <2>5
<1>5. RegInv'
  <2> SUFFICES ASSUME backend = "registered" PROVE RegType' /\ NodeInv' /\ SweepInv'
    BY DEF RegInv
  <2>1. RegType /\ NodeInv /\ SweepInv
    BY DEF LoopInv, RegInv
  <2>2. \A d : SlotAt(d)' = SlotAt(d)
    BY <1>2 DEF SlotAt, Registered!HandlerAt
  <2>3. RegType' /\ NodeInv'
    <3>1. RegType'
      BY <1>2, <2>1, Zenon DEF RegType
    <3>2. /\ nodeWait > 0 => sq' > 0
          /\ pc \in {"ahead", "slot_ahead"} => t_nodeStreak < Max \/ sq' = 0
      BY <1>1, <2>1 DEF NodeInv
    <3>3. NodeInv'
      BY <1>2, <2>1, <3>2 DEF NodeInv, InSlot
    <3> QED BY <3>1, <3>3, Zenon
  <2>4. pc = "top" => t = 0
    BY <2>1 DEF SweepInv, InSlot
  <2>5. SweepInv'
    <3>1. \A d \in 0 .. t - 1 : /\ SlotAt(d) = "local" => sq' = 0
                                /\ SlotAt(d) = "task" => tasks' = 0
      BY <1>1, <2>1, <2>4 DEF SweepInv
    <3> QED BY <1>2, <2>1, <2>2, <3>1 DEF SweepInv, InSlot
  <2> QED BY <2>3, <2>5
<1>6. RandInv'
  BY <1>1, <1>2 DEF LoopInv, RandInv
<1> QED BY <1>3, <1>4, <1>5, <1>6 DEF LoopInv

-----------------------------------------------------------------------------
\* The loops' invariant, given a table that polls the PE's own queues.
LEMMA LoopInvariance == Spec /\ []Polled => []LoopInv
<1>1. Init => LoopInv
  <2> SUFFICES ASSUME Init PROVE LoopInv
    OBVIOUS
  <2>1. SourceInv
    BY BackendAssumption DEF Init, SourcesInit, Randomized!LoopInit, SourceInv, Lengths
  <2>2. OldInv
    BY Sizes, SourceAssumption
    DEF Init, Old!LoopInit, OldInv, OldType, ThreadInv, LocalInv, Upto
  <2>3. 0 \in Slot /\ 0 \in 0 .. Max /\ 0 \in 0 .. SCHED_TABLE_SIZE
    BY Sizes DEF Slot
  <2>4. RegInv
    BY <2>3 DEF Init, Registered!LoopInit, RegInv, RegType, NodeInv, SweepInv, InSlot
  <2>5. RandInv
    BY DEF Init, Randomized!LoopInit, RandInv
  <2> QED BY <2>1, <2>2, <2>4, <2>5 DEF LoopInv
<1>2. LoopInv /\ Polled /\ [Next]_vars => LoopInv'
  <2> SUFFICES ASSUME LoopInv, Polled, [Next]_vars PROVE LoopInv'
    OBVIOUS
  <2>1. CASE CsdScheduler /\ backend' = backend
    BY <2>1, OldKeeps, RegKeeps, RandKeeps DEF CsdScheduler, randomizedVars
  <2>2. CASE Elsewhere /\ backend' = backend
    BY <2>2, ElsewhereKeeps
  <2>3. CASE UNCHANGED vars
    <3>1. \A d : SlotAt(d)' = SlotAt(d)
      BY <2>3 DEF vars, registeredVars, tableVars, SlotAt, Registered!HandlerAt
    <3>2. /\ UNCHANGED <<tq, nq, ahead, behind, sq, tasks, poll, backend, pc>>
          /\ UNCHANGED <<nq_streak, tq_streak, threadWait, localWait>>
          /\ UNCHANGED <<stage, loop_counter, t, t_nodeStreak, nodeWait, pool, bound, took>>
      BY <2>3 DEF vars, sources, queues, entry, oldVars, registeredVars, tableVars, randomizedVars
    <3>3. SourceInv' /\ RandInv'
      BY <3>2 DEF LoopInv, SourceInv, Lengths, RandInv
    <3>4. OldInv'
      BY <3>2, Zenon DEF LoopInv, OldInv, OldType, ThreadInv, LocalInv
    <3>5. RegInv'
      BY <3>1, <3>2, Zenon DEF LoopInv, RegInv, RegType, NodeInv, SweepInv, InSlot
    <3> QED BY <3>3, <3>4, <3>5 DEF LoopInv
  <2> QED BY <2>1, <2>2, <2>3 DEF Next
<1> QED BY <1>1, <1>2, PTL DEF Spec

\* scheduler_old.cpp, scheduler_registered.cpp: for any lengths, maxima and arrivals,
\* the streak counters keep their promises to the thread queue and the local queue,
\* if the table has a slot for the PE's own queues.
THEOREM StreaksBounded == Spec /\ []Polled => []StreaksBound
<1>1. LoopInv => StreaksBound
  <2> SUFFICES ASSUME LoopInv PROVE StreaksBound
    OBVIOUS
  <2>1. ASSUME backend = "old" PROVE Old!ThreadQueueServed /\ Old!LocalQueueServed
    <3>1. OldType /\ ThreadInv /\ LocalInv
      BY <2>1 DEF LoopInv, OldInv
    <3>2. Old!LocalBound = Upto(thread_queue_max) + Max
      BY DEF Old!LocalBound, Old!M, Old!K, Upto, Max
    <3> QED BY <3>1, <3>2, Sizes
        DEF OldType, ThreadInv, LocalInv, Old!ThreadQueueServed, Old!LocalQueueServed, Old!M, Max
  <2>2. ASSUME backend = "registered" PROVE Registered!LocalTurnComes
    BY <2>2, Sizes DEF LoopInv, RegInv, RegType, Registered!LocalTurnComes, Registered!M, Max
  <2> QED BY <2>1, <2>2 DEF StreaksBound
<1> QED BY <1>1, LoopInvariance, PTL

\* scheduler_old.cpp, scheduler_registered.cpp, scheduler_randomized.cpp: whatever
\* arrives and whoever steals, the PE goes idle, and a poll returns, only without
\* work of its own.
THEOREM IdleWhenDone == Spec /\ []Polled => IdleOnlyWhenDone
<1> DEFINE Goes == (idle' /\ ~ idle) \/ (pc' = "returned" /\ poll)
           Done == sq = 0 /\ pool = 0 /\ (backend # "randomized" => tasks = 0)
<1>1. LoopInv /\ Polled /\ [Next]_vars => [Goes => Done]_vars
  <2> SUFFICES ASSUME LoopInv, Polled, Next, Goes PROVE Done
    OBVIOUS
  <2>1. CASE backend = "old" /\ Old!Step
    <3>1. pool = 0
      BY <2>1 DEF LoopInv, SourceInv
    <3> QED BY <2>1, <3>1, Zenon
      DEF Old!Step, Old!Top, Old!Call, Old!PopNode, Old!Thread, Old!Prio, Old!TryLock, Old!Local,
        Old!Ran, Old!NoRun, Old!Enter
  <2>2. CASE backend = "registered" /\ Registered!Step
    <3>1. RegOk /\ pool = 0
      BY <2>2 DEF LoopInv, SourceInv, RegInv, RegOk
    <3>2. CASE Registered!SweptAll
      BY <2>2, <3>1, <3>2, RegSwept
    <3>3. CASE ~Registered!SweptAll
      BY <2>2, <3>3, Zenon
      DEF Registered!Step, Registered!Build, Registered!Top, Registered!Call, Registered!Thread,
        Registered!NodeFirst, Registered!NodeAhead, Registered!Sweep, Registered!Ran,
        Registered!RanOther, Registered!RanNodeLevel, Registered!GoTo, Registered!NotFirst,
        Registered!NextSlot, Registered!PollProgress, Registered!Enter, Registered!entry
    <3> QED BY <3>2, <3>3
  <2>3. CASE backend = "randomized" /\ Randomized!Step
    BY <2>3, Zenon
    DEF LoopInv, RandInv, Randomized!Step, Randomized!Top, Randomized!Call, Randomized!Enter,
      Randomized!TakeNodeQueue, Randomized!TakeNodePrioQueue, Randomized!TakeTaskQueue,
      Randomized!ThreadSize, Randomized!DrainThreadQueue, Randomized!DrainSchedQueue,
      Randomized!Draw, Randomized!entry
  <2>4. CASE Elsewhere
    BY <2>4 DEF Elsewhere, loops, entry, LoopInv, SourceInv
  <2> QED BY <2>1, <2>2, <2>3, <2>4 DEF Next, CsdScheduler
<1> QED BY <1>1, LoopInvariance, PTL DEF Spec, IdleOnlyWhenDone
=============================================================================
