--------------------------- MODULE Queues_proofs ----------------------------
(***************************************************************************)
(* Proofs about three queues that stand alone: TaskQueue, for any thieves, *)
(* tasks and size of the ring, AtomicQueue, for any producers and          *)
(* consumers, and PrioQueue, for any messages, priorities and number of    *)
(* kept levels.                                                            *)
(***************************************************************************)
EXTENDS TaskQueue, AtomicQueue, PrioQueue, FiniteSetTheorems, TLAPS

-----------------------------------------------------------------------------
\* Arithmetic of rings.

\* An integer is its quotient and its remainder.
LEMMA DivMod ==
  ASSUME NEW n \in Nat \ {0}, NEW i \in Int
  PROVE  i = n * (i \div n) + (i % n) /\ i \div n \in Int /\ i % n \in 0 .. n - 1
  OBVIOUS

\* A positive factor keeps the sign.
LEMMA Multiple ==
  ASSUME NEW n \in Nat \ {0}, NEW k \in Int
  PROVE  (k >= 1 => n * k >= n) /\ (k <= 0 => n * k <= 0)
  OBVIOUS

\* Positions that share an entry of a ring are at least its size apart.
LEMMA RingDistance ==
  ASSUME NEW n \in Nat \ {0}, NEW i \in Int, NEW j \in Int, i % n = j % n, i < j
  PROVE  i + n <= j
<1> DEFINE k == (j \div n) - (i \div n)
<1>1. k \in Int /\ j - i = n * k
  BY DivMod
<1> HIDE DEF k
<1> QED BY <1>1, Multiple

-----------------------------------------------------------------------------
\* The work-stealing queue.

\* The end of the tasks that are in the queue or in the owner's hand: a push has
\* stored its task and a pop has lowered the tail, but may yet restore it.
End == IF pc \in {"stored", "lowered", "popped"} THEN tail + 1 ELSE tail

Won == {s \in Thief : tpc[s] = "won"}

\* The positions of tasks that were pushed and not handed out.
Held == (head .. End - 1) \cup {th[s] : s \in Won}

TaskAt(i) == data[i % TaskQueueSize]

TasksType ==
  /\ head \in Nat /\ tail \in Int /\ h \in Nat /\ t \in Int
  /\ data \in [0 .. TaskQueueSize - 1 -> Nat]
  /\ pc \in {"idle", "stored", "lowered", "popped", "last"}
  /\ tpc \in [Thief -> {"idle", "head", "tail", "won"}]
  /\ th \in [Thief -> Nat] /\ tt \in [Thief -> Int]
  /\ tasks \in 0 .. MaxTask
  /\ ran \in [1 .. MaxTask -> Nat]

\* The owner: the head never passes the end, nor a task that a pop takes
\* without competing for it.
OwnerInv ==
  /\ head <= End
  /\ pc \in {"lowered", "popped"} => t = tail
  /\ pc = "popped" => h <= head /\ (t > h => head <= t)
  /\ pc = "last" => t = h /\ tail = h + 1 /\ h <= head

\* The thieves: one whose compare-and-swap can succeed takes a task that is
\* there, and not the one a pop takes without competing for it.
ThiefInv ==
  /\ \A s \in Thief :
       /\ th[s] <= head
       /\ s \in Won => th[s] < head
       /\ tpc[s] = "tail" /\ th[s] = head =>
            head < End /\ (pc = "popped" /\ t > h => head < t)
  /\ \A s, u \in Won : th[s] = th[u] => s = u

\* No entry that is still to be read has been written over.
RingInv ==
  /\ End <= head + TaskQueueSize
  /\ \A s \in Won : End <= th[s] + TaskQueueSize

\* What is held is what was pushed and not handed out, once each.
TaskInv ==
  /\ \A i \in Held : TaskAt(i) \in 1 .. tasks /\ ran[TaskAt(i)] = 0
  /\ \A i, j \in Held : TaskAt(i) = TaskAt(j) => i = j
  /\ \A k \in 1 .. MaxTask : ran[k] <= 1 /\ (k > tasks => ran[k] = 0)
  /\ \A k \in 1 .. tasks : ran[k] = 0 => \E i \in Held : TaskAt(i) = k

StealInv == TasksType /\ OwnerInv /\ ThiefInv /\ RingInv /\ TaskInv

\* Held positions are an end's ring length below it, so each has an entry of its own.
LEMMA HeldRange ==
  ASSUME StealInv, NEW i \in Held
  PROVE  i \in Nat /\ i < End /\ End <= i + TaskQueueSize
  BY TaskAssumption
  DEF StealInv, TasksType, OwnerInv, ThiefInv, RingInv, Held, End, Won

\* Nothing that concerns tasks changes.
LEMMA TaskKept ==
  ASSUME TaskInv, Held' = Held, data' = data, tasks' = tasks, ran' = ran
  PROVE  TaskInv'
  BY Zenon DEF TaskInv, TaskAt

\* A held task is handed out.
LEMMA TaskTaken ==
  ASSUME TasksType, TaskInv, NEW i \in Held, Held' = Held \ {i}, HandOut(TaskAt(i)),
         data' = data, tasks' = tasks
  PROVE  TaskInv' /\ ran' \in [1 .. MaxTask -> Nat]
<1> DEFINE task == TaskAt(i)
<1>1. task \in 1 .. tasks /\ ran[task] = 0 /\ tasks \in 0 .. MaxTask
  BY DEF TaskInv, TasksType
<1>2. ran' = [k \in 1 .. MaxTask |-> IF k = task THEN ran[k] + 1 ELSE ran[k]]
  BY DEF HandOut, Task
<1>3. ran' \in [1 .. MaxTask -> Nat]
  BY <1>2 DEF TasksType
<1>4. \A j \in Held' : TaskAt(j)' = TaskAt(j) /\ TaskAt(j) # task
  BY DEF TaskInv, TaskAt
<1>5. \A j \in Held' : TaskAt(j)' \in 1 .. tasks' /\ ran'[TaskAt(j)'] = 0
  BY <1>1, <1>2, <1>4, TaskAssumption DEF TaskInv, TasksType
<1>6. \A j, k \in Held' : TaskAt(j)' = TaskAt(k)' => j = k
  BY <1>4 DEF TaskInv
<1>7. \A k \in 1 .. MaxTask : ran'[k] <= 1 /\ (k > tasks' => ran'[k] = 0)
  BY <1>1, <1>2, TaskAssumption DEF TaskInv, TasksType
<1>8. ASSUME NEW k \in 1 .. tasks', ran'[k] = 0
      PROVE  \E j \in Held' : TaskAt(j)' = k
  <2>1. k \in 1 .. tasks /\ k # task /\ ran[k] = 0
    BY <1>1, <1>2, <1>8, TaskAssumption DEF TasksType
  <2>2. PICK j \in Held : TaskAt(j) = k
    BY <2>1 DEF TaskInv
  <2> QED BY <2>1, <2>2, <1>4
<1> QED BY <1>3, <1>5, <1>6, <1>7, <1>8 DEF TaskInv

\* TaskQueuePush writes into a free entry.
LEMMA StoreKeeps ==
  ASSUME ~Overrun, StealInv, PushStore
  PROVE  StealInv'
<1> USE TaskAssumption DEF StealInv, PushStore, thiefVars
<1>1. tail \in Nat /\ tail % TaskQueueSize \in 0 .. TaskQueueSize - 1
  BY DivMod DEF TasksType, OwnerInv, End
<1>2. TasksType'
  BY <1>1 DEF TasksType, At
<1>3. End = tail /\ End' = tail + 1 /\ Won' = Won
  BY DEF End, Won
<1>4. OwnerInv'
  BY <1>3 DEF OwnerInv, TasksType
<1>5. ThiefInv'
  BY <1>3 DEF ThiefInv, TasksType, Won
<1>6. RingInv'
  BY <1>3 DEF RingInv, Room, TasksType, Won
<1>7. Held' = Held \cup {tail} /\ tail \notin Held
  <2>1. head <= tail /\ head \in Nat /\ head' = head /\ th' = th
    BY <1>3 DEF OwnerInv, TasksType
  <2>2. (head .. (tail + 1) - 1) = (head .. tail - 1) \cup {tail}
    BY <1>1, <2>1
  <2>3. Held' = (head .. (tail + 1) - 1) \cup {th[s] : s \in Won}
    BY <1>3, <2>1, Zenon DEF Held
  <2> HIDE DEF StealInv
  <2> QED BY <1>1, <1>3, <2>2, <2>3, HeldRange DEF Held
<1>8. \A i \in Held : TaskAt(i)' = TaskAt(i)
  <2> SUFFICES ASSUME NEW i \in Held PROVE TaskAt(i)' = TaskAt(i)
    OBVIOUS
  <2>1. i \in Nat /\ i < tail
    <3> HIDE DEF StealInv
    <3> QED BY <1>3, HeldRange
  <2>2. tail < i + TaskQueueSize
    <3>1. tail < head + TaskQueueSize /\ \A s \in Won : tail < th[s] + TaskQueueSize
      BY DEF Room, Won
    <3>2. CASE i \in head .. End - 1
      BY <1>1, <3>1, <3>2, <2>1 DEF TasksType
    <3> QED BY <3>1, <3>2 DEF Held
  <2>3. TaskQueueSize \in Nat \ {0}
    OBVIOUS
  <2>4. i % TaskQueueSize # tail % TaskQueueSize
    <3> SUFFICES ASSUME i % TaskQueueSize = tail % TaskQueueSize PROVE FALSE
      OBVIOUS
    <3>1. i \in Int /\ tail \in Int /\ i < tail
      BY <1>1, <2>1
    <3>2. i + TaskQueueSize <= tail
      BY <3>1, <2>3, RingDistance, Zenon
    <3> QED BY ONLY <1>1, <2>1, <2>2, <2>3, <3>2
  <2>5. i % TaskQueueSize \in 0 .. TaskQueueSize - 1
    BY ONLY <2>1, <2>3, DivMod
  <2> QED BY <2>4, <2>5 DEF TaskAt, At, TasksType
<1>9. TaskAt(tail)' = tasks + 1
  BY <1>1 DEF TaskAt, At, TasksType
<1>10. TaskInv'
  <2>1. tasks' = tasks + 1 /\ tasks \in Nat /\ tasks + 1 \in 1 .. MaxTask /\ ran' = ran
    BY DEF TasksType
  <2>2. \A i \in Held' : TaskAt(i)' \in 1 .. tasks' /\ ran'[TaskAt(i)'] = 0
    BY <1>7, <1>8, <1>9, <2>1 DEF TaskInv
  <2>3. \A i, j \in Held' : TaskAt(i)' = TaskAt(j)' => i = j
    BY <1>7, <1>8, <1>9, <2>1 DEF TaskInv
  <2>4. \A k \in 1 .. MaxTask : ran'[k] <= 1 /\ (k > tasks' => ran'[k] = 0)
    BY <2>1 DEF TaskInv
  <2>5. \A k \in 1 .. tasks' : ran'[k] = 0 => \E i \in Held' : TaskAt(i)' = k
    BY <1>7, <1>8, <1>9, <2>1 DEF TaskInv
  <2> QED BY <2>2, <2>3, <2>4, <2>5 DEF TaskInv
<1> QED BY <1>2, <1>4, <1>5, <1>6, <1>10

\* The rest of TaskQueuePush, and TaskQueuePop up to its decision: what is held
\* stays held.
LEMMA OwnerKeeps ==
  ASSUME StealInv, PushTail \/ PopLower \/ PopHead
  PROVE  StealInv'
<1> USE DEF StealInv, PushTail, PopLower, PopHead, thiefVars
<1>1. TasksType'
  BY DEF TasksType
<1>2. End' = End /\ Won' = Won /\ head' = head /\ th' = th /\ tpc' = tpc
  <2>1. Won' = Won /\ head' = head /\ th' = th /\ tpc' = tpc
    BY DEF Won
  <2>2. tail \in Int
    BY DEF TasksType
  <2>3. End' = End
    <3>1. CASE PushTail
      BY ONLY <2>2, <3>1 DEF PushTail, End
    <3>2. CASE PopLower
      BY ONLY <2>2, <3>2 DEF PopLower, End
    <3>3. CASE PopHead
      BY ONLY <3>3 DEF PopHead, End
    <3> QED BY <3>1, <3>2, <3>3
  <2> QED BY <2>1, <2>3
<1>3. OwnerInv'
  BY <1>2 DEF OwnerInv, TasksType, End
<1>4. ThiefInv'
  BY <1>2 DEF ThiefInv, TasksType, End
<1>5. RingInv'
  BY <1>2 DEF RingInv
<1>6. Held' = Held
  BY <1>2, Zenon DEF Held
<1>7. TaskInv'
  BY <1>6, TaskKept
<1> QED BY <1>1, <1>3, <1>4, <1>5, <1>7

\* TaskQueuePop decides: a task that is not the last one is the owner's, and a
\* tail that is restored is where it was.
LEMMA DecideKeeps ==
  ASSUME StealInv, PopDecide
  PROVE  StealInv'
<1> USE DEF StealInv, PopDecide, thiefVars
<1>1. Won' = Won /\ head' = head /\ th' = th /\ tpc' = tpc /\ data' = data /\ tasks' = tasks
      /\ pc = "popped" /\ t = tail /\ t' = t /\ h' = h /\ tt' = tt /\ End = t + 1
  BY DEF Won, OwnerInv, End
<1>2. CASE t > h /\ HandOut(data[At(t)]) /\ tail' = tail /\ pc' = "idle"
  <2>1. End' = t /\ head <= t
    BY <1>1, <1>2 DEF End, OwnerInv
  <2>2. t \in Held /\ Held' = Held \ {t}
    <3>1. (head .. t - 1) = (head .. (t + 1) - 1) \ {t} /\ t \in head .. (t + 1) - 1
      BY <1>1, <2>1 DEF TasksType
    <3>2. \A s \in Won : th[s] # t
      BY <1>1, <2>1 DEF ThiefInv, TasksType, Won
    <3>3. Held' = (head .. t - 1) \cup {th[s] : s \in Won}
      BY <1>1, <2>1, Zenon DEF Held
    <3> QED BY <1>1, <3>1, <3>2, <3>3 DEF Held
  <2>3. TaskInv' /\ ran' \in [1 .. MaxTask -> Nat]
    <3>1. HandOut(TaskAt(t))
      BY <1>2 DEF TaskAt, At
    <3> QED BY <1>1, <2>2, <3>1, TaskTaken
  <2>4. TasksType'
    BY <1>1, <1>2, <2>3 DEF TasksType
  <2>5. OwnerInv'
    BY <1>1, <1>2, <2>1 DEF OwnerInv
  <2>6. ThiefInv'
    BY <1>1, <1>2, <2>1 DEF ThiefInv, TasksType
  <2>7. RingInv'
    BY <1>1, <2>1, TaskAssumption DEF RingInv, TasksType, Won
  <2> QED BY <2>3, <2>4, <2>5, <2>6, <2>7
<1>3. CASE /\ ran' = ran
           /\ \/ t < h /\ tail' = h /\ pc' = "idle"
              \/ t = h /\ tail' = h + 1 /\ pc' = "last"
  <2>1. End' = End
    BY <1>1, <1>3 DEF End, OwnerInv, TasksType
  <2>2. Held' = Held
    BY <1>1, <2>1, Zenon DEF Held
  <2>3. TaskInv'
    BY <1>1, <1>3, <2>2, TaskKept
  <2>4. TasksType'
    BY <1>1, <1>3 DEF TasksType
  <2>5. OwnerInv'
    BY <1>1, <1>3, <2>1 DEF OwnerInv
  <2>6. ThiefInv'
    BY <1>1, <1>3, <2>1 DEF ThiefInv, TasksType
  <2>7. RingInv'
    BY <1>1, <2>1 DEF RingInv
  <2> QED BY <2>3, <2>4, <2>5, <2>6, <2>7
<1> QED BY <1>2, <1>3

\* The last task goes to whoever advances the head past it.
LEMMA LastKeeps ==
  ASSUME StealInv, PopLast
  PROVE  StealInv'
<1> USE DEF StealInv, PopLast, thiefVars
<1>1. Won' = Won /\ th' = th /\ tpc' = tpc /\ data' = data /\ tasks' = tasks /\ tail' = tail
      /\ pc = "last" /\ pc' = "idle" /\ t = h /\ tail = h + 1 /\ End = h + 1 /\ End' = h + 1
      /\ t' = t /\ h' = h /\ tt' = tt /\ h <= head /\ head <= h + 1
  BY DEF Won, OwnerInv, End
<1>2. CASE head = h /\ head' = h + 1 /\ HandOut(data[At(t)])
  <2>1. h \in Held /\ Held' = Held \ {h}
    <3>1. (h + 1 .. (h + 1) - 1) = (h .. (h + 1) - 1) \ {h} /\ h \in h .. (h + 1) - 1
      BY DEF TasksType
    <3>2. \A s \in Won : th[s] # h
      BY <1>1, <1>2 DEF ThiefInv, TasksType, Won
    <3>3. Held' = (h + 1 .. (h + 1) - 1) \cup {th[s] : s \in Won}
      BY <1>1, <1>2, Zenon DEF Held
    <3> QED BY <1>1, <1>2, <3>1, <3>2, <3>3 DEF Held
  <2>2. TaskInv' /\ ran' \in [1 .. MaxTask -> Nat]
    <3>1. HandOut(TaskAt(h))
      BY <1>1, <1>2 DEF TaskAt, At
    <3> QED BY <1>1, <2>1, <3>1, TaskTaken
  <2>3. TasksType'
    BY <1>1, <1>2, <2>2 DEF TasksType
  <2>4. OwnerInv'
    BY <1>1, <1>2 DEF OwnerInv, TasksType
  <2>5. ThiefInv'
    BY <1>1, <1>2 DEF ThiefInv, TasksType
  <2>6. RingInv'
    BY <1>1, <1>2, TaskAssumption DEF RingInv, TasksType
  <2> QED BY <2>2, <2>3, <2>4, <2>5, <2>6
<1>3. CASE head # h /\ head' = head /\ ran' = ran
  <2>1. Held' = Held
    BY <1>1, <1>3, Zenon DEF Held
  <2>2. TaskInv'
    BY <1>1, <1>3, <2>1, TaskKept
  <2>3. TasksType'
    BY <1>1, <1>3 DEF TasksType
  <2>4. OwnerInv'
    BY <1>1, <1>3 DEF OwnerInv, TasksType
  <2>5. ThiefInv'
    BY <1>1, <1>3 DEF ThiefInv, TasksType
  <2>6. RingInv'
    BY <1>1, <1>3 DEF RingInv
  <2> QED BY <2>2, <2>3, <2>4, <2>5, <2>6
<1> QED BY <1>2, <1>3

\* TaskQueueSteal up to its compare-and-swap: a thief that failed has nothing, and
\* the one that succeeded holds the task it took from the queue.
LEMMA ThiefKeeps ==
  ASSUME StealInv, NEW s \in Thief,
         StealHead(s) \/ StealTail(s) \/ StealSwap(s)
  PROVE  StealInv'
<1>0. TasksType /\ OwnerInv /\ ThiefInv /\ RingInv /\ TaskInv
  BY DEF StealInv
<1> DEFINE ToHead == tpc[s] = "idle" /\ th' = [th EXCEPT ![s] = head]
                     /\ tpc' = [tpc EXCEPT ![s] = "head"] /\ tt' = tt
           ToTail == tpc[s] = "head" /\ tt' = [tt EXCEPT ![s] = tail] /\ th' = th
                     /\ tpc' = [tpc EXCEPT ![s] = IF th[s] >= tail THEN "idle" ELSE "tail"]
           Over == tpc[s] = "tail" /\ th' = th /\ tt' = tt /\ tpc' = [tpc EXCEPT ![s] = "idle"]
           Wins == tpc[s] = "tail" /\ th[s] = head /\ head' = head + 1 /\ th' = th /\ tt' = tt
                   /\ tpc' = [tpc EXCEPT ![s] = "won"]
<1>1. (head' = head /\ (ToHead \/ ToTail \/ Over)) \/ Wins
  BY DEF StealHead, StealTail, StealSwap
<1>2. pc' = pc /\ t' = t /\ h' = h /\ tail' = tail /\ data' = data /\ tasks' = tasks /\ ran' = ran
  BY DEF StealHead, StealTail, StealSwap, ownerVars
<1>3. End' = End
  BY <1>2 DEF End
<1>4. TasksType'
  <2>1. head \in Nat /\ head' \in Nat /\ tail \in Int
    BY <1>0, <1>1 DEF TasksType
  <2>2. tpc' \in [Thief -> {"idle", "head", "tail", "won"}]
    BY <1>0, <1>1, Zenon DEF TasksType
  <2>3. th' \in [Thief -> Nat] /\ tt' \in [Thief -> Int]
    BY <1>0, <1>1, <2>1, Zenon DEF TasksType
  <2> QED BY <1>0, <1>2, <2>1, <2>2, <2>3 DEF TasksType
<1>5. CASE head' = head /\ (ToHead \/ ToTail \/ Over)
  <2>1. \A u \in Thief : u # s => tpc'[u] = tpc[u] /\ th'[u] = th[u]
    BY <1>0, <1>5 DEF TasksType
  <2>2. /\ tpc'[s] # "won" /\ tpc[s] # "won" /\ th'[s] \in {th[s], head}
        /\ tpc'[s] = "tail" => th'[s] < tail
    BY <1>0, <1>5 DEF TasksType
  <2>3. Won' = Won /\ \A u \in Won : th'[u] = th[u]
    BY <2>1, <2>2 DEF Won
  <2>4. OwnerInv'
    BY <1>0, <1>2, <1>3, <1>5 DEF OwnerInv
  <2>5. head < tail => head < End /\ (pc = "popped" /\ t > h => head < t)
    BY <1>0 DEF TasksType, OwnerInv, End
  <2>6. ThiefInv'
    <3>1. ASSUME NEW u \in Thief
          PROVE  /\ th'[u] <= head /\ (u \in Won => th'[u] < head)
                 /\ tpc'[u] = "tail" /\ th'[u] = head =>
                      head < End /\ (pc = "popped" /\ t > h => head < t)
      <4>1. /\ th[u] <= head /\ (u \in Won => th[u] < head)
            /\ tpc[u] = "tail" /\ th[u] = head =>
                 head < End /\ (pc = "popped" /\ t > h => head < t)
        BY <1>0 DEF ThiefInv
      <4>2. u \in Won => u # s
        BY <2>2 DEF Won
      <4>3. head \in Nat /\ head <= head
        BY <1>0 DEF TasksType
      <4> QED BY <2>1, <2>2, <2>5, <4>1, <4>2, <4>3
    <3>2. \A u, v \in Won : th'[u] = th'[v] => u = v
      BY <1>0, <2>3, Zenon DEF ThiefInv
    <3> QED BY <1>2, <1>3, <1>5, <2>3, <3>1, <3>2 DEF ThiefInv
  <2>7. RingInv'
    BY <1>0, <1>3, <1>5, <2>3, Zenon DEF RingInv
  <2>8. Held' = Held
    BY <1>3, <1>5, <2>3 DEF Held
  <2> QED BY <1>0, <1>2, <1>4, <2>4, <2>6, <2>7, <2>8, TaskKept DEF StealInv
<1>6. CASE Wins
  <2>1. Won' = Won \cup {s} /\ s \notin Won
    BY <1>0, <1>6 DEF Won, TasksType
  <2>2. head < End /\ (pc = "popped" /\ t > h => head < t)
    BY <1>0, <1>6 DEF ThiefInv
  <2>3. head \in Nat /\ End \in Int /\ t \in Int /\ h \in Nat /\ th \in [Thief -> Nat]
    BY <1>0 DEF TasksType, End
  <2>4. OwnerInv'
    BY <1>0, <1>2, <1>3, <1>6, <2>2, <2>3 DEF OwnerInv
  <2>5. ThiefInv'
    <3>1. \A u \in Thief : th[u] <= head /\ (u \in Won => th[u] < head)
      BY <1>0 DEF ThiefInv
    <3>2. ASSUME NEW u \in Thief PROVE th[u] < head + 1 /\ th[u] # head + 1
      <4>1. th[u] \in Nat /\ th[u] <= head
        BY <2>3, <3>1
      <4> QED BY ONLY <2>3, <4>1
    <3>3. \A u, v \in Won \cup {s} : th[u] = th[v] => u = v
      BY <1>0, <1>6, <2>3, <3>1 DEF ThiefInv, Won
    <3> QED BY <1>6, <2>1, <2>3, <3>2, <3>3 DEF ThiefInv
  <2>6. RingInv'
    <3>1. TaskQueueSize \in Nat /\ End <= head + TaskQueueSize
      BY <1>0, TaskAssumption DEF RingInv
    <3>2. \A u \in Won \cup {s} : End <= th[u] + TaskQueueSize
      BY <1>0, <1>6, <3>1 DEF RingInv
    <3> QED BY <1>3, <1>6, <2>1, <2>3, <3>1, <3>2 DEF RingInv
  <2>7. Held' = Held
    <3>1. (head .. End - 1) = (head + 1 .. End - 1) \cup {head}
      BY <2>2, <2>3
    <3>2. Held' = (head + 1 .. End - 1) \cup {th[u] : u \in Won \cup {s}}
      BY <1>3, <1>6, <2>1, Zenon DEF Held
    <3>3. {th[u] : u \in Won \cup {s}} = {th[u] : u \in Won} \cup {head}
      BY <1>6
    <3> QED BY <3>1, <3>2, <3>3, Zenon DEF Held
  <2> QED BY <1>0, <1>2, <1>4, <2>4, <2>5, <2>6, <2>7, TaskKept DEF StealInv
<1> QED BY <1>1, <1>5, <1>6

\* The thief that won reads its task, which nobody has written over.
LEMMA ReadKeeps ==
  ASSUME StealInv, NEW s \in Thief, StealRead(s)
  PROVE  StealInv'
<1> USE DEF StealInv, StealRead, ownerVars
<1>1. End' = End /\ pc' = pc /\ t' = t /\ h' = h /\ tail' = tail /\ data' = data
      /\ tasks' = tasks /\ head' = head /\ th' = th /\ tt' = tt
      /\ Won' = Won \ {s} /\ s \in Won
  BY DEF End, Won, TasksType
<1>2. th[s] \in Held /\ Held' = Held \ {th[s]}
  <2>1. {th[u] : u \in Won \ {s}} = {th[u] : u \in Won} \ {th[s]}
    BY <1>1 DEF ThiefInv, Won
  <2>2. th[s] \notin head .. End - 1
    BY <1>1 DEF ThiefInv, TasksType
  <2>3. Held' = (head .. End - 1) \cup {th[u] : u \in Won \ {s}}
    BY <1>1, Zenon DEF Held
  <2> QED BY <1>1, <2>1, <2>2, <2>3, Zenon DEF Held
<1>3. TaskInv' /\ ran' \in [1 .. MaxTask -> Nat]
  <2>1. HandOut(TaskAt(th[s]))
    BY DEF TaskAt, At
  <2> QED BY <1>1, <1>2, <2>1, TaskTaken
<1>4. TasksType'
  BY <1>1, <1>3 DEF TasksType
<1>5. OwnerInv'
  BY <1>1 DEF OwnerInv
<1>6. ThiefInv'
  BY <1>1 DEF ThiefInv, TasksType
<1>7. RingInv'
  BY <1>1 DEF RingInv
<1> QED BY <1>3, <1>4, <1>5, <1>6, <1>7

\* At the start nothing is held.
LEMMA StealInit == TaskInit => StealInv
<1> SUFFICES ASSUME TaskInit PROVE StealInv
  OBVIOUS
<1> USE TaskAssumption DEF TaskInit, Task
<1>1. TasksType
  BY DEF TasksType
<1>2. End = 0 /\ Won = {} /\ Held = {}
  BY DEF End, Won, Held
<1>3. TaskInv
  BY <1>2 DEF TaskInv
<1> QED BY <1>1, <1>2, <1>3 DEF StealInv, OwnerInv, ThiefInv, RingInv

\* Every step keeps the invariant.
LEMMA StealNext == ~Overrun /\ StealInv /\ [TaskNext]_taskVars => StealInv'
<1> SUFFICES ASSUME ~Overrun, StealInv, TaskNext \/ UNCHANGED taskVars
             PROVE  StealInv'
  OBVIOUS
<1>1. CASE TaskNext
  BY <1>1, StoreKeeps, OwnerKeeps, DecideKeeps, LastKeeps, ThiefKeeps, ReadKeeps
  DEF TaskNext, Owner, Steal
<1>2. CASE UNCHANGED taskVars
  <2>1. /\ UNCHANGED <<head, tail, h, t, data, pc, tpc, th, tt, tasks, ran>>
        /\ TasksType /\ OwnerInv /\ ThiefInv /\ RingInv /\ TaskInv
    BY <1>2 DEF taskVars, StealInv
  <2>2. End' = End /\ Won' = Won
    BY <2>1 DEF End, Won
  <2>3. Held' = Held /\ \A i : TaskAt(i)' = TaskAt(i)
    BY <2>1, <2>2 DEF Held, TaskAt
  <2>4. TasksType' /\ OwnerInv'
    BY <2>1, <2>2 DEF TasksType, OwnerInv
  <2>5. ThiefInv' /\ RingInv' /\ TaskInv'
    BY <2>1, <2>2, <2>3, Zenon DEF ThiefInv, RingInv, TaskInv
  <2> QED BY <2>4, <2>5 DEF StealInv
<1> QED BY <1>1, <1>2

\* taskqueue.h: with any number of thieves, a ring of any size that is not overrun,
\* and any number of tasks, no task is handed out twice and none is lost.
THEOREM TasksHandedOutOnce == ASSUME ~Overrun PROVE TaskSpec => []EachTaskOnce
<1>1. StealInv => EachTaskOnce
  <2> SUFFICES ASSUME StealInv
               PROVE  HandedOutOnce /\ NoTaskLost
    BY DEF EachTaskOnce
  <2>1. HandedOutOnce
    BY DEF StealInv, TaskInv, HandedOutOnce, Task
  <2>2. ASSUME pc = "idle", NEW k \in 1 .. tasks
        PROVE  \/ ran[k] > 0
               \/ \E i \in head .. tail - 1 : data[At(i)] = k
               \/ \E s \in Thief : tpc[s] = "won" /\ data[At(th[s])] = k
    <3> SUFFICES ASSUME ran[k] = 0
                 PROVE  \/ \E i \in head .. tail - 1 : data[At(i)] = k
                        \/ \E s \in Thief : tpc[s] = "won" /\ data[At(th[s])] = k
      <4>1. k \in 1 .. MaxTask
        BY TaskAssumption DEF StealInv, TasksType
      <4>2. ran[k] \in Nat
        BY <4>1 DEF StealInv, TasksType
      <4> QED BY <4>2
    <3>1. PICK i \in Held : TaskAt(i) = k
      BY DEF StealInv, TaskInv
    <3> QED BY <2>2, <3>1 DEF Held, End, Won, TaskAt, At
  <2> QED BY <2>1, <2>2 DEF NoTaskLost
<1>2. StealInv /\ [TaskNext]_taskVars => StealInv'
  BY StealNext
<1> QED BY StealInit, <1>1, <1>2, PTL DEF TaskSpec

-----------------------------------------------------------------------------
\* AtomicQueue

\* A message in the queue was enqueued: a new number is not in it.
NumberInv == \A m \in q : m[2] <= npush[m[1]]

\* What a single consumer knows: its credit is at most what was counted in and
\* not out, and it dequeues only with credit.
CreditInv ==
    kSingleConsumer =>
        /\ credit <= pushed - taken
        /\ cpc[owner] \in {"deq", "count"} => credit > 0
        /\ seen[owner] <= pushed
        /\ \A c \in Consumer : cpc[c] = "count" => c = owner

IInv == TypeOK /\ IsFiniteSet(q) /\ NumberInv /\ Balance /\ CreditInv

USE ConsumerAssumption

\* Cardinalities of the producers and consumers between two steps are numbers.
LEMMA Finite ==
    /\ IsFiniteSet(Pushing) /\ Cardinality(Pushing) \in Nat
    /\ IsFiniteSet(Counting) /\ Cardinality(Counting) \in Nat
<1>1. Pushing \in SUBSET Producer /\ Counting \in SUBSET Consumer
  BY DEF Pushing, Counting
<1>2. IsFiniteSet(Pushing) /\ IsFiniteSet(Counting)
  BY <1>1, FS_Subset
<1> QED BY <1>2, FS_CardinalityType

\* The counters of an AtomicQueue that satisfies the invariant are numbers.
LEMMA Numbers ==
    ASSUME IInv
    PROVE  /\ pushed \in Nat /\ taken \in Nat /\ Cardinality(q) \in Nat
           /\ Cardinality(q) + taken + Cardinality(Counting) = pushed + Cardinality(Pushing)
<1>1. pushed \in Nat /\ taken \in Nat /\ IsFiniteSet(q) /\ Balance
  BY Zenon DEF IInv, TypeOK
<1>2. Cardinality(q) \in Nat
  BY <1>1, FS_CardinalityType
<1> QED BY <1>1, <1>2 DEF Balance

\* The empty queue with zero counters satisfies the invariant.
LEMMA InitInv == Init => IInv
<1> SUFFICES ASSUME Init PROVE IInv
  OBVIOUS
<1>1. TypeOK
  BY DEF Init, TypeOK
<1>2. q = {} /\ Pushing = {} /\ Counting = {}
  BY DEF Init, Pushing, Counting
<1>3. IsFiniteSet(q) /\ Balance /\ NumberInv
  BY <1>2, FS_EmptySet DEF Balance, Init, NumberInv
<1>4. CreditInv
  BY DEF Init, CreditInv
<1> QED BY <1>1, <1>3, <1>4 DEF IInv

\* The enqueue adds one message and one producer about to count it.
LEMMA EnqueueInv == ASSUME IInv, NEW p \in Producer, Enqueue(p), UNCHANGED kind PROVE IInv'
<1> DEFINE m == <<p, npush[p] + 1>>
<1>1. /\ ppc[p] = "idle" /\ npush[p] < MaxPush /\ npush' = [npush EXCEPT ![p] = @ + 1]
      /\ q' = q \cup {m} /\ ppc' = [ppc EXCEPT ![p] = "count"]
      /\ UNCHANGED <<pushed, taken, credit, cpc, seen>>
  BY DEF Enqueue
<1>2. npush[p] \in 0 .. MaxPush /\ m \in Msg
  BY <1>1 DEF IInv, TypeOK, Msg
<1>3. TypeOK'
  <2>1. npush' \in [Producer -> 0 .. MaxPush]
    BY <1>1, <1>2 DEF IInv, TypeOK
  <2>2. q' \subseteq Msg
    BY <1>1, <1>2 DEF IInv, TypeOK
  <2>3. ppc' \in [Producer -> {"idle", "count"}]
    BY <1>1 DEF IInv, TypeOK
  <2> QED BY <1>1, <2>1, <2>2, <2>3 DEF IInv, TypeOK
<1>4. m \notin q
  BY <1>2 DEF IInv, NumberInv
<1>5. NumberInv'
  BY <1>1, <1>2 DEF IInv, NumberInv, TypeOK, Msg
<1>6. IsFiniteSet(q') /\ Cardinality(q') = Cardinality(q) + 1
  BY <1>1, <1>4, FS_AddElement, Zenon DEF IInv
<1>7. Pushing' = Pushing \cup {p} /\ p \notin Pushing /\ Counting' = Counting
  BY <1>1 DEF Pushing, Counting, IInv, TypeOK
<1>8. Cardinality(Pushing') = Cardinality(Pushing) + 1
  BY <1>7, Finite, FS_AddElement, Zenon
<1>9. Balance'
  BY <1>1, <1>6, <1>7, <1>8, Numbers, Finite DEF Balance
<1>10. CreditInv'
  BY <1>1 DEF IInv, kSingleConsumer, CreditInv
<1> QED BY <1>3, <1>5, <1>6, <1>9, <1>10 DEF IInv

\* The count adds one to pushed and has one producer fewer about to count.
LEMMA CountPushInv == ASSUME IInv, NEW p \in Producer, CountPush(p), UNCHANGED kind PROVE IInv'
<1>1. /\ ppc[p] = "count" /\ pushed' = pushed + 1 /\ ppc' = [ppc EXCEPT ![p] = "idle"]
      /\ UNCHANGED <<q, taken, credit, npush, cpc, seen>>
  BY DEF CountPush
<1>2. TypeOK'
  BY <1>1 DEF IInv, TypeOK
<1>3. IsFiniteSet(q') /\ NumberInv'
  BY <1>1 DEF IInv, NumberInv
<1>4. Pushing' = Pushing \ {p} /\ p \in Pushing /\ Counting' = Counting
  BY <1>1 DEF Pushing, Counting, IInv, TypeOK
<1>5. Cardinality(Pushing') = Cardinality(Pushing) - 1
  BY <1>4, Finite, FS_RemoveElement, Zenon
<1>6. Balance'
  BY <1>1, <1>4, <1>5, Numbers, Finite DEF Balance
<1>7. CreditInv'
  BY <1>1 DEF IInv, kSingleConsumer, CreditInv, TypeOK, MayPop
<1> QED BY <1>2, <1>3, <1>6, <1>7 DEF IInv

\* The loads move no message; the credit they grant is what pushed showed.
LEMMA LoadInv ==
    ASSUME IInv, NEW c \in Consumer, MayPop(c), UNCHANGED kind,
           UseCredit(c) \/ LoadPushed(c) \/ LoadTaken(c)
    PROVE  IInv'
<1>1. /\ UNCHANGED <<q, pushed, taken, npush, ppc>>
      /\ \E v \in {"idle", "load", "deq"} : cpc' = [cpc EXCEPT ![c] = v]
  BY DEF UseCredit, LoadPushed, LoadTaken
<1>2. cpc[c] \in {"idle", "load"}
  BY DEF UseCredit, LoadPushed, LoadTaken
<1>3. credit' \in Nat
  <2>1. CASE LoadTaken(c)
    BY <2>1 DEF LoadTaken, IInv, TypeOK
  <2>2. CASE ~ LoadTaken(c)
    BY <2>2 DEF UseCredit, LoadPushed, IInv, TypeOK
  <2> QED BY <2>1, <2>2
<1>4. TypeOK'
  <2>1. cpc' \in [Consumer -> {"idle", "load", "deq", "count"}]
    BY <1>1 DEF IInv, TypeOK
  <2>2. seen' \in [Consumer -> Nat]
    BY DEF UseCredit, LoadPushed, LoadTaken, IInv, TypeOK
  <2> QED BY <1>1, <1>3, <2>1, <2>2 DEF IInv, TypeOK
<1>5. Counting' = Counting /\ Pushing' = Pushing
  BY <1>1, <1>2 DEF Counting, Pushing, IInv, TypeOK
<1>6. IsFiniteSet(q') /\ NumberInv' /\ Balance'
  BY <1>1, <1>5 DEF IInv, NumberInv, Balance
<1>7. CreditInv'
  <2> SUFFICES ASSUME kSingleConsumer PROVE CreditInv'
    BY DEF CreditInv, kSingleConsumer
  <2>1. c = owner
    BY DEF MayPop
  <2>2. CASE UseCredit(c)
    BY <2>1, <2>2 DEF UseCredit, HasCredit, IInv, CreditInv, TypeOK
  <2>3. CASE LoadPushed(c)
    BY <2>1, <2>3 DEF LoadPushed, IInv, CreditInv, TypeOK
  <2>4. CASE LoadTaken(c)
    <3>1. /\ credit' = IF seen[c] - taken > 0 THEN seen[c] - taken ELSE 0
          /\ cpc'[c] \in {"idle", IF seen[c] - taken > 0 THEN "deq" ELSE "idle"}
          /\ seen' = seen
      BY <2>4 DEF LoadTaken, IInv, TypeOK
    <3>2. seen[c] \in Nat /\ seen[c] <= pushed /\ taken \in Nat /\ pushed \in Nat
          /\ credit \in Nat /\ credit <= pushed - taken
      BY <2>1 DEF IInv, kSingleConsumer, CreditInv, TypeOK
    <3>3. credit' <= pushed - taken /\ (cpc'[c] = "deq" => credit' > 0) /\ cpc'[c] # "count"
      <4>1. CASE seen[c] - taken > 0
        BY <3>1, <3>2, <4>1
      <4>2. CASE ~(seen[c] - taken > 0)
        BY <3>1, <3>2, <4>2
      <4> QED BY <4>1, <4>2
    <3> QED BY <1>1, <2>1, <3>1, <3>2, <3>3 DEF CreditInv, IInv, TypeOK
  <2> QED BY <2>2, <2>3, <2>4
<1> QED BY <1>4, <1>6, <1>7 DEF IInv

\* The dequeue removes one message and has one more consumer about to count it.
LEMMA DequeueInv == ASSUME IInv, NEW c \in Consumer, MayPop(c), Dequeue(c), UNCHANGED kind PROVE IInv'
<1>1. /\ cpc[c] = "deq" /\ cpc' = [cpc EXCEPT ![c] = "count"]
      /\ UNCHANGED <<pushed, taken, credit, npush, ppc, seen>>
  BY DEF Dequeue
<1>2. PICK m \in q : q' = q \ {m}
  BY DEF Dequeue, Oldest
<1>3. TypeOK' /\ NumberInv'
  BY <1>1, <1>2 DEF IInv, TypeOK, NumberInv
<1>4. IsFiniteSet(q') /\ Cardinality(q') = Cardinality(q) - 1
  BY <1>2, FS_RemoveElement DEF IInv
<1>5. Counting' = Counting \cup {c} /\ c \notin Counting /\ Pushing' = Pushing
  BY <1>1 DEF Pushing, Counting, IInv, TypeOK
<1>6. Cardinality(Counting') = Cardinality(Counting) + 1
  BY <1>5, Finite, FS_AddElement, Zenon
<1>7. Balance'
  BY <1>1, <1>4, <1>5, <1>6, Numbers, Finite DEF Balance
<1>8. CreditInv'
  BY <1>1 DEF IInv, kSingleConsumer, CreditInv, TypeOK, MayPop
<1> QED BY <1>3, <1>4, <1>7, <1>8 DEF IInv

\* A dequeue of nothing only forgets the credit.
LEMMA DequeueFailsInv == ASSUME IInv, NEW c \in Consumer, MayPop(c), DequeueFails(c), UNCHANGED kind
    PROVE  IInv'
<1>1. /\ cpc[c] = "deq" /\ cpc' = [cpc EXCEPT ![c] = "idle"]
      /\ credit' = IF kSingleConsumer THEN 0 ELSE credit
      /\ UNCHANGED <<q, pushed, taken, npush, ppc, seen>>
  BY DEF DequeueFails
<1>2. TypeOK'
  BY <1>1 DEF IInv, TypeOK
<1>3. Counting' = Counting /\ Pushing' = Pushing
  BY <1>1 DEF Counting, Pushing, IInv, TypeOK
<1>4. IsFiniteSet(q') /\ NumberInv' /\ Balance'
  BY <1>1, <1>3 DEF IInv, NumberInv, Balance
<1>5. CreditInv'
  BY <1>1 DEF IInv, kSingleConsumer, CreditInv, TypeOK, MayPop
<1> QED BY <1>2, <1>4, <1>5 DEF IInv

\* Counting a taken message: one consumer fewer between its steps.
LEMMA CountTakenInv == ASSUME IInv, NEW c \in Consumer, MayPop(c), CountTaken(c), UNCHANGED kind
    PROVE  IInv'
<1>1. /\ cpc[c] = "count" /\ cpc' = [cpc EXCEPT ![c] = "idle"] /\ taken' = taken + 1
      /\ credit' = IF kSingleConsumer THEN credit - 1 ELSE credit
      /\ UNCHANGED <<q, pushed, npush, ppc, seen>>
  BY DEF CountTaken
<1>2. TypeOK'
  <2>1. credit' \in Nat
    BY <1>1 DEF IInv, TypeOK, kSingleConsumer, CreditInv
  <2> QED BY <1>1, <2>1 DEF IInv, TypeOK
<1>3. IsFiniteSet(q') /\ NumberInv'
  BY <1>1 DEF IInv, NumberInv
<1>4. Counting' = Counting \ {c} /\ c \in Counting /\ Pushing' = Pushing
  BY <1>1 DEF Pushing, Counting, IInv, TypeOK
<1>5. Cardinality(Counting') = Cardinality(Counting) - 1
  BY <1>4, Finite, FS_RemoveElement, Zenon
<1>6. Balance'
  BY <1>1, <1>4, <1>5, Numbers, Finite DEF Balance
<1>7. CreditInv'
  BY <1>1 DEF IInv, kSingleConsumer, CreditInv, TypeOK, MayPop
<1> QED BY <1>2, <1>3, <1>6, <1>7 DEF IInv

\* The invariant is inductive.
LEMMA Invariance == Spec => []IInv
<1>1. ASSUME IInv, Next PROVE IInv'
  BY <1>1, EnqueueInv, CountPushInv, LoadInv, DequeueInv, DequeueFailsInv,
     CountTakenInv DEF Next, Push, Pop
<1>2. ASSUME IInv, UNCHANGED vars PROVE IInv'
  BY <1>2 DEF IInv, vars, TypeOK, NumberInv, Balance, kSingleConsumer, CreditInv, Pushing, Counting
<1>3. IInv /\ [Next]_vars => IInv'
  BY <1>1, <1>2
<1> QED BY InitInv, <1>3, PTL DEF Spec

\* The counters balance for any number of producers and consumers.
THEOREM CountersBalance == Spec => []Balance
<1>1. IInv => Balance
  BY DEF IInv
<1> QED BY Invariance, <1>1, PTL

\* With a single consumer the credit is backed by enqueued messages.
THEOREM CreditBacked == Spec => []CreditIsBacked
<1>1. ASSUME IInv PROVE CreditIsBacked
  <2> DEFINE c == owner
  <2> SUFFICES ASSUME kSingleConsumer
               PROVE  /\ cpc[c] = "deq" => q # {}
                      /\ credit <= Cardinality(q) + Cardinality(Counting)
    BY DEF CreditIsBacked
  <2>1. Cardinality(q) \in Nat
    BY <1>1, FS_CardinalityType DEF IInv
  <2>2. /\ credit <= pushed - taken /\ (cpc[c] = "deq" => credit > 0)
        /\ credit \in Nat /\ pushed \in Nat /\ taken \in Nat
    BY <1>1 DEF IInv, kSingleConsumer, CreditInv, TypeOK
  <2>3. credit <= Cardinality(q) + Cardinality(Counting)
    BY <1>1, <2>2, Numbers, Finite
  <2>4. cpc[c] = "deq" => Counting = {}
    BY <1>1 DEF Counting, IInv, CreditInv
  <2>5. ASSUME cpc[c] = "deq" PROVE q # {}
    <3>1. Cardinality(Counting) = 0 /\ credit > 0
      BY <2>2, <2>4, <2>5, FS_EmptySet
    <3>2. Cardinality(q) # 0
      BY <2>1, <2>2, <2>3, <3>1
    <3> QED BY <3>2, FS_EmptySet
  <2> QED BY <2>3, <2>5
<1> QED BY Invariance, <1>1, PTL

-----------------------------------------------------------------------------
\* PrioQueue

\* The count of drained levels, and that there are finitely many.
LevelsInv == QueueTypeOK /\ IsFiniteSet(Drained) /\ DrainedBounded

USE QueueAssumption

\* The initial queue has no level.
LEMMA QueueInitInv == QueueInit => LevelsInv
<1> SUFFICES ASSUME QueueInit PROVE LevelsInv
  OBVIOUS
<1>1. DOMAIN levels = {} /\ Drained = {}
  BY DEF QueueInit, Drained
<1>2. QueueTypeOK
  BY <1>1 DEF QueueInit, QueueTypeOK, Level
<1> QED BY <1>1, <1>2, FS_EmptySet DEF QueueInit, LevelsInv, DrainedBounded

\* Storing a non-empty level: it is no longer a drained one.
LEMMA LevelForInv ==
    ASSUME LevelsInv, NEW p \in Priority, NEW l \in Level, l # <<>>, LevelFor(p, l),
           size' \in Nat
    PROVE  LevelsInv'
<1>1. CASE p = 0
  <2>1. zero' = l /\ levels' = levels /\ emptyLevels' = emptyLevels
    BY <1>1 DEF LevelFor
  <2>2. Drained' = Drained
    BY <2>1 DEF Drained
  <2> QED BY <2>1, <2>2 DEF LevelsInv, QueueTypeOK, DrainedBounded
<1>2. CASE p # 0
  <2>1. /\ levels' = [r \in DOMAIN levels \cup {p} |-> IF r = p THEN l ELSE levels[r]]
        /\ emptyLevels' = IF p \in Drained THEN emptyLevels - 1 ELSE emptyLevels
        /\ zero' = zero
    BY <1>2 DEF LevelFor, Drained
  <2>2. Drained' = Drained \ {p}
    BY <2>1 DEF Drained
  <2>3. IsFiniteSet(Drained') /\ Cardinality(Drained')
          = IF p \in Drained THEN Cardinality(Drained) - 1 ELSE Cardinality(Drained)
    BY <2>2, FS_RemoveElement DEF LevelsInv
  <2>4. Cardinality(Drained') \in Nat
    BY <2>3, FS_CardinalityType
  <2>5. QueueTypeOK'
    <3>1. DOMAIN levels' \subseteq Priority \ {0}
      BY <1>2, <2>1 DEF LevelsInv, QueueTypeOK
    <3>2. levels' \in [DOMAIN levels' -> Level]
      BY <2>1 DEF LevelsInv, QueueTypeOK
    <3>3. emptyLevels' \in Nat
      BY <2>1, <2>3, <2>4 DEF LevelsInv, DrainedBounded
    <3> QED BY <2>1, <3>1, <3>2, <3>3 DEF LevelsInv, QueueTypeOK
  <2>6. DrainedBounded'
    BY <2>1, <2>3, <2>4 DEF LevelsInv, DrainedBounded, QueueTypeOK
  <2> QED BY <2>3, <2>5, <2>6 DEF LevelsInv
<1> QED BY <1>1, <1>2

\* Both pushes store a non-empty level.
LEMMA QueuePushInv ==
    ASSUME LevelsInv, NEW m \in Message, NEW p \in Priority,
           QueuePush(m, p) \/ QueuePushFront(m, p)
    PROVE  LevelsInv'
<1>1. Contents(p) \in Level
  BY DEF Contents, LevelsInv, QueueTypeOK, Level
<1>2. size' \in Nat
  BY DEF QueuePush, QueuePushFront, LevelsInv, QueueTypeOK
<1>3. CASE QueuePush(m, p)
  <2>1. Append(Contents(p), m) \in Level
    BY <1>1 DEF Level
  <2>2. Len(Append(Contents(p), m)) = Len(Contents(p)) + 1 /\ Len(Contents(p)) \in Nat
    BY <1>1 DEF Level
  <2>3. Append(Contents(p), m) # <<>>
    BY <2>2
  <2> QED BY <1>2, <1>3, <2>1, <2>3, LevelForInv, Zenon DEF QueuePush
<1>4. CASE QueuePushFront(m, p)
  <2>1. <<m>> \o Contents(p) \in Level /\ Len(<<m>> \o Contents(p)) = 1 + Len(Contents(p))
    BY <1>1 DEF Level
  <2>2. <<m>> \o Contents(p) # <<>>
    BY <1>1, <2>1 DEF Level
  <2> QED BY <1>2, <1>4, <2>1, <2>2, LevelForInv, Zenon DEF QueuePushFront
<1> QED BY <1>3, <1>4

\* Popping drains at most the level it pops from.
LEMMA QueuePopInv == ASSUME LevelsInv, QueuePop PROVE LevelsInv'
<1>0. /\ emptyLevels \in Nat /\ kKeptEmptyLevels \in Nat
      /\ emptyLevels = Cardinality(Drained) /\ emptyLevels <= kKeptEmptyLevels
  BY QueueAssumption, Zenon DEF LevelsInv, QueueTypeOK, DrainedBounded
<1>1. PICK p \in Live : PopFront(p)
  BY DEF QueuePop
<1>2. size' \in Nat
  BY DEF QueuePop, LevelsInv, QueueTypeOK
<1>3. CASE p = 0
  <2>1. zero # <<>>
    BY <1>1, <1>3 DEF Live, LevelsInv, QueueTypeOK
  <2>2. zero' = Tail(zero) /\ UNCHANGED <<levels, emptyLevels>>
    BY <1>1, <1>3 DEF PopFront
  <2>3. Drained' = Drained /\ zero' \in Level
    BY <2>1, <2>2 DEF Drained, Level, LevelsInv, QueueTypeOK
  <2> QED BY <1>2, <2>2, <2>3 DEF LevelsInv, QueueTypeOK, DrainedBounded
<1>4. CASE p # 0
  <2>1. p \in DOMAIN levels /\ levels[p] # <<>> /\ levels[p] \in Level /\ p \notin Drained
    BY <1>4 DEF Live, Drained, LevelsInv, QueueTypeOK
  <2>2. Tail(levels[p]) \in Level
    BY <2>1 DEF Level
  <2>3. CASE Tail(levels[p]) # <<>>
    <3>1. levels' = [levels EXCEPT ![p] = Tail(@)] /\ UNCHANGED <<zero, emptyLevels>>
      BY <1>1, <1>4, <2>3 DEF PopFront
    <3>2. Drained' = Drained
      BY <2>1, <2>3, <3>1 DEF Drained, LevelsInv, QueueTypeOK
    <3>3. levels' \in [DOMAIN levels' -> Level] /\ DOMAIN levels' = DOMAIN levels
      BY <2>2, <3>1, Zenon DEF LevelsInv, QueueTypeOK
    <3> QED BY <1>2, <3>1, <3>2, <3>3 DEF LevelsInv, QueueTypeOK, DrainedBounded
  <2>4. CASE Tail(levels[p]) = <<>>
    <3>1. LevelDrained(p) /\ zero' = zero
      BY <1>1, <1>4, <2>4 DEF PopFront
    <3>2. CASE emptyLevels < kKeptEmptyLevels
      <4>0. ~ (emptyLevels >= kKeptEmptyLevels)
        BY ONLY <1>0, <3>2
      <4>1. levels' = [levels EXCEPT ![p] = <<>>] /\ emptyLevels' = emptyLevels + 1
        BY <3>1, <4>0, Zenon DEF LevelDrained
      <4>2. Drained' = Drained \cup {p}
        BY <2>1, <4>1 DEF Drained, LevelsInv, QueueTypeOK
      <4>3. IsFiniteSet(Drained') /\ Cardinality(Drained') = Cardinality(Drained) + 1
        BY <2>1, <4>2, FS_AddElement DEF LevelsInv
      <4>4. levels' \in [DOMAIN levels' -> Level] /\ DOMAIN levels' = DOMAIN levels
        <5>1. <<>> \in Level
          BY DEF Level
        <5> QED BY <4>1, <5>1, Zenon DEF LevelsInv, QueueTypeOK
      <4>5. /\ emptyLevels' \in Nat
            /\ emptyLevels' = Cardinality(Drained') /\ emptyLevels' <= kKeptEmptyLevels
        BY ONLY <1>0, <3>2, <4>1, <4>3
      <4> QED BY <1>2, <3>1, <4>3, <4>4, <4>5, Zenon DEF LevelsInv, QueueTypeOK, DrainedBounded
    <3>3. CASE ~ (emptyLevels < kKeptEmptyLevels)
      <4>1. levels' = [r \in DOMAIN levels \ {p} |-> levels[r]] /\ emptyLevels' = emptyLevels
        BY <3>1, <3>3, Zenon DEF LevelDrained
      <4>2. Drained' = Drained
        BY <2>1, <4>1 DEF Drained
      <4>3. levels' \in [DOMAIN levels' -> Level] /\ DOMAIN levels' \subseteq DOMAIN levels
        BY <4>1 DEF LevelsInv, QueueTypeOK
      <4> QED BY <1>2, <3>1, <4>1, <4>2, <4>3 DEF LevelsInv, QueueTypeOK, DrainedBounded
    <3> QED BY <3>2, <3>3
  <2> QED BY <2>3, <2>4
<1> QED BY <1>3, <1>4

\* The count of drained levels is exact and bounded after any sequence of
\* pushes and pops.
THEOREM DrainedLevels == QueueSpec => []DrainedBounded
<1>1. ASSUME LevelsInv, QueueNext PROVE LevelsInv'
  <2>1. \A w \in Word : AsInt(w) \in Priority
    BY DEF Priority
  <2>2. 0 \in Priority /\ LongPriority \subseteq Priority
    BY DEF Priority
  <2>3. ASSUME NEW m \in Message, CqsEnqueueGeneral(m) PROVE LevelsInv'
    BY <1>1, <2>1, <2>2, <2>3, QueuePushInv, Zenon DEF CqsEnqueueGeneral
  <2> QED BY <1>1, <2>3, QueuePopInv DEF QueueNext
<1>2. ASSUME LevelsInv, UNCHANGED queueVars PROVE LevelsInv'
  BY <1>2 DEF LevelsInv, queueVars, QueueTypeOK, DrainedBounded, Drained
<1>3. LevelsInv /\ [QueueNext]_queueVars => LevelsInv'
  BY <1>1, <1>2
<1>4. LevelsInv => DrainedBounded
  BY DEF LevelsInv
<1> QED BY QueueInitInv, <1>3, <1>4, PTL DEF QueueSpec


====
