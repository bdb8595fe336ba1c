------------------------------ MODULE TaskQueue ------------------------------
(***************************************************************************)
(* A PE's work-stealing queue (taskqueue.h, conv-taskq.cpp): the owner     *)
(* pushes and pops at the tail, other PEs steal at the head, and a         *)
(* compare-and-swap of the head decides who gets the last task.  Every     *)
(* load, store and compare-and-swap of head, tail and data is a step; the  *)
(* fences of Push and Pop make the order of the steps the program's.       *)
(***************************************************************************)
EXTENDS Integers

CONSTANTS
    Thief,           \* the PEs that steal
    TaskQueueSize,   \* entries of the ring
    MaxTask,         \* bound on the tasks pushed, numbered from 1 on
    Overrun          \* whether tasks are pushed with no room for them

ASSUME TaskAssumption == TaskQueueSize \in Nat \ {0} /\ MaxTask \in Nat

VARIABLES
    head, tail, data,   \* the queue
    pc,                 \* where the owner is
    h, t,               \* its local copies
    tpc, th, tt,        \* where each thief is, and its local copies
    tasks,              \* tasks pushed so far
    ran                 \* history: how often each task was handed out

taskVars == <<head, tail, data, pc, h, t, tpc, th, tt, tasks, ran>>
ownerVars == <<pc, h, t>>
thiefVars == <<tpc, th, tt>>

Task == 1 .. MaxTask
At(i) == i % TaskQueueSize

TaskTypeOK ==
    /\ head \in 0 .. MaxTask /\ tail \in -1 .. MaxTask
    /\ data \in [0 .. TaskQueueSize - 1 -> 0 .. MaxTask]
    /\ pc \in {"idle", "stored", "lowered", "popped", "last"}
    /\ h \in 0 .. MaxTask /\ t \in -1 .. MaxTask
    /\ tpc \in [Thief -> {"idle", "head", "tail", "won"}]
    /\ th \in [Thief -> 0 .. MaxTask] /\ tt \in [Thief -> -1 .. MaxTask]
    /\ tasks \in 0 .. MaxTask
    /\ ran \in [Task -> Nat]

TaskInit ==
    /\ head = 0 /\ tail = 0
    /\ data = [i \in 0 .. TaskQueueSize - 1 |-> 0]
    /\ pc = "idle" /\ h = 0 /\ t = 0
    /\ tpc = [s \in Thief |-> "idle"]
    /\ th = [s \in Thief |-> 0] /\ tt = [s \in Thief |-> 0]
    /\ tasks = 0
    /\ ran = [k \in Task |-> 0]

HandOut(task) == ran' = [k \in Task |-> IF k = task THEN ran[k] + 1 ELSE ran[k]]

\* Push does not look for room.  It has room if the queue is not full and no
\* thief has still to read the entry that is to be overwritten.
Room ==
    /\ tail < head + TaskQueueSize
    /\ \A s \in Thief : tpc[s] = "won" => tail < th[s] + TaskQueueSize

-----------------------------------------------------------------------------
\* TaskQueuePush: the entry, then the tail.
PushStore ==
    /\ pc = "idle" /\ tasks < MaxTask /\ (Room \/ Overrun)
    /\ data' = [data EXCEPT ![At(tail)] = tasks + 1]
    /\ tasks' = tasks + 1
    /\ pc' = "stored"
    /\ UNCHANGED <<head, tail, h, t, thiefVars, ran>>

PushTail ==
    /\ pc = "stored"
    /\ tail' = tail + 1
    /\ pc' = "idle"
    /\ UNCHANGED <<head, data, h, t, thiefVars, tasks, ran>>

\* TaskQueuePop: lower the tail, ...
PopLower ==
    /\ pc = "idle"
    /\ t' = tail - 1 /\ tail' = tail - 1
    /\ pc' = "lowered"
    /\ UNCHANGED <<head, data, h, thiefVars, tasks, ran>>

\* ... then read the head.
PopHead ==
    /\ pc = "lowered"
    /\ h' = head
    /\ pc' = "popped"
    /\ UNCHANGED <<head, tail, data, t, thiefVars, tasks, ran>>

\* (mutant) The last task is taken without a compare-and-swap.
PopDecideNoRace ==
    /\ pc = "popped"
    /\ \/ t >= h /\ HandOut(data[At(t)]) /\ tail' = tail /\ pc' = "idle"
       \/ t < h /\ tail' = h /\ pc' = "idle" /\ ran' = ran
    /\ UNCHANGED <<head, data, h, t, thiefVars, tasks>>

\* More than one task: take it.  None: restore the tail.  One: restore the tail
\* and compete for it.
PopDecide ==
    /\ pc = "popped"
    /\ \/ t > h /\ HandOut(data[At(t)]) /\ tail' = tail /\ pc' = "idle"
       \/ t < h /\ tail' = h /\ pc' = "idle" /\ ran' = ran
       \/ t = h /\ tail' = h + 1 /\ pc' = "last" /\ ran' = ran
    /\ UNCHANGED <<head, data, h, t, thiefVars, tasks>>

PopLast ==
    /\ pc = "last"
    /\ \/ head = h /\ head' = h + 1 /\ HandOut(data[At(t)])
       \/ head # h /\ UNCHANGED <<head, ran>>
    /\ pc' = "idle"
    /\ UNCHANGED <<tail, data, h, t, thiefVars, tasks>>

-----------------------------------------------------------------------------
\* TaskQueueSteal: read the head, ...
StealHead(s) ==
    /\ tpc[s] = "idle"
    /\ th' = [th EXCEPT ![s] = head]
    /\ tpc' = [tpc EXCEPT ![s] = "head"]
    /\ UNCHANGED <<head, tail, data, ownerVars, tt, tasks, ran>>

\* ... then the tail; ...
StealTail(s) ==
    /\ tpc[s] = "head"
    /\ tt' = [tt EXCEPT ![s] = tail]
    /\ tpc' = [tpc EXCEPT ![s] = IF th[s] >= tail THEN "idle" ELSE "tail"]
    /\ UNCHANGED <<head, tail, data, ownerVars, th, tasks, ran>>

\* ... advance the head, or start over; ...
StealSwap(s) ==
    /\ tpc[s] = "tail"
    /\ \/ head = th[s] /\ head' = head + 1 /\ tpc' = [tpc EXCEPT ![s] = "won"]
       \/ head # th[s] /\ head' = head /\ tpc' = [tpc EXCEPT ![s] = "idle"]
    /\ UNCHANGED <<tail, data, ownerVars, th, tt, tasks, ran>>

\* ... and only then read the task.
StealRead(s) ==
    /\ tpc[s] = "won"
    /\ HandOut(data[At(th[s])])
    /\ tpc' = [tpc EXCEPT ![s] = "idle"]
    /\ UNCHANGED <<head, tail, data, ownerVars, th, tt, tasks>>

-----------------------------------------------------------------------------
Owner == PushStore \/ PushTail \/ PopLower \/ PopHead \/ PopDecide \/ PopLast
Steal(s) == StealHead(s) \/ StealTail(s) \/ StealSwap(s) \/ StealRead(s)

TaskNext == Owner \/ \E s \in Thief : Steal(s)

TaskSpec == TaskInit /\ [][TaskNext]_taskVars

-----------------------------------------------------------------------------
\* No task is handed out twice, whoever pops and steals at the same time: thieves
\* and owner compete only for the last task (taskqueue.h, the comment on the
\* protocol).
HandedOutOnce == \A k \in Task : ran[k] <= 1

\* No task is lost: between the owner's calls, a task that was pushed has been
\* handed out, is in the queue, or is with a thief that won it.
NoTaskLost ==
    pc = "idle" => \A k \in 1 .. tasks :
        \/ ran[k] > 0
        \/ \E i \in head .. tail - 1 : data[At(i)] = k
        \/ \E s \in Thief : tpc[s] = "won" /\ data[At(th[s])] = k

\* Both together: while there is room for what is pushed, every task is handed out
\* once, whoever pops and steals at the same time.
EachTaskOnce == HandedOutOnce /\ NoTaskLost
=============================================================================
