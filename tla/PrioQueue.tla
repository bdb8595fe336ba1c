----------------------------- MODULE PrioQueue -----------------------------
(***************************************************************************)
(* The scheduler queue of queueing.cpp, used for CsdSchedQueue and         *)
(* CsdNodeQueue: a map from priority to a double-ended queue, priority     *)
(* zero apart, with a few drained levels kept allocated.  One caller at a  *)
(* time uses a queue: its PE, or the holder of CsdNodeQueueLock.           *)
(***************************************************************************)
EXTENDS Integers, Sequences, FiniteSets

CONSTANTS
    Message,            \* messages that can be queued
    IntBits,            \* width of the int priorities (32 in the code)
    LongPriority,       \* long long priorities that occur
    kKeptEmptyLevels    \* drained levels kept (4 in the code)

ASSUME QueueAssumption ==
    /\ IntBits \in Nat \ {0}
    /\ LongPriority \subseteq Int
    /\ kKeptEmptyLevels \in Nat

\* An unsigned word of the message header, read as an int.
Word == 0 .. (2 ^ IntBits - 1)
AsInt(w) == IF w >= 2 ^ (IntBits - 1) THEN w - 2 ^ IntBits ELSE w

Priority == LongPriority \cup {AsInt(w) : w \in Word} \cup {0}

VARIABLES
    levels,        \* the map: a function on the priorities that have a level
    zero,          \* the level of priority zero
    emptyLevels,   \* drained levels still in the map
    size           \* messages in the queue

queueVars == <<levels, zero, emptyLevels, size>>

Level == Seq(Message)

QueueTypeOK ==
    /\ DOMAIN levels \subseteq Priority \ {0}
    /\ levels \in [DOMAIN levels -> Level]
    /\ zero \in Level
    /\ emptyLevels \in Nat
    /\ size \in Nat

QueueInit ==
    /\ levels = [p \in {} |-> <<>>]
    /\ zero = <<>>
    /\ emptyLevels = 0
    /\ size = 0

\* Priorities with a message, zero included.
Live == {p \in DOMAIN levels : levels[p] # <<>>}
            \cup (IF zero # <<>> THEN {0} ELSE {})

\* The message is nowhere in the queue (it is not queued twice).
Fresh(m) ==
    /\ \A i \in DOMAIN zero : zero[i] # m
    /\ \A p \in DOMAIN levels : \A i \in DOMAIN levels[p] : levels[p][i] # m

-----------------------------------------------------------------------------
\* level_for, with the level's new contents: a missing level is created, and a
\* drained one is no longer counted as such.
LevelFor(p, l) ==
    IF p = 0
    THEN /\ zero' = l
         /\ UNCHANGED <<levels, emptyLevels>>
    ELSE /\ levels' = [r \in DOMAIN levels \cup {p} |-> IF r = p THEN l ELSE levels[r]]
         /\ emptyLevels' = IF p \in DOMAIN levels /\ levels[p] = <<>>
                           THEN emptyLevels - 1 ELSE emptyLevels
         /\ zero' = zero

Contents(p) ==
    IF p = 0 THEN zero ELSE IF p \in DOMAIN levels THEN levels[p] ELSE <<>>

\* (mutant) Behind the messages of its level, as QueuePush.
QueuePushFrontBehind(m, p) ==
    /\ Fresh(m)
    /\ LevelFor(p, Append(Contents(p), m))
    /\ size' = size + 1

QueuePush(m, p) ==
    /\ Fresh(m)
    /\ LevelFor(p, Append(Contents(p), m))
    /\ size' = size + 1

QueuePushFront(m, p) ==
    /\ Fresh(m)
    /\ LevelFor(p, <<m>> \o Contents(p))
    /\ size' = size + 1

\* CqsEnqueueGeneral: the strategy picks the end and the width of the priority;
\* any other strategy queues at priority zero.
CqsEnqueueGeneral(m) ==
    \/ QueuePush(m, 0)                                     \* FIFO, default
    \/ QueuePushFront(m, 0)                                \* LIFO
    \/ \E w \in Word : QueuePush(m, AsInt(w))              \* IFIFO
    \/ \E w \in Word : QueuePushFront(m, AsInt(w))         \* ILIFO
    \/ \E p \in LongPriority : QueuePush(m, p)             \* LFIFO
    \/ \E p \in LongPriority : QueuePushFront(m, p)        \* LLIFO

\* The walk of front_level and QueueTopPriority over a non-empty queue:
\* negative levels, zero, positive levels, drained levels skipped.
FrontLevel(p) ==
    /\ p \in Live
    /\ \A r \in Live : p <= r

\* level_drained, for a level of the map: kept, or erased.
LevelDrained(p) ==
    \/ /\ emptyLevels < kKeptEmptyLevels
       /\ levels' = [levels EXCEPT ![p] = <<>>]
       /\ emptyLevels' = emptyLevels + 1
    \/ /\ emptyLevels >= kKeptEmptyLevels
       /\ levels' = [r \in DOMAIN levels \ {p} |-> levels[r]]
       /\ UNCHANGED emptyLevels

\* pop_front on the level, and level_drained if that emptied it.
PopFront(p) ==
    \/ /\ p = 0
       /\ zero' = Tail(zero)
       /\ UNCHANGED <<levels, emptyLevels>>
    \/ /\ p # 0
       /\ Tail(levels[p]) # <<>>
       /\ levels' = [levels EXCEPT ![p] = Tail(@)]
       /\ UNCHANGED <<zero, emptyLevels>>
    \/ /\ p # 0
       /\ Tail(levels[p]) = <<>>
       /\ LevelDrained(p)
       /\ zero' = zero

QueuePop ==
    /\ size > 0
    /\ size' = size - 1
    /\ \E p \in Live : FrontLevel(p) /\ PopFront(p)

-----------------------------------------------------------------------------
QueueNext == (\E m \in Message : CqsEnqueueGeneral(m)) \/ QueuePop

QueueSpec == QueueInit /\ [][QueueNext]_queueVars

-----------------------------------------------------------------------------
Drained == {p \in DOMAIN levels : levels[p] = <<>>}

\* emptyLevels counts the drained levels of the map, and there are never more
\* of them than level_drained keeps: the scan of front_level is bounded by
\* kKeptEmptyLevels however many priorities come and go.
DrainedBounded ==
    /\ emptyLevels = Cardinality(Drained)
    /\ emptyLevels <= kKeptEmptyLevels
=============================================================================
