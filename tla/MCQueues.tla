------------------------------ MODULE MCQueues ------------------------------
(***************************************************************************)
(* The lock-free structures, one access to shared memory a step, each on   *)
(* an instance of its own: the work-stealing queue, and the three parts of *)
(* concurrentqueue.h.  part tells which one a behaviour is about, and the  *)
(* others stay as they were made.                                          *)
(***************************************************************************)
EXTENDS FreeList, ConcurrentQueue, TaskQueue

CONSTANTS Thread, HashedId, INITIAL_IMPLICIT_PRODUCER_HASH_SIZE, MaxLooks
CONSTANTS p1, p2, t1, t2, t3

VARIABLES part, tables, count, resizing, inactive, me, looks
hashVars == <<tables, count, resizing, inactive, me, looks>>

Hash == INSTANCE ProducerHash

\* Constants: a producer with more elements than a block holds beside one with a
\* single element, and thread ids two of which collide.
MCProducers == <<p1, p2>>
MCSends == p1 :> 3 @@ p2 :> 1
MCHashedId == t1 :> 0 @@ t2 :> 0 @@ t3 :> 1

\* Two of the threads are interchangeable in every part: they play the same role and
\* hash to the same place.  The third holds the free list's nodes where it is still.
Swap == Permutations({t1, t2})
Holder == IF t3 \in User THEN t3 ELSE CHOOSE u \in User : TRUE

QueuesInit ==
  /\ part \in {"tasks", "queue", "free", "hash"}
  /\ TaskInit /\ QueueInit /\ Hash!Init
  /\ Init
  /\ part # "free" => has = [u \in User |-> IF u = Holder THEN Node ELSE {}]

QueuesNext ==
  \/ part = "tasks" /\ TaskNext /\ UNCHANGED <<part, queueVars, vars, hashVars>>
  \/ part = "queue" /\ QueueNext /\ UNCHANGED <<part, taskVars, vars, hashVars>>
  \/ part = "free" /\ Next /\ UNCHANGED <<part, taskVars, queueVars, hashVars>>
  \/ part = "hash" /\ Hash!Next /\ UNCHANGED <<part, taskVars, queueVars, vars>>

QueuesSpec == QueuesInit /\ [][QueuesNext]_<<part, taskVars, queueVars, vars, hashVars>>

-----------------------------------------------------------------------------
\* concurrentqueue.h, get_or_add_implicit_producer: while tables grow and threads
\* come and go, a thread finds the one producer that is its own.
OneProducerEach == part = "hash" => Hash!OneProducerEach
=============================================================================
