------------------------- MODULE DecrementToEnqueue -------------------------
(***************************************************************************)
(* A message sent by whichever of several threads completes its part last  *)
(* (src/convcore.cpp, CmiCreateDecrementToEnqueue and the calls on what it *)
(* returns).  The message's handler starts another round with              *)
(* CmiResetCounter, or frees the counter.                                  *)
(***************************************************************************)
EXTENDS Integers, FiniteSets

CONSTANTS Worker,        \* threads with one part of each round
          InitialCount,  \* initialCount and newCount
          MaxRounds      \* bound: rounds before the counter is freed

\* The counter is created, and reset, for the threads that decrement it
ASSUME WorkerAssumption ==
  /\ IsFiniteSet(Worker) /\ Worker # {} /\ InitialCount = Cardinality(Worker)
  /\ MaxRounds \in Nat

UintMax == 2^32 - 1

VARIABLES counter,
          does,      \* worker -> working at its part, last to decrement, or done
          copies,    \* of the message, on their way
          round,
          freed,
          abort      \* a decrement found zero

counterVars == <<counter, does, copies, round, freed, abort>>

CmiCreateDecrementToEnqueue ==
  /\ counter = InitialCount /\ does = [w \in Worker |-> "working"]
  /\ copies = 0 /\ round = 1 /\ freed = FALSE /\ abort = FALSE

\* (mutant) the thread that finds 2 is taken for the last one
DecrementEarly(w) ==
  /\ does[w] = "working"
  /\ counter' = IF counter = 0 THEN UintMax ELSE counter - 1
  /\ abort' = (abort \/ counter = 0)
  /\ does' = [does EXCEPT ![w] = IF counter = 2 THEN "last" ELSE "done"]
  /\ UNCHANGED <<copies, round, freed>>
\* The counter is decremented at once, and its old value tells the last thread
CmiDecrementCounter(w) ==
  /\ does[w] = "working"
  /\ counter' = IF counter = 0 THEN UintMax ELSE counter - 1
  /\ abort' = (abort \/ counter = 0)
  /\ does' = [does EXCEPT ![w] = IF counter = 1 THEN "last" ELSE "done"]
  /\ UNCHANGED <<copies, round, freed>>

\* CmiSyncSend: a copy, so that the message can be sent again
SendCopy(w) ==
  /\ does[w] = "last"
  /\ copies' = copies + 1
  /\ does' = [does EXCEPT ![w] = "done"]
  /\ UNCHANGED <<counter, round, freed, abort>>

\* The handler of the copy: the workers are told to go on after the reset
CmiResetCounter ==
  /\ copies > 0 /\ round < MaxRounds
  /\ copies' = copies - 1 /\ round' = round + 1
  /\ counter' = InitialCount /\ does' = [w \in Worker |-> "working"]
  /\ UNCHANGED <<freed, abort>>

CmiFreeDecrementToEnqueue ==
  /\ copies > 0 /\ round = MaxRounds /\ ~freed
  /\ copies' = copies - 1 /\ freed' = TRUE
  /\ UNCHANGED <<counter, does, round, abort>>

CounterNext == \/ \E w \in Worker : CmiDecrementCounter(w) \/ SendCopy(w)
               \/ CmiResetCounter \/ CmiFreeDecrementToEnqueue

CounterSpec == CmiCreateDecrementToEnqueue /\ [][CounterNext]_counterVars

(***************************************************************************)
(* The message is sent once in each round, after every thread has done its *)
(* part: nobody touches the counter between the last decrement and the     *)
(* reset or the free that the message's handler makes, and no decrement    *)
(* finds the counter at zero.                                              *)
(***************************************************************************)
SentByTheLast ==
  /\ ~abort
  /\ copies > 0 \/ freed => \A w \in Worker : does[w] = "done"
  /\ (\A w \in Worker : does[w] = "done") /\ ~freed => copies = 1
=============================================================================
