----------------------------- MODULE NodeBarrier -----------------------------
(***************************************************************************)
(* The barrier between the PEs of a process (barrier.h), one in every      *)
(* process: a count of the PEs that wait and a step number that releases   *)
(* them.  Every load and store of the two atomics is a step.               *)
(***************************************************************************)
EXTENDS Integers, FiniteSets

CONSTANTS
    Node,   \* the processes
    Rank    \* the ranks of PEs in a process

ASSUME RankAssumption == IsFiniteSet(Rank)

VARIABLES
    waiting,   \* PEs of each process that have arrived
    step,      \* completed rounds of each process
    pc,        \* where each PE is in wait()
    ticket,    \* what arrive() returned
    rounds     \* history: waits each PE has completed

barrierVars == <<waiting, step, pc, ticket, rounds>>

Pe == Node \X Rank
thread_num == Cardinality(Rank)

BarrierOK ==
    /\ waiting \in [Node -> 0 .. thread_num]
    /\ step \in [Node -> Nat]
    /\ pc \in [Pe -> {"out", "loaded", "last", "advance", "wait"}]
    /\ ticket \in [Pe -> Nat]
    /\ rounds \in [Pe -> Nat]

BarrierInit ==
    /\ waiting = [n \in Node |-> 0] /\ step = [n \in Node |-> 0]
    /\ pc = [p \in Pe |-> "out"]
    /\ ticket = [p \in Pe |-> 0] /\ rounds = [p \in Pe |-> 0]

\* arrive(): load the step, ...
LoadStep(p) ==
    /\ pc[p] = "out"
    /\ ticket' = [ticket EXCEPT ![p] = step[p[1]]]
    /\ pc' = [pc EXCEPT ![p] = "loaded"]
    /\ UNCHANGED <<waiting, step, rounds>>

\* (mutant) The PE before the last completes the round.
AddWaitingEarly(p) ==
    /\ pc[p] = "loaded"
    /\ waiting' = [waiting EXCEPT ![p[1]] = @ + 1]
    /\ pc' = [pc EXCEPT ![p] = IF waiting'[p[1]] = thread_num - 1 THEN "last" ELSE "wait"]
    /\ UNCHANGED <<step, ticket, rounds>>

\* ... count this PE, ...
AddWaiting(p) ==
    /\ pc[p] = "loaded"
    /\ waiting' = [waiting EXCEPT ![p[1]] = @ + 1]
    /\ pc' = [pc EXCEPT ![p] = IF waiting'[p[1]] = thread_num THEN "last" ELSE "wait"]
    /\ UNCHANGED <<step, ticket, rounds>>

\* ... and the last one resets the count ...
Reset(p) ==
    /\ pc[p] = "last"
    /\ waiting' = [waiting EXCEPT ![p[1]] = 0]
    /\ pc' = [pc EXCEPT ![p] = "advance"]
    /\ UNCHANGED <<step, ticket, rounds>>

\* ... and advances the step.
Advance(p) ==
    /\ pc[p] = "advance"
    /\ step' = [step EXCEPT ![p[1]] = @ + 1]
    /\ pc' = [pc EXCEPT ![p] = "wait"]
    /\ UNCHANGED <<waiting, ticket, rounds>>

\* wait_ticket: test_ticket until the step is another one.
TestTicket(p) ==
    /\ pc[p] = "wait" /\ ticket[p] # step[p[1]]
    /\ pc' = [pc EXCEPT ![p] = "out"]
    /\ rounds' = [rounds EXCEPT ![p] = @ + 1]
    /\ UNCHANGED <<waiting, step, ticket>>

\* CmiNodeBarrier.
Wait(p) == LoadStep(p) \/ AddWaiting(p) \/ Reset(p) \/ Advance(p) \/ TestTicket(p)

BarrierNext == \E p \in Pe : Wait(p)

BarrierSpec == BarrierInit /\ [][BarrierNext]_barrierVars

-----------------------------------------------------------------------------
\* A PE has arrived once AddWaiting counted it.
Counted(p) == pc[p] \in {"wait", "last", "advance"}
arrivals == [p \in Pe |-> rounds[p] + (IF Counted(p) THEN 1 ELSE 0)]

Promise == INSTANCE BarrierPromise WITH
    Caller <- Pe, Peers <- [p \in Pe |-> {p[1]} \X Rank],
    arrived <- arrivals, left <- rounds

\* wait() keeps the promise of a reusable barrier in every process: no PE
\* completes a wait that another has not begun, however the rounds overlap.
KeepsPromise == Promise!PSpec
=============================================================================
