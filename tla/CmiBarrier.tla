------------------------------ MODULE CmiBarrier ------------------------------
(***************************************************************************)
(* CmiBarrier (convcore.cpp), a barrier of all PEs of all processes: the   *)
(* process's barrier, then the backend's barrier for rank 0, then the      *)
(* process's barrier again.  The backend's barrier is used by what it      *)
(* promises: a process leaves when every process has entered as often.     *)
(***************************************************************************)
EXTENDS NodeBarrier

CONSTANTS
    rank0,       \* the rank that calls the backend's barrier
    MaxCalls     \* bound on the calls of each PE

ASSUME CallAssumption == rank0 \in Rank /\ MaxCalls \in Nat

VARIABLES
    at,         \* where each PE is in CmiBarrier
    entered,    \* how often each process has entered the backend's barrier
    calls,      \* history: how often each PE has begun CmiBarrier
    returns     \* history: how often it has returned

vars == <<barrierVars, at, entered, calls, returns>>

TypeOK ==
    /\ BarrierOK
    /\ at \in [Pe -> {"out", "first", "between", "backend", "second"}]
    /\ entered \in [Node -> 0 .. MaxCalls]
    /\ calls \in [Pe -> 0 .. MaxCalls] /\ returns \in [Pe -> 0 .. MaxCalls]

Init ==
    /\ BarrierInit
    /\ at = [p \in Pe |-> "out"]
    /\ entered = [n \in Node |-> 0]
    /\ calls = [p \in Pe |-> 0] /\ returns = [p \in Pe |-> 0]

\* The first CmiNodeBarrier begins, ...
First(p) ==
    /\ at[p] = "out" /\ calls[p] < MaxCalls
    /\ calls' = [calls EXCEPT ![p] = @ + 1]
    /\ LoadStep(p)
    /\ at' = [at EXCEPT ![p] = "first"]
    /\ UNCHANGED <<entered, returns>>

\* (either of the two is under way)
InNodeBarrier(p) ==
    /\ AddWaiting(p) \/ Reset(p) \/ Advance(p)
    /\ UNCHANGED <<at, entered, calls, returns>>

\* ... and ends.
LeaveFirst(p) ==
    /\ at[p] = "first"
    /\ TestTicket(p)
    /\ at' = [at EXCEPT ![p] = "between"]
    /\ UNCHANGED <<entered, calls, returns>>

\* Rank 0 enters comm_backend::barrier, ...
Backend(p) ==
    /\ at[p] = "between" /\ p[2] = rank0
    /\ entered' = [entered EXCEPT ![p[1]] = @ + 1]
    /\ at' = [at EXCEPT ![p] = "backend"]
    /\ UNCHANGED <<barrierVars, calls, returns>>

\* (mutant) Rank 0 does not wait for the other processes in the backend's barrier.
SecondUnreleased(p) ==
    /\ at[p] = IF p[2] = rank0 THEN "backend" ELSE "between"
    /\ LoadStep(p)
    /\ at' = [at EXCEPT ![p] = "second"]
    /\ UNCHANGED <<entered, calls, returns>>

\* (mutant) The backend releases a process when the others are one round ahead.
SecondOneAhead(p) ==
    /\ at[p] = IF p[2] = rank0 THEN "backend" ELSE "between"
    /\ p[2] = rank0 => \A n \in Node \ {p[1]} : entered[p[1]] < entered[n]
    /\ LoadStep(p)
    /\ at' = [at EXCEPT ![p] = "second"]
    /\ UNCHANGED <<entered, calls, returns>>

\* ... is released when every process has entered, and every rank goes to the
\* second CmiNodeBarrier.
Second(p) ==
    /\ at[p] = IF p[2] = rank0 THEN "backend" ELSE "between"
    /\ p[2] = rank0 => \A n \in Node : entered[p[1]] <= entered[n]
    /\ LoadStep(p)
    /\ at' = [at EXCEPT ![p] = "second"]
    /\ UNCHANGED <<entered, calls, returns>>

LeaveSecond(p) ==
    /\ at[p] = "second"
    /\ TestTicket(p)
    /\ returns' = [returns EXCEPT ![p] = @ + 1]
    /\ at' = [at EXCEPT ![p] = "out"]
    /\ UNCHANGED <<entered, calls>>

PeStep(p) ==
    \/ First(p) \/ InNodeBarrier(p) \/ LeaveFirst(p)
    \/ Backend(p) \/ Second(p) \/ LeaveSecond(p)

Next == \E p \in Pe : PeStep(p)

Spec == Init /\ [][Next]_vars

-----------------------------------------------------------------------------
\* No PE returns from its n-th CmiBarrier before every PE of every process has
\* begun its n-th.
GlobalBarrier == \A p, q \in Pe : returns[p] <= calls[q]

\* Every PE has returned from every call.
AllReturned == \A p \in Pe : returns[p] = MaxCalls
=============================================================================
