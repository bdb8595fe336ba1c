-------------------------- MODULE Barriers_proofs ---------------------------
(***************************************************************************)
(* Proofs about what waits for the last of several threads: the barriers   *)
(* of processes and of the job, for any number of processes, PEs and       *)
(* calls, and DecrementToEnqueue, for any threads and number of rounds.    *)
(***************************************************************************)
EXTENDS CmiBarrier, DecrementToEnqueue, FiniteSetTheorems, TLAPS

-----------------------------------------------------------------------------
\* barrier.h: the barrier of a process.

\* The ranks of a process that the round under way has counted.
Here(n) == {r \in Rank : Counted(<<n, r>>) /\ ticket[<<n, r>>] = step[n]}

\* A PE is in the round of its process, unless it was released and has not
\* seen it.
RoundOf(p) ==
  /\ pc[p] = "out" => rounds[p] = step[p[1]]
  /\ pc[p] # "out" => rounds[p] = ticket[p]
  /\ pc[p] \in {"loaded", "last", "advance"} => ticket[p] = step[p[1]]
  /\ pc[p] = "wait" => ticket[p] = step[p[1]] \/ ticket[p] + 1 = step[p[1]]

\* The count is the number of PEs of the round, until the last one resets it;
\* nobody is missing then, and there is one last PE.
CountOf(n) ==
  /\ \A r \in Rank : pc[<<n, r>>] = "advance" => waiting[n] = 0 /\ Here(n) = Rank
  /\ \A r \in Rank : pc[<<n, r>>] = "last" => waiting[n] = thread_num
  /\ (\A r \in Rank : pc[<<n, r>>] # "advance") => waiting[n] = Cardinality(Here(n))
  /\ (\A r \in Rank : pc[<<n, r>>] # "last") => waiting[n] < thread_num
  /\ \A r, s \in Rank : pc[<<n, r>>] \in {"last", "advance"}
                         /\ pc[<<n, s>>] \in {"last", "advance"} => r = s

NodeInv ==
  /\ waiting \in [Node -> Nat] /\ step \in [Node -> Nat]
  /\ pc \in [Pe -> {"out", "loaded", "last", "advance", "wait"}]
  /\ ticket \in [Pe -> Nat] /\ rounds \in [Pe -> Nat]
  /\ \A p \in Pe : RoundOf(p)
  /\ \A n \in Node : CountOf(n)

\* convcore.cpp: where a PE is in CmiBarrier tells which of its waits it is in.
CallOf(p) ==
  /\ at[p] = "out" => rounds[p] = 2 * calls[p]
  /\ at[p] = "first" => rounds[p] = 2 * calls[p] - 2
  /\ at[p] \in {"between", "backend", "second"} => rounds[p] = 2 * calls[p] - 1
  /\ returns[p] = IF at[p] = "out" THEN calls[p] ELSE calls[p] - 1
  /\ pc[p] = "out" <=> at[p] \in {"out", "between", "backend"}

\* Rank 0 of a process has entered the backend's barrier once a call, and left
\* it when everyone had entered it as often.
BackendOf(p) ==
  /\ entered[p[1]] = IF at[p] \in {"first", "between"} THEN calls[p] - 1 ELSE calls[p]
  /\ \A n \in Node :
       entered[n] >= IF at[p] \in {"out", "second"} THEN calls[p] ELSE calls[p] - 1

BarrierInv ==
  /\ NodeInv
  /\ at \in [Pe -> {"out", "first", "between", "backend", "second"}]
  /\ entered \in [Node -> Int] /\ calls \in [Pe -> Nat] /\ returns \in [Pe -> Int]
  /\ \A p \in Pe : CallOf(p)
  /\ \A n \in Node : BackendOf(<<n, rank0>>)

\* The PEs of a process that takes no step are counted as before.
LEMMA CountKept ==
  ASSUME NEW n \in Node, CountOf(n),
         step'[n] = step[n], waiting'[n] = waiting[n],
         \A r \in Rank : pc'[<<n, r>>] = pc[<<n, r>>] /\ ticket'[<<n, r>>] = ticket[<<n, r>>]
  PROVE  CountOf(n)'
<1>1. Here(n)' = Here(n)
  BY DEF Here, Counted
<1> QED BY <1>1 DEF CountOf

\* The ranks are finitely many, and there is one.
LEMMA Ranks ==
  /\ IsFiniteSet(Rank) /\ thread_num \in Nat /\ thread_num > 0
  /\ \A n : Here(n) \subseteq Rank /\ IsFiniteSet(Here(n)) /\ Cardinality(Here(n)) \in Nat
            /\ Cardinality(Here(n)) <= thread_num
            /\ (Cardinality(Here(n)) = thread_num => Here(n) = Rank)
<1>1. IsFiniteSet(Rank) /\ thread_num \in Nat
  BY RankAssumption, FS_CardinalityType DEF thread_num
<1>2. thread_num # 0
  BY <1>1, CallAssumption, FS_EmptySet DEF thread_num
<1>3. ASSUME NEW n
      PROVE  Here(n) \subseteq Rank /\ IsFiniteSet(Here(n)) /\ Cardinality(Here(n)) \in Nat
             /\ Cardinality(Here(n)) <= thread_num
             /\ (Cardinality(Here(n)) = thread_num => Here(n) = Rank)
  <2>1. Here(n) \in SUBSET Rank
    BY DEF Here
  <2> QED BY <1>1, <2>1, FS_Subset, FS_CardinalityType DEF thread_num
<1> QED BY <1>1, <1>2, <1>3

\* A PE comes to the barrier: it is in its process's round, and not yet counted.
LEMMA LoadKeeps ==
  ASSUME NodeInv, NEW n \in Node, NEW r \in Rank, LoadStep(<<n, r>>)
  PROVE  NodeInv'
<1> DEFINE p == <<n, r>>
<1>0. p \in Pe /\ p[1] = n
  BY DEF Pe
<1>1. /\ pc[p] = "out" /\ step' = step /\ waiting' = waiting /\ rounds' = rounds
      /\ ticket' = [ticket EXCEPT ![p] = step[n]] /\ pc' = [pc EXCEPT ![p] = "loaded"]
  BY DEF LoadStep
<1>2. /\ waiting' \in [Node -> Nat] /\ step' \in [Node -> Nat]
      /\ pc' \in [Pe -> {"out", "loaded", "last", "advance", "wait"}]
      /\ ticket' \in [Pe -> Nat] /\ rounds' \in [Pe -> Nat]
  BY <1>0, <1>1 DEF NodeInv
<1>3. ASSUME NEW o \in Pe PROVE RoundOf(o)'
  BY <1>0, <1>1, RoundOf(o), RoundOf(p) DEF NodeInv, RoundOf
<1>4. ASSUME NEW m \in Node PROVE CountOf(m)'
  <2>1. Here(m)' = Here(m)
    BY <1>0, <1>1, Zenon DEF Here, Counted, NodeInv, Pe
  <2>2. \A s \in Rank : \A w \in {"last", "advance"} : pc'[<<m, s>>] = w <=> pc[<<m, s>>] = w
    BY <1>0, <1>1, Zenon DEF NodeInv, Pe
  <2> QED BY <1>1, <2>1, <2>2, CountOf(m) DEF NodeInv, CountOf
<1> QED BY <1>2, <1>3, <1>4 DEF NodeInv

\* It is counted; the one that completes the count is the last.
LEMMA AddKeeps ==
  ASSUME NodeInv, NEW n \in Node, NEW r \in Rank, AddWaiting(<<n, r>>)
  PROVE  NodeInv'
<1> DEFINE p == <<n, r>>
           to == IF waiting[n] + 1 = thread_num THEN "last" ELSE "wait"
<1>0. p \in Pe /\ p[1] = n
  BY DEF Pe
<1>1. /\ pc[p] = "loaded" /\ step' = step /\ rounds' = rounds /\ ticket' = ticket
      /\ waiting' = [waiting EXCEPT ![n] = @ + 1]
      /\ pc' = [pc EXCEPT ![p] = to]
  BY <1>0 DEF AddWaiting, NodeInv
<1>2. /\ waiting' \in [Node -> Nat] /\ step' \in [Node -> Nat]
      /\ pc' \in [Pe -> {"out", "loaded", "last", "advance", "wait"}]
      /\ ticket' \in [Pe -> Nat] /\ rounds' \in [Pe -> Nat]
  BY <1>0, <1>1 DEF NodeInv
<1>3. ASSUME NEW o \in Pe PROVE RoundOf(o)'
  BY <1>0, <1>1, RoundOf(o), RoundOf(p) DEF NodeInv, RoundOf
<1>4. r \notin Here(n) /\ ticket[p] = step[n]
  BY <1>0, <1>1, RoundOf(p) DEF Here, Counted, RoundOf, NodeInv
<1>5. /\ \A s \in Rank : pc[<<n, s>>] # "advance"
      /\ waiting[n] = Cardinality(Here(n))
      /\ waiting[n] < thread_num
      /\ \A s \in Rank : pc[<<n, s>>] # "last"
  <2>1. \A s \in Rank : pc[<<n, s>>] # "advance"
    BY <1>4, CountOf(n) DEF NodeInv, CountOf
  <2>2. waiting[n] = Cardinality(Here(n)) /\ Cardinality(Here(n)) # thread_num
    BY <1>4, <2>1, CountOf(n), Ranks DEF NodeInv, CountOf
  <2> QED BY <2>1, <2>2, CountOf(n), Ranks DEF NodeInv, CountOf
<1>6. Here(n)' = Here(n) \cup {r}
  BY <1>0, <1>1, <1>4 DEF Here, Counted, NodeInv, Pe
<1>7. Cardinality(Here(n)') = waiting'[n] /\ waiting'[n] = waiting[n] + 1
  <2>1. waiting'[n] = waiting[n] + 1
    BY <1>1 DEF NodeInv
  <2>2. IsFiniteSet(Here(n))
    BY Ranks
  <2>3. Cardinality(Here(n) \cup {r}) = Cardinality(Here(n)) + 1
    BY <2>2, <1>4, FS_AddElement, Zenon
  <2> QED BY <2>1, <2>3, <1>5, <1>6
<1>8. \A s \in Rank : s # r => pc'[<<n, s>>] = pc[<<n, s>>]
  BY <1>0, <1>1 DEF NodeInv, Pe
<1>9. CountOf(n)'
  <2>1. pc'[p] = to
    BY <1>0, <1>1 DEF NodeInv
  <2>2. \A s \in Rank : pc'[<<n, s>>] # "advance"
    BY <2>1, <1>5, <1>8
  <2>3. \A s \in Rank : pc'[<<n, s>>] = "last" => s = r /\ waiting'[n] = thread_num
    BY <2>1, <1>5, <1>7, <1>8
  <2>4. (\A s \in Rank : pc'[<<n, s>>] # "last") => waiting'[n] < thread_num
    BY <2>1, <1>5, <1>7, Ranks DEF NodeInv
  <2> QED BY <2>2, <2>3, <2>4, <1>7, thread_num' = thread_num DEF CountOf, thread_num
<1>10. ASSUME NEW m \in Node, m # n PROVE CountOf(m)'
  BY <1>10, <1>0, <1>1, CountOf(m), CountKept DEF NodeInv, Pe
<1> QED BY <1>2, <1>3, <1>9, <1>10 DEF NodeInv

\* The last PE resets the count, which is complete.
LEMMA ResetKeeps ==
  ASSUME NodeInv, NEW n \in Node, NEW r \in Rank, Reset(<<n, r>>)
  PROVE  NodeInv'
<1> DEFINE p == <<n, r>>
<1>0. p \in Pe /\ p[1] = n
  BY DEF Pe
<1>1. /\ pc[p] = "last" /\ step' = step /\ rounds' = rounds /\ ticket' = ticket
      /\ waiting' = [waiting EXCEPT ![n] = 0] /\ pc' = [pc EXCEPT ![p] = "advance"]
  BY <1>0 DEF Reset
<1>2. /\ waiting' \in [Node -> Nat] /\ step' \in [Node -> Nat]
      /\ pc' \in [Pe -> {"out", "loaded", "last", "advance", "wait"}]
      /\ ticket' \in [Pe -> Nat] /\ rounds' \in [Pe -> Nat]
  BY <1>0, <1>1 DEF NodeInv
<1>3. ASSUME NEW o \in Pe PROVE RoundOf(o)'
  BY <1>0, <1>1, RoundOf(o), RoundOf(p) DEF NodeInv, RoundOf
<1>4. Here(n) = Rank
  <2>1. \A s \in Rank : pc[<<n, s>>] # "advance"
    BY <1>1, CountOf(n), Zenon DEF NodeInv, CountOf
  <2> QED BY <1>1, <2>1, CountOf(n), Ranks DEF NodeInv, CountOf
<1>5. Here(n)' = Rank
  BY <1>0, <1>1, <1>4 DEF Here, Counted, NodeInv, Pe
<1>6. \A s \in Rank : s # r => pc'[<<n, s>>] = pc[<<n, s>>]
                               /\ pc[<<n, s>>] \notin {"last", "advance"}
  BY <1>0, <1>1, CountOf(n) DEF NodeInv, CountOf, Pe
<1>7. CountOf(n)'
  <2>1. pc'[p] = "advance" /\ waiting'[n] = 0
    BY <1>0, <1>1 DEF NodeInv
  <2> QED BY <2>1, <1>5, <1>6, Ranks, thread_num' = thread_num DEF CountOf, thread_num
<1>8. ASSUME NEW m \in Node, m # n PROVE CountOf(m)'
  BY <1>8, <1>0, <1>1, CountOf(m), CountKept DEF NodeInv, Pe
<1> QED BY <1>2, <1>3, <1>7, <1>8 DEF NodeInv

\* It opens the next round: everyone waits for that, and nobody is counted in it.
LEMMA AdvanceKeeps ==
  ASSUME NodeInv, NEW n \in Node, NEW r \in Rank, Advance(<<n, r>>)
  PROVE  NodeInv'
<1> DEFINE p == <<n, r>>
<1>0. p \in Pe /\ p[1] = n
  BY DEF Pe
<1>1. /\ pc[p] = "advance" /\ waiting' = waiting /\ rounds' = rounds /\ ticket' = ticket
      /\ step' = [step EXCEPT ![n] = @ + 1] /\ pc' = [pc EXCEPT ![p] = "wait"]
  BY <1>0 DEF Advance
<1>2. /\ waiting' \in [Node -> Nat] /\ step' \in [Node -> Nat]
      /\ pc' \in [Pe -> {"out", "loaded", "last", "advance", "wait"}]
      /\ ticket' \in [Pe -> Nat] /\ rounds' \in [Pe -> Nat]
  BY <1>0, <1>1 DEF NodeInv
<1>3. waiting[n] = 0 /\ Here(n) = Rank
  BY <1>1, CountOf(n) DEF NodeInv, CountOf
<1>4. \A s \in Rank : /\ ticket[<<n, s>>] = step[n]
                      /\ s # r => pc[<<n, s>>] = "wait" /\ pc'[<<n, s>>] = "wait"
  <2> SUFFICES ASSUME NEW s \in Rank
               PROVE  /\ ticket[<<n, s>>] = step[n]
                      /\ s # r => pc[<<n, s>>] = "wait" /\ pc'[<<n, s>>] = "wait"
    OBVIOUS
  <2>1. <<n, s>> \in Pe /\ pc \in [Pe -> {"out", "loaded", "last", "advance", "wait"}]
    BY DEF Pe, NodeInv
  <2>2. pc[<<n, s>>] \in {"wait", "last", "advance"} /\ ticket[<<n, s>>] = step[n]
    BY <1>3, <2>1 DEF Here, Counted
  <2>3. s # r => pc[<<n, s>>] \notin {"last", "advance"}
    BY <1>1, CountOf(n) DEF NodeInv, CountOf
  <2>4. s # r => pc'[<<n, s>>] = pc[<<n, s>>]
    BY <1>1, <2>1
  <2> QED BY ONLY <2>2, <2>3, <2>4
<1>5. pc'[p] = "wait" /\ step'[n] = step[n] + 1 /\ step[n] \in Nat
  BY <1>0, <1>1 DEF NodeInv
<1>6. ASSUME NEW o \in Pe PROVE RoundOf(o)'
  <2>1. CASE o[1] = n
    <3>1. PICK s \in Rank : o = <<n, s>>
      BY <2>1 DEF Pe
    <3> QED BY <1>1, <1>4, <1>5, <3>1, RoundOf(o) DEF NodeInv, RoundOf
  <2>2. CASE o[1] # n
    <3>1. pc'[o] = pc[o] /\ step'[o[1]] = step[o[1]]
      BY <1>0, <1>1, <2>2 DEF NodeInv, Pe
    <3> QED BY <1>1, <3>1, RoundOf(o) DEF NodeInv, RoundOf
  <2> QED BY <2>1, <2>2
<1>7. CountOf(n)'
  <2>1. \A s \in Rank : pc'[<<n, s>>] = "wait"
    BY <1>4, <1>5
  <2>2. Here(n)' = {}
    BY <1>1, <1>4, <1>5 DEF Here
  <2> QED BY <1>1, <1>3, <2>1, <2>2, FS_EmptySet, Ranks, thread_num' = thread_num DEF CountOf, thread_num
<1>8. ASSUME NEW m \in Node, m # n PROVE CountOf(m)'
  BY <1>8, <1>0, <1>1, CountOf(m), CountKept DEF NodeInv, Pe
<1> QED BY <1>2, <1>6, <1>7, <1>8 DEF NodeInv

\* A PE leaves: it was counted in the round before.
LEMMA TestKeeps ==
  ASSUME NodeInv, NEW n \in Node, NEW r \in Rank, TestTicket(<<n, r>>)
  PROVE  NodeInv'
<1> DEFINE p == <<n, r>>
<1>0. p \in Pe /\ p[1] = n
  BY DEF Pe
<1>1. /\ pc[p] = "wait" /\ ticket[p] # step[n]
      /\ step' = step /\ waiting' = waiting /\ ticket' = ticket
      /\ rounds' = [rounds EXCEPT ![p] = @ + 1] /\ pc' = [pc EXCEPT ![p] = "out"]
  BY <1>0 DEF TestTicket
<1>2. /\ waiting' \in [Node -> Nat] /\ step' \in [Node -> Nat]
      /\ pc' \in [Pe -> {"out", "loaded", "last", "advance", "wait"}]
      /\ ticket' \in [Pe -> Nat] /\ rounds' \in [Pe -> Nat]
  BY <1>0, <1>1 DEF NodeInv
<1>3. ASSUME NEW o \in Pe PROVE RoundOf(o)'
  BY <1>0, <1>1, RoundOf(o), RoundOf(p) DEF NodeInv, RoundOf
<1>4. ASSUME NEW m \in Node PROVE CountOf(m)'
  <2>1. Here(m)' = Here(m)
    BY <1>0, <1>1, Zenon DEF Here, Counted, NodeInv, Pe
  <2>2. \A s \in Rank : \A w \in {"last", "advance"} : pc'[<<m, s>>] = w <=> pc[<<m, s>>] = w
    BY <1>0, <1>1, Zenon DEF NodeInv, Pe
  <2> QED BY <1>1, <2>1, <2>2, CountOf(m) DEF NodeInv, CountOf
<1> QED BY <1>2, <1>3, <1>4 DEF NodeInv

\* Every step of wait() keeps the barrier's invariant.
LEMMA WaitKeeps ==
  ASSUME NodeInv, NEW p \in Pe, Wait(p)
  PROVE  NodeInv'
<1>1. PICK n \in Node, r \in Rank : p = <<n, r>>
  BY DEF Pe
<1> QED BY <1>1, LoadKeeps, AddKeeps, ResetKeeps, AdvanceKeeps, TestKeeps DEF Wait

\* In the first state nobody has come.
LEMMA NodeStart == BarrierInit => NodeInv
<1> SUFFICES ASSUME BarrierInit PROVE NodeInv
  OBVIOUS
<1>1. ASSUME NEW p \in Pe PROVE pc[p] = "out" /\ rounds[p] = 0 /\ step[p[1]] = 0
  BY DEF BarrierInit, Pe
<1>2. ASSUME NEW n \in Node PROVE CountOf(n)
  <2>1. \A r \in Rank : pc[<<n, r>>] = "out"
    BY <1>1 DEF Pe
  <2>2. Here(n) = {} /\ waiting[n] = 0
    BY <2>1 DEF Here, Counted, BarrierInit
  <2> QED BY <2>1, <2>2, FS_EmptySet, Ranks DEF CountOf
<1>3. ASSUME NEW p \in Pe PROVE RoundOf(p)
  BY <1>1 DEF RoundOf
<1>4. /\ waiting \in [Node -> Nat] /\ step \in [Node -> Nat]
      /\ pc \in [Pe -> {"out", "loaded", "last", "advance", "wait"}]
      /\ ticket \in [Pe -> Nat] /\ rounds \in [Pe -> Nat]
  BY DEF BarrierInit
<1> QED BY <1>2, <1>3, <1>4 DEF NodeInv

\* A PE's round and the arrivals of a process: nobody is more than a round behind.
LEMMA Arrivals ==
  ASSUME NodeInv, NEW p \in Pe
  PROVE  /\ rounds[p] <= step[p[1]] /\ step[p[1]] <= arrivals[p]
         /\ arrivals[p] = rounds[p] + (IF Counted(p) THEN 1 ELSE 0)
  <1>1. RoundOf(p) /\ rounds[p] \in Nat /\ ticket[p] \in Nat /\ step[p[1]] \in Nat
        /\ pc[p] \in {"out", "loaded", "last", "advance", "wait"}
    BY DEF NodeInv, Pe
  <1>2. arrivals[p] = rounds[p] + (IF Counted(p) THEN 1 ELSE 0)
    BY DEF arrivals
  <1> QED BY <1>1, <1>2 DEF RoundOf, Counted

\* A step of wait() is an arrival, a departure that everyone has arrived for, or
\* nothing to those who wait.
LEMMA WaitPromised ==
  ASSUME NodeInv, NEW p \in Pe, Wait(p)
  PROVE  [Promise!PNext]_<<arrivals, rounds>>
<1> USE DEF NodeInv
<1>1. CASE LoadStep(p) \/ Reset(p) \/ Advance(p)
  <2>1. rounds' = rounds /\ \A o \in Pe : Counted(o)' <=> Counted(o)
    BY <1>1 DEF LoadStep, Reset, Advance, Counted
  <2>2. arrivals' = arrivals
    BY <2>1 DEF arrivals
  <2> QED BY <2>1, <2>2
<1>2. CASE AddWaiting(p)
  <2>1. rounds' = rounds /\ ~Counted(p) /\ \A o \in Pe : Counted(o)' <=> (o = p \/ Counted(o))
    BY <1>2 DEF AddWaiting, Counted
  <2>2. arrivals[p] = rounds[p]
    BY <2>1, Arrivals
  <2>3. arrivals' = [arrivals EXCEPT ![p] = @ + 1]
    <3>1. \A o \in Pe : arrivals'[o] = IF o = p THEN arrivals[o] + 1 ELSE arrivals[o]
      BY <2>1, <2>2 DEF arrivals
    <3>2. arrivals' = [o \in Pe |-> arrivals'[o]] /\ arrivals = [o \in Pe |-> arrivals[o]]
      BY DEF arrivals
    <3> QED BY <3>1, <3>2
  <2> QED BY <2>1, <2>2, <2>3, Zenon DEF Promise!PNext, Promise!Arrive
<1>3. CASE TestTicket(p)
  <2>1. /\ rounds' = [rounds EXCEPT ![p] = @ + 1] /\ Counted(p)
        /\ \A o \in Pe : Counted(o)' <=> (o # p /\ Counted(o))
    BY <1>3 DEF TestTicket, Counted
  <2>2. arrivals' = arrivals
    BY <2>1 DEF arrivals
  <2>3. arrivals[p] = rounds[p] + 1
    BY <2>1, Arrivals
  <2>4. rounds[p] + 1 = step[p[1]]
    <3>1. RoundOf(p) /\ pc[p] = "wait" /\ ticket[p] # step[p[1]]
      BY <1>3 DEF TestTicket
    <3> QED BY <3>1 DEF RoundOf
  <2>5. ASSUME NEW d \in {p[1]} \X Rank PROVE arrivals[p] <= arrivals[d]
    <3>1. d \in Pe /\ d[1] = p[1]
      BY DEF Pe
    <3> QED BY <2>3, <2>4, <3>1, Arrivals
  <2>6. rounds[p] < arrivals[p]
    BY <2>3
  <2> QED BY <2>1, <2>2, <2>5, <2>6, Zenon DEF Promise!PNext, Promise!Leave
<1> QED BY <1>1, <1>2, <1>3 DEF Wait

\* What the steps of CmiBarrier are to the barriers of the processes.
LEMMA CallsWait ==
  ASSUME [Next]_vars
  PROVE  (\E p \in Pe : Wait(p)) \/ UNCHANGED barrierVars
  BY DEF Next, PeStep, First, InNodeBarrier, LeaveFirst, Backend, Second, LeaveSecond, Wait, vars

\* NodeInv holds throughout.
LEMMA NodeInvariance == Spec => []NodeInv
<1>1. Init => NodeInv
  BY NodeStart DEF Init
<1>2. NodeInv /\ [Next]_vars => NodeInv'
  <2> SUFFICES ASSUME NodeInv, [Next]_vars PROVE NodeInv'
    OBVIOUS
  <2>1. CASE UNCHANGED barrierVars
    <3>1. \A n : Here(n)' = Here(n)
      BY <2>1 DEF barrierVars, Here, Counted
    <3> QED BY <2>1, <3>1, Zenon DEF barrierVars, NodeInv, RoundOf, CountOf
  <2> QED BY <2>1, CallsWait, WaitKeeps
<1> QED BY <1>1, <1>2, PTL DEF Spec

\* barrier.h: for any number of processes and PEs the barrier of a process is a
\* reusable barrier, in CmiBarrier's two uses of it: no PE leaves its n-th wait
\* before every PE of its process has come to the n-th.
THEOREM NodeBarrierPromise == Spec => KeepsPromise
<1>1. Init => Promise!PInit
  BY DEF Init, BarrierInit, Promise!PInit, arrivals, Counted
<1>2. NodeInv /\ [Next]_vars => [Promise!PNext]_(Promise!pvars)
  <2> SUFFICES ASSUME NodeInv, [Next]_vars PROVE [Promise!PNext]_<<arrivals, rounds>>
    BY DEF Promise!pvars
  <2>1. CASE UNCHANGED barrierVars
    BY <2>1 DEF barrierVars, arrivals, Counted
  <2> QED BY <2>1, CallsWait, WaitPromised
<1> QED BY <1>1, <1>2, NodeInvariance, PTL DEF Spec, KeepsPromise, Promise!PSpec

-----------------------------------------------------------------------------
\* convcore.cpp: the barrier of the job.

\* A step of one PE that does not concern the backend's barrier, or that is its
\* part of it, keeps what the calls say about the waits.
LEMMA CallKeeps ==
  ASSUME BarrierInv, NEW p \in Pe, PeStep(p)
  PROVE  BarrierInv'
<1>1. PICK n \in Node, r \in Rank : p = <<n, r>> /\ p[1] = n /\ p[2] = r
  BY DEF Pe
<1>2. NodeInv'
  <2>1. Wait(p) \/ UNCHANGED barrierVars
    BY DEF PeStep, First, InNodeBarrier, LeaveFirst, Backend, Second, LeaveSecond, Wait
  <2>2. CASE UNCHANGED barrierVars
    <3>1. \A m : Here(m)' = Here(m)
      BY <2>2 DEF barrierVars, Here, Counted
    <3> QED BY <2>2, <3>1, Zenon DEF barrierVars, BarrierInv, NodeInv, RoundOf, CountOf
  <2> QED BY <2>1, <2>2, WaitKeeps DEF BarrierInv
<1>3. /\ at \in [Pe -> {"out", "first", "between", "backend", "second"}]
      /\ entered \in [Node -> Int] /\ calls \in [Pe -> Nat] /\ returns \in [Pe -> Int]
      /\ rounds \in [Pe -> Nat] /\ CallOf(p)
      /\ pc \in [Pe -> {"out", "loaded", "last", "advance", "wait"}]
      /\ \A o \in Pe : CallOf(o)
      /\ \A m \in Node : <<m, rank0>> \in Pe /\ BackendOf(<<m, rank0>>)
  BY CallAssumption DEF BarrierInv, NodeInv, Pe
<1> DEFINE Kept(o) == /\ at'[o] = at[o] /\ calls'[o] = calls[o] /\ returns'[o] = returns[o]
                      /\ rounds'[o] = rounds[o] /\ (pc'[o] = "out" <=> pc[o] = "out")
<1>4. \A o \in Pe : o # p => Kept(o)
  <2>1. CASE First(p) \/ Second(p)
    BY <1>3, <2>1 DEF First, Second, LoadStep
  <2>2. CASE InNodeBarrier(p)
    BY <1>3, <2>2 DEF InNodeBarrier, AddWaiting, Reset, Advance
  <2>3. CASE LeaveFirst(p) \/ Backend(p) \/ LeaveSecond(p)
    BY <1>3, <2>3 DEF LeaveFirst, Backend, LeaveSecond, TestTicket, barrierVars
  <2> QED BY <2>1, <2>2, <2>3 DEF PeStep
<1>5. /\ at' \in [Pe -> {"out", "first", "between", "backend", "second"}]
      /\ entered' \in [Node -> Int] /\ calls' \in [Pe -> Nat] /\ returns' \in [Pe -> Int]
  <2>1. at' = at \/ \E w \in {"out", "first", "between", "backend", "second"} :
                         at' = [at EXCEPT ![p] = w]
    BY DEF PeStep, First, InNodeBarrier, LeaveFirst, Backend, Second, LeaveSecond
  <2>2. entered' = entered \/ entered' = [entered EXCEPT ![n] = @ + 1]
    BY <1>1 DEF PeStep, First, InNodeBarrier, LeaveFirst, Backend, Second, LeaveSecond
  <2>3. calls' = calls \/ calls' = [calls EXCEPT ![p] = @ + 1]
    BY DEF PeStep, First, InNodeBarrier, LeaveFirst, Backend, Second, LeaveSecond
  <2>4. returns' = returns \/ returns' = [returns EXCEPT ![p] = @ + 1]
    BY DEF PeStep, First, InNodeBarrier, LeaveFirst, Backend, Second, LeaveSecond
  <2> QED BY <1>3, <2>1, <2>2, <2>3, <2>4
<1>6. CallOf(p)'
  <2> USE <1>3 DEF CallOf
  <2>1. CASE First(p)
    BY <2>1 DEF First, LoadStep
  <2>2. CASE InNodeBarrier(p)
    BY <2>2 DEF InNodeBarrier, AddWaiting, Reset, Advance
  <2>3. CASE LeaveFirst(p)
    BY <2>3, SMTT(20) DEF LeaveFirst, TestTicket
  <2>4. CASE Backend(p)
    BY <2>4 DEF Backend, barrierVars
  <2>5. CASE Second(p)
    BY <2>5 DEF Second, LoadStep
  <2>6. CASE LeaveSecond(p)
    BY <2>6, SMTT(20) DEF LeaveSecond, TestTicket
  <2> QED BY <2>1, <2>2, <2>3, <2>4, <2>5, <2>6, Zenon DEF PeStep
<1>7. \A o \in Pe : CallOf(o)'
  BY <1>3, <1>4, <1>6, SMTT(20) DEF CallOf
<1>8. \A m \in Node : entered'[m] >= entered[m] /\ entered'[m] \in Int /\ entered[m] \in Int
  BY <1>1, <1>3, <1>5 DEF PeStep, First, InNodeBarrier, LeaveFirst, Backend, Second, LeaveSecond
<1>9. ASSUME NEW m \in Node, <<m, rank0>> # p PROVE BackendOf(<<m, rank0>>)'
  <2>1. entered'[m] = entered[m]
    BY <1>1, <1>3, <1>9 DEF PeStep, First, InNodeBarrier, LeaveFirst, Backend, Second, LeaveSecond
  <2>2. Kept(<<m, rank0>>) /\ <<m, rank0>>[1] = m /\ calls[<<m, rank0>>] \in Nat
    BY <1>3, <1>4, <1>9
  <2> QED BY <1>3, <1>8, <2>1, <2>2 DEF BackendOf
<1>10. ASSUME r = rank0 PROVE BackendOf(p)'
  <2>1. BackendOf(p) /\ calls[p] \in Nat /\ calls'[p] \in Nat
    BY <1>1, <1>3, <1>5, <1>10
  <2> USE <1>1, <1>3, <2>1 DEF BackendOf
  <2>2. CASE First(p)
    BY <2>2 DEF First
  <2>3. CASE InNodeBarrier(p)
    BY <2>3 DEF InNodeBarrier
  <2>4. CASE LeaveFirst(p)
    BY <2>4 DEF LeaveFirst
  <2>5. CASE Backend(p)
    <3>1. at[p] = "between" /\ at'[p] = "backend" /\ calls'[p] = calls[p]
          /\ entered'[n] = entered[n] + 1
      BY <2>5, Zenon DEF Backend
    <3> QED BY <3>1, <1>8
  <2>6. CASE Second(p)
    BY <2>6, <1>10 DEF Second
  <2>7. CASE LeaveSecond(p)
    BY <2>7 DEF LeaveSecond
  <2> QED BY <2>2, <2>3, <2>4, <2>5, <2>6, <2>7, Zenon DEF PeStep
<1> QED BY <1>1, <1>2, <1>5, <1>7, <1>9, <1>10 DEF BarrierInv

\* The barrier's promise and the backend's together: whoever has returned from
\* its n-th call, every PE has begun its n-th.
LEMMA BegunByAll == BarrierInv => GlobalBarrier
<1> SUFFICES ASSUME BarrierInv, NEW p \in Pe, NEW q \in Pe
             PROVE  returns[p] <= calls[q]
  BY DEF GlobalBarrier
<1>1. PICK n \in Node, m \in Node : n = p[1] /\ m = q[1]
  BY DEF Pe
<1> DEFINE first == <<n, rank0>>
           other == <<m, rank0>>
<1>2. first \in Pe /\ first[1] = n /\ other \in Pe /\ other[1] = m
  BY CallAssumption DEF Pe
<1>3. \A o \in {p, q, first, other} :
         /\ CallOf(o) /\ calls[o] \in Nat /\ rounds[o] \in Nat /\ step[o[1]] \in Nat
         /\ rounds[o] <= step[o[1]] /\ step[o[1]] <= arrivals[o]
         /\ arrivals[o] = rounds[o] + (IF Counted(o) THEN 1 ELSE 0)
         /\ at[o] \in {"out", "first", "between", "backend", "second"}
         /\ arrivals[o] \in Nat
  <2> SUFFICES ASSUME NEW o \in Pe
               PROVE  /\ CallOf(o) /\ calls[o] \in Nat /\ rounds[o] \in Nat
                      /\ step[o[1]] \in Nat /\ arrivals[o] \in Nat
                      /\ at[o] \in {"out", "first", "between", "backend", "second"}
    BY <1>2, Arrivals, Zenon DEF BarrierInv
  <2>1. o[1] \in Node
    BY DEF Pe
  <2>2. /\ CallOf(o) /\ calls[o] \in Nat /\ rounds[o] \in Nat /\ step[o[1]] \in Nat
        /\ at[o] \in {"out", "first", "between", "backend", "second"}
    BY <2>1 DEF BarrierInv, NodeInv
  <2>3. arrivals[o] = rounds[o] + (IF Counted(o) THEN 1 ELSE 0)
    BY Arrivals, Zenon DEF BarrierInv
  <2> QED BY <2>2, <2>3
<1>4. \A o \in {p, q, first, other} :
         /\ 2 * returns[o] <= rounds[o]
         /\ arrivals[o] <= 2 * calls[o]
         /\ at[o] \in {"first", "between", "backend"} => arrivals[o] <= 2 * calls[o] - 1
  <2> SUFFICES ASSUME NEW o \in {p, q, first, other}
               PROVE  /\ 2 * returns[o] <= rounds[o]
                      /\ arrivals[o] <= 2 * calls[o]
                      /\ at[o] \in {"first", "between", "backend"} => arrivals[o] <= 2 * calls[o] - 1
    OBVIOUS
  <2>1. /\ CallOf(o) /\ calls[o] \in Nat /\ rounds[o] \in Nat
        /\ arrivals[o] = rounds[o] + (IF Counted(o) THEN 1 ELSE 0)
        /\ at[o] \in {"out", "first", "between", "backend", "second"}
    BY <1>3
  <2> QED BY ONLY <2>1 DEF CallOf, Counted
<1>5. /\ \A k \in {"out", "second"} : at[first] = k => entered[m] >= calls[first]
      /\ entered[m] >= calls[first] - 1
      /\ entered[m] = IF at[other] \in {"first", "between"} THEN calls[other] - 1 ELSE calls[other]
      /\ entered[m] \in Int
  BY <1>1, <1>2, <1>3 DEF BarrierInv, BackendOf
<1>6. returns[p] <= entered[m]
  <2>1. 2 * returns[p] <= arrivals[first] /\ returns[p] \in Int
    BY <1>1, <1>2, <1>3, <1>4 DEF CallOf
  <2>2. at[first] \in {"first", "between", "backend"} => entered[m] >= calls[first] - 1
                                                       /\ arrivals[first] <= 2 * calls[first] - 1
    BY <1>4, <1>5
  <2>3. at[first] \in {"out", "second"} => entered[m] >= calls[first]
                                          /\ arrivals[first] <= 2 * calls[first]
    BY <1>4, <1>5
  <2>4. calls[first] \in Nat /\ arrivals[first] \in Nat /\ entered[m] \in Int
        /\ at[first] \in {"out", "first", "between", "backend", "second"}
    BY <1>3, <1>5
  <2> HIDE DEF first
  <2>5. CASE at[first] \in {"out", "second"}
    BY ONLY <2>1, <2>3, <2>4, <2>5
  <2>6. CASE at[first] \in {"first", "between", "backend"}
    BY ONLY <2>1, <2>2, <2>4, <2>6
  <2> QED BY <2>4, <2>5, <2>6
<1>7. 2 * entered[m] - 1 <= rounds[other]
  <2>1. CallOf(other) /\ calls[other] \in Nat /\ rounds[other] \in Nat
        /\ at[other] \in {"out", "first", "between", "backend", "second"}
    BY <1>3
  <2> HIDE DEF other
  <2> QED BY ONLY <1>5, <2>1 DEF CallOf
<1>8. 2 * entered[m] - 1 <= arrivals[q]
  BY <1>1, <1>2, <1>3, <1>5, <1>7
<1>9. returns[p] \in Int
  BY DEF BarrierInv
<1>10. arrivals[q] <= 2 * calls[q] /\ calls[q] \in Nat /\ arrivals[q] \in Nat /\ entered[m] \in Int
  BY <1>3, <1>4, <1>5
<1> QED BY ONLY <1>6, <1>8, <1>9, <1>10

\* convcore.cpp, CmiBarrier: for any number of processes, PEs and calls, no PE
\* returns from its n-th call before every PE of the job has begun its n-th.
THEOREM JobBarrier == Spec => []GlobalBarrier
<1>1. Init => BarrierInv
  <2> SUFFICES ASSUME Init PROVE BarrierInv
    OBVIOUS
  <2>1. NodeInv
    BY NodeStart DEF Init
  <2>2. \A n \in Node : <<n, rank0>> \in Pe /\ <<n, rank0>>[1] = n
    BY CallAssumption DEF Pe
  <2> QED BY <2>1, <2>2 DEF Init, BarrierInit, BarrierInv, CallOf, BackendOf
<1>2. BarrierInv /\ [Next]_vars => BarrierInv'
  <2> SUFFICES ASSUME BarrierInv, [Next]_vars PROVE BarrierInv'
    OBVIOUS
  <2>1. CASE UNCHANGED vars
    <3>1. \A n : Here(n)' = Here(n)
      BY <2>1 DEF vars, barrierVars, Here, Counted
    <3>2. thread_num' = thread_num
      BY DEF thread_num
    <3>3. \A n \in Node : CountOf(n) => CountOf(n)'
      BY <2>1, <3>1, <3>2, Zenon DEF vars, barrierVars, CountOf
    <3>4. \A p \in Pe : (RoundOf(p) => RoundOf(p)') /\ (CallOf(p) => CallOf(p)')
      BY <2>1 DEF vars, barrierVars, RoundOf, CallOf
    <3>5. \A n \in Node : BackendOf(<<n, rank0>>) => BackendOf(<<n, rank0>>)'
      BY <2>1 DEF vars, barrierVars, BackendOf
    <3> QED BY <2>1, <3>3, <3>4, <3>5 DEF vars, barrierVars, BarrierInv, NodeInv
  <2> QED BY <2>1, CallKeeps DEF Next
<1> QED BY <1>1, <1>2, BegunByAll, PTL DEF Spec

-----------------------------------------------------------------------------
\* DecrementToEnqueue

Working == {w \in Worker : does[w] = "working"}
Last == {w \in Worker : does[w] = "last"}

\* What is left of a round once every part is done: the message is to be sent, on
\* its way, or handled.
AfterTheLast == \/ (\E w \in Worker : Last = {w}) /\ copies = 0 /\ ~freed
                \/ Last = {} /\ copies = 1 /\ ~freed
                \/ Last = {} /\ copies = 0 /\ freed

\* The counter is the number of threads still at work.
RoundInv == /\ does \in [Worker -> {"working", "last", "done"}]
            /\ ~abort
            /\ counter = Cardinality(Working)
            /\ IF Working # {} THEN Last = {} /\ copies = 0 /\ ~freed ELSE AfterTheLast

USE WorkerAssumption

\* The threads at work are finitely many.
LEMMA WorkingFinite == IsFiniteSet(Working) /\ Cardinality(Working) \in Nat
<1>1. Working \in SUBSET Worker
  BY Zenon DEF Working
<1>2. IsFiniteSet(Working)
  BY <1>1, FS_Subset
<1> QED BY <1>2, FS_CardinalityType

\* A counter that was created, or is reset, has every thread at work.
LEMMA AllWorking ==
  (does = [w \in Worker |-> "working"]) => does \in [Worker -> {"working", "last", "done"}] /\ Working = Worker /\ Last = {}
  BY DEF Working, Last

\* A thread decrements: the one that finds one is the last.
LEMMA DecrementInv == ASSUME RoundInv, NEW w \in Worker, CmiDecrementCounter(w) PROVE RoundInv'
<1>1. /\ does[w] = "working" /\ UNCHANGED <<copies, round, freed>>
      /\ does' = [does EXCEPT ![w] = IF counter = 1 THEN "last" ELSE "done"]
      /\ does \in [Worker -> {"working", "last", "done"}]
  BY DEF CmiDecrementCounter, RoundInv
<1>2. w \in Working /\ Working' = Working \ {w}
  BY <1>1 DEF Working
<1>3. /\ counter = Cardinality(Working) /\ counter # 0 /\ counter \in Nat
      /\ IsFiniteSet(Working') /\ Cardinality(Working') = counter - 1
  BY <1>2, WorkingFinite, FS_RemoveElement, FS_EmptySet DEF RoundInv
<1>4. counter' = Cardinality(Working') /\ ~abort'
  BY <1>3, Zenon DEF CmiDecrementCounter, RoundInv
<1>5. Working' = {} <=> counter = 1
  BY <1>3, FS_EmptySet
<1>6. Last = {} /\ copies' = 0 /\ ~freed'
  BY <1>1, <1>2, Zenon DEF RoundInv
<1>7. does' \in [Worker -> {"working", "last", "done"}]
  BY <1>1, Zenon
<1>8. CASE counter = 1
  <2>1. Last' = {w}
    BY <1>1, <1>6, <1>8 DEF Last
  <2> QED BY <1>4, <1>5, <1>6, <1>7, <1>8, <2>1, Zenon DEF RoundInv, AfterTheLast
<1>9. CASE counter # 1
  <2>1. Last' = {}
    BY <1>1, <1>6, <1>9 DEF Last
  <2> QED BY <1>4, <1>5, <1>6, <1>7, <1>9, <2>1, Zenon DEF RoundInv
<1> QED BY <1>8, <1>9

\* The last thread sends the message.
LEMMA SendInv == ASSUME RoundInv, NEW w \in Worker, SendCopy(w) PROVE RoundInv'
<1>1. /\ does[w] = "last" /\ copies' = copies + 1 /\ does' = [does EXCEPT ![w] = "done"]
      /\ UNCHANGED <<counter, round, freed, abort>>
      /\ does \in [Worker -> {"working", "last", "done"}]
  BY Zenon DEF SendCopy, RoundInv
<1>2. w \in Last
  BY <1>1, Zenon DEF Last
<1>3. Working = {} /\ Last = {w} /\ copies = 0 /\ ~freed
  BY <1>2, Zenon DEF RoundInv, AfterTheLast
<1>4. Working' = Working
  BY <1>1 DEF Working
<1>5. Last' = {} /\ does' \in [Worker -> {"working", "last", "done"}]
  BY <1>1, <1>3 DEF Last
<1>6. copies' = 1
  BY <1>1, <1>3
<1> QED BY <1>1, <1>3, <1>4, <1>5, <1>6, Zenon DEF RoundInv, AfterTheLast

\* The message's handler starts another round, or frees the counter.
LEMMA HandlerInv == ASSUME RoundInv, CmiResetCounter \/ CmiFreeDecrementToEnqueue PROVE RoundInv'
<1>1. copies > 0
  BY DEF CmiResetCounter, CmiFreeDecrementToEnqueue
<1>2. copies # 0
  BY <1>1
<1>3. Working = {} /\ Last = {} /\ copies = 1 /\ ~freed
  BY <1>2, Zenon DEF RoundInv, AfterTheLast
<1>4. CASE CmiResetCounter
  <2>1. /\ copies' = copies - 1 /\ counter' = InitialCount
        /\ does' = [w \in Worker |-> "working"] /\ UNCHANGED <<freed, abort>>
    BY <1>4, Zenon DEF CmiResetCounter
  <2>2. does' \in [Worker -> {"working", "last", "done"}] /\ Working' = Worker /\ Last' = {}
    BY <2>1 DEF Working, Last
  <2>3. copies' = 0
    BY <1>3, <2>1
  <2> QED BY <1>3, <2>1, <2>2, <2>3, Zenon DEF RoundInv
<1>5. CASE CmiFreeDecrementToEnqueue
  <2>1. copies' = copies - 1 /\ freed' = TRUE /\ UNCHANGED <<counter, does, abort>>
    BY <1>5, Zenon DEF CmiFreeDecrementToEnqueue
  <2>2. copies' = 0
    BY <1>3, <2>1
  <2>3. Working' = Working /\ Last' = Last
    BY <2>1, Zenon DEF Working, Last
  <2> QED BY <1>3, <2>1, <2>2, <2>3, Zenon DEF RoundInv, AfterTheLast
<1> QED BY <1>4, <1>5

\* convcore.cpp: with any number of threads and rounds, and whichever thread
\* decrements last, CmiDecrementCounter sends the message once in each round, when
\* every thread has done its part, and never finds the counter at zero.
THEOREM MessageSentByTheLast == CounterSpec => []SentByTheLast
<1>1. CmiCreateDecrementToEnqueue => RoundInv
  BY AllWorking, Zenon DEF CmiCreateDecrementToEnqueue, RoundInv
<1>2. RoundInv /\ [CounterNext]_counterVars => RoundInv'
  <2> SUFFICES ASSUME RoundInv, [CounterNext]_counterVars PROVE RoundInv'
    OBVIOUS
  <2>1. CASE CounterNext
    BY <2>1, DecrementInv, SendInv, HandlerInv, Zenon DEF CounterNext
  <2>2. CASE UNCHANGED counterVars
    BY <2>2, Zenon DEF counterVars, RoundInv, AfterTheLast, Working, Last
  <2> QED BY <2>1, <2>2, Zenon
<1>3. RoundInv => SentByTheLast
  <2> SUFFICES ASSUME RoundInv PROVE SentByTheLast
    OBVIOUS
  <2>1. ASSUME copies > 0 \/ freed, NEW w \in Worker PROVE does[w] = "done"
    <3>1. copies # 0 \/ freed
      BY <2>1
    <3>2. Working = {} /\ Last = {}
      BY <3>1, Zenon DEF RoundInv, AfterTheLast
    <3>3. does[w] \in {"working", "last", "done"}
      BY Zenon DEF RoundInv
    <3> QED BY <3>2, <3>3, Zenon DEF Working, Last
  <2>2. ASSUME \A w \in Worker : does[w] = "done", ~freed PROVE copies = 1
    <3>1. Working = {} /\ Last = {}
      BY <2>2 DEF Working, Last
    <3> QED BY <2>2, <3>1, Zenon DEF RoundInv, AfterTheLast
  <2>3. ~abort
    BY Zenon DEF RoundInv
  <2> QED BY <2>1, <2>2, <2>3, Zenon DEF SentByTheLast
<1> QED BY <1>1, <1>2, <1>3, PTL DEF CounterSpec
=============================================================================
