----------------------- MODULE ConcurrentQueue_proofs -----------------------
(***************************************************************************)
(* Proofs about the counts by which the consumers of concurrentqueue.h     *)
(* share a producer's elements, for any number of producers, consumers,    *)
(* elements and calls.                                                     *)
(***************************************************************************)
EXTENDS ConcurrentQueue, FiniteSetTheorems, TLAPS

-----------------------------------------------------------------------------
\* The counts of concurrentqueue.h.

Busy == {"load", "count", "claim", "check", "over", "head", "index", "entry", "release", "failed"}
Call == [pc : Busy \cup {"idle"}, best : Producer \cup {0}, pos : 0 .. Len(Producers),
         tail : Nat, over : Nat, mine : Nat, calls : Nat]

CountsType ==
  /\ tailIndex \in [Producer -> Nat] /\ headIndex \in [Producer -> Nat]
  /\ dequeueOptimisticCount \in [Producer -> Nat] /\ dequeueOvercommit \in [Producer -> Nat]
  /\ con \in [Consumer -> Call]
  /\ \A c \in Consumer : con[c].pc # "idle" => con[c].best \in Producer
  /\ seen \in [Consumer -> [Producer -> Nat]] /\ quiet \in [Consumer -> BOOLEAN]

\* The calls on a producer that are at one of some steps.
In(c, S, p) == con[c].pc \in S /\ Mine(c) = p
At(S, p) == {c \in Consumer : In(c, S, p)}

\* Those that have counted themselves in dequeueOptimisticCount and neither taken
\* an index nor made up for it.
Claiming == {"check", "over", "head"}

\* Every count of a call is a head taken, an overcommit made up for, or a call
\* in between.
Counted(p) ==
  dequeueOptimisticCount[p] = headIndex[p] + dequeueOvercommit[p] + Cardinality(At(Claiming, p))

\* A ledger of a producer's tickets, the values of dequeueOptimisticCount that calls
\* were given: those given up, and those that won an index, of which m is the
\* greatest.  Winners up to m leave out the tickets given up, so they are at most
\* tailIndex; and a call that is yet to check its ticket read no greater overcommit
\* than there are tickets given up below its own.
Ledger(p, given, won, m) ==
  /\ given \subseteq 0 .. dequeueOptimisticCount[p] - 1 /\ won \subseteq 0 .. m
  /\ given \cap won = {} /\ m \in -1 .. dequeueOptimisticCount[p] - 1
  /\ Cardinality(given) = dequeueOvercommit[p] + Cardinality(At({"over"}, p))
  /\ Cardinality(won) = headIndex[p] + Cardinality(At({"head"}, p))
  /\ m + 1 - Cardinality(given \cap (0 .. m)) <= tailIndex[p]

Undecided(p, given, won) ==
  /\ \A c \in At({"check"}, p) :
       /\ con[c].mine \in (0 .. dequeueOptimisticCount[p] - 1) \ (given \cup won)
       /\ con[c].over <= Cardinality(given \cap (0 .. con[c].mine - 1))
       /\ \A d \in At({"check"}, p) : con[d].mine = con[c].mine => d = c
  /\ \A c \in At({"count", "claim"}, p) : con[c].over <= dequeueOvercommit[p]

Booked(p) ==
  \E given, won \in SUBSET Nat, m \in Int : Ledger(p, given, won, m) /\ Undecided(p, given, won)

CountsInv == \A p \in Producer : Counted(p) /\ Booked(p)

\* No other consumer is in a call.
Alone(c) == \A d \in Consumer \ {c} : con[d].pc = "idle"

\* Everything that the producer had enqueued when the call began was taken.
Passed(c, p) == headIndex[p] >= seen[c][p]

\* What a quiet call knows at each step: the producers it is done with are passed,
\* and the overcommit it read is still the one.
QuietCall(c) ==
  /\ \A p \in Producer : seen[c][p] <= tailIndex[p]
  /\ con[c].pc # "idle" /\ con[c].pos > 0 =>
       Passed(c, con[c].best) /\ \A i \in 1 .. con[c].pos - 1 : Passed(c, Producers[i])
  /\ con[c].pc \in {"count", "claim", "check"} => con[c].over = dequeueOvercommit[Mine(c)]
  /\ con[c].pc = "count" => con[c].tail >= seen[c][Mine(c)]
  /\ con[c].pc = "check" => con[c].mine = headIndex[Mine(c)] + con[c].over
  /\ con[c].pc = "over" => Passed(c, Mine(c))
  /\ con[c].pc = "failed" => \A p \in Producer : Passed(c, p)

QuietInv == \A c \in Consumer : quiet[c] => Alone(c) /\ QuietCall(c)

CallsInv == CountsType /\ CountsInv /\ QuietInv

\* The list is of producers.
LEMMA ListIn == Len(Producers) \in Nat /\ \A i \in 1 .. Len(Producers) : Producers[i] \in Producer
  BY ListAssumption DEF Producer

\* A call that has begun is at a producer of the list.
LEMMA MineIn ==
  ASSUME CountsType, NEW c \in Consumer, con[c].pc # "idle"
  PROVE  Mine(c) \in Producer /\ con[c] \in Call /\ con[c].best \in Producer
<1>1. con[c] \in Call /\ con[c].best \in Producer
  BY DEF CountsType
<1>2. con[c].pos \in 0 .. Len(Producers)
  BY <1>1 DEF Call
<1>3. ASSUME con[c].pos # 0 PROVE Producers[con[c].pos] \in Producer
  BY <1>2, <1>3, ListAssumption DEF Producer
<1> QED BY <1>1, <1>3, Zenon DEF Mine

\* One consumer moves.
LEMMA OneMoves ==
  ASSUME CountsType, NEW c \in Consumer, NEW k, CallIs(c, k)
  PROVE  /\ con'[c] = k /\ \A d \in Consumer \ {c} : con'[d] = con[d]
         /\ k \in Call => con' \in [Consumer -> Call]
  BY DEF CountsType, CallIs

\* Who is where after one consumer moved.
LEMMA AtMoves ==
  ASSUME NEW c \in Consumer, NEW S, NEW p, \A d \in Consumer \ {c} : con'[d] = con[d]
  PROVE  /\ IsFiniteSet(At(S, p)) /\ Cardinality(At(S, p)) \in Nat
         /\ (In(c, S, p)' <=> In(c, S, p)) => At(S, p)' = At(S, p)
         /\ ~In(c, S, p) /\ In(c, S, p)' =>
              At(S, p)' = At(S, p) \cup {c} /\ Cardinality(At(S, p)') = Cardinality(At(S, p)) + 1
         /\ In(c, S, p) /\ ~In(c, S, p)' =>
              At(S, p)' = At(S, p) \ {c} /\ Cardinality(At(S, p)') = Cardinality(At(S, p)) - 1
<1>1. IsFiniteSet(At(S, p)) /\ Cardinality(At(S, p)) \in Nat
  BY ListAssumption, FS_Subset, FS_CardinalityType DEF At
<1>2. \A d \in Consumer \ {c} : In(d, S, p)' <=> In(d, S, p)
  BY Zenon DEF In, Mine
<1>3. (In(c, S, p)' <=> In(c, S, p)) => At(S, p)' = At(S, p)
  BY <1>2, Zenon DEF At
<1>4. ASSUME ~In(c, S, p), In(c, S, p)'
      PROVE  At(S, p)' = At(S, p) \cup {c} /\ Cardinality(At(S, p)') = Cardinality(At(S, p)) + 1
  <2>1. At(S, p)' = At(S, p) \cup {c} /\ c \notin At(S, p)
    BY <1>2, <1>4 DEF At
  <2> QED BY <2>1, <1>1, FS_AddElement, Zenon
<1>5. ASSUME In(c, S, p), ~In(c, S, p)'
      PROVE  At(S, p)' = At(S, p) \ {c} /\ Cardinality(At(S, p)') = Cardinality(At(S, p)) - 1
  <2>1. At(S, p)' = At(S, p) \ {c} /\ c \in At(S, p)
    BY <1>2, <1>5 DEF At
  <2> QED BY <2>1, <1>1, FS_RemoveElement, Zenon
<1> QED BY <1>1, <1>3, <1>4, <1>5

\* It comes to a producer.
LEMMA AtJoins ==
  ASSUME NEW c \in Consumer, NEW S, NEW p, \A d \in Consumer \ {c} : con'[d] = con[d],
         ~In(c, S, p), In(c, S, p)'
  PROVE  /\ Cardinality(At(S, p)) \in Nat /\ Cardinality(At(S, p)') = Cardinality(At(S, p)) + 1
         /\ At(S, p)' = At(S, p) \cup {c}
  BY AtMoves

\* It goes.
LEMMA AtLeaves ==
  ASSUME NEW c \in Consumer, NEW S, NEW p, \A d \in Consumer \ {c} : con'[d] = con[d],
         In(c, S, p), ~In(c, S, p)'
  PROVE  /\ Cardinality(At(S, p)) \in Nat /\ Cardinality(At(S, p)') = Cardinality(At(S, p)) - 1
         /\ At(S, p)' = At(S, p) \ {c}
  BY AtMoves

\* Nothing changes for the producer.
LEMMA AtStays ==
  ASSUME NEW c \in Consumer, NEW S, NEW p, \A d \in Consumer \ {c} : con'[d] = con[d],
         In(c, S, p)' <=> In(c, S, p)
  PROVE  At(S, p)' = At(S, p)
  BY AtMoves

\* A producer whose counts stay, and to which the consumer that moves brings neither
\* a claim nor a greater overcommit than there is.
Aside(c, p) ==
  /\ \A d \in Consumer \ {c} : con'[d] = con[d]
  /\ \A S \in {Claiming, {"check"}, {"over"}, {"head"}} : ~In(c, S, p) /\ ~In(c, S, p)'
  /\ In(c, {"count", "claim"}, p)' => con'[c].over <= dequeueOvercommit[p]
  /\ tailIndex'[p] = tailIndex[p] /\ headIndex'[p] = headIndex[p]
  /\ dequeueOptimisticCount'[p] = dequeueOptimisticCount[p] /\ dequeueOvercommit'[p] = dequeueOvercommit[p]

\* Its counts and its ledger stay right.
LEMMA AsideInv ==
  ASSUME CallsInv, NEW c \in Consumer, NEW p \in Producer, Aside(c, p)
  PROVE  Counted(p)' /\ Booked(p)'
<1>1. ASSUME NEW S \in {Claiming, {"check"}, {"over"}, {"head"}} PROVE At(S, p)' = At(S, p)
  BY AtStays, Zenon DEF Aside
<1>2. Counted(p)'
  BY <1>1, Zenon DEF CallsInv, CountsInv, Counted, Aside
<1>3. PICK given \in SUBSET Nat, won \in SUBSET Nat, m \in Int :
        Ledger(p, given, won, m) /\ Undecided(p, given, won)
  BY Zenon DEF CallsInv, CountsInv, Booked
<1>4. Ledger(p, given, won, m)'
  BY <1>1, <1>3, Zenon DEF Ledger, Aside
<1>5. \A d \in At({"check"}, p) : con'[d] = con[d]
  BY Zenon DEF At, Aside
<1>6. ASSUME NEW d \in At({"count", "claim"}, p)' PROVE con'[d].over <= dequeueOvercommit[p]
  <2>1. CASE d = c
    BY <2>1, <1>6, Zenon DEF At, Aside
  <2>2. CASE d # c
    <3>1. d \in At({"count", "claim"}, p) /\ con'[d] = con[d]
      BY <2>2, <1>6, Zenon DEF At, In, Aside, Mine
    <3> QED BY <3>1, <1>3, Zenon DEF Undecided
  <2> QED BY <2>1, <2>2
<1>7. At({"check"}, p)' = At({"check"}, p)
  BY <1>1, Zenon
<1>8. dequeueOptimisticCount'[p] = dequeueOptimisticCount[p] /\ dequeueOvercommit'[p] = dequeueOvercommit[p]
  BY Zenon DEF Aside
<1>9. ASSUME NEW d \in At({"check"}, p)
      PROVE  /\ con'[d].mine \in (0 .. dequeueOptimisticCount[p] - 1) \ (given \cup won)
             /\ con'[d].over <= Cardinality(given \cap (0 .. con'[d].mine - 1))
             /\ \A e \in At({"check"}, p) : con'[e].mine = con'[d].mine => e = d
  <2>1. con'[d] = con[d] /\ \A e \in At({"check"}, p) : con'[e] = con[e]
    BY <1>5, Zenon
  <2> QED BY <1>3, <2>1, Zenon DEF Undecided
<1>10. Undecided(p, given, won)'
  BY <1>6, <1>7, <1>8, <1>9 DEF Undecided
<1> QED BY <1>2, <1>4, <1>10, Zenon DEF Booked

\* The tickets given up below a bound are finitely many.
LEMMA BelowType ==
  ASSUME NEW G \in SUBSET Nat, NEW m \in Int
  PROVE  Cardinality(G \cap (0 .. m)) \in Nat
<1>1. IsFiniteSet(0 .. m)
  BY FS_Interval
<1>2. IsFiniteSet(G \cap (0 .. m))
  BY <1>1, FS_Subset
<1> QED BY <1>2, FS_CardinalityType

\* More tickets given up: no fewer below a bound.
LEMMA BelowMore ==
  ASSUME NEW G \in SUBSET Nat, NEW H \in SUBSET Nat, G \subseteq H, NEW m \in Int
  PROVE  /\ Cardinality(G \cap (0 .. m)) \in Nat /\ Cardinality(H \cap (0 .. m)) \in Nat
         /\ Cardinality(G \cap (0 .. m)) <= Cardinality(H \cap (0 .. m))
<1>1. IsFiniteSet(0 .. m)
  BY FS_Interval
<1>2. IsFiniteSet(H \cap (0 .. m))
  BY <1>1, FS_Subset
<1>3. G \cap (0 .. m) \subseteq H \cap (0 .. m)
  OBVIOUS
<1> QED BY <1>2, <1>3, FS_Subset, FS_CardinalityType

\* And below the next bound.
LEMMA BelowNext ==
  ASSUME NEW G \in SUBSET Nat, NEW k \in Nat
  PROVE  /\ Cardinality(G \cap (0 .. k - 1)) \in Nat /\ Cardinality(G \cap (0 .. k)) \in Nat
         /\ Cardinality(G \cap (0 .. k - 1)) <= Cardinality(G \cap (0 .. k))
<1>1. IsFiniteSet(0 .. k)
  BY FS_Interval
<1>2. IsFiniteSet(G \cap (0 .. k))
  BY <1>1, FS_Subset
<1>3. G \cap (0 .. k - 1) \subseteq G \cap (0 .. k)
  OBVIOUS
<1> QED BY <1>2, <1>3, FS_Subset, FS_CardinalityType

\* An element is enqueued: the tail grows.
LEMMA EnqueueInv ==
  ASSUME CallsInv, NEW q \in Producer, tailIndex' = Add1(tailIndex, q),
         UNCHANGED <<headIndex, dequeueOptimisticCount, dequeueOvercommit, con>>
  PROVE  CountsInv'
<1>1. ASSUME NEW S, NEW p PROVE At(S, p)' = At(S, p)
  BY Zenon DEF At, In, Mine
<1> SUFFICES ASSUME NEW p \in Producer PROVE Counted(p)' /\ Booked(p)'
  BY Zenon DEF CountsInv
<1>2. Counted(p)'
  BY <1>1, Zenon DEF CallsInv, CountsInv, Counted
<1>3. PICK given \in SUBSET Nat, won \in SUBSET Nat, m \in Int :
        Ledger(p, given, won, m) /\ Undecided(p, given, won)
  BY Zenon DEF CallsInv, CountsInv, Booked
<1>4. tailIndex[p] \in Nat /\ tailIndex'[p] \in Nat /\ tailIndex[p] <= tailIndex'[p]
  BY DEF CallsInv, CountsType, Add1
<1>5. Cardinality(given \cap (0 .. m)) \in Nat
  BY BelowType, Zenon
<1>6. m + 1 - Cardinality(given \cap (0 .. m)) <= tailIndex'[p]
  <2>1. m + 1 - Cardinality(given \cap (0 .. m)) <= tailIndex[p]
    BY <1>3, Zenon DEF Ledger
  <2> QED BY <2>1, <1>4, <1>5
<1>7. Ledger(p, given, won, m)'
  BY <1>1, <1>3, <1>6, Zenon DEF Ledger
<1>8. Undecided(p, given, won)'
  BY <1>1, <1>3, Zenon DEF Undecided
<1> QED BY <1>2, <1>7, <1>8, Zenon DEF Booked


\* A consumer claims an element: it is given a ticket, above all those given up.
LEMMA ClaimInv ==
  ASSUME CallsInv, NEW c \in Consumer, DeqClaim(c)
  PROVE  CountsInv'
<1>1. PICK p \in Producer : p = Mine(c)
  BY MineIn, Zenon DEF CallsInv, DeqClaim
<1>2. /\ con[c] \in Call
      /\ con'[c] = [con[c] EXCEPT !.pc = "check", !.mine = dequeueOptimisticCount[p]]
      /\ \A d \in Consumer \ {c} : con'[d] = con[d]
  BY <1>1, MineIn, OneMoves, Zenon DEF CallsInv, DeqClaim
<1>3. /\ con'[c].pc = "check" /\ con'[c].over = con[c].over /\ con'[c].mine = dequeueOptimisticCount[p]
      /\ con'[c].pos = con[c].pos /\ con'[c].best = con[c].best
  BY <1>2 DEF Call
<1>4. Mine(c)' = p
  BY <1>1, <1>3, Zenon DEF Mine
<1>5. /\ dequeueOptimisticCount[p] \in Nat /\ dequeueOptimisticCount'[p] = dequeueOptimisticCount[p] + 1
      /\ \A q \in Producer \ {p} : dequeueOptimisticCount'[q] = dequeueOptimisticCount[q]
  BY <1>1 DEF CallsInv, CountsType, DeqClaim, Add1
<1>6. ASSUME NEW q \in Producer \ {p} PROVE Counted(q)' /\ Booked(q)'
  <2>1. Aside(c, q)
    BY <1>1, <1>2, <1>4, <1>5, Zenon DEF Aside, In, DeqClaim
  <2> QED BY <2>1, AsideInv, Zenon
<1>7. /\ Cardinality(At(Claiming, p)) \in Nat /\ Cardinality(At(Claiming, p)') = Cardinality(At(Claiming, p)) + 1
      /\ At({"over"}, p)' = At({"over"}, p) /\ At({"head"}, p)' = At({"head"}, p)
      /\ At({"check"}, p)' = At({"check"}, p) \cup {c}
      /\ At({"count", "claim"}, p)' \subseteq At({"count", "claim"}, p) \ {c}
      /\ c \in At({"count", "claim"}, p)
  <2>1. con[c].pc = "claim"
    BY DEF DeqClaim
  <2>2. ~In(c, Claiming, p) /\ In(c, Claiming, p)' /\ ~In(c, {"check"}, p) /\ In(c, {"check"}, p)'
    BY <2>1, <1>3, <1>4, Zenon DEF In, Claiming
  <2>3. ~In(c, {"over"}, p) /\ ~In(c, {"over"}, p)' /\ ~In(c, {"head"}, p) /\ ~In(c, {"head"}, p)'
    BY <2>1, <1>3, Zenon DEF In
  <2>4. In(c, {"count", "claim"}, p) /\ ~In(c, {"count", "claim"}, p)'
    BY <2>1, <1>1, <1>3, Zenon DEF In
  <2>5. c \in At({"count", "claim"}, p)
    BY <2>4, Zenon DEF At
  <2>6. /\ Cardinality(At(Claiming, p)) \in Nat
        /\ Cardinality(At(Claiming, p)') = Cardinality(At(Claiming, p)) + 1
    BY <2>2, <1>2, AtJoins
  <2>7. At({"check"}, p)' = At({"check"}, p) \cup {c}
    BY <2>2, <1>2, AtJoins
  <2>8. At({"over"}, p)' = At({"over"}, p) /\ At({"head"}, p)' = At({"head"}, p)
    BY <2>3, <1>2, AtStays
  <2>9. At({"count", "claim"}, p)' \subseteq At({"count", "claim"}, p) \ {c}
    BY <2>4, <1>2, AtLeaves
  <2> QED BY <2>5, <2>6, <2>7, <2>8, <2>9, Zenon
<1>8. Counted(p)'
  <2>1. dequeueOptimisticCount[p] = headIndex[p] + dequeueOvercommit[p] + Cardinality(At(Claiming, p))
    BY Zenon DEF CallsInv, CountsInv, Counted
  <2>2. headIndex[p] \in Nat /\ dequeueOvercommit[p] \in Nat
    BY DEF CallsInv, CountsType
  <2>3. dequeueOptimisticCount'[p] = headIndex[p] + dequeueOvercommit[p] + Cardinality(At(Claiming, p)')
    BY <2>1, <2>2, <1>5, <1>7
  <2> QED BY <2>3, Zenon DEF Counted, DeqClaim
<1>9. PICK given \in SUBSET Nat, won \in SUBSET Nat, m \in Int :
        Ledger(p, given, won, m) /\ Undecided(p, given, won)
  BY Zenon DEF CallsInv, CountsInv, Booked
<1>10. PICK n \in Nat : n = dequeueOptimisticCount[p]
  BY <1>5
<1>11. given \subseteq 0 .. n - 1 /\ won \subseteq 0 .. m /\ m \in -1 .. n - 1
  BY <1>9, <1>10, Zenon DEF Ledger
<1>12. given \subseteq 0 .. (n + 1) - 1 /\ m \in -1 .. (n + 1) - 1
  BY <1>11
<1>13. Ledger(p, given, won, m)'
  BY <1>5, <1>7, <1>9, <1>10, <1>12, Zenon DEF Ledger, DeqClaim
<1>14. ASSUME NEW d \in At({"check"}, p)'
       PROVE  /\ con'[d].mine \in (0 .. (n + 1) - 1) \ (given \cup won)
              /\ con'[d].over <= Cardinality(given \cap (0 .. con'[d].mine - 1))
              /\ con'[d].mine = n <=> d = c
              /\ d # c => d \in At({"check"}, p) /\ con'[d] = con[d]
  <2>1. CASE d = c
    <3>1. con'[d].mine = n
      BY <2>1, <1>3, <1>10, Zenon
    <3>2. n \in (0 .. (n + 1) - 1) \ (given \cup won)
      BY <1>11
    <3>3. given \cap (0 .. n - 1) = given
      BY <1>11, Zenon
    <3>4. con[c].over <= dequeueOvercommit[p]
      BY <1>7, <1>9, Zenon DEF Undecided
    <3>5. Cardinality(given) = dequeueOvercommit[p] + Cardinality(At({"over"}, p))
      BY <1>9, Zenon DEF Ledger
    <3>6. dequeueOvercommit[p] \in Nat /\ Cardinality(At({"over"}, p)) \in Nat /\ con[c].over \in Nat
      BY <1>2, AtMoves, Zenon DEF CallsInv, CountsType, Call
    <3>7. con[c].over <= Cardinality(given)
      BY <3>4, <3>5, <3>6
    <3>8. con'[d].over <= Cardinality(given \cap (0 .. con'[d].mine - 1))
      BY <3>1, <3>3, <3>7, <2>1, <1>3, Zenon
    <3> QED BY <2>1, <3>1, <3>2, <3>8, Zenon
  <2>2. CASE d # c
    <3>1. d \in At({"check"}, p) /\ con'[d] = con[d]
      BY <2>2, <1>14, <1>7, <1>2, Zenon DEF At
    <3>2. /\ con[d].mine \in (0 .. n - 1) \ (given \cup won)
          /\ con[d].over <= Cardinality(given \cap (0 .. con[d].mine - 1))
      BY <3>1, <1>9, <1>10, Zenon DEF Undecided
    <3>3. con[d].mine \in (0 .. (n + 1) - 1) \ (given \cup won) /\ con[d].mine # n
      BY <3>2
    <3> QED BY <2>2, <3>1, <3>2, <3>3, Zenon
  <2> QED BY <2>1, <2>2
<1>15. ASSUME NEW d \in At({"check"}, p)', NEW e \in At({"check"}, p)', con'[e].mine = con'[d].mine
       PROVE  e = d
  <2>1. CASE d = c
    BY <2>1, <1>14, <1>15, Zenon
  <2>2. CASE e = c
    BY <2>2, <1>14, <1>15, Zenon
  <2>3. CASE d # c /\ e # c
    BY <2>3, <1>14, <1>15, <1>9, Zenon DEF Undecided
  <2> QED BY <2>1, <2>2, <2>3
<1>16. \A d \in At({"count", "claim"}, p)' : con'[d].over <= dequeueOvercommit[p]
  <2> SUFFICES ASSUME NEW d \in At({"count", "claim"}, p)' PROVE con'[d].over <= dequeueOvercommit[p]
    OBVIOUS
  <2>1. d \in At({"count", "claim"}, p) /\ d # c /\ d \in Consumer
    BY <1>7, Zenon DEF At
  <2> QED BY <2>1, <1>2, <1>9, Zenon DEF Undecided
<1>17. Undecided(p, given, won)'
  BY <1>5, <1>10, <1>14, <1>15, <1>16, Zenon DEF Undecided, DeqClaim
<1> QED BY <1>6, <1>8, <1>13, <1>17, Zenon DEF CountsInv, Booked


\* A consumer checks its ticket against the tail: it wins an index or gives up.
LEMMA CheckInv ==
  ASSUME CallsInv, NEW c \in Consumer, DeqCheck(c)
  PROVE  CountsInv'
<1>1. PICK p \in Producer : p = Mine(c)
  BY MineIn, Zenon DEF CallsInv, DeqCheck
<1>2. PICK s \in {"head", "over"} :
        /\ con[c] \in Call /\ con'[c] = [con[c] EXCEPT !.pc = s]
        /\ \A d \in Consumer \ {c} : con'[d] = con[d]
        /\ s = "head" => con[c].mine - con[c].over < tailIndex[p]
  BY <1>1, MineIn, OneMoves, Zenon DEF CallsInv, DeqCheck
<1>3. con[c].pc = "check" /\ con'[c].pc = s /\ con'[c].pos = con[c].pos /\ con'[c].best = con[c].best
  BY <1>2 DEF Call, DeqCheck
<1>4. Mine(c)' = p
  BY <1>1, <1>3, Zenon DEF Mine
<1>5. UNCHANGED <<tailIndex, headIndex, dequeueOptimisticCount, dequeueOvercommit>>
  BY Zenon DEF DeqCheck, counts
<1>6. ASSUME NEW q \in Producer \ {p} PROVE Counted(q)' /\ Booked(q)'
  <2>1. Aside(c, q)
    BY <1>1, <1>2, <1>4, <1>5, Zenon DEF Aside, In
  <2> QED BY <2>1, AsideInv, Zenon
<1>7. /\ At(Claiming, p)' = At(Claiming, p) /\ c \in At({"check"}, p)
      /\ At({"check"}, p)' = At({"check"}, p) \ {c} /\ At({"count", "claim"}, p)' = At({"count", "claim"}, p)
      /\ s # "over" => At({"over"}, p)' = At({"over"}, p)
      /\ s = "over" => Cardinality(At({"over"}, p)') = Cardinality(At({"over"}, p)) + 1
      /\ s # "head" => At({"head"}, p)' = At({"head"}, p)
      /\ s = "head" => Cardinality(At({"head"}, p)') = Cardinality(At({"head"}, p)) + 1
  <2>1. In(c, Claiming, p) /\ In(c, Claiming, p)' /\ In(c, {"check"}, p) /\ ~In(c, {"check"}, p)'
    BY <1>1, <1>3, <1>4, Zenon DEF In, Claiming
  <2>2. /\ ~In(c, {"over"}, p) /\ (In(c, {"over"}, p)' <=> s = "over")
        /\ ~In(c, {"head"}, p) /\ (In(c, {"head"}, p)' <=> s = "head")
    BY <1>3, <1>4, Zenon DEF In
  <2>3. ~In(c, {"count", "claim"}, p) /\ ~In(c, {"count", "claim"}, p)'
    BY <1>3, Zenon DEF In
  <2>4. c \in At({"check"}, p)
    BY <2>1, Zenon DEF At
  <2>5. At(Claiming, p)' = At(Claiming, p) /\ At({"check"}, p)' = At({"check"}, p) \ {c}
    BY <2>1, <1>2, AtStays, AtLeaves
  <2>6. At({"count", "claim"}, p)' = At({"count", "claim"}, p)
    BY <2>3, <1>2, AtStays
  <2>7. /\ s # "over" => At({"over"}, p)' = At({"over"}, p)
        /\ s = "over" => Cardinality(At({"over"}, p)') = Cardinality(At({"over"}, p)) + 1
    <3>1. CASE s # "over"
      BY <3>1, <2>2, <1>2, AtStays
    <3>2. CASE s = "over"
      BY <3>2, <2>2, <1>2, AtJoins
    <3> QED BY <3>1, <3>2
  <2>8. /\ s # "head" => At({"head"}, p)' = At({"head"}, p)
        /\ s = "head" => Cardinality(At({"head"}, p)') = Cardinality(At({"head"}, p)) + 1
    <3>1. CASE s # "head"
      BY <3>1, <2>2, <1>2, AtStays
    <3>2. CASE s = "head"
      BY <3>2, <2>2, <1>2, AtJoins
    <3> QED BY <3>1, <3>2
  <2> QED BY <2>4, <2>5, <2>6, <2>7, <2>8, Zenon
<1>8. Counted(p)'
  BY <1>5, <1>7, Zenon DEF CallsInv, CountsInv, Counted
<1>9. PICK given \in SUBSET Nat, won \in SUBSET Nat, m \in Int :
        Ledger(p, given, won, m) /\ Undecided(p, given, won)
  BY Zenon DEF CallsInv, CountsInv, Booked
<1>10. PICK n \in Nat, k \in Nat, o \in Nat, x \in Nat :
         /\ n = dequeueOptimisticCount[p] /\ k = con[c].mine /\ o = con[c].over /\ x = tailIndex[p]
  BY <1>2 DEF CallsInv, CountsType, Call
<1>11. /\ given \subseteq 0 .. n - 1 /\ won \subseteq 0 .. m /\ given \cap won = {} /\ m \in -1 .. n - 1
       /\ m + 1 - Cardinality(given \cap (0 .. m)) <= x
  BY <1>9, <1>10, Zenon DEF Ledger
<1>12. k \in (0 .. n - 1) \ (given \cup won) /\ o <= Cardinality(given \cap (0 .. k - 1))
  BY <1>7, <1>9, <1>10, Zenon DEF Undecided
<1>13. IsFiniteSet(given) /\ IsFiniteSet(won) /\ Cardinality(given \cap (0 .. m)) \in Nat
  <2>1. 0 \in Int /\ n - 1 \in Int
    OBVIOUS
  <2>2. IsFiniteSet(0 .. n - 1) /\ IsFiniteSet(0 .. m)
    BY <2>1, FS_Interval, Zenon
  <2>3. IsFiniteSet(given) /\ IsFiniteSet(won)
    BY <2>2, <1>11, FS_Subset, Zenon
  <2> QED BY <2>3, BelowType, Zenon
<1>14. ASSUME NEW d \in At({"check"}, p)'
       PROVE  /\ d \in At({"check"}, p) /\ con'[d] = con[d] /\ con[d].mine # k
              /\ con[d].mine \in (0 .. n - 1) \ (given \cup won)
              /\ con[d].over <= Cardinality(given \cap (0 .. con[d].mine - 1))
  <2>1. d \in At({"check"}, p) /\ con'[d] = con[d] /\ d # c
    BY <1>2, <1>7, Zenon DEF At
  <2> QED BY <2>1, <1>7, <1>9, <1>10, Zenon DEF Undecided
<1>15. \A d \in At({"count", "claim"}, p)' : con'[d].over <= dequeueOvercommit[p]
  <2> SUFFICES ASSUME NEW d \in At({"count", "claim"}, p) PROVE con'[d].over <= dequeueOvercommit[p]
    BY <1>7, Zenon
  <2>1. d # c /\ d \in Consumer
    BY <1>3, Zenon DEF At, In
  <2> QED BY <2>1, <1>2, <1>9, Zenon DEF Undecided
<1>16. \A d, e \in At({"check"}, p)' : con'[e].mine = con'[d].mine => e = d
  BY <1>14, <1>9, Zenon DEF Undecided
<1>17. CASE s = "head"
  <2> DEFINE wins == won \cup {k}
  <2>1. PICK g \in Int : g = IF m < k THEN k ELSE m
    OBVIOUS
  <2>2. wins \subseteq 0 .. g /\ given \cap wins = {} /\ g \in -1 .. n - 1 /\ wins \in SUBSET Nat
    BY <2>1, <1>11, <1>12
  <2>3. g + 1 - Cardinality(given \cap (0 .. g)) <= x
    <3>1. CASE g = m
      BY <3>1, <1>11
    <3>2. CASE g = k
      <4>1. Cardinality(given \cap (0 .. k - 1)) <= Cardinality(given \cap (0 .. k))
        BY BelowNext, Zenon
      <4>2. Cardinality(given \cap (0 .. k - 1)) \in Nat /\ Cardinality(given \cap (0 .. k)) \in Nat
        BY BelowNext, Zenon
      <4>3. k - o < x
        BY <1>2, <1>10, <1>17, Zenon
      <4>4. k + 1 - Cardinality(given \cap (0 .. k)) <= x
        BY <4>1, <4>2, <4>3, <1>12
      <4> QED BY <3>2, <4>4, Zenon
    <3> QED BY <2>1, <3>1, <3>2, Zenon
  <2>4. Cardinality(wins) = Cardinality(won) + 1 /\ Cardinality(won) \in Nat
    BY <1>12, <1>13, FS_AddElement, FS_CardinalityType
  <2>5. Cardinality(wins) = headIndex[p] + Cardinality(At({"head"}, p)')
    <3>1. Cardinality(won) = headIndex[p] + Cardinality(At({"head"}, p))
      BY <1>9, Zenon DEF Ledger
    <3>2. headIndex[p] \in Nat /\ Cardinality(At({"head"}, p)) \in Nat
      BY <1>2, AtMoves DEF CallsInv, CountsType
    <3>3. Cardinality(At({"head"}, p)') = Cardinality(At({"head"}, p)) + 1
      BY <1>7, <1>17, Zenon
    <3> QED BY <3>1, <3>2, <3>3, <2>4
  <2>6. ASSUME NEW d \in At({"check"}, p)'
        PROVE  con'[d].mine \in (0 .. n - 1) \ (given \cup wins)
    BY <1>14, Zenon
  <2> HIDE DEF wins
  <2>7. Ledger(p, given, wins, g)'
    BY <2>2, <2>3, <2>5, <1>5, <1>7, <1>9, <1>10, <1>11, <1>17, Zenon DEF Ledger
  <2>8. Undecided(p, given, wins)'
    BY <2>6, <1>5, <1>10, <1>14, <1>15, <1>16, Zenon DEF Undecided
  <2> QED BY <1>6, <1>8, <2>2, <2>7, <2>8, Zenon DEF CountsInv, Booked
<1>18. CASE s = "over"
  <2> DEFINE gives == given \cup {k}
  <2>1. gives \subseteq 0 .. n - 1 /\ gives \cap won = {} /\ gives \in SUBSET Nat /\ given \subseteq gives
    BY <1>11, <1>12
  <2>2. Cardinality(gives) = Cardinality(given) + 1 /\ Cardinality(given) \in Nat
    BY <1>12, <1>13, FS_AddElement, FS_CardinalityType
  <2>3. Cardinality(gives) = dequeueOvercommit[p] + Cardinality(At({"over"}, p)')
    <3>1. Cardinality(given) = dequeueOvercommit[p] + Cardinality(At({"over"}, p))
      BY <1>9, Zenon DEF Ledger
    <3>2. dequeueOvercommit[p] \in Nat /\ Cardinality(At({"over"}, p)) \in Nat
      BY <1>2, AtMoves DEF CallsInv, CountsType
    <3>3. Cardinality(At({"over"}, p)') = Cardinality(At({"over"}, p)) + 1
      BY <1>7, <1>18, Zenon
    <3> QED BY <3>1, <3>2, <3>3, <2>2
  <2>4. ASSUME NEW d \in At({"check"}, p)'
        PROVE  con'[d].mine \in (0 .. n - 1) \ (gives \cup won)
    BY <1>14, Zenon
  <2> HIDE DEF gives
  <2>5. m + 1 - Cardinality(gives \cap (0 .. m)) <= x
    <3>1. Cardinality(given \cap (0 .. m)) <= Cardinality(gives \cap (0 .. m))
      BY <2>1, BelowMore, Zenon
    <3>2. Cardinality(gives \cap (0 .. m)) \in Nat
      BY <2>1, BelowMore, Zenon
    <3> QED BY <3>1, <3>2, <1>11, <1>13
  <2>6. ASSUME NEW d \in At({"check"}, p)'
        PROVE  con'[d].over <= Cardinality(gives \cap (0 .. con'[d].mine - 1))
    <3>1. PICK y \in Nat, z \in Nat : y = con[d].over /\ z = con[d].mine
      BY <1>14, <2>6, Zenon DEF CallsInv, CountsType, Call, At
    <3>2. z - 1 \in Int
      OBVIOUS
    <3>3. /\ Cardinality(given \cap (0 .. z - 1)) <= Cardinality(gives \cap (0 .. z - 1))
          /\ Cardinality(given \cap (0 .. z - 1)) \in Nat /\ Cardinality(gives \cap (0 .. z - 1)) \in Nat
      BY <2>1, <3>2, BelowMore, Zenon
    <3>4. y <= Cardinality(given \cap (0 .. z - 1))
      BY <1>14, <2>6, <3>1, Zenon
    <3>5. y <= Cardinality(gives \cap (0 .. z - 1))
      BY <3>3, <3>4
    <3> QED BY <3>1, <3>5, <1>14, <2>6, Zenon
  <2>7. Ledger(p, gives, won, m)'
    BY <2>1, <2>3, <2>5, <1>5, <1>7, <1>9, <1>10, <1>11, <1>18, Zenon DEF Ledger
  <2>8. Undecided(p, gives, won)'
    BY <2>4, <2>6, <1>5, <1>10, <1>15, <1>16, Zenon DEF Undecided
  <2> QED BY <1>6, <1>8, <2>1, <2>7, <2>8, Zenon DEF CountsInv, Booked
<1> QED BY <1>17, <1>18, Zenon


\* Where a call goes when a producer had nothing for it: to one further on in the
\* list, all those between being the one tried first, or to its end.
LEMMA NextProducerMoves ==
  ASSUME CallsInv, NEW c \in Consumer, con[c].pc # "idle", NextProducer(c)
  PROVE  /\ con' \in [Consumer -> Call] /\ \A d \in Consumer \ {c} : con'[d] = con[d]
         /\ con'[c].best = con[c].best
         /\ \/ con'[c].pc = "failed" /\ Later(c) = {}
            \/ /\ con'[c].pc = "load" /\ con'[c].pos \in Later(c)
               /\ \A j \in Later(c) : con'[c].pos <= j
<1>1. con[c] \in Call
  BY MineIn, Zenon DEF CallsInv
<1>2. CASE Later(c) = {} /\ CallIs(c, [con[c] EXCEPT !.pc = "failed"])
  <2>1. con'[c] = [con[c] EXCEPT !.pc = "failed"] /\ \A d \in Consumer \ {c} : con'[d] = con[d]
    BY <1>2, OneMoves, Zenon DEF CallsInv
  <2>2. con'[c] \in Call /\ con'[c].pc = "failed" /\ con'[c].best = con[c].best
    BY <1>1, <2>1 DEF Call, Busy
  <2> QED BY <1>2, <2>1, <2>2, OneMoves, Zenon DEF CallsInv
<1>3. ASSUME NEW i \in Later(c), \A j \in Later(c) : i <= j,
             CallIs(c, [con[c] EXCEPT !.pc = "load", !.pos = i])
      PROVE  /\ con' \in [Consumer -> Call] /\ \A d \in Consumer \ {c} : con'[d] = con[d]
             /\ con'[c].best = con[c].best /\ con'[c].pc = "load" /\ con'[c].pos = i
  <2>1. con'[c] = [con[c] EXCEPT !.pc = "load", !.pos = i] /\ \A d \in Consumer \ {c} : con'[d] = con[d]
    BY <1>3, OneMoves, Zenon DEF CallsInv
  <2>2. i \in 0 .. Len(Producers)
    <3>1. con[c].pos \in 0 .. Len(Producers) /\ Len(Producers) \in Nat
      BY <1>1, ListAssumption DEF Call
    <3> QED BY <3>1 DEF Later
  <2>3. con'[c] \in Call /\ con'[c].pc = "load" /\ con'[c].best = con[c].best /\ con'[c].pos = i
    BY <1>1, <2>1, <2>2, Zenon DEF Call, Busy
  <2> QED BY <1>3, <2>1, <2>3, OneMoves, Zenon DEF CallsInv
<1> QED BY <1>2, <1>3, Zenon DEF NextProducer

\* A consumer that gave its ticket up makes up for it in the overcommit.
LEMMA OverInv ==
  ASSUME CallsInv, NEW c \in Consumer, DeqOver(c)
  PROVE  CountsInv'
<1>1. PICK p \in Producer : p = Mine(c)
  BY MineIn, Zenon DEF CallsInv, DeqOver
<1>2. con[c].pc = "over" /\ con'[c].pc \in {"load", "failed"} /\ \A d \in Consumer \ {c} : con'[d] = con[d]
  BY NextProducerMoves, Zenon DEF DeqOver
<1>3. /\ dequeueOvercommit[p] \in Nat /\ dequeueOvercommit'[p] = dequeueOvercommit[p] + 1
      /\ \A q \in Producer \ {p} : dequeueOvercommit'[q] = dequeueOvercommit[q]
  BY <1>1 DEF CallsInv, CountsType, DeqOver, Add1
<1>4. UNCHANGED <<tailIndex, headIndex, dequeueOptimisticCount>>
  BY Zenon DEF DeqOver
<1>5. ASSUME NEW q \in Producer \ {p} PROVE Counted(q)' /\ Booked(q)'
  <2>1. Aside(c, q)
    BY <1>1, <1>2, <1>3, <1>4, Zenon DEF Aside, In, Claiming
  <2> QED BY <2>1, AsideInv, Zenon
<1>6. /\ Cardinality(At(Claiming, p)) \in Nat /\ Cardinality(At({"over"}, p)) \in Nat
      /\ Cardinality(At(Claiming, p)') = Cardinality(At(Claiming, p)) - 1
      /\ Cardinality(At({"over"}, p)') = Cardinality(At({"over"}, p)) - 1
      /\ At({"head"}, p)' = At({"head"}, p) /\ At({"check"}, p)' = At({"check"}, p)
      /\ At({"count", "claim"}, p)' = At({"count", "claim"}, p)
  <2>1. In(c, Claiming, p) /\ ~In(c, Claiming, p)' /\ In(c, {"over"}, p) /\ ~In(c, {"over"}, p)'
    BY <1>1, <1>2, Zenon DEF In, Claiming
  <2>2. /\ ~In(c, {"head"}, p) /\ ~In(c, {"head"}, p)' /\ ~In(c, {"check"}, p) /\ ~In(c, {"check"}, p)'
        /\ ~In(c, {"count", "claim"}, p) /\ ~In(c, {"count", "claim"}, p)'
    BY <1>2, Zenon DEF In
  <2>3. /\ Cardinality(At(Claiming, p)) \in Nat
        /\ Cardinality(At(Claiming, p)') = Cardinality(At(Claiming, p)) - 1
    BY <2>1, <1>2, AtLeaves
  <2>4. /\ Cardinality(At({"over"}, p)) \in Nat
        /\ Cardinality(At({"over"}, p)') = Cardinality(At({"over"}, p)) - 1
    BY <2>1, <1>2, AtLeaves
  <2>5. /\ At({"head"}, p)' = At({"head"}, p) /\ At({"check"}, p)' = At({"check"}, p)
        /\ At({"count", "claim"}, p)' = At({"count", "claim"}, p)
    BY <2>2, <1>2, AtStays
  <2> QED BY <2>3, <2>4, <2>5, Zenon
<1>7. Counted(p)'
  <2>1. dequeueOptimisticCount[p] = headIndex[p] + dequeueOvercommit[p] + Cardinality(At(Claiming, p))
    BY Zenon DEF CallsInv, CountsInv, Counted
  <2>2. headIndex[p] \in Nat
    BY DEF CallsInv, CountsType
  <2>3. dequeueOptimisticCount[p] = headIndex[p] + dequeueOvercommit'[p] + Cardinality(At(Claiming, p)')
    BY <2>1, <2>2, <1>3, <1>6
  <2> QED BY <2>3, <1>4, Zenon DEF Counted
<1>8. PICK given \in SUBSET Nat, won \in SUBSET Nat, m \in Int :
        Ledger(p, given, won, m) /\ Undecided(p, given, won)
  BY Zenon DEF CallsInv, CountsInv, Booked
<1>9. Cardinality(given) = dequeueOvercommit'[p] + Cardinality(At({"over"}, p)')
  <2>1. Cardinality(given) = dequeueOvercommit[p] + Cardinality(At({"over"}, p))
    BY <1>8, Zenon DEF Ledger
  <2> QED BY <2>1, <1>3, <1>6
<1>10. Ledger(p, given, won, m)'
  BY <1>4, <1>6, <1>8, <1>9, Zenon DEF Ledger
<1>11. ASSUME NEW d \in At({"count", "claim"}, p) PROVE con'[d].over <= dequeueOvercommit'[p]
  <2>1. d # c /\ d \in Consumer
    BY <1>2, Zenon DEF At, In
  <2>2. con'[d] = con[d] /\ con[d].over <= dequeueOvercommit[p]
    BY <2>1, <1>2, <1>8, Zenon DEF Undecided
  <2>3. con[d].over \in Nat
    BY <2>1 DEF CallsInv, CountsType, Call
  <2> QED BY <2>2, <2>3, <1>3
<1>12. \A d \in At({"check"}, p) : con'[d] = con[d]
  BY <1>2, Zenon DEF At, In
<1>13. Undecided(p, given, won)'
  BY <1>4, <1>6, <1>8, <1>11, <1>12, Zenon DEF Undecided
<1> QED BY <1>5, <1>7, <1>10, <1>13, Zenon DEF CountsInv, Booked

\* A consumer whose ticket won takes the head.
LEMMA HeadInv ==
  ASSUME CallsInv, NEW c \in Consumer, DeqHead(c)
  PROVE  CountsInv'
<1>1. PICK p \in Producer : p = Mine(c)
  BY MineIn, Zenon DEF CallsInv, DeqHead
<1>2. /\ con[c] \in Call /\ con'[c] = [con[c] EXCEPT !.pc = "index"]
      /\ \A d \in Consumer \ {c} : con'[d] = con[d]
  BY MineIn, OneMoves, Zenon DEF CallsInv, DeqHead
<1>3. con[c].pc = "head" /\ con'[c].pc = "index"
  BY <1>2 DEF Call, DeqHead
<1>4. /\ headIndex[p] \in Nat /\ headIndex'[p] = headIndex[p] + 1
      /\ \A q \in Producer \ {p} : headIndex'[q] = headIndex[q]
  BY <1>1 DEF CallsInv, CountsType, DeqHead, Add1
<1>5. UNCHANGED <<tailIndex, dequeueOvercommit, dequeueOptimisticCount>>
  BY Zenon DEF DeqHead
<1>6. ASSUME NEW q \in Producer \ {p} PROVE Counted(q)' /\ Booked(q)'
  <2>1. Aside(c, q)
    BY <1>1, <1>2, <1>3, <1>4, <1>5, Zenon DEF Aside, In, Claiming
  <2> QED BY <2>1, AsideInv, Zenon
<1>7. /\ Cardinality(At(Claiming, p)) \in Nat /\ Cardinality(At({"head"}, p)) \in Nat
      /\ Cardinality(At(Claiming, p)') = Cardinality(At(Claiming, p)) - 1
      /\ Cardinality(At({"head"}, p)') = Cardinality(At({"head"}, p)) - 1
      /\ At({"over"}, p)' = At({"over"}, p) /\ At({"check"}, p)' = At({"check"}, p)
      /\ At({"count", "claim"}, p)' = At({"count", "claim"}, p)
  <2>1. In(c, Claiming, p) /\ ~In(c, Claiming, p)' /\ In(c, {"head"}, p) /\ ~In(c, {"head"}, p)'
    BY <1>1, <1>3, Zenon DEF In, Claiming
  <2>2. /\ ~In(c, {"over"}, p) /\ ~In(c, {"over"}, p)' /\ ~In(c, {"check"}, p) /\ ~In(c, {"check"}, p)'
        /\ ~In(c, {"count", "claim"}, p) /\ ~In(c, {"count", "claim"}, p)'
    BY <1>3, Zenon DEF In
  <2>3. /\ Cardinality(At(Claiming, p)) \in Nat
        /\ Cardinality(At(Claiming, p)') = Cardinality(At(Claiming, p)) - 1
    BY <2>1, <1>2, AtLeaves
  <2>4. /\ Cardinality(At({"head"}, p)) \in Nat
        /\ Cardinality(At({"head"}, p)') = Cardinality(At({"head"}, p)) - 1
    BY <2>1, <1>2, AtLeaves
  <2>5. /\ At({"over"}, p)' = At({"over"}, p) /\ At({"check"}, p)' = At({"check"}, p)
        /\ At({"count", "claim"}, p)' = At({"count", "claim"}, p)
    BY <2>2, <1>2, AtStays
  <2> QED BY <2>3, <2>4, <2>5, Zenon
<1>8. Counted(p)'
  <2>1. dequeueOptimisticCount[p] = headIndex[p] + dequeueOvercommit[p] + Cardinality(At(Claiming, p))
    BY Zenon DEF CallsInv, CountsInv, Counted
  <2>2. dequeueOvercommit[p] \in Nat
    BY DEF CallsInv, CountsType
  <2>3. dequeueOptimisticCount[p] = headIndex'[p] + dequeueOvercommit[p] + Cardinality(At(Claiming, p)')
    BY <2>1, <2>2, <1>4, <1>7
  <2> QED BY <2>3, <1>5, Zenon DEF Counted
<1>9. PICK given \in SUBSET Nat, won \in SUBSET Nat, m \in Int :
        Ledger(p, given, won, m) /\ Undecided(p, given, won)
  BY Zenon DEF CallsInv, CountsInv, Booked
<1>10. Cardinality(won) = headIndex'[p] + Cardinality(At({"head"}, p)')
  <2>1. Cardinality(won) = headIndex[p] + Cardinality(At({"head"}, p))
    BY <1>9, Zenon DEF Ledger
  <2> QED BY <2>1, <1>4, <1>7
<1>11. Ledger(p, given, won, m)'
  BY <1>5, <1>7, <1>9, <1>10, Zenon DEF Ledger
<1>12. \A d \in At({"check"}, p) \cup At({"count", "claim"}, p) : con'[d] = con[d]
  BY <1>2, <1>3, Zenon DEF At, In
<1>13. Undecided(p, given, won)'
  BY <1>5, <1>7, <1>9, <1>12, Zenon DEF Undecided
<1> QED BY <1>6, <1>8, <1>11, <1>13, Zenon DEF CountsInv, Booked


\* A step of a call that has begun, and what it leaves alone.
Steps(c) ==
  /\ con' \in [Consumer -> Call] /\ \A d \in Consumer \ {c} : con'[d] = con[d]
  /\ con[c].pc # "idle" /\ (con'[c].pc # "idle" => con'[c].best = con[c].best)
  /\ UNCHANGED <<tailIndex, seen, quiet>>

\* It keeps the invariant if it keeps the counts, and the call's own knowledge when
\* the call is quiet: no other one is.
LEMMA StepInv ==
  ASSUME CallsInv, NEW c \in Consumer, Steps(c), CountsInv', headIndex' \in [Producer -> Nat],
         dequeueOptimisticCount' \in [Producer -> Nat], dequeueOvercommit' \in [Producer -> Nat],
         Alone(c) /\ QuietCall(c) => QuietCall(c)'
  PROVE  CallsInv'
<1>1. CountsType'
  <2>1. \A d \in Consumer : con'[d].pc # "idle" => con'[d].best \in Producer
    BY Zenon DEF Steps, CallsInv, CountsType
  <2> QED BY <2>1, Zenon DEF Steps, CallsInv, CountsType
<1>2. ASSUME NEW d \in Consumer, quiet'[d] PROVE Alone(d)' /\ QuietCall(d)'
  <2>1. Alone(d) /\ QuietCall(d) /\ quiet[d]
    BY <1>2, Zenon DEF CallsInv, QuietInv, Steps
  <2>2. d = c
    BY <2>1, Zenon DEF Alone, Steps
  <2>3. Alone(c)'
    BY <2>1, <2>2, Zenon DEF Alone, Steps
  <2> QED BY <2>1, <2>2, <2>3, Zenon
<1> QED BY <1>1, <1>2, Zenon DEF CallsInv, QuietInv

\* A step that changes no count, by a call that is not claiming and read no greater
\* overcommit than there is.
LEMMA NoCountInv ==
  ASSUME CallsInv, NEW c \in Consumer, \A d \in Consumer \ {c} : con'[d] = con[d],
         con[c].pc \notin Claiming, con'[c].pc \notin Claiming,
         con'[c].pc \in {"count", "claim"} => con'[c].over <= dequeueOvercommit[Mine(c)'],
         UNCHANGED <<tailIndex, headIndex, dequeueOptimisticCount, dequeueOvercommit>>
  PROVE  CountsInv'
<1> SUFFICES ASSUME NEW p \in Producer PROVE Counted(p)' /\ Booked(p)'
  BY Zenon DEF CountsInv
<1>1. ASSUME NEW S \in {Claiming, {"check"}, {"over"}, {"head"}} PROVE ~In(c, S, p) /\ ~In(c, S, p)'
  BY Zenon DEF In, Claiming
<1>2. Aside(c, p)
  BY <1>1, Zenon DEF Aside, In
<1> QED BY <1>2, AsideInv, Zenon

\* A call that goes on with its producer, or returns, when that needs no knowledge.
LEMMA PlainQuiet ==
  ASSUME CountsType, NEW c \in Consumer, Steps(c), QuietCall(c),
         con'[c].pc \in {"idle", "head", "index", "entry", "release"},
         con'[c].pc # "idle" => con'[c].pos = con[c].pos,
         headIndex' \in [Producer -> Nat], \A p \in Producer : headIndex[p] <= headIndex'[p]
  PROVE  QuietCall(c)'
<1>1. ASSUME NEW p \in Producer, Passed(c, p) PROVE Passed(c, p)'
  <2>1. seen[c][p] \in Nat /\ headIndex[p] \in Nat /\ headIndex'[p] \in Nat /\ headIndex[p] <= headIndex'[p]
    BY DEF CountsType
  <2>2. seen'[c][p] = seen[c][p]
    BY Zenon DEF Steps
  <2> QED BY <1>1, <2>1, <2>2 DEF Passed
<1>2. PICK b \in Producer, k \in 0 .. Len(Producers) : b = con[c].best /\ k = con[c].pos
  BY MineIn DEF Steps, Call
<1>3. ASSUME con'[c].pc # "idle", con'[c].pos > 0
      PROVE  Passed(c, b)' /\ \A i \in 1 .. k - 1 : Passed(c, Producers[i])'
  <2>1. Passed(c, b) /\ \A i \in 1 .. k - 1 : Passed(c, Producers[i])
    BY <1>2, <1>3, Zenon DEF QuietCall, Steps
  <2>2. \A i \in 1 .. k - 1 : Producers[i] \in Producer
    BY ListIn
  <2> QED BY <1>1, <2>1, <2>2, Zenon
<1>4. \A p \in Producer : seen'[c][p] <= tailIndex'[p]
  BY Zenon DEF QuietCall, Steps
<1>5. con'[c].pc # "idle" => con'[c].best = b /\ con'[c].pos = k
  BY <1>2, Zenon DEF Steps
<1> QED BY <1>3, <1>4, <1>5, Zenon DEF QuietCall


\* A call goes on to the next producer, having passed this one.
LEMMA NextQuiet ==
  ASSUME CallsInv, NEW c \in Consumer, con[c].pc # "idle", NextProducer(c),
         UNCHANGED <<tailIndex, headIndex, seen>>, QuietCall(c), Passed(c, Mine(c))
  PROVE  QuietCall(c)'
<1>1. PICK b \in Producer, k \in 0 .. Len(Producers) : b = con[c].best /\ k = con[c].pos
  BY MineIn DEF CallsInv, Call
<1>2. \A p : Passed(c, p)' <=> Passed(c, p)
  BY Zenon DEF Passed
<1>3. \A p \in Producer : seen'[c][p] <= tailIndex'[p]
  BY Zenon DEF QuietCall
<1>4. k > 0 => Passed(c, b) /\ \A i \in 1 .. k - 1 : Passed(c, Producers[i])
  BY <1>1, Zenon DEF QuietCall
<1>5. IF k = 0 THEN Passed(c, b) ELSE Passed(c, Producers[k])
  BY <1>1, Zenon DEF Mine
<1>6. Passed(c, b)
  BY <1>4, <1>5
<1>7. ASSUME NEW i \in 1 .. Len(Producers), i \notin Later(c) PROVE Passed(c, Producers[i])
  <2>1. i \in k + 1 .. Len(Producers) => Producers[i] = b
    BY <1>1, <1>7, Zenon DEF Later
  <2>2. i \in 1 .. k - 1 \/ i = k \/ i \in k + 1 .. Len(Producers)
    BY ListIn
  <2>3. CASE i \in 1 .. k - 1
    BY <2>3, <1>4, ListIn
  <2>4. CASE i = k
    BY <2>4, <1>5, ListIn
  <2>5. CASE i \in k + 1 .. Len(Producers)
    BY <2>1, <2>5, <1>6, Zenon
  <2> QED BY <2>2, <2>3, <2>4, <2>5, Zenon
<1>8. con'[c].best = b
  BY <1>1, NextProducerMoves, Zenon
<1>9. CASE con'[c].pc = "failed" /\ Later(c) = {}
  <2>1. \A i \in 1 .. Len(Producers) : Passed(c, Producers[i])
    BY <1>7, <1>9, Zenon
  <2>2. \A p \in Producer : Passed(c, p)
    BY <2>1, ListAssumption, Zenon DEF Producer
  <2>3. PICK n \in 0 .. Len(Producers) : n = con'[c].pos
    BY NextProducerMoves DEF Call
  <2>4. \A i \in 1 .. n - 1 : Passed(c, Producers[i])
    BY <2>1, ListIn
  <2> QED BY <1>2, <1>3, <1>8, <1>9, <2>2, <2>3, <2>4, Zenon DEF QuietCall
<1>10. CASE /\ con'[c].pc = "load" /\ con'[c].pos \in Later(c)
            /\ \A j \in Later(c) : con'[c].pos <= j
  <2>1. PICK n \in Later(c) : n = con'[c].pos /\ \A j \in Later(c) : n <= j
    BY <1>10, Zenon
  <2>2. n \in 1 .. Len(Producers)
    <3>1. n \in k + 1 .. Len(Producers)
      BY <1>1, Zenon DEF Later
    <3> QED BY <3>1, ListIn
  <2>3. \A i \in 1 .. n - 1 : Passed(c, Producers[i])
    <3> SUFFICES ASSUME NEW i \in 1 .. n - 1 PROVE Passed(c, Producers[i])
      OBVIOUS
    <3>1. i \in 1 .. Len(Producers) /\ ~(n <= i)
      BY <2>2, ListIn
    <3> QED BY <3>1, <2>1, <1>7, Zenon
  <2> QED BY <1>2, <1>3, <1>6, <1>8, <1>10, <2>1, <2>3, Zenon DEF QuietCall
<1> QED BY <1>9, <1>10, NextProducerMoves, Zenon

\* While a quiet call is not claiming, nobody is: every count is a head or an
\* overcommit.
LEMMA QuietCounts ==
  ASSUME CallsInv, NEW c \in Consumer, Alone(c), con[c].pc \in {"count", "claim"}
  PROVE  /\ dequeueOptimisticCount[Mine(c)] = headIndex[Mine(c)] + dequeueOvercommit[Mine(c)]
         /\ headIndex[Mine(c)] \in Nat /\ dequeueOvercommit[Mine(c)] \in Nat
<1>1. PICK p \in Producer : p = Mine(c)
  BY MineIn, Zenon DEF CallsInv
<1>2. At(Claiming, p) = {}
  BY Zenon DEF At, In, Alone, Claiming
<1>3. Cardinality(At(Claiming, p)) = 0
  BY <1>2, FS_EmptySet
<1>4. dequeueOptimisticCount[p] = headIndex[p] + dequeueOvercommit[p] + Cardinality(At(Claiming, p))
  BY Zenon DEF CallsInv, CountsInv, Counted
<1>5. headIndex[p] \in Nat /\ dequeueOvercommit[p] \in Nat
  BY DEF CallsInv, CountsType
<1> QED BY <1>1, <1>3, <1>4, <1>5

\* A call reads the tail and the overcommit.
LEMMA LoadStep ==
  ASSUME CallsInv, NEW c \in Consumer, DeqLoad(c)
  PROVE  CallsInv'
<1>1. PICK p \in Producer : p = Mine(c)
  BY MineIn, Zenon DEF CallsInv, DeqLoad
<1>2. UNCHANGED <<tailIndex, headIndex, dequeueOptimisticCount, dequeueOvercommit, seen, quiet>>
  BY Zenon DEF DeqLoad, counts
<1>3. tailIndex[p] \in Nat /\ dequeueOvercommit[p] \in Nat
  BY DEF CallsInv, CountsType
<1>4. PICK r : /\ r = [con[c] EXCEPT !.pc = "count", !.tail = tailIndex[p], !.over = dequeueOvercommit[p]]
               /\ CallIs(c, r) /\ con[c] \in Call
  BY <1>1, MineIn, Zenon DEF CallsInv, DeqLoad
<1>5. /\ r \in Call /\ r.pc = "count" /\ r.tail = tailIndex[p] /\ r.over = dequeueOvercommit[p]
      /\ r.pos = con[c].pos /\ r.best = con[c].best
  BY <1>3, <1>4, Zenon DEF Call, Busy
<1>6. con'[c] = r /\ con' \in [Consumer -> Call] /\ \A d \in Consumer \ {c} : con'[d] = con[d]
  BY <1>4, <1>5, OneMoves, Zenon DEF CallsInv
<1>7. con[c].pc = "load" /\ Steps(c)
  BY <1>2, <1>5, <1>6, Zenon DEF DeqLoad, Steps
<1>8. Mine(c)' = p
  BY <1>1, <1>5, <1>6, Zenon DEF Mine
<1>9. CountsInv'
  <2>1. con'[c].over <= dequeueOvercommit[p]
    BY <1>3, <1>5, <1>6
  <2> QED BY <2>1, <1>2, <1>5, <1>6, <1>7, <1>8, NoCountInv, Zenon DEF Claiming
<1>10. ASSUME QuietCall(c) PROVE QuietCall(c)'
  <2>1. con'[c].tail >= seen[c][p]
    <3>1. seen[c][p] <= tailIndex[p]
      BY <1>10, Zenon DEF QuietCall
    <3>2. seen[c][p] \in Nat
      BY DEF CallsInv, CountsType
    <3> QED BY <3>1, <3>2, <1>3, <1>5, <1>6
  <2>2. PICK b, k : b = con[c].best /\ k = con[c].pos
    OBVIOUS
  <2>3. k > 0 => Passed(c, b)' /\ \A i \in 1 .. k - 1 : Passed(c, Producers[i])'
    BY <2>2, <1>2, <1>7, <1>10, Zenon DEF QuietCall, Passed
  <2>4. \A q \in Producer : seen'[c][q] <= tailIndex'[q]
    BY <1>2, <1>10, Zenon DEF QuietCall
  <2> QED BY <2>1, <2>2, <2>3, <2>4, <1>2, <1>5, <1>6, <1>8, Zenon DEF QuietCall
<1>11. /\ headIndex' \in [Producer -> Nat] /\ dequeueOptimisticCount' \in [Producer -> Nat]
       /\ dequeueOvercommit' \in [Producer -> Nat]
  BY <1>2, Zenon DEF CallsInv, CountsType
<1> QED BY <1>7, <1>9, <1>10, <1>11, StepInv, Zenon


\* A call compares the count with the tail it read.
LEMMA CountStep ==
  ASSUME CallsInv, NEW c \in Consumer, DeqCount(c)
  PROVE  CallsInv'
<1>1. PICK p \in Producer : p = Mine(c) /\ con[c] \in Call
  BY MineIn, Zenon DEF CallsInv, DeqCount
<1>2. /\ UNCHANGED <<tailIndex, headIndex, dequeueOptimisticCount, dequeueOvercommit, seen, quiet>>
      /\ con[c].pc = "count"
  BY Zenon DEF DeqCount, counts
<1>3. /\ headIndex' \in [Producer -> Nat] /\ dequeueOptimisticCount' \in [Producer -> Nat]
      /\ dequeueOvercommit' \in [Producer -> Nat]
  BY <1>2, Zenon DEF CallsInv, CountsType
<1>4. CASE CallIs(c, [con[c] EXCEPT !.pc = "claim"])
  <2>1. PICK r : r = [con[c] EXCEPT !.pc = "claim"] /\ CallIs(c, r)
    BY <1>4, Zenon
  <2>2. r \in Call /\ r.pc = "claim" /\ r.over = con[c].over /\ r.pos = con[c].pos /\ r.best = con[c].best
    BY <1>1, <2>1 DEF Call, Busy
  <2>3. con'[c] = r /\ con' \in [Consumer -> Call] /\ \A d \in Consumer \ {c} : con'[d] = con[d]
    BY <2>1, <2>2, OneMoves, Zenon DEF CallsInv
  <2>4. Steps(c)
    BY <1>2, <2>2, <2>3, Zenon DEF Steps
  <2>5. Mine(c)' = p
    BY <1>1, <2>2, <2>3, Zenon DEF Mine
  <2>6. CountsInv'
    <3>1. c \in At({"count", "claim"}, p)
      BY <1>1, <1>2, Zenon DEF At, In
    <3>2. con[c].over <= dequeueOvercommit[p]
      BY <3>1, Zenon DEF CallsInv, CountsInv, Booked, Undecided
    <3> QED BY <3>2, <1>2, <2>2, <2>3, <2>5, NoCountInv, Zenon DEF Claiming
  <2>7. ASSUME QuietCall(c) PROVE QuietCall(c)'
    <3>1. PICK b, k : b = con[c].best /\ k = con[c].pos
      OBVIOUS
    <3>2. k > 0 => Passed(c, b)' /\ \A i \in 1 .. k - 1 : Passed(c, Producers[i])'
      BY <3>1, <1>2, <2>7, Zenon DEF QuietCall, Passed
    <3>3. (\A q \in Producer : seen'[c][q] <= tailIndex'[q]) /\ con[c].over = dequeueOvercommit[p]
      BY <1>1, <1>2, <2>7, Zenon DEF QuietCall
    <3> QED BY <3>1, <3>2, <3>3, <1>2, <2>2, <2>3, <2>5, Zenon DEF QuietCall
  <2> QED BY <2>4, <2>6, <2>7, <1>3, StepInv, Zenon
<1>5. CASE ~(dequeueOptimisticCount[p] - con[c].over < con[c].tail) /\ NextProducer(c)
  <2>1. /\ con' \in [Consumer -> Call] /\ \A d \in Consumer \ {c} : con'[d] = con[d]
        /\ con'[c].best = con[c].best /\ con'[c].pc \in {"load", "failed"}
    BY <1>2, <1>5, NextProducerMoves, Zenon
  <2>2. Steps(c)
    BY <1>2, <2>1, Zenon DEF Steps
  <2>3. CountsInv'
    BY <1>2, <2>1, NoCountInv, Zenon DEF Claiming
  <2>4. ASSUME Alone(c), QuietCall(c) PROVE QuietCall(c)'
    <3>1. /\ dequeueOptimisticCount[p] = headIndex[p] + dequeueOvercommit[p]
          /\ headIndex[p] \in Nat /\ dequeueOvercommit[p] \in Nat
      BY <1>1, <1>2, <2>4, QuietCounts, Zenon
    <3>2. con[c].over = dequeueOvercommit[p] /\ con[c].tail >= seen[c][p]
      BY <1>1, <1>2, <2>4, Zenon DEF QuietCall
    <3>3. con[c].tail \in Nat /\ seen[c][p] \in Nat
      BY <1>1 DEF CallsInv, CountsType, Call
    <3>4. Passed(c, Mine(c))
      <4>1. headIndex[p] >= seen[c][p]
        BY <3>1, <3>2, <3>3, <1>5
      <4> QED BY <4>1, <1>1, Zenon DEF Passed
    <3> QED BY <3>4, <2>4, <1>2, <1>5, NextQuiet, Zenon
  <2> QED BY <2>2, <2>3, <2>4, <1>3, StepInv, Zenon
<1> QED BY <1>1, <1>4, <1>5, Zenon DEF DeqCount

\* A call claims an element.
LEMMA ClaimStep ==
  ASSUME CallsInv, NEW c \in Consumer, DeqClaim(c)
  PROVE  CallsInv'
<1>1. PICK p \in Producer : p = Mine(c) /\ con[c] \in Call
  BY MineIn, Zenon DEF CallsInv, DeqClaim
<1>2. UNCHANGED <<tailIndex, headIndex, dequeueOvercommit, seen, quiet>> /\ con[c].pc = "claim"
  BY Zenon DEF DeqClaim
<1>3. dequeueOptimisticCount[p] \in Nat
  BY DEF CallsInv, CountsType
<1>4. PICK r : r = [con[c] EXCEPT !.pc = "check", !.mine = dequeueOptimisticCount[p]] /\ CallIs(c, r)
  BY <1>1, Zenon DEF DeqClaim
<1>5. /\ r \in Call /\ r.pc = "check" /\ r.mine = dequeueOptimisticCount[p] /\ r.over = con[c].over
      /\ r.pos = con[c].pos /\ r.best = con[c].best
  BY <1>1, <1>3, <1>4, Zenon DEF Call, Busy
<1>6. con'[c] = r /\ con' \in [Consumer -> Call] /\ \A d \in Consumer \ {c} : con'[d] = con[d]
  BY <1>4, <1>5, OneMoves, Zenon DEF CallsInv
<1>7. Steps(c)
  BY <1>2, <1>5, <1>6, Zenon DEF Steps
<1>8. Mine(c)' = p
  BY <1>1, <1>5, <1>6, Zenon DEF Mine
<1>9. /\ headIndex' \in [Producer -> Nat] /\ dequeueOvercommit' \in [Producer -> Nat]
      /\ dequeueOptimisticCount' \in [Producer -> Nat]
  BY <1>1, <1>2 DEF CallsInv, CountsType, DeqClaim, Add1
<1>10. ASSUME Alone(c), QuietCall(c) PROVE QuietCall(c)'
  <2>1. dequeueOptimisticCount[p] = headIndex[p] + dequeueOvercommit[p]
    BY <1>1, <1>2, <1>10, QuietCounts, Zenon
  <2>2. PICK b, k : b = con[c].best /\ k = con[c].pos
    OBVIOUS
  <2>3. k > 0 => Passed(c, b)' /\ \A i \in 1 .. k - 1 : Passed(c, Producers[i])'
    BY <2>2, <1>2, <1>10, Zenon DEF QuietCall, Passed
  <2>4. (\A q \in Producer : seen'[c][q] <= tailIndex'[q]) /\ con[c].over = dequeueOvercommit[p]
    BY <1>1, <1>2, <1>10, Zenon DEF QuietCall
  <2> QED BY <2>1, <2>2, <2>3, <2>4, <1>2, <1>5, <1>6, <1>8, Zenon DEF QuietCall
<1> QED BY <1>7, <1>9, <1>10, ClaimInv, StepInv, Zenon

\* A call checks its ticket.
LEMMA CheckStep ==
  ASSUME CallsInv, NEW c \in Consumer, DeqCheck(c)
  PROVE  CallsInv'
<1>1. PICK p \in Producer : p = Mine(c) /\ con[c] \in Call
  BY MineIn, Zenon DEF CallsInv, DeqCheck
<1>2. /\ UNCHANGED <<tailIndex, headIndex, dequeueOptimisticCount, dequeueOvercommit, seen, quiet>>
      /\ con[c].pc = "check"
  BY Zenon DEF DeqCheck, counts
<1>3. /\ headIndex' \in [Producer -> Nat] /\ dequeueOptimisticCount' \in [Producer -> Nat]
      /\ dequeueOvercommit' \in [Producer -> Nat]
  BY <1>2, Zenon DEF CallsInv, CountsType
<1>4. PICK s \in {"head", "over"} :
        /\ CallIs(c, [con[c] EXCEPT !.pc = s])
        /\ s = "over" => ~(con[c].mine - con[c].over < tailIndex[p])
  BY <1>1, Zenon DEF DeqCheck
<1>r. PICK r : r = [con[c] EXCEPT !.pc = s] /\ CallIs(c, r)
  BY <1>4, Zenon
<1>5. r \in Call /\ r.pc = s /\ r.pos = con[c].pos /\ r.best = con[c].best
  BY <1>1, <1>r DEF Call, Busy
<1>6. con'[c] = r /\ con' \in [Consumer -> Call] /\ \A d \in Consumer \ {c} : con'[d] = con[d]
  BY <1>r, <1>5, OneMoves, Zenon DEF CallsInv
<1>7. Steps(c)
  BY <1>2, <1>5, <1>6, Zenon DEF Steps
<1>8. Mine(c)' = p
  BY <1>1, <1>5, <1>6, Zenon DEF Mine
<1>9. ASSUME QuietCall(c) PROVE QuietCall(c)'
  <2>1. PICK b, k : b = con[c].best /\ k = con[c].pos
    OBVIOUS
  <2>2. k > 0 => Passed(c, b)' /\ \A i \in 1 .. k - 1 : Passed(c, Producers[i])'
    BY <2>1, <1>2, <1>9, Zenon DEF QuietCall, Passed
  <2>3. (\A q \in Producer : seen'[c][q] <= tailIndex'[q]) /\ con[c].mine = headIndex[p] + con[c].over
    BY <1>1, <1>2, <1>9, Zenon DEF QuietCall
  <2>4. s = "over" => headIndex[p] >= seen[c][p]
    <3>1. headIndex[p] \in Nat /\ tailIndex[p] \in Nat /\ seen[c][p] \in Nat /\ con[c].over \in Nat
      BY <1>1 DEF CallsInv, CountsType, Call
    <3>2. seen[c][p] <= tailIndex[p]
      BY <1>9, Zenon DEF QuietCall
    <3> QED BY <3>1, <3>2, <2>3, <1>4
  <2>5. s = "over" => Passed(c, p)'
    BY <2>4, <1>2, Zenon DEF Passed
  <2> QED BY <2>1, <2>2, <2>3, <2>5, <1>5, <1>6, <1>8, Zenon DEF QuietCall
<1> QED BY <1>3, <1>7, <1>9, CheckInv, StepInv, Zenon

\* A call makes up for its claim and goes on.
LEMMA OverStep ==
  ASSUME CallsInv, NEW c \in Consumer, DeqOver(c)
  PROVE  CallsInv'
<1>1. /\ UNCHANGED <<tailIndex, headIndex, dequeueOptimisticCount, seen, quiet>>
      /\ con[c].pc = "over" /\ NextProducer(c)
  BY Zenon DEF DeqOver
<1>2. /\ headIndex' \in [Producer -> Nat] /\ dequeueOptimisticCount' \in [Producer -> Nat]
      /\ dequeueOvercommit' \in [Producer -> Nat]
  <2>1. Mine(c) \in Producer
    BY <1>1, MineIn, Zenon DEF CallsInv
  <2> QED BY <2>1, <1>1 DEF CallsInv, CountsType, DeqOver, Add1
<1>3. Steps(c)
  BY <1>1, NextProducerMoves, Zenon DEF Steps
<1>4. ASSUME QuietCall(c) PROVE QuietCall(c)'
  <2>1. Passed(c, Mine(c))
    BY <1>1, <1>4, Zenon DEF QuietCall
  <2> QED BY <2>1, <1>1, <1>4, NextQuiet, Zenon
<1> QED BY <1>2, <1>3, <1>4, OverInv, StepInv, Zenon


\* A call takes its index.
LEMMA HeadStep ==
  ASSUME CallsInv, NEW c \in Consumer, DeqHead(c)
  PROVE  CallsInv'
<1>1. Mine(c) \in Producer /\ con[c] \in Call
  BY MineIn, Zenon DEF CallsInv, DeqHead
<1>2. /\ UNCHANGED <<tailIndex, dequeueOptimisticCount, dequeueOvercommit, seen, quiet>>
      /\ con[c].pc = "head" /\ CallIs(c, [con[c] EXCEPT !.pc = "index"])
  BY Zenon DEF DeqHead
<1>3. /\ headIndex' \in [Producer -> Nat] /\ dequeueOptimisticCount' \in [Producer -> Nat]
      /\ dequeueOvercommit' \in [Producer -> Nat] /\ \A p \in Producer : headIndex[p] <= headIndex'[p]
  BY <1>1, <1>2 DEF CallsInv, CountsType, DeqHead, Add1
<1>4. PICK r : r = [con[c] EXCEPT !.pc = "index"] /\ CallIs(c, r)
  BY <1>2, Zenon
<1>5. r \in Call /\ r.pc = "index" /\ r.pos = con[c].pos /\ r.best = con[c].best
  BY <1>1, <1>4 DEF Call, Busy
<1>6. con'[c] = r /\ con' \in [Consumer -> Call] /\ \A d \in Consumer \ {c} : con'[d] = con[d]
  BY <1>4, <1>5, OneMoves, Zenon DEF CallsInv
<1>7. Steps(c)
  BY <1>2, <1>5, <1>6, Zenon DEF Steps
<1>8. ASSUME QuietCall(c) PROVE QuietCall(c)'
  BY <1>3, <1>5, <1>6, <1>7, <1>8, PlainQuiet, Zenon DEF CallsInv
<1> QED BY <1>3, <1>7, <1>8, HeadInv, StepInv, Zenon

\* A call that has its index, or has failed, does without the counts.
LEMMA LateStep ==
  ASSUME CallsInv, NEW c \in Consumer, con[c].pc \in {"index", "entry", "release", "failed"},
         NEW r, CallIs(c, r), 
         UNCHANGED <<tailIndex, headIndex, dequeueOptimisticCount, dequeueOvercommit, seen, quiet>>,
         \/ r = NoCall(con[c].calls)
         \/ r = [con[c] EXCEPT !.pc = "entry"] \/ r = [con[c] EXCEPT !.pc = "release"]
  PROVE  CallsInv'
<1>1. con[c] \in Call
  BY MineIn DEF CallsInv
<1>2. /\ r \in Call /\ r.pc \in {"idle", "entry", "release"}
      /\ r.pc # "idle" => r.pos = con[c].pos /\ r.best = con[c].best
  <2>1. CASE r = NoCall(con[c].calls)
    BY <1>1, <2>1, ListIn DEF Call, Busy, NoCall
  <2>2. CASE r = [con[c] EXCEPT !.pc = "entry"] \/ r = [con[c] EXCEPT !.pc = "release"]
    BY <1>1, <2>2 DEF Call, Busy
  <2> QED BY <2>1, <2>2
<1>3. con'[c] = r /\ con' \in [Consumer -> Call] /\ \A d \in Consumer \ {c} : con'[d] = con[d]
  BY <1>2, OneMoves, Zenon DEF CallsInv
<1>4. Steps(c)
  BY <1>2, <1>3, Zenon DEF Steps
<1>5. CountsInv'
  BY <1>2, <1>3, NoCountInv, Zenon DEF Claiming
<1>6. /\ headIndex' \in [Producer -> Nat] /\ dequeueOptimisticCount' \in [Producer -> Nat]
      /\ dequeueOvercommit' \in [Producer -> Nat]
  BY Zenon DEF CallsInv, CountsType
<1>7. \A p \in Producer : headIndex[p] <= headIndex'[p]
  BY DEF CallsInv, CountsType
<1>8. ASSUME QuietCall(c) PROVE QuietCall(c)'
  BY <1>2, <1>3, <1>4, <1>6, <1>7, <1>8, PlainQuiet, Zenon DEF CallsInv
<1> QED BY <1>4, <1>5, <1>6, <1>8, StepInv, Zenon

\* A call begins: with nobody else in one it is quiet, and it ends the quiet of
\* any other.
LEMMA CallStep ==
  ASSUME CallsInv, NEW c \in Consumer, try_dequeue(c)
  PROVE  CallsInv'
<1>1. /\ UNCHANGED <<tailIndex, headIndex, dequeueOptimisticCount, dequeueOvercommit>>
      /\ con[c].pc = "idle" /\ con[c] \in Call
  BY Zenon DEF try_dequeue, counts, CallsInv, CountsType
<1>2. CASE CallIs(c, NoCall(con[c].calls + 1)) /\ UNCHANGED <<seen, quiet>>
  <2>1. PICK r : r = NoCall(con[c].calls + 1) /\ CallIs(c, r)
    BY <1>2, Zenon
  <2>2. r \in Call /\ r.pc = "idle"
    BY <1>1, <2>1, ListIn DEF Call, Busy, NoCall
  <2>3. con'[c] = r /\ con' \in [Consumer -> Call] /\ \A d \in Consumer \ {c} : con'[d] = con[d]
    BY <2>1, <2>2, OneMoves, Zenon DEF CallsInv
  <2>4. CountsInv'
    BY <1>1, <2>2, <2>3, NoCountInv, Zenon DEF Claiming
  <2>5. CountsType'
    BY <1>1, <1>2, <2>2, <2>3, Zenon DEF CallsInv, CountsType
  <2>6. ASSUME NEW d \in Consumer, quiet'[d] PROVE Alone(d)' /\ QuietCall(d)'
    <3>1. Alone(d) /\ QuietCall(d)
      BY <1>2, <2>6, Zenon DEF CallsInv, QuietInv
    <3>2. Alone(d)'
      BY <3>1, <2>2, <2>3, Zenon DEF Alone
    <3>3. CASE d = c
      <4>1. \A p \in Producer : seen'[c][p] <= tailIndex'[p]
        BY <3>1, <3>3, <1>1, <1>2, Zenon DEF QuietCall
      <4> QED BY <4>1, <3>2, <3>3, <2>2, <2>3, Zenon DEF QuietCall
    <3>4. CASE d # c
      <4>1. con'[d] = con[d]
        BY <3>4, <2>3, Zenon
      <4> QED BY <4>1, <3>1, <3>2, <1>1, <1>2, Zenon DEF QuietCall, Passed, Mine
    <3> QED BY <3>3, <3>4
  <2> QED BY <2>4, <2>5, <2>6, Zenon DEF CallsInv, QuietInv
<1>3. ASSUME NEW best \in NonEmpty,
             CallIs(c, [con[c] EXCEPT !.pc = "load", !.best = best, !.pos = 0, !.calls = @ + 1]),
             seen' = [seen EXCEPT ![c] = tailIndex],
             quiet' = [d \in Consumer |-> d = c /\ \A e \in Consumer : con[e].pc = "idle"]
      PROVE  CallsInv'
  <2>1. PICK r : /\ r = [con[c] EXCEPT !.pc = "load", !.best = best, !.pos = 0, !.calls = @ + 1]
                 /\ CallIs(c, r)
    BY <1>3, Zenon
  <2>2. best \in Producer
    BY <1>3, Zenon DEF NonEmpty, Producer
  <2>3. r \in Call /\ r.pc = "load" /\ r.best = best /\ r.pos = 0
    <3>1. PICK n \in Nat : n = con[c].calls + 1
      BY <1>1 DEF Call
    <3>2. r = [con[c] EXCEPT !.pc = "load", !.best = best, !.pos = 0, !.calls = n]
      BY <2>1, <3>1, Zenon
    <3>3. 0 \in 0 .. Len(Producers)
      BY ListIn
    <3>4. r.pc = "load" /\ r.best = best /\ r.pos = 0
      BY <1>1, <3>2 DEF Call
    <3>5. r \in Call
      BY <1>1, <2>2, <3>2, <3>3, Zenon DEF Call, Busy
    <3> QED BY <3>4, <3>5
  <2>4. con'[c] = r /\ con' \in [Consumer -> Call] /\ \A d \in Consumer \ {c} : con'[d] = con[d]
    BY <2>1, <2>3, OneMoves, Zenon DEF CallsInv
  <2>5. CountsInv'
    BY <1>1, <2>3, <2>4, NoCountInv, Zenon DEF Claiming
  <2>6. seen' \in [Consumer -> [Producer -> Nat]] /\ quiet' \in [Consumer -> BOOLEAN] /\ seen'[c] = tailIndex
    BY <1>3 DEF CallsInv, CountsType
  <2>7. \A d \in Consumer : con'[d].pc # "idle" => con'[d].best \in Producer
    BY <2>2, <2>3, <2>4, Zenon DEF CallsInv, CountsType
  <2>8. CountsType'
    BY <1>1, <2>4, <2>6, <2>7, Zenon DEF CallsInv, CountsType
  <2>9. ASSUME NEW d \in Consumer, quiet'[d] PROVE Alone(d)' /\ QuietCall(d)'
    <3>1. d = c /\ \A e \in Consumer : con[e].pc = "idle"
      BY <1>3, <2>9, Zenon
    <3>2. Alone(c)'
      BY <3>1, <2>4, Zenon DEF Alone
    <3>3. \A p \in Producer : seen'[c][p] <= tailIndex'[p]
      BY <1>1, <2>6 DEF CallsInv, CountsType
    <3>4. ~(con'[c].pos > 0)
      BY <2>3, <2>4
    <3> QED BY <3>1, <3>2, <3>3, <3>4, <2>3, <2>4, Zenon DEF QuietCall
  <2> QED BY <2>5, <2>8, <2>9, Zenon DEF CallsInv, QuietInv
<1> QED BY <1>2, <1>3, Zenon DEF try_dequeue

\* An element is enqueued.
LEMMA EnqueueStep ==
  ASSUME CallsInv, NEW q \in Producer, tailIndex' = Add1(tailIndex, q),
         UNCHANGED <<headIndex, dequeueOptimisticCount, dequeueOvercommit, con, seen, quiet>>
  PROVE  CallsInv'
<1>1. tailIndex' \in [Producer -> Nat] /\ \A p \in Producer : tailIndex[p] <= tailIndex'[p]
  BY DEF CallsInv, CountsType, Add1
<1>2. CountsType'
  BY <1>1, Zenon DEF CallsInv, CountsType
<1>3. ASSUME NEW c \in Consumer, quiet'[c] PROVE Alone(c)' /\ QuietCall(c)'
  <2>1. Alone(c) /\ QuietCall(c)
    BY <1>3, Zenon DEF CallsInv, QuietInv
  <2>2. ASSUME NEW p \in Producer PROVE seen'[c][p] <= tailIndex'[p]
    <3>1. seen[c][p] <= tailIndex[p]
      BY <2>1, Zenon DEF QuietCall
    <3>2. seen[c][p] \in Nat /\ tailIndex[p] \in Nat /\ tailIndex'[p] \in Nat
      BY <1>1 DEF CallsInv, CountsType
    <3> QED BY <3>1, <3>2, <1>1
  <2> QED BY <2>1, <2>2, Zenon DEF Alone, QuietCall, Passed, Mine
<1> QED BY <1>2, <1>3, EnqueueInv, Zenon DEF CallsInv, QuietInv


\* A new queue satisfies the invariant.
LEMMA CallsInit == QueueInit => CallsInv
<1> SUFFICES ASSUME QueueInit PROVE CallsInv
  OBVIOUS
<1>1. /\ tailIndex = [p \in Producer |-> 0] /\ headIndex = [p \in Producer |-> 0]
      /\ dequeueOptimisticCount = [p \in Producer |-> 0] /\ dequeueOvercommit = [p \in Producer |-> 0]
      /\ con = [c \in Consumer |-> NoCall(0)]
      /\ seen = [c \in Consumer |-> [p \in Producer |-> 0]] /\ quiet = [c \in Consumer |-> FALSE]
  BY Zenon DEF QueueInit, Zero
<1>2. \A c \in Consumer : con[c] \in Call /\ con[c].pc = "idle"
  BY <1>1, ListIn DEF Call, NoCall
<1>3. CountsType
  <2>1. con \in [Consumer -> Call]
    BY <1>1, <1>2
  <2> QED BY <1>1, <1>2, <2>1 DEF CountsType
<1>4. ASSUME NEW p \in Producer PROVE Counted(p) /\ Booked(p)
  <2>1. ASSUME NEW S \in {Claiming, {"check"}, {"over"}, {"head"}, {"count", "claim"}} PROVE At(S, p) = {}
    BY <1>2, Zenon DEF At, In, Claiming
  <2>2. Cardinality({}) = 0
    BY FS_EmptySet
  <2>3. /\ dequeueOptimisticCount[p] = 0 /\ headIndex[p] = 0 /\ dequeueOvercommit[p] = 0 /\ tailIndex[p] = 0
    BY <1>1
  <2>4. Counted(p)
    <3>1. Cardinality(At(Claiming, p)) = 0
      BY <2>1, <2>2, Zenon
    <3> QED BY <3>1, <2>3 DEF Counted
  <2>5. Ledger(p, {}, {}, -1)
    <3>1. Cardinality(At({"over"}, p)) = 0 /\ Cardinality(At({"head"}, p)) = 0
      BY <2>1, <2>2, Zenon
    <3>2. Cardinality({} \cap (0 .. -1)) = 0
      <4>1. {} \cap (0 .. -1) = {}
        OBVIOUS
      <4> QED BY <4>1, <2>2, Zenon
    <3> QED BY <3>1, <3>2, <2>2, <2>3 DEF Ledger
  <2>6. Undecided(p, {}, {})
    BY <2>1, Zenon DEF Undecided
  <2>7. -1 \in Int /\ {} \in SUBSET Nat
    OBVIOUS
  <2> QED BY <2>4, <2>5, <2>6, <2>7, Zenon DEF Booked
<1>5. QuietInv
  BY <1>1, Zenon DEF QuietInv
<1> QED BY <1>3, <1>4, <1>5, Zenon DEF CallsInv, CountsInv

\* Every step keeps it.
LEMMA CallsNext == CallsInv /\ [QueueNext]_queueVars => CallsInv'
<1> SUFFICES ASSUME CallsInv, [QueueNext]_queueVars PROVE CallsInv'
  OBVIOUS
<1>1. ASSUME UNCHANGED <<tailIndex, headIndex, dequeueOptimisticCount, dequeueOvercommit, con, seen, quiet>>
      PROVE  CallsInv'
  <2>1. ASSUME NEW S, NEW p PROVE At(S, p)' = At(S, p)
    BY <1>1, Zenon DEF At, In, Mine
  <2>2. \A p \in Producer : Counted(p)' <=> Counted(p)
    BY <1>1, <2>1, Zenon DEF Counted
  <2>3. ASSUME NEW p \in Producer PROVE Booked(p)'
    <3>1. PICK given \in SUBSET Nat, won \in SUBSET Nat, m \in Int :
            Ledger(p, given, won, m) /\ Undecided(p, given, won)
      BY Zenon DEF CallsInv, CountsInv, Booked
    <3>2. Ledger(p, given, won, m)'
      BY <1>1, <2>1, <3>1, Zenon DEF Ledger
    <3>3. Undecided(p, given, won)'
      BY <1>1, <2>1, <3>1, Zenon DEF Undecided
    <3> QED BY <3>2, <3>3, Zenon DEF Booked
  <2>4. CountsType'
    BY <1>1, Zenon DEF CallsInv, CountsType
  <2>5. ASSUME NEW c \in Consumer PROVE (Alone(c)' <=> Alone(c)) /\ (QuietCall(c)' <=> QuietCall(c))
    BY <1>1, Zenon DEF Alone, QuietCall, Passed, Mine
  <2>6. QuietInv'
    BY <1>1, <2>5, Zenon DEF CallsInv, QuietInv
  <2> QED BY <2>2, <2>3, <2>4, <2>6, Zenon DEF CallsInv, CountsInv
<1>2. ASSUME NEW p \in Producer, EnqGrow(p) \/ insert_block_index_entry(p) PROVE CallsInv'
  BY <1>1, <1>2, Zenon DEF EnqGrow, insert_block_index_entry, counts
<1>3. ASSUME NEW p \in Producer, Enqueue(p) PROVE CallsInv'
  <2>1. /\ tailIndex' = Add1(tailIndex, p)
        /\ UNCHANGED <<headIndex, dequeueOptimisticCount, dequeueOvercommit, con, seen, quiet>>
    BY <1>3, Zenon DEF Enqueue
  <2> QED BY <2>1, EnqueueStep, Zenon
<1>4. ASSUME NEW c \in Consumer, DeqIndex(c) \/ DeqRead(c) \/ DeqRelease(c) \/ Failed(c)
      PROVE  CallsInv'
  <2>1. /\ con[c].pc \in {"index", "entry", "release", "failed"}
        /\ UNCHANGED <<tailIndex, headIndex, dequeueOptimisticCount, dequeueOvercommit, seen, quiet>>
        /\ \/ CallIs(c, NoCall(con[c].calls))
           \/ CallIs(c, [con[c] EXCEPT !.pc = "entry"]) \/ CallIs(c, [con[c] EXCEPT !.pc = "release"])
    <3>1. CASE DeqIndex(c)
      BY <3>1, Zenon DEF DeqIndex, counts
    <3>2. CASE DeqRead(c)
      BY <3>2, Zenon DEF DeqRead, Return, counts
    <3>3. CASE DeqRelease(c) \/ Failed(c)
      BY <3>3, Zenon DEF DeqRelease, Failed, Return, counts
    <3> QED BY <1>4, <3>1, <3>2, <3>3
  <2> QED BY <2>1, LateStep, Zenon
<1>5. ASSUME QueueNext PROVE CallsInv'
  <2>1. CASE \E p \in Producer :
               EnqGrow(p) \/ insert_block_index_entry(p) \/ Enqueue(p)
    BY <2>1, <1>2, <1>3, Zenon
  <2>2. ASSUME NEW c \in Consumer,
               \/ try_dequeue(c) \/ DeqLoad(c) \/ DeqCount(c) \/ DeqClaim(c)
               \/ DeqCheck(c) \/ DeqOver(c) \/ DeqHead(c) \/ DeqIndex(c)
               \/ DeqRead(c) \/ DeqRelease(c) \/ Failed(c)
        PROVE  CallsInv'
    BY <2>2, <1>4, CallStep, LoadStep, CountStep, ClaimStep, CheckStep, OverStep, HeadStep, Zenon
  <2> QED BY <1>5, <2>1, <2>2, Zenon DEF QueueNext
<1>6. CASE UNCHANGED queueVars
  BY <1>1, <1>6, Zenon DEF queueVars, counts
<1> QED BY <1>5, <1>6

\* concurrentqueue.h, for any producers, consumers, blocks and numbers of elements and
\* calls: a consumer that dequeue's counts tell there is an element is given an index
\* that was enqueued, and one that is alone is told there is none only when all that
\* was there when it called was taken.
THEOREM CountsTellRight == QueueSpec => []CallsToldRight
<1>1. CallsInv => CallsToldRight
  <2> SUFFICES ASSUME CallsInv PROVE GuaranteedElement /\ QuietCallSeesAll
    BY Zenon DEF CallsToldRight
  <2>1. ASSUME NEW p \in Producer
        PROVE  headIndex[p] + Cardinality(At({"head"}, p)) <= tailIndex[p]
    <3>1. PICK given \in SUBSET Nat, won \in SUBSET Nat, m \in Int :
            Ledger(p, given, won, m) /\ Undecided(p, given, won)
      BY Zenon DEF CallsInv, CountsInv, Booked
    <3>2. /\ won \subseteq 0 .. m /\ given \cap won = {} /\ m \in -1 .. dequeueOptimisticCount[p] - 1
          /\ Cardinality(won) = headIndex[p] + Cardinality(At({"head"}, p))
          /\ m + 1 - Cardinality(given \cap (0 .. m)) <= tailIndex[p]
      BY <3>1, Zenon DEF Ledger
    <3>3. m >= -1 /\ tailIndex[p] \in Nat
      <4>1. dequeueOptimisticCount[p] \in Nat /\ tailIndex[p] \in Nat
        BY DEF CallsInv, CountsType
      <4> QED BY <4>1, <3>2
    <3>4. IsFiniteSet(0 .. m) /\ Cardinality(0 .. m) = m + 1
      <4>1. 0 \in Int
        OBVIOUS
      <4>2. IsFiniteSet(0 .. m) /\ Cardinality(0 .. m) = IF 0 > m THEN 0 ELSE m - 0 + 1
        BY <4>1, FS_Interval, Zenon
      <4> QED BY <4>2, <3>3
    <3>5. (0 .. m) \cap given = given \cap (0 .. m) /\ won \subseteq (0 .. m) \ given
      BY <3>2, Zenon
    <3>6. /\ IsFiniteSet((0 .. m) \ given)
          /\ Cardinality((0 .. m) \ given) = Cardinality(0 .. m) - Cardinality((0 .. m) \cap given)
      BY <3>4, FS_Difference, Zenon
    <3>7. Cardinality(won) <= Cardinality((0 .. m) \ given) /\ IsFiniteSet(won)
      BY <3>5, <3>6, FS_Subset, Zenon
    <3>8. /\ Cardinality(given \cap (0 .. m)) \in Nat
          /\ Cardinality((0 .. m) \ given) = (m + 1) - Cardinality(given \cap (0 .. m))
      BY <3>4, <3>5, <3>6, BelowType, Zenon
    <3>9. Cardinality(won) \in Nat
      BY <3>7, FS_CardinalityType, Zenon
    <3>10. Cardinality(won) <= tailIndex[p]
      BY <3>2, <3>3, <3>7, <3>8, <3>9
    <3> QED BY <3>2, <3>10, Zenon
  <2>2. ASSUME NEW c \in Consumer, con[c].pc = "head"
        PROVE  headIndex[Mine(c)] < tailIndex[Mine(c)]
    <3>1. PICK p \in Producer : p = Mine(c)
      BY <2>2, MineIn, Zenon DEF CallsInv
    <3>2. c \in At({"head"}, p)
      BY <2>2, <3>1, Zenon DEF At, In
    <3>3. IsFiniteSet(At({"head"}, p))
      BY ListAssumption, FS_Subset DEF At
    <3>4. Cardinality(At({"head"}, p)) \in Nat /\ Cardinality(At({"head"}, p)) # 0
      BY <3>2, <3>3, FS_CardinalityType, FS_EmptySet, Zenon
    <3>5. headIndex[p] \in Nat /\ tailIndex[p] \in Nat
      BY DEF CallsInv, CountsType
    <3> QED BY <2>1, <3>1, <3>4, <3>5
  <2>3. GuaranteedElement
    BY <2>2, Zenon DEF GuaranteedElement
  <2>4. QuietCallSeesAll
    BY Zenon DEF CallsInv, QuietInv, QuietCall, Passed, QuietCallSeesAll, Producer
  <2> QED BY <2>3, <2>4
<1> QED BY CallsInit, CallsNext, <1>1, PTL DEF QueueSpec
=============================================================================
