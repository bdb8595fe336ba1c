---------------------------- MODULE AtomicQueue ----------------------------
(***************************************************************************)
(* AtomicAccessControl of queue.h: the counters that ConverseQueue (one    *)
(* consumer) and ConverseNodeQueue (several) keep beside a moodycamel      *)
(* queue so that an empty check costs one load.                            *)
(*                                                                         *)
(* Each atomic access is a step.  The moodycamel queue itself is external: *)
(* a set of messages <<producer, number>> from which a dequeue takes the   *)
(* oldest message of some producer.                                        *)
(***************************************************************************)
EXTENDS Integers, FiniteSets

CONSTANTS
    Producer,          \* threads that push
    Consumer,          \* threads that pop
    owner,             \* the PE whose thread queue it is, if it is one
    MaxPush            \* bound on the messages of one producer

ASSUME ConsumerAssumption ==
    /\ owner \in Consumer
    /\ IsFiniteSet(Producer) /\ IsFiniteSet(Consumer)
    /\ MaxPush \in Nat

VARIABLES
    kind,     \* ConverseQueue (thread) or ConverseNodeQueue (node)
    q,        \* messages enqueued and not dequeued
    pushed,   \* producers' counter
    taken,    \* consumers' counter
    credit,   \* single consumer: known pushed, not yet taken
    npush,    \* enqueues of each producer so far
    ppc,      \* producer: idle, or about to add to pushed
    cpc,      \* consumer: idle, between the loads, dequeuing, or counting
    seen      \* consumer's value of pushed between the loads

vars == <<kind, q, pushed, taken, credit, npush, ppc, cpc, seen>>

\* The template parameter.
kSingleConsumer == kind = "thread"

Msg == Producer \X (1 .. MaxPush)
Pushing == {p \in Producer : ppc[p] = "count"}
Counting == {c \in Consumer : cpc[c] = "count"}

TypeOK ==
    /\ kind \in {"thread", "node"}
    /\ q \subseteq Msg
    /\ pushed \in Nat /\ taken \in Nat /\ credit \in Nat
    /\ npush \in [Producer -> 0 .. MaxPush]
    /\ ppc \in [Producer -> {"idle", "count"}]
    /\ cpc \in [Consumer -> {"idle", "load", "deq", "count"}]
    /\ seen \in [Consumer -> Nat]

Init ==
    /\ kind \in {"thread", "node"}
    /\ q = {}
    /\ pushed = 0 /\ taken = 0 /\ credit = 0
    /\ npush = [p \in Producer |-> 0]
    /\ ppc = [p \in Producer |-> "idle"]
    /\ cpc = [c \in Consumer |-> "idle"]
    /\ seen = [c \in Consumer |-> 0]

-----------------------------------------------------------------------------
\* push: the enqueue, then the count.

Enqueue(p) ==
    /\ ppc[p] = "idle"
    /\ npush[p] < MaxPush
    /\ npush' = [npush EXCEPT ![p] = @ + 1]
    /\ q' = q \cup {<<p, npush[p] + 1>>}
    /\ ppc' = [ppc EXCEPT ![p] = "count"]
    /\ UNCHANGED <<pushed, taken, credit, cpc, seen>>

CountPush(p) ==
    /\ ppc[p] = "count"
    /\ pushed' = pushed + 1
    /\ ppc' = [ppc EXCEPT ![p] = "idle"]
    /\ UNCHANGED <<q, taken, credit, npush, cpc, seen>>

-----------------------------------------------------------------------------
\* pop_result, and available, which empty and size also call.

HasCredit == kSingleConsumer /\ credit > 0

\* available with credit left.
UseCredit(c) ==
    /\ cpc[c] = "idle"
    /\ HasCredit
    /\ cpc' = [cpc EXCEPT ![c] = "deq"]
    /\ UNCHANGED <<q, pushed, taken, credit, npush, ppc, seen>>

LoadPushed(c) ==
    /\ cpc[c] = "idle"
    /\ ~ HasCredit
    /\ seen' = [seen EXCEPT ![c] = pushed]
    /\ cpc' = [cpc EXCEPT ![c] = "load"]
    /\ UNCHANGED <<q, pushed, taken, credit, npush, ppc>>

\* (mutant) The last message does not count as available.
LoadTakenOffByOne(c) ==
    LET n == seen[c] - taken IN
    /\ cpc[c] = "load"
    /\ credit' = IF kSingleConsumer THEN (IF n > 1 THEN n ELSE 0) ELSE credit
    /\ cpc' = [cpc EXCEPT ![c] = IF n > 1 THEN "deq" ELSE "idle"]
    /\ UNCHANGED <<q, pushed, taken, npush, ppc, seen>>

\* The caller goes on to dequeue, or only wanted the count: then a single
\* consumer keeps the credit, and to several it makes no difference.
LoadTaken(c) ==
    LET n == seen[c] - taken IN
    /\ cpc[c] = "load"
    /\ credit' = IF kSingleConsumer THEN (IF n > 0 THEN n ELSE 0) ELSE credit
    /\ \/ cpc' = [cpc EXCEPT ![c] = IF n > 0 THEN "deq" ELSE "idle"]
       \/ /\ kSingleConsumer
          /\ cpc' = [cpc EXCEPT ![c] = "idle"]
    /\ UNCHANGED <<q, pushed, taken, npush, ppc, seen>>

Oldest == {m \in q : \A n \in q : n[1] = m[1] => m[2] <= n[2]}

Dequeue(c) ==
    /\ cpc[c] = "deq"
    /\ \E m \in Oldest : q' = q \ {m}
    /\ cpc' = [cpc EXCEPT ![c] = "count"]
    /\ UNCHANGED <<pushed, taken, credit, npush, ppc, seen>>

DequeueFails(c) ==
    /\ cpc[c] = "deq"
    /\ q = {}
    /\ credit' = IF kSingleConsumer THEN 0 ELSE credit
    /\ cpc' = [cpc EXCEPT ![c] = "idle"]
    /\ UNCHANGED <<q, pushed, taken, npush, ppc, seen>>

\* (mutant) A pop does not charge the credit.
CountTakenUncharged(c) ==
    /\ cpc[c] = "count"
    /\ taken' = taken + 1
    /\ cpc' = [cpc EXCEPT ![c] = "idle"]
    /\ UNCHANGED <<q, pushed, credit, npush, ppc, seen>>

CountTaken(c) ==
    /\ cpc[c] = "count"
    /\ taken' = taken + 1
    /\ credit' = IF kSingleConsumer THEN credit - 1 ELSE credit
    /\ cpc' = [cpc EXCEPT ![c] = "idle"]
    /\ UNCHANGED <<q, pushed, npush, ppc, seen>>

-----------------------------------------------------------------------------
Push(p) == Enqueue(p) \/ CountPush(p)

Pop(c) ==
    \/ UseCredit(c)
    \/ LoadPushed(c)
    \/ LoadTaken(c)
    \/ Dequeue(c)
    \/ DequeueFails(c)
    \/ CountTaken(c)

\* Only its PE pops a thread queue.
MayPop(c) == kSingleConsumer => c = owner

Next ==
    /\ \/ \E p \in Producer : Push(p)
       \/ \E c \in Consumer : MayPop(c) /\ Pop(c)
    /\ UNCHANGED kind

Spec == Init /\ [][Next]_vars

-----------------------------------------------------------------------------
\* The two counters account for every message: their difference is what is in
\* the queue, up to the pushes and pops between their two steps.
Balance ==
    Cardinality(q) + taken + Cardinality(Counting)
        = pushed + Cardinality(Pushing)

\* With one consumer a positive credit means the enqueues are visible (the
\* comment above AtomicAccessControl): once available said yes, the dequeue
\* cannot come back empty, and the credit never exceeds what is there.
CreditIsBacked ==
    kSingleConsumer =>
        /\ cpc[owner] = "deq" => q # {}
        /\ credit <= Cardinality(q) + Cardinality(Counting)
=============================================================================
