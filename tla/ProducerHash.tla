---------------------------- MODULE ProducerHash ----------------------------
(***************************************************************************)
(* How a thread that enqueues finds its producer (src/concurrentqueue.h,   *)
(* get_or_add_implicit_producer): lock-free hash tables keyed by thread    *)
(* id, the bigger ones published in front of the smaller ones, entries     *)
(* copied forward when their thread next looks, and entries and producers  *)
(* of threads that exited taken over by others.                            *)
(*                                                                         *)
(* A thread's own key is written by that thread alone and a slot never     *)
(* becomes empty again, so a walk along one table is one step.             *)
(***************************************************************************)
EXTENDS Naturals, FiniteSets, Sequences, TLC

CONSTANTS Thread, HashedId,                     \* thread -> hash_thread_id
          INITIAL_IMPLICIT_PRODUCER_HASH_SIZE,  \* a power of 2
          MaxLooks                              \* bound: calls and exits of all threads

VARIABLES tables,     \* the published tables, the last one in front
          count,      \* implicitProducerHashCount
          resizing,   \* implicitProducerHashResizeInProgress
          inactive,   \* producer -> inactive; the producers are 1, 2, ... as they are listed
          me,         \* thread -> its step and its locals
          looks       \* calls and exits so far

vars == <<tables, count, resizing, inactive, me, looks>>

invalid == "invalid_thread_id"
invalid2 == "invalid_thread_id2"
Table(cap) == [i \in 0..cap - 1 |-> [key |-> invalid, value |-> 0]]
Capacity(h) == Cardinality(DOMAIN h)

Init == /\ tables = <<Table(INITIAL_IMPLICIT_PRODUCER_HASH_SIZE)>>
        /\ count = 0 /\ resizing = FALSE /\ inactive = <<>> /\ looks = 0
        /\ me = [t \in Thread |-> [pc |-> "out", main |-> 0, newCount |-> 0, mine |-> 0]]

Go(t, locals) == me' = [me EXCEPT ![t] = locals @@ @]

\* The slots of table h that thread t probes, in order, before it meets one
\* whose key is in stop
Probe(h, t, k) == (HashedId[t] + k) % Capacity(h)
FirstAt(h, t, stop) ==
  LET hits == {k \in 0..Capacity(h) - 1 : h[Probe(h, t, k)].key \in stop}
  IN Probe(h, t, CHOOSE k \in hits : \A j \in hits : k <= j)
\* The slot that has t's key; the walk stops at an empty slot
Finds(h, t) == h[FirstAt(h, t, {t, invalid})].key = t

In(t, n) == {k \in 1..n : Finds(tables[k], t)}

\* get_or_add_implicit_producer: the newest table that has the thread's id
Look(t) ==
  LET n == Len(tables)
      k == CHOOSE j \in In(t, n) : \A i \in In(t, n) : i <= j
  IN /\ me[t].pc \in {"out", "in"} /\ looks < MaxLooks
     /\ IF In(t, n) = {}
        THEN /\ count' = count + 1
             /\ Go(t, [pc |-> "insert", main |-> n, newCount |-> count + 1])
        ELSE /\ count' = count
             /\ Go(t, [pc |-> IF k = n THEN "in" ELSE "copy", main |-> IF k = n THEN 0 ELSE n,
                       mine |-> tables[k][FirstAt(tables[k], t, {t})].value])
     /\ looks' = looks + 1 /\ UNCHANGED <<tables, resizing, inactive>>

Put(k, i, t, value) == tables' = [tables EXCEPT ![k][i] = [key |-> t, value |-> value]]

\* Found in an older table: copied to the one in front
Copy(t) ==
  /\ me[t].pc = "copy"
  /\ Put(me[t].main, FirstAt(tables[me[t].main], t, {invalid, invalid2}), t, me[t].mine)
  /\ Go(t, [pc |-> "in", main |-> 0])
  /\ UNCHANGED <<count, resizing, inactive, looks>>

HalfFull(t, h) == me[t].newCount >= Capacity(h) \div 2

\* The capacity doubled until the threads counted fill less than half of it
Doubled(cap, n) == cap * 2^(CHOOSE k \in 1..n + 1 : n < (cap * 2^k) \div 2 /\ \A j \in 1..k - 1 : n >= (cap * 2^j) \div 2)

LockResize(t) ==
  /\ me[t].pc = "insert" /\ HalfFull(t, tables[me[t].main]) /\ ~resizing
  /\ resizing' = TRUE
  /\ Go(t, [pc |-> "resize"])
  /\ UNCHANGED <<tables, count, inactive, looks>>

\* With the lock: the table in front, or a bigger one put in front of it
Resize(t) ==
  LET front == tables[Len(tables)]
  IN /\ me[t].pc = "resize"
     /\ tables' = IF HalfFull(t, front) THEN Append(tables, Table(Doubled(Capacity(front), me[t].newCount)))
                  ELSE tables
     /\ resizing' = FALSE
     /\ Go(t, [pc |-> "place", main |-> Len(tables')])
     /\ UNCHANGED <<count, inactive, looks>>

\* Past the resize: done, not needed, or another thread's
Placing(t) == \/ me[t].pc = "place"
              \/ me[t].pc = "insert" /\ (HalfFull(t, tables[me[t].main]) => resizing)
Fits(t) == LET c == Capacity(tables[me[t].main]) IN me[t].newCount < (c \div 2) + (c \div 4)

\* (mutant) an inactive producer is taken without marking it
recycle_or_create_producerShared(t) ==
  /\ Placing(t) /\ Fits(t)
  /\ \/ \E p \in {q \in DOMAIN inactive : inactive[q]} :
          inactive' = inactive /\ Go(t, [pc |-> "store", mine |-> p])
     \/ /\ \A p \in DOMAIN inactive : ~inactive[p]
        /\ inactive' = Append(inactive, FALSE) /\ Go(t, [pc |-> "store", mine |-> Len(inactive')])
  /\ UNCHANGED <<tables, count, resizing, looks>>
\* recycle_or_create_producer: a producer whose thread has exited is claimed
\* with a compare-and-swap, else a new one is put on the list
recycle_or_create_producer(t) ==
  /\ Placing(t) /\ Fits(t)
  /\ \/ \E p \in {q \in DOMAIN inactive : inactive[q]} :
          inactive' = [inactive EXCEPT ![p] = FALSE] /\ Go(t, [pc |-> "store", mine |-> p])
     \/ /\ \A p \in DOMAIN inactive : ~inactive[p]
        /\ inactive' = Append(inactive, FALSE) /\ Go(t, [pc |-> "store", mine |-> Len(inactive')])
  /\ UNCHANGED <<tables, count, resizing, looks>>

\* The table is quite full and somebody else is busy allocating a new one
Wait(t) ==
  /\ Placing(t) /\ ~Fits(t)
  /\ Go(t, [pc |-> "insert", main |-> Len(tables)])
  /\ UNCHANGED <<tables, count, resizing, inactive, looks>>

\* A reusable slot was counted already
Store(t) ==
  LET h == tables[me[t].main]
      i == FirstAt(h, t, {invalid, invalid2})
  IN /\ me[t].pc = "store"
     /\ count' = IF h[i].key = invalid2 THEN count - 1 ELSE count
     /\ Put(me[t].main, i, t, me[t].mine)
     /\ Go(t, [pc |-> "in", newCount |-> 0, main |-> 0])
     /\ UNCHANGED <<resizing, inactive, looks>>

\* implicit_producer_thread_exited: the thread leaves table after table, then
\* lets its producer be taken over
Exit(t) ==
  /\ me[t].pc = "in" /\ looks < MaxLooks
  /\ Go(t, [pc |-> "leave", main |-> Len(tables)])
  /\ looks' = looks + 1 /\ UNCHANGED <<tables, count, resizing, inactive>>

Leave(t) ==
  LET h == tables[me[t].main]
  IN /\ me[t].pc = "leave" /\ me[t].main > 0
     /\ tables' = IF Finds(h, t) THEN [tables EXCEPT ![me[t].main][FirstAt(h, t, {t})].key = invalid2] ELSE tables
     /\ Go(t, [main |-> me[t].main - 1])
     /\ UNCHANGED <<count, resizing, inactive, looks>>

Recyclable(t) ==
  /\ me[t].pc = "leave" /\ me[t].main = 0
  /\ inactive' = [inactive EXCEPT ![me[t].mine] = TRUE]
  /\ Go(t, [pc |-> "out", mine |-> 0])
  /\ UNCHANGED <<tables, count, resizing, looks>>

Next == \E t \in Thread :
  \/ Look(t) \/ Copy(t) \/ LockResize(t) \/ Resize(t)
  \/ recycle_or_create_producer(t) \/ Wait(t) \/ Store(t) \/ Exit(t) \/ Leave(t) \/ Recyclable(t)

Spec == Init /\ [][Next]_vars

-----------------------------------------------------------------------------
(***************************************************************************)
(* No two threads enqueue through the same producer, whose enqueue has no  *)
(* protection against a second writer: a thread's lookups give the         *)
(* producer it was given first, and a producer changes hands only after    *)
(* its thread has left every table.  Every table keeps an empty slot, at   *)
(* which the walk of a thread that is not in it stops.                     *)
(***************************************************************************)
OneProducerEach ==
  /\ \A t \in Thread : me[t].mine # 0 =>
       /\ ~inactive[me[t].mine]
       /\ \A u \in Thread \ {t} : me[u].mine # me[t].mine
       /\ me[t].pc \in {"in", "copy"} =>
            /\ In(t, Len(tables)) # {}
            /\ \A k \in In(t, Len(tables)) : tables[k][FirstAt(tables[k], t, {t})].value = me[t].mine
  /\ \A k \in DOMAIN tables : \E i \in DOMAIN tables[k] : tables[k][i].key = invalid  
=============================================================================
