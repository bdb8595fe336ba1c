-------------------------- MODULE ConcurrentQueue --------------------------
(***************************************************************************)
(* The queue behind AtomicAccessControl (src/concurrentqueue.h): one       *)
(* stream of blocks for each thread that enqueues (ImplicitProducer),      *)
(* found again by consumers through a ring of index entries that the       *)
(* producer reuses or doubles, and blocks that the consumer of their last  *)
(* element hands to the next producer.                                     *)
(*                                                                         *)
(* A step is one access that another thread can notice; accesses nobody    *)
(* can tell apart are one step.  Indices do not wrap here: 2^64 of them.   *)
(* The list of spare blocks is a set (module FreeList has its steps), and  *)
(* the producers are those of module ProducerHash, in list order.          *)
(***************************************************************************)
EXTENDS Integers, FiniteSets, Sequences, TLC

CONSTANTS Producers,  \* producerListTail: the sequence of producers
          Sends,      \* producer -> bound: elements it enqueues
          Consumer, MaxCalls,      \* bound: calls of try_dequeue by each consumer
          BLOCK_SIZE, IMPLICIT_INITIAL_INDEX_SIZE, initialBlockPoolSize

\* Every producer is in the list, and there are finitely many threads.
ASSUME ListAssumption ==
  /\ Producers \in Seq(DOMAIN Sends)
  /\ \A p \in DOMAIN Sends : \E i \in 1 .. Len(Producers) : Producers[i] = p
  /\ IsFiniteSet(Consumer)

VARIABLES tailIndex, headIndex, dequeueOptimisticCount, dequeueOvercommit,  \* of each producer
          ring,         \* producer -> its blocks and their index
          con,          \* consumer -> its step and locals of try_dequeue and dequeue
          found,        \* consumer -> its locals once it was given an index
          seen, quiet,  \* for QuietCallSeesAll: the tails when the consumer called, and
                        \* whether it has been the only one in a call since
          block, spare

counts == <<tailIndex, headIndex, dequeueOptimisticCount, dequeueOvercommit>>
queueVars == <<counts, ring, con, found, seen, quiet, block, spare>>

Producer == DOMAIN Sends
None == 0
INVALID_BLOCK_BASE == -1
Entry == [key |-> INVALID_BLOCK_BASE, value |-> None]

\* A header of the block index: a ring of positions in entries
Header(index, tail) == [capacity |-> Len(index), tail |-> tail, index |-> index]
Slot(h, i) == h.index[1 + (i % h.capacity)]

\* The first header has nothing before its slot 0: its tail is the last slot.
\* A later one takes the slots of the one before, oldest first, and as many
\* new ones
new_block_index(q) ==
  LET n == IF q.headers = <<>> THEN 0 ELSE q.headers[Len(q.headers)].capacity
      h == q.headers[Len(q.headers)]
      more == IF n = 0 THEN IMPLICIT_INITIAL_INDEX_SIZE ELSE n
      kept == [i \in 1..n |-> Slot(h, h.tail + i)]
  IN [q EXCEPT !.entries = @ \o [i \in 1..more |-> Entry],
               !.headers = Append(@, Header(kept \o [i \in 1..more |-> Len(q.entries) + i],
                                            IF n = 0 THEN more - 1 ELSE n - 1))]

\* best: the producer tried first; pos: 0 while it is, then the place in the list
NoCall(calls) == [pc |-> "idle", best |-> 0, pos |-> 0, tail |-> 0, over |-> 0, mine |-> 0, calls |-> calls]
NotFound == [index |-> -1, header |-> 0, at |-> 0, entry |-> 0, block |-> None]
Zero == [p \in Producer |-> 0]

QueueInit ==
  /\ tailIndex = Zero /\ headIndex = Zero /\ dequeueOptimisticCount = Zero /\ dequeueOvercommit = Zero
  /\ ring = [p \in Producer |-> new_block_index([tailBlock |-> None, entries |-> <<>>, headers |-> <<>>,
                                                 pc |-> "idle"])]
  /\ con = [c \in Consumer |-> NoCall(0)]
  /\ found = [c \in Consumer |-> NotFound]
  /\ seen = [c \in Consumer |-> Zero] /\ quiet = [c \in Consumer |-> FALSE]
  /\ block = [b \in 1..initialBlockPoolSize |-> [elements |-> <<>>, dequeued |-> 0]]
  /\ spare = {}

R(p, q) == ring' = [ring EXCEPT ![p] = q]
CallIs(c, locals) == con' = [con EXCEPT ![c] = locals]
Add1(count, p) == [count EXCEPT ![p] = @ + 1]

-----------------------------------------------------------------------------
\* enqueue, by the producer's thread
Current(q) == q.headers[Len(q.headers)]
NextEntry(q) == Slot(Current(q), Current(q).tail + 1)
\* (mutant) an entry is used again while its block still has elements
ReusableEarly(e) == TRUE
Reusable(e) == e.key = INVALID_BLOCK_BASE \/ e.value = None
NeedsBlock(p) == /\ ring[p].pc = "idle" /\ tailIndex[p] < Sends[p]
                 /\ tailIndex[p] % BLOCK_SIZE = 0

\* No room in the ring: a bigger one is published
EnqGrow(p) ==
  /\ NeedsBlock(p) /\ ~Reusable(ring[p].entries[NextEntry(ring[p])])
  /\ R(p, new_block_index(ring[p]))
  /\ UNCHANGED <<counts, con, found, seen, quiet, block, spare>>

insert_block_index_entry(p) ==
  LET q == ring[p]
  IN /\ NeedsBlock(p) /\ Reusable(q.entries[NextEntry(q)])
     /\ R(p, [q EXCEPT !.entries[NextEntry(q)].key = tailIndex[p],
                       !.headers[Len(q.headers)].tail = (@ + 1) % Current(q).capacity, !.pc = "block"])
     /\ UNCHANGED <<counts, con, found, seen, quiet, block, spare>>

\* requisition_block: one of the initial pool, a spare one or a new one
Fresh == {b \in DOMAIN block : block[b].elements = <<>>}
Candidates == IF Fresh # {} THEN Fresh ELSE IF spare # {} THEN spare ELSE {Cardinality(DOMAIN block) + 1}

\* Nobody looks at the block, the element or the entry's value before the
\* new tail is stored
Enqueue(p) ==
  LET q == ring[p]
      put(e) == [e EXCEPT !.elements[1 + (tailIndex[p] % BLOCK_SIZE)] = <<p, tailIndex[p]>>]
      empty == [elements |-> [i \in 1..BLOCK_SIZE |-> <<>>], dequeued |-> 0]
  IN /\ \/ /\ q.pc = "block"
           /\ \E b \in Candidates :
                /\ \A a \in Fresh : b <= a
                /\ spare' = spare \ {b}
                /\ block' = (b :> put(empty)) @@ block
                /\ R(p, [q EXCEPT !.entries[Slot(Current(q), Current(q).tail)].value = b,
                                  !.tailBlock = b, !.pc = "idle"])
        \/ /\ q.pc = "idle" /\ tailIndex[p] < Sends[p] /\ tailIndex[p] % BLOCK_SIZE # 0
           /\ block' = [block EXCEPT ![q.tailBlock] = put(@)]
           /\ UNCHANGED <<ring, spare>>
     /\ tailIndex' = Add1(tailIndex, p)
     /\ UNCHANGED <<headIndex, dequeueOptimisticCount, dequeueOvercommit, con, found, seen, quiet>>

-----------------------------------------------------------------------------
\* try_dequeue: a producer that looks the fullest is tried, then all the
\* others.  The sizes are read at different times: any that is not empty may
\* look the fullest
size_approx(p) == IF headIndex[p] < tailIndex[p] THEN tailIndex[p] - headIndex[p] ELSE 0
NonEmpty == {p \in Producer : size_approx(p) > 0}

try_dequeue(c) ==
  /\ con[c].pc = "idle" /\ con[c].calls < MaxCalls
  /\ \/ /\ NonEmpty = {}
        /\ CallIs(c, NoCall(con[c].calls + 1))
        /\ UNCHANGED <<seen, quiet>>
     \/ \E best \in NonEmpty :
          /\ CallIs(c, [con[c] EXCEPT !.pc = "load", !.best = best, !.pos = 0, !.calls = @ + 1])
          /\ seen' = [seen EXCEPT ![c] = tailIndex]
          /\ quiet' = [d \in Consumer |-> d = c /\ \A e \in Consumer : con[e].pc = "idle"]
  /\ UNCHANGED <<counts, ring, found, block, spare>>

Mine(c) == IF con[c].pos = 0 THEN con[c].best ELSE Producers[con[c].pos]

\* dequeue returns false: the next producer in the list but the first one tried
Later(c) == {i \in con[c].pos + 1 .. Len(Producers) : Producers[i] # con[c].best}
NextProducer(c) ==
  \/ Later(c) = {} /\ CallIs(c, [con[c] EXCEPT !.pc = "failed"])
  \/ \E i \in Later(c) : (\A j \in Later(c) : i <= j) /\ CallIs(c, [con[c] EXCEPT !.pc = "load", !.pos = i])

\* ImplicitProducer::dequeue.  The overcommit is read before the count
DeqLoad(c) ==
  /\ con[c].pc = "load"
  /\ CallIs(c, [con[c] EXCEPT !.pc = "count", !.tail = tailIndex[Mine(c)], !.over = dequeueOvercommit[Mine(c)]])
  /\ UNCHANGED <<counts, ring, found, seen, quiet, block, spare>>

DeqCount(c) ==
  /\ con[c].pc = "count"
  /\ IF dequeueOptimisticCount[Mine(c)] - con[c].over < con[c].tail
     THEN CallIs(c, [con[c] EXCEPT !.pc = "claim"]) ELSE NextProducer(c)
  /\ UNCHANGED <<counts, ring, found, seen, quiet, block, spare>>

DeqClaim(c) ==
  /\ con[c].pc = "claim"
  /\ CallIs(c, [con[c] EXCEPT !.pc = "check", !.mine = dequeueOptimisticCount[Mine(c)]])
  /\ dequeueOptimisticCount' = Add1(dequeueOptimisticCount, Mine(c))
  /\ UNCHANGED <<tailIndex, headIndex, dequeueOvercommit, ring, found, seen, quiet, block, spare>>

DeqCheck(c) ==
  /\ con[c].pc = "check"
  /\ IF con[c].mine - con[c].over < tailIndex[Mine(c)]
     THEN CallIs(c, [con[c] EXCEPT !.pc = "head"]) ELSE CallIs(c, [con[c] EXCEPT !.pc = "over"])
  /\ UNCHANGED <<counts, ring, found, seen, quiet, block, spare>>

\* (mutant) the count is not made up for
DeqOverForgotten(c) ==
  /\ con[c].pc = "over"
  /\ NextProducer(c)
  /\ UNCHANGED <<counts, ring, found, seen, quiet, block, spare>>
DeqOver(c) ==
  /\ con[c].pc = "over"
  /\ dequeueOvercommit' = Add1(dequeueOvercommit, Mine(c))
  /\ NextProducer(c)
  /\ UNCHANGED <<tailIndex, headIndex, dequeueOptimisticCount, ring, found, seen, quiet, block, spare>>

DeqHead(c) ==
  /\ con[c].pc = "head"
  /\ CallIs(c, [con[c] EXCEPT !.pc = "index"])
  /\ found' = [found EXCEPT ![c].index = headIndex[Mine(c)]]
  /\ headIndex' = Add1(headIndex, Mine(c))
  /\ UNCHANGED <<tailIndex, dequeueOptimisticCount, dequeueOvercommit, ring, seen, quiet, block, spare>>

\* get_block_index_index_for_index: the header and its tail, then the entry,
\* counted back from the tail by the number of blocks between
DeqIndex(c) ==
  /\ con[c].pc = "index"
  /\ CallIs(c, [con[c] EXCEPT !.pc = "entry"])
  /\ found' = [found EXCEPT ![c].header = Len(ring[Mine(c)].headers), ![c].at = Current(ring[Mine(c)]).tail]
  /\ UNCHANGED <<counts, ring, seen, quiet, block, spare>>

Base(i) == i - (i % BLOCK_SIZE)

\* The entry that the consumer will use, as it is now
EntryOf(c) ==
  LET x == found[c]
      q == ring[Mine(c)]
      h == q.headers[x.header]
      back == (q.entries[Slot(h, x.at)].key - Base(x.index)) \div BLOCK_SIZE
  IN Slot(h, x.at - back)
ElementOf(c) == 1 + (found[c].index % BLOCK_SIZE)

\* try_dequeue returns
Return(c) == CallIs(c, NoCall(con[c].calls))

\* The element is moved out, destroyed and counted (set_empty), which nobody
\* else can tell apart; the last one of the block releases it
DeqRead(c) ==
  LET e == EntryOf(c)
      b == ring[Mine(c)].entries[e].value
  IN /\ con[c].pc = "entry"
     /\ block' = [block EXCEPT ![b].elements[ElementOf(c)] = <<>>, ![b].dequeued = @ + 1]
     /\ IF block[b].dequeued = BLOCK_SIZE - 1
        THEN /\ CallIs(c, [con[c] EXCEPT !.pc = "release"])
             /\ found' = [found EXCEPT ![c].entry = e, ![c].block = b]
        ELSE Return(c) /\ found' = [found EXCEPT ![c] = NotFound]
     /\ UNCHANGED <<counts, ring, seen, quiet, spare>>

\* The entry is given up, and the block becomes a spare one
DeqRelease(c) ==
  /\ con[c].pc = "release"
  /\ R(Mine(c), [ring[Mine(c)] EXCEPT !.entries[found[c].entry].value = None])
  /\ spare' = spare \cup {found[c].block}
  /\ Return(c) /\ found' = [found EXCEPT ![c] = NotFound]
  /\ UNCHANGED <<counts, seen, quiet, block>>

Failed(c) ==
  /\ con[c].pc = "failed" /\ Return(c)
  /\ UNCHANGED <<counts, ring, found, seen, quiet, block, spare>>

QueueNext ==
  \/ \E p \in Producer : EnqGrow(p) \/ insert_block_index_entry(p) \/ Enqueue(p)
  \/ \E c \in Consumer :
       \/ try_dequeue(c) \/ DeqLoad(c) \/ DeqCount(c) \/ DeqClaim(c) \/ DeqCheck(c) \/ DeqOver(c)
       \/ DeqHead(c) \/ DeqIndex(c) \/ DeqRead(c) \/ DeqRelease(c) \/ Failed(c)

QueueSpec == QueueInit /\ [][QueueNext]_queueVars

-----------------------------------------------------------------------------
(***************************************************************************)
(* A consumer that was given an index reads the element its producer wrote *)
(* there, whatever became of the ring meanwhile: the entry found by        *)
(* counting back has that index's block (the assertions of                 *)
(* get_block_index_index_for_index), nobody else read the element, and the *)
(* block is not a spare one.                                               *)
(***************************************************************************)
ElementInPlace ==
  \A c \in Consumer : con[c].pc = "entry" =>
    LET e == ring[Mine(c)].entries[EntryOf(c)] IN
    /\ e.key = Base(found[c].index)
    /\ e.value \in DOMAIN block \ spare
    /\ block[e.value].elements[ElementOf(c)] = <<Mine(c), found[c].index>>

(***************************************************************************)
(* Every block that was ever used is in exactly one place: a spare one,    *)
(* or in one entry of one producer's index.  So no block is lost, and none *)
(* is filled by two producers or stays indexed while it is a spare one.    *)
(***************************************************************************)
BlocksAccounted ==
  \A b \in DOMAIN block \ Fresh :
    Cardinality({e \in UNION {{p} \X DOMAIN ring[p].entries : p \in Producer} :
                   ring[e[1]].entries[e[2]].value = b}) = IF b \in spare THEN 0 ELSE 1

\* Both together: a consumer takes the element its index stands for, whatever blocks
\* are filled, emptied and used again meanwhile.
RightElement == ElementInPlace /\ BlocksAccounted

(***************************************************************************)
(* "Guaranteed to be at least one element to dequeue!" (dequeue): however  *)
(* many consumers claimed and took claims back, one that passed the check  *)
(* is given an index below the tail, an element that was enqueued.         *)
(***************************************************************************)
GuaranteedElement ==
  \A c \in Consumer : con[c].pc = "head" => headIndex[Mine(c)] < tailIndex[Mine(c)]

(***************************************************************************)
(* try_dequeue is told "empty" wrongly only while another consumer is in   *)
(* the middle of a call: when none is, a call fails only if everything     *)
(* that had been enqueued when it began was taken.  The counts that calls  *)
(* leave behind (dequeueOptimisticCount, dequeueOvercommit) never hide an  *)
(* element for good.                                                       *)
(***************************************************************************)
QuietCallSeesAll ==
  \A c \in Consumer :
    con[c].pc = "failed" /\ quiet[c] => \A p \in Producer : headIndex[p] >= seen[c][p]

\* What dequeue's counts tell a consumer is right, whether there is an element for
\* it or none.
CallsToldRight == GuaranteedElement /\ QuietCallSeesAll
=============================================================================
