------------------------------- MODULE Mempool -------------------------------
(***************************************************************************)
(* The message pool of one PE (src/mempool.C) as the LCI backend uses it:  *)
(* the owner PE allocates, any PE of the process frees.  A block obtained  *)
(* from the system is tiled by slots whose sizes are powers of two; a      *)
(* request splits the first slot that is large enough, a free merges the   *)
(* slot with its free neighbours.  With +mempool_remote_free (the default) *)
(* a PE that does not own the pool pushes the slot on a lock-free stack    *)
(* that the owner empties at its next call.                                *)
(*                                                                         *)
(* The doubly linked lists are sequences: gprev/gnext is the sequence of   *)
(* a block's slots in address order, prev/next the free list of a power,   *)
(* block_prev/block_next the sequence of blocks.  The pool's lock makes a  *)
(* call one step; the stack is worked on without it, a read and a          *)
(* compare-and-swap at a time.                                             *)
(***************************************************************************)
EXTENDS Integers, FiniteSets, SequencesExt

CONSTANTS PE,          \* the PEs of the process
          Owner,       \* the one whose pool this is
          Requests,    \* the sizes asked of mempool_malloc, in bytes
          cutOffNum,   \* how many powers have a free list (24 in the source)
          InitSize,    \* mempool_init_size
          ExpandSize,  \* mempool_expand_size
          Limit,       \* mempool_max_size, or 0
          MaxMalloc,   \* bound: calls of mempool_malloc
          MaxFree      \* bound: slots given back

VARIABLES pool,  \* the mempool_type
          held,  \* what the program holds: slot -> the PE that holds it
          stack, \* remote_free: its head and the links in the slots' first words
          push,  \* PE -> its mempool_free_remote in progress
          mem,   \* the memory obtained from the system and not given back
          calls  \* calls so far, and whether +mempool_remote_free is on

vars == <<pool, held, stack, push, mem, calls>>

\* sizeof(block_header), sizeof(mempool_type), sizeof(used_header), large_block_header
BlockHdr == 240
PoolHdr  == 304
UsedHdr  == 64
LargeHdr == 48

Null == [b |-> 0, at |-> 0]

cutOffPoints(i) == 64 * 2^i

\* The least power that holds size; one too many if none does
which_pow2(size) ==
  LET fits == {i \in 0 .. cutOffNum : size <= cutOffPoints(i)}
  IN IF fits = {} THEN cutOffNum + 1 ELSE Min(fits)

Slot(at, p, st) == [at |-> at, p |-> p, st |-> st]

\* The free slots of as large a size as possible that cover left bytes from loc
Tile(loc, left) ==
  LET power == LET w == which_pow2(left) IN IF left < cutOffPoints(w) THEN w - 1 ELSE w
      Take(a, i) == IF a.left < cutOffPoints(i) THEN a
                    ELSE [slots |-> Append(a.slots, Slot(a.loc, i, 1)),
                          loc |-> a.loc + cutOffPoints(i), left |-> a.left - cutOffPoints(i)]
  IN FoldLeft(Take, [slots |-> <<>>, loc |-> loc, left |-> left],
              [k \in 1 .. power + 1 |-> power + 1 - k]).slots

Bytes(slots) == FoldLeft(LAMBDA a, s : a + cutOffPoints(s.p), 0, slots)

\* A free list per power; each new slot goes to the front of its own
PushFree(free, slots) ==
  [p \in DOMAIN free |->
     FoldLeft(LAMBDA l, s : IF s.p = p THEN <<s.at>> \o l ELSE l, free[p], slots)]

fillblock(id, size, taken) ==
  LET slots == Tile(taken, size - taken)
  IN [id |-> id, size |-> size, used |-> 0, slots |-> slots,
      free |-> PushFree([p \in 0 .. cutOffNum - 1 |-> <<>>], slots)]

\* The first power from p on with a free slot
Larger(b, p) == {q \in p .. cutOffNum - 1 : b.free[q] # <<>>}

\* A slot at loc of power q broken for a request of power p: two of power p
\* and one of each power between
Pieces(loc, p, q) ==
  <<Slot(loc, p, 1)>> \o [k \in 1 .. q - p |-> Slot(loc + cutOffPoints(p + k - 1), p + k - 1, 1)]

checkblock(b, p) ==
  LET q   == Min(Larger(b, p))
      loc == Head(b.free[q])
      k   == CHOOSE i \in DOMAIN b.slots : b.slots[i].at = loc
      new == Pieces(loc, p, q)
  IN IF q = p THEN b
     ELSE [b EXCEPT !.slots = SubSeq(@, 1, k - 1) \o new \o SubSeq(@, k + 1, Len(@)),
                    !.free  = [i \in DOMAIN @ |->
                       CASE i = p -> <<loc, loc + cutOffPoints(p)>>
                         [] i > p /\ i < q -> <<loc + cutOffPoints(i)>>
                         [] i = q -> Tail(@[i])
                         [] OTHER -> @[i]]]

\* Blocks freed while the pool is larger than its limit: those whose count is
\* zero (used is a size_t, so <= 0 is = 0), the pool's own block excepted.
Removable(b) == b.used = 0
removeblocks(m) ==
  LET Visit(a, b) == IF a.done \/ ~Removable(b) THEN [a EXCEPT !.kept = Append(@, b)]
                     ELSE [kept |-> a.kept, size |-> a.size - b.size, done |-> a.size - b.size < Limit]
      r == FoldLeft(Visit, [kept |-> <<Head(m.blocks)>>, size |-> m.size, done |-> FALSE], Tail(m.blocks))
  IN [m EXCEPT !.blocks = r.kept, !.size = r.size]

\* The free neighbourhood of slot k: the indices of its first and last slot
Run(slots, k) ==
  LET lo == Min({j \in 1 .. k : \A i \in j .. k - 1 : slots[i].st = 1})
      hi == Max({j \in k .. Len(slots) : \A i \in k + 1 .. j : slots[i].st = 1})
  IN <<lo, hi>>

\* A slot of an ordinary block: its neighbourhood leaves the free lists and
\* comes back as the largest slots that cover it
FreeSlot(b, at) ==
  LET k    == CHOOSE i \in DOMAIN b.slots : b.slots[i].at = at
      r    == Run(b.slots, k)
      run  == SubSeq(b.slots, r[1], r[2])
      gone == {run[i].at : i \in DOMAIN run}
      new  == Tile(run[1].at, Bytes(run))
  IN [b EXCEPT !.used  = @ - cutOffPoints(b.slots[k].p),
               !.slots = SubSeq(@, 1, r[1] - 1) \o new \o SubSeq(@, r[2] + 1, Len(@)),
               !.free  = PushFree([p \in DOMAIN @ |-> SelectSeq(@[p], LAMBDA a : a \notin gone)], new)]

IsLarge(m, s) == \E i \in DOMAIN m.large : m.large[i].id = s.b

mempool_free(m, s) ==
  IF IsLarge(m, s)
  THEN LET i == CHOOSE j \in DOMAIN m.large : m.large[j].id = s.b
       IN [m EXCEPT !.large = RemoveAt(@, i), !.size = @ - m.large[i].size]
  ELSE [m EXCEPT !.blocks = [i \in DOMAIN @ |-> IF @[i].id = s.b THEN FreeSlot(@[i], s.at) ELSE @[i]]]

\* The slots on the stack, from the head along the links
Stacked == LET walk[n \in 0 .. Cardinality(DOMAIN stack.link)] ==
                 IF n = 0 THEN <<stack.head>>
                 ELSE LET l == walk[n - 1]
                      IN IF Last(l) \in DOMAIN stack.link THEN Append(l, stack.link[Last(l)]) ELSE l
           IN SelectSeq(walk[Cardinality(DOMAIN stack.link)], LAMBDA s : s # Null)

take_remote_frees(m) == FoldLeft(mempool_free, m, Stacked)
StackTaken == stack' = [head |-> Null,
                        link |-> [s \in DOMAIN stack.link \ ToSet(Stacked) |-> stack.link[s]]]

\* alloc_mempool_block: what is asked for, but not less than the option
alloc_mempool_block(size, atLeast) == Max({size, atLeast})
Fresh(m) == Min(1 .. 2 + MaxMalloc \ ({m.blocks[i].id : i \in DOMAIN m.blocks}
                                       \cup {m.large[i].id : i \in DOMAIN m.large}))
Ids(m) == {m.blocks[i].id : i \in DOMAIN m.blocks} \cup {m.large[i].id : i \in DOMAIN m.large}

\* The pool with the request met, and the slot given
Grown(m, p) ==
  LET trim == IF m.size > Limit /\ Limit > 0 THEN removeblocks(m) ELSE m
      size == alloc_mempool_block(cutOffPoints(p) + BlockHdr, ExpandSize)
  IN [trim EXCEPT !.size = @ + size, !.blocks = Append(@, fillblock(Fresh(trim), size, BlockHdr))]

SmallMalloc(m0, p) ==
  LET Fits(m) == {i \in DOMAIN m.blocks : Larger(m.blocks[i], p) # {}}
      m   == IF Fits(m0) = {} THEN Grown(m0, p) ELSE m0
      i   == Min(Fits(m))
      b   == checkblock(m.blocks[i], p)
      loc == Head(b.free[p])
  IN [pool |-> [m EXCEPT !.blocks[i] =
                  [b EXCEPT !.free[p] = Tail(@), !.used = @ + p,
                            !.slots = [k \in DOMAIN @ |-> IF @[k].at = loc THEN Slot(loc, p, 0) ELSE @[k]]]],
      slot |-> [b |-> b.id, at |-> loc]]

mempool_large_malloc(m, size) ==
  LET total == alloc_mempool_block(size + LargeHdr + UsedHdr, ExpandSize)
      id    == Fresh(m)
  IN [pool |-> [m EXCEPT !.large = <<[id |-> id, size |-> total]>> \o @, !.size = @ + total],
      slot |-> [b |-> id, at |-> LargeHdr]]

mempool_malloc(m, size) ==
  LET p == which_pow2(size + UsedHdr)
  IN IF p >= cutOffNum THEN mempool_large_malloc(m, size) ELSE SmallMalloc(m, p)

----------------------------------------------------------------------------

mempool_init == [size |-> InitSize, blocks |-> <<fillblock(1, InitSize, PoolHdr)>>, large |-> <<>>]

Init == /\ pool = mempool_init
        /\ held = << >>
        /\ stack = [head |-> Null, link |-> << >>]
        /\ push = [t \in PE |-> [pc |-> "no", slot |-> Null, seen |-> Null]]
        /\ mem = {1}
        /\ calls \in [malloc : {0}, free : {0}, remote : BOOLEAN, destroyed : {FALSE}]

\* Memory follows the pool: newblockfn and freeblockfn
MemFollows(m) == mem' = Ids(m)

\* The owner allocates a message for itself or another PE
Malloc == \E size \in Requests, t \in PE :
  LET r == mempool_malloc(take_remote_frees(pool), size)
  IN /\ calls.malloc < MaxMalloc /\ ~calls.destroyed
     /\ calls' = [calls EXCEPT !.malloc = @ + 1]
     /\ pool' = r.pool
     /\ held' = (r.slot :> t) @@ held
     /\ StackTaken
     /\ MemFollows(r.pool)
     /\ UNCHANGED push

Unheld(s) == held' = [u \in DOMAIN held \ {s} |-> held[u]]

\* mempool_free_thread: the owner's free, or any PE's without remote frees
FreeThread(t, s) ==
  LET m == mempool_free(take_remote_frees(pool), s)
  IN /\ pool' = m
     /\ StackTaken
     /\ MemFollows(m)
     /\ Unheld(s)
     /\ UNCHANGED push

\* mempool_free_remote begins: the head is read
Peek(t, s) == /\ push[t].pc = "no"
              /\ push' = [push EXCEPT ![t] = [pc |-> "cas", slot |-> s, seen |-> stack.head]]
              /\ Unheld(s)
              /\ UNCHANGED <<pool, stack, mem>>

CmiFree == \E s \in DOMAIN held :
  LET t == held[s]
  IN /\ calls.free < MaxFree /\ ~calls.destroyed
     /\ calls' = [calls EXCEPT !.free = @ + 1]
     /\ IF calls.remote /\ t # Owner THEN Peek(t, s) ELSE FreeThread(t, s)

\* (mutant) the compare is left out
PushCasBlind(t) ==
  /\ push[t].pc = "cas"
  /\ stack' = [head |-> push[t].slot, link |-> (push[t].slot :> push[t].seen) @@ stack.link]
  /\ push' = [push EXCEPT ![t] = [pc |-> "no", slot |-> Null, seen |-> Null]]
  /\ UNCHANGED <<pool, held, mem, calls>>
\* The link is written and the head swapped if it is the one seen; if it is
\* not, the head found is the next one to try (a weak swap may also just fail)
PushCas(t) ==
  /\ push[t].pc = "cas"
  /\ \/ /\ stack.head = push[t].seen
        /\ stack' = [head |-> push[t].slot, link |-> (push[t].slot :> push[t].seen) @@ stack.link]
        /\ push' = [push EXCEPT ![t] = [pc |-> "no", slot |-> Null, seen |-> Null]]
     \/ /\ stack.head # push[t].seen
        /\ push' = [push EXCEPT ![t].seen = stack.head]
        /\ UNCHANGED stack
  /\ UNCHANGED <<pool, held, mem, calls>>

\* The backend's exit, after every PE has left its scheduler: the large blocks
\* and then every block go back to the system
mempool_destroy ==
  /\ ~calls.destroyed /\ \A t \in PE : push[t].pc = "no"
  /\ calls' = [calls EXCEPT !.destroyed = TRUE]
  /\ pool' = [pool EXCEPT !.blocks = <<>>, !.large = <<>>, !.size = 0]
  /\ held' = << >>
  /\ stack' = [head |-> Null, link |-> << >>]
  /\ MemFollows(pool')
  /\ UNCHANGED push

Next == Malloc \/ CmiFree \/ (\E t \in PE : PushCas(t)) \/ mempool_destroy

Spec == Init /\ [][Next]_vars

----------------------------------------------------------------------------

\* The slots in use, according to the blocks
InUse == UNION {{[b |-> pool.blocks[i].id, at |-> pool.blocks[i].slots[k].at] :
                   k \in {j \in DOMAIN pool.blocks[i].slots : pool.blocks[i].slots[j].st = 0}} :
                i \in DOMAIN pool.blocks}
         \cup {[b |-> pool.large[i].id, at |-> LargeHdr] : i \in DOMAIN pool.large}

Pushing == {push[t].slot : t \in {u \in PE : push[u].pc = "cas"}}

\* Every slot in use is in exactly one place: with the program, in the hands
\* of a PE that is pushing it, or once on the stack its owner will take; and
\* a block's slots follow each other without a gap or an overlap and its free
\* lists hold exactly its free slots (checkblock, mempool_free,
\* mempool_free_remote, take_remote_frees).
SlotsAccounted ==
  /\ InUse = DOMAIN held \cup Pushing \cup ToSet(Stacked)
  /\ DOMAIN held \cap (Pushing \cup ToSet(Stacked)) = {} /\ Pushing \cap ToSet(Stacked) = {}
  /\ IsInjective(Stacked)
  /\ \A i \in DOMAIN pool.blocks :
       LET b == pool.blocks[i] IN
       /\ \A k \in 1 .. Len(b.slots) - 1 : b.slots[k + 1].at = b.slots[k].at + cutOffPoints(b.slots[k].p)
       /\ Last(b.slots).at + cutOffPoints(Last(b.slots).p) <= b.size
       /\ \A p \in DOMAIN b.free :
            /\ IsInjective(b.free[p])
            /\ ToSet(b.free[p]) = {b.slots[k].at : k \in {j \in DOMAIN b.slots : b.slots[j].p = p /\ b.slots[j].st = 1}}

\* When the last slot in use of a block is given back, the merging has put
\* the block back together as fillblock made it: no sequence of splits and
\* frees leaves an idle block in pieces (mempool_free's neighbourhood).
MergedWhenIdle ==
  \A i \in DOMAIN pool.blocks :
    LET b == pool.blocks[i]
    IN (\A k \in DOMAIN b.slots : b.slots[k].st = 1)
         => b.slots = fillblock(b.id, b.size, IF i = 1 THEN PoolHdr ELSE BlockHdr).slots

\* "free blocks which are not being used" (src/mempool.C:404): what the
\* program holds stays in a block of the pool
HeldStaysAllocated == DOMAIN held \subseteq InUse
=============================================================================
