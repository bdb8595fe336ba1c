------------------------------ MODULE SlotTable ------------------------------
(***************************************************************************)
(* The registered scheduler's slot table (scheduler_registry.cpp):         *)
(* add_list_of_handlers turns relative frequencies into numbers of slots,  *)
(* trims them to the table's size, and spreads each handler's slots over   *)
(* the free ones.  One step per loop iteration of that function.           *)
(***************************************************************************)
EXTENDS Integers, Sequences, FiniteSets, Functions

CONSTANTS
    SCHED_TABLE_SIZE,   \* slots
    UintBits,           \* width of unsigned int
    FreqChoice          \* the lists of frequencies a table is built for

ASSUME TableAssumption ==
    /\ SCHED_TABLE_SIZE \in Nat \ {0}
    /\ UintBits \in Nat \ {0}
    /\ \A f \in FreqChoice : f # <<>> /\ \A i \in DOMAIN f : f[i] \in Nat

VARIABLES
    freqs,           \* the frequency of each handler
    stage,           \* "trim", "place", "built", or "none": no table
    slots,           \* the number of slots each handler is to get
    poll_handlers,   \* the handler of each slot, 0 for pollNoWork
    handler_index,   \* the handler whose slots are being placed
    index,           \* where to look for its next slot
    remaining        \* how many it still has to get

tableVars == <<freqs, stage, slots, poll_handlers, handler_index, index, remaining>>

Slot == 0 .. SCHED_TABLE_SIZE - 1
Total(f) == FoldFunction(+, 0, f) % 2 ^ UintBits
Assigned == {k \in Slot : poll_handlers[k] # 0}
SlotsOf(h) == {k \in Slot : poll_handlers[k] = h}

TableOK ==
    /\ freqs \in FreqChoice
    /\ stage \in {"trim", "place", "built", "none"}
    /\ DOMAIN slots = DOMAIN freqs
    /\ \A h \in DOMAIN slots : slots[h] \in Nat
    /\ poll_handlers \in [Slot -> 0 .. Len(freqs)]
    /\ handler_index \in 1 .. Len(freqs) + 1
    /\ index \in Slot
    /\ remaining \in Nat

\* lround of the share, the product being an unsigned int; at least one slot.
Normalized(freq, total) ==
    LET n == (2 * ((freq * SCHED_TABLE_SIZE) % 2 ^ UintBits) + total) \div (2 * total)
    IN  IF n = 0 THEN 1 ELSE n

TableInit ==
    /\ freqs \in FreqChoice
    /\ stage = IF Total(freqs) = 0 THEN "none" ELSE "trim"
    /\ slots = [h \in DOMAIN freqs |->
                  IF Total(freqs) = 0 THEN 1 ELSE Normalized(freqs[h], Total(freqs))]
    /\ poll_handlers = [k \in Slot |-> 0]
    /\ handler_index = 1 /\ index = 0 /\ remaining = slots[1]

-----------------------------------------------------------------------------
\* The first of the largest counts.
Largest(h) ==
    /\ \A g \in DOMAIN slots : slots[g] <= slots[h]
    /\ \A g \in 1 .. h - 1 : slots[g] < slots[h]

TooMany == Total(slots) > SCHED_TABLE_SIZE /\ \E h \in DOMAIN slots : slots[h] > 1

Trim ==
    /\ stage = "trim" /\ TooMany
    /\ \E h \in DOMAIN slots :
          /\ Largest(h)
          /\ slots' = [slots EXCEPT ![h] = @ - 1]
    /\ remaining' = slots'[1]
    /\ UNCHANGED <<freqs, stage, poll_handlers, handler_index, index>>

StartPlacing ==
    /\ stage = "trim" /\ ~ TooMany
    /\ stage' = "place"
    /\ UNCHANGED <<freqs, slots, poll_handlers, handler_index, index, remaining>>

\* (mutant) The slot is used whether or not it is taken.
NextEmptyAny(k) == k = index

\* The next empty slot from index on, around the end of the table.
NextEmpty(k) ==
    \E d \in Slot :
        /\ k = (index + d) % SCHED_TABLE_SIZE
        /\ poll_handlers[k] = 0
        /\ \A e \in 0 .. d - 1 : poll_handlers[(index + e) % SCHED_TABLE_SIZE] # 0

\* One slot of the current handler; its slots are a step apart.
Place ==
    /\ stage = "place"
    /\ handler_index <= Len(slots)
    /\ remaining > 0 /\ Cardinality(Assigned) < SCHED_TABLE_SIZE
    /\ \E k \in Slot :
          /\ NextEmpty(k)
          /\ poll_handlers' = [poll_handlers EXCEPT ![k] = handler_index]
          /\ index' = (k + SCHED_TABLE_SIZE \div slots[handler_index]) % SCHED_TABLE_SIZE
    /\ remaining' = remaining - 1
    /\ UNCHANGED <<freqs, stage, slots, handler_index>>

\* The i-th handler's search starts at slot i.
NextHandler ==
    /\ stage = "place"
    /\ handler_index <= Len(slots)
    /\ remaining = 0 \/ Cardinality(Assigned) = SCHED_TABLE_SIZE
    /\ handler_index' = handler_index + 1
    /\ index' = handler_index % SCHED_TABLE_SIZE
    /\ remaining' = IF handler_index < Len(slots) THEN slots[handler_index + 1] ELSE 0
    /\ UNCHANGED <<freqs, stage, slots, poll_handlers>>

Built ==
    /\ stage = "place"
    /\ handler_index > Len(slots)
    /\ stage' = "built"
    /\ UNCHANGED <<freqs, slots, poll_handlers, handler_index, index, remaining>>

BuildStep == Trim \/ StartPlacing \/ Place \/ NextHandler \/ Built

TableSpec == TableInit /\ [][BuildStep]_tableVars

-----------------------------------------------------------------------------
\* Whatever the frequencies, and whatever their product with the table size wraps
\* to: in a finished table every handler has the slots computed for it, at least
\* one, so no queue is left unpolled; and while one is placed there is an empty
\* slot, so the search for it ends.  Handlers beyond the table's size get none.
EveryHandlerPolled ==
    Len(freqs) <= SCHED_TABLE_SIZE =>
        /\ stage = "built" =>
              \A h \in DOMAIN freqs : Cardinality(SlotsOf(h)) = slots[h] /\ slots[h] > 0
        /\ stage = "place" /\ remaining > 0 => Assigned # Slot
=============================================================================
