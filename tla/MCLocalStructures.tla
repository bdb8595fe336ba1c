------------------------- MODULE MCLocalStructures --------------------------
(***************************************************************************)
(* Components whose properties are of states and steps, each on an         *)
(* instance of its own: part tells which one a behaviour is about, and the *)
(* others stay as they were made.                                          *)
(***************************************************************************)
EXTENDS PrioQueue, DecrementToEnqueue, SequencesExt

CONSTANTS SCHED_TABLE_SIZE, UintBits, FreqChoice
CONSTANTS PE, Owner, Requests, cutOffNum, InitSize, ExpandSize, Limit, MaxMalloc, MaxFree
CONSTANTS Cond, Interval, MaxSkip, Resolution, MaxId, MaxRaise, MaxTime, MaxDepth
CONSTANTS Handle, RecvHandle, NumBuf, Recycle, MaxSend, MaxRef

VARIABLES
  part,
  freqs, stage, slots, poll_handlers, handler_index, index, remaining,
  pool, held, links, push, mem, calls,
  condcb, condcbKeep, flag, numTimed, heap, nextCall, nSkip, lastCheck, numchecks,
  clock, frames, nextId, raises, called, cancelled, fired, lastRun, gap,
  live, dest, destHandle, busy, nextBuf, pending, phs, curphs, meant, recvs, rused,
  content, refs, src, puts, net, oneSided, arrived, dropped

tableVars == <<freqs, stage, slots, poll_handlers, handler_index, index, remaining>>
poolVars == <<pool, held, links, push, mem, calls>>
condVars == <<condcb, condcbKeep, flag, numTimed, heap, nextCall, nSkip, lastCheck, numchecks,
              clock, frames, nextId, raises, called, cancelled, fired, lastRun, gap>>
channelVars == <<live, dest, destHandle, busy, nextBuf, pending, phs, curphs, meant, recvs, rused,
                 content, refs, src, puts, net, oneSided, arrived, dropped>>

Table == INSTANCE SlotTable
Pool == INSTANCE Mempool WITH stack <- links
Conds == INSTANCE CondCallbacks WITH stack <- frames, dropped <- cancelled
Channel == INSTANCE Persistent

\* Constants: lists of up to four frequencies from a few values, the default one
\* and one with more handlers than slots; and intervals.
Few == {0, 1, 3, 16, 64}
Frequencies == UNION {[1 .. n -> Few] : n \in 1 .. 4} \cup {<<16, 1, 16, 64, 1>>, <<1, 1, 1, 1, 0, 0, 1, 1, 1>>}
Intervals == <<1, 2>>

StructuresInit ==
  /\ part \in {"queue", "table", "pool", "conditions", "channel", "counter"}
  /\ QueueInit
  /\ Table!TableInit /\ (part # "table" => freqs = <<1>>)
  /\ Pool!Init /\ (part # "pool" => calls.remote)
  /\ Conds!Init
  /\ Channel!Init /\ (part # "channel" => oneSided)
  /\ CmiCreateDecrementToEnqueue

StructuresNext ==
  \/ part = "queue" /\ QueueNext
     /\ UNCHANGED <<part, tableVars, poolVars, condVars, channelVars, counterVars>>
  \/ part = "table" /\ Table!BuildStep
     /\ UNCHANGED <<part, queueVars, poolVars, condVars, channelVars, counterVars>>
  \/ part = "pool" /\ Pool!Next
     /\ UNCHANGED <<part, queueVars, tableVars, condVars, channelVars, counterVars>>
  \/ part = "conditions" /\ Conds!Next
     /\ UNCHANGED <<part, queueVars, tableVars, poolVars, channelVars, counterVars>>
  \/ part = "channel" /\ Channel!Next
     /\ UNCHANGED <<part, queueVars, tableVars, poolVars, condVars, counterVars>>
  \/ part = "counter" /\ CounterNext
     /\ UNCHANGED <<part, queueVars, tableVars, poolVars, condVars, channelVars>>

structures == <<part, queueVars, tableVars, poolVars, condVars, channelVars, counterVars>>
StructuresSpec == StructuresInit /\ [][StructuresNext]_structures

-----------------------------------------------------------------------------
\* PrioQueue implements PrioList: the levels in priority order, end to end, are
\* the list.
Order == SetToSortSeq(Priority, <)

Items ==
    FlattenSeq([i \in DOMAIN Order |->
        [j \in DOMAIN Contents(Order[i]) |-> <<Order[i], Contents(Order[i])[j]>>]])

List == INSTANCE PrioList WITH items <- Items

\* Whatever mix of priorities and strategies is enqueued, and whatever levels
\* are created, drained, kept, reused and erased meanwhile, messages come out in
\* priority order (queueing.cpp's contract); a FIFO enqueue goes behind everything
\* of its priority and a LIFO enqueue ahead of it, also where the level was drained
\* and kept, or is created anew.  (List!Spec, but for the steps of the other parts.)
ImplementsPrioList ==
  /\ List!Init /\ [][part = "queue" => List!Next]_Items
  /\ [][size' # size =>
          /\ \A m \in Message, p \in Priority :
               /\ QueuePush(m, p) => List!Push(m, p)
               /\ QueuePushFront(m, p) => List!PushFront(m, p)
          /\ QueuePop => List!Pop]_queueVars

\* add_list_of_handlers leaves no handler without a slot, whatever the frequencies.
EveryHandlerPolled == part = "table" => Table!EveryHandlerPolled

\* mempool.C: every slot in use is with the program, with a PE that gives it back,
\* or on the owner's stack, and nowhere twice; slots neither overlap nor leave
\* gaps; and a block all of whose slots are free is in one piece again.
SlotsAccounted == part = "pool" => Pool!SlotsAccounted /\ Pool!MergedWhenIdle

\* conv-conds.cpp: a callback that is not cancelled is called once, or waits in a
\* list or in the heap, and the count of timed callbacks is that of their lists.
CalledOnce == part = "conditions" => Conds!CalledOnce

\* conv-conds.cpp: a periodic condition is late by no more than the longest time
\* without a check and the intervals up to its own.
LateWithinShorter == part = "conditions" => Conds!LateWithinShorter

\* persist-comm.cpp: every buffer the sender has no credit for is in one place, the
\* message in it or the credit on its way back; and no message waits in the queue of
\* a channel that has a credit, where nothing would flush it.
CreditsAccounted == part = "channel" => Channel!CreditsAccounted /\ Channel!QueuedOnlyWhenFull

\* persist-comm.cpp: no put or payload is on its way to a buffer whose message the
\* program holds; whatever channel, queue, array entry or fall-back carries a
\* message, it reaches its own destination, once; and when nothing is on its way and
\* the program has freed what it was given, every message sent has arrived, or went
\* with its channel.
EachArrivesIntact ==
  part = "channel" => Channel!NeverOverwritten /\ Channel!DeliveredOnce /\ Channel!NothingStranded
=============================================================================
