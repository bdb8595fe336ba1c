------------------------ MODULE IpcPoolAlloc_proofs -------------------------
(***************************************************************************)
(* The inductive invariant of the pool, and that start-up, the choice of the*)
(* path and the allocation of a block preserve it.                         *)
(***************************************************************************)
EXTENDS IpcPool, TLAPS

\* What the program counters say about the local variables.
PcInv ==
    /\ \A s \in Sender :
         /\ pc[s] \in SenderPc
         /\ pc[s] # "idle" => req[s] \in Request /\ nsent[s] # 0
         /\ pc[s] = "alloc" => tries[s] # 0
         /\ pc[s] = "casheap" => off[s] \in Begin .. heap
                                 /\ off[s] + Stride[req[s].bin] <= End
         /\ pc[s] \in Pushing => cur[s] \in Cut /\ body[cur[s]].dest = req[s].dest
         /\ pc[s] \notin Pushing => cur[s] = max
    /\ \A r \in Rank :
         /\ pc[r] \in RankPc
         /\ pc[r] \in Pushing \cup Walking => cur[r] \in Cut
         /\ pc[r] \notin Pushing \cup Walking => cur[r] = max
         /\ pc[r] = "deliver" => inbox[r] # <<>>

\* Before the heap is published the segment is untouched; after it every list
\* has been initialized.
SegmentInv ==
    /\ heap = nil => /\ Cut = {}
                     /\ \A s \in Sender : pc[s] \in {"idle", "alloc"}
                     /\ \A r \in Rank : pc[r] = "idle"
    /\ heap # nil => \A l \in List : head[l] # nil
    /\ \A l \in CacheList : head[l] # nil

\* A block that was cut has an owner, a size and a message.
CutInv == \A o \in Cut : owner[o] \in Sender /\ body[o] \in Message

\* at gives each block the one place that may hold it.
OwnedAs(at) ==
    /\ \A l \in List : head[l] \in Block =>
         head[l] \in Cut /\ at[head[l]] = <<"head", l, 0>>
    /\ \A t \in Thread : cur[t] \in Block =>
         cur[t] \in Cut /\ at[cur[t]] = <<"cur", t, 0>>
    /\ \A o \in Listed : next[o] \in Block =>
         next[o] \in Cut /\ at[next[o]] = <<"next", o, 0>>
    /\ \A o \in live : o \in Cut /\ at[o] = <<"live", o, 0>>
    /\ \A r \in Rank : \A i \in DOMAIN inbox[r] :
         inbox[r][i] \in Cut /\ at[inbox[r][i]] = <<"inbox", r, i>>

Place == {"head", "cur", "next", "live", "inbox"}
           \X (List \cup Thread \cup Block) \X Nat

OwnerInv == \E at \in [Block -> Place] : OwnedAs(at)

IInv == TypeOK /\ PcInv /\ SegmentInv /\ CutInv /\ BlocksDisjoint /\ OwnerInv

-----------------------------------------------------------------------------
USE ThreadAssumption, SegmentAssumption, BoundAssumption

\* The values that stand for no offset, no list and no size are none of those.
LEMMA OffsetFacts ==
    /\ max \notin Block
    /\ nil \notin Offset
    /\ max # nil
    /\ NoBin \notin Bin
    /\ Block \subseteq Nat
  BY DEF max, nil, Block, Offset, NoBin

\* The lists each operation works on are lists.
LEMMA ListFacts ==
    ASSUME NEW s \in Sender, NEW b \in Bin, NEW d \in Dest
    PROVE  /\ <<"rq", d>> \in SharedList
           /\ <<"ret", s, b>> \in SharedList
           /\ <<"cache", s, b>> \in CacheList
           /\ SharedList \subseteq List
           /\ CacheList \subseteq List
           /\ <<"cache", s, b>> # <<"ret", s, b>>
           /\ <<"cache", s, b>> \notin SharedList
  BY DEF List, SharedList, CacheList, RecvList, RetList

\* A list is shared or private, never both.
LEMMA ListKinds ==
    /\ List = SharedList \cup CacheList
    /\ SharedList \cap CacheList = {}
  BY DEF List, SharedList, CacheList, RecvList, RetList

\* A process starts with a segment that reads as zeros and no block cut.
LEMMA InitInv == Init => IInv
<1> SUFFICES ASSUME Init PROVE IInv
  BY Zenon
<1>1. TypeOK
  BY OffsetFacts DEF Init, TypeOK, Offset, SenderPc, RankPc, Thread, nil
<1>2. Cut = {}
  BY Zenon DEF Init, Cut
<1>3. PcInv
  BY Zenon DEF Init, PcInv, SenderPc, RankPc, Pushing, Walking, Thread
<1>4. SegmentInv
  BY <1>2, OffsetFacts, ListKinds, Zenon DEF Init, SegmentInv, Thread
<1>5. CutInv /\ BlocksDisjoint
  BY <1>2, Zenon DEF CutInv, BlocksDisjoint
<1>6. OwnerInv
  <2> DEFINE at0 == [o \in Block |-> <<"live", o, 0>>]
  <2>1. at0 \in [Block -> Place]
    BY Zenon DEF Place
  <2>2. Listed = {}
    BY <1>2, Zenon DEF Listed
  <2>3. OwnedAs(at0)
    BY <2>2, OffsetFacts DEF OwnedAs, Init, Offset
  <2> QED BY <2>1, <2>3, Zenon DEF OwnerInv
<1> QED BY <1>1, <1>3, <1>4, <1>5, <1>6, Zenon DEF IInv

-----------------------------------------------------------------------------
\* Steps that move no block: they keep what the ownership of blocks depends on.

\* A step that moves no block, and only empties list heads, keeps every block where it is.
LEMMA OwnerFrame ==
    ASSUME OwnerInv,
           \A l \in List : head'[l] \in Block => head'[l] = head[l],
           UNCHANGED <<next, size, cur, inbox, live>>,
           \A t \in Thread : InHand(t)' = InHand(t)
    PROVE  OwnerInv'
<1>1. Cut' = Cut
  BY Zenon DEF Cut
<1>2. Listed' = Listed
  BY <1>1, Zenon DEF Listed
<1>3. PICK at \in [Block -> Place] : OwnedAs(at)
  BY Zenon DEF OwnerInv
<1>4. OwnedAs(at)'
  BY <1>1, <1>2, <1>3, Zenon DEF OwnedAs
<1> QED BY <1>4, Zenon DEF OwnerInv

\* The segment's constructor empties lists that hold no block yet.
LEMMA InitListsInv == ASSUME IInv, InitLists PROVE IInv'
<1> USE DEF IInv, blockVars, sendVars, recvVars, logVars
<1>1. TypeOK'
  BY Zenon DEF TypeOK, InitLists, Offset
<1>2. Cut' = Cut
  BY Zenon DEF Cut, InitLists
<1>3. PcInv'
  BY <1>2, Zenon DEF PcInv, InitLists
<1>4. SegmentInv'
  BY <1>2, OffsetFacts, ListKinds, Zenon DEF SegmentInv, InitLists
<1>5. CutInv' /\ BlocksDisjoint'
  BY <1>2, Zenon DEF CutInv, BlocksDisjoint, InitLists
<1>6. OwnerInv'
  BY OffsetFacts, ListKinds, OwnerFrame, Zenon DEF InitLists, InHand
<1> QED BY <1>1, <1>3, <1>4, <1>5, <1>6, Zenon

\* Storing the heap last opens an initialized segment to the senders.
LEMMA PublishHeapInv == ASSUME IInv, PublishHeap PROVE IInv'
<1> USE DEF IInv, blockVars, sendVars, recvVars, logVars
<1>1. TypeOK'
  BY DEF TypeOK, PublishHeap
<1>2. Cut' = Cut /\ Cut = {}
  BY Zenon DEF Cut, PublishHeap, SegmentInv
<1>3. PcInv'
  BY <1>2, Zenon DEF PcInv, PublishHeap, SegmentInv
<1>4. SegmentInv'
  BY <1>2, ListKinds, Zenon DEF SegmentInv, PublishHeap, nil
<1>5. CutInv' /\ BlocksDisjoint'
  BY <1>2, Zenon DEF CutInv, BlocksDisjoint
<1>6. OwnerInv'
  BY OwnerFrame, Zenon DEF PublishHeap, InHand
<1> QED BY <1>1, <1>3, <1>4, <1>5, <1>6, Zenon

\* What a sender sends is a message.
LEMMA MessageType ==
    ASSUME TypeOK, NEW s \in Sender, NEW d \in Dest,
           nsent'[s] \in Nat \ {0}
    PROVE  ThisMessage(s, d) \in Message
  BY Zenon DEF ThisMessage, Message

\* A message that does not qualify for the pool leaves the pool alone.
LEMMA SendNetworkInv ==
    ASSUME IInv, NEW s \in Sender, NEW d \in Dest, SendNetwork(s, d) PROVE IInv'
<1> USE DEF IInv, segVars, blockVars, recvVars
<1>1. nsent' \in [Sender -> 0 .. MaxSend] /\ nsent'[s] # 0
  BY DEF TypeOK, SendNetwork
<1>2. net' \subseteq Message
  BY <1>1, MessageType, SMTT(30) DEF TypeOK, SendNetwork
<1>3. TypeOK'
  BY <1>1, <1>2, Zenon DEF TypeOK, SendNetwork
<1>4. Cut' = Cut
  BY Zenon DEF Cut, SendNetwork
<1>5. PcInv'
  BY <1>4, Zenon DEF PcInv, SendNetwork, TypeOK
<1>6. SegmentInv'
  BY <1>4, Zenon DEF SegmentInv, SendNetwork
<1>7. CutInv' /\ BlocksDisjoint'
  BY <1>4, Zenon DEF CutInv, BlocksDisjoint, SendNetwork
<1>8. OwnerInv'
  BY OwnerFrame, Zenon DEF SendNetwork, InHand
<1> QED BY <1>3, <1>5, <1>6, <1>7, <1>8, Zenon

\* Beginning a pool send touches only the sender's own request.
LEMMA TrySendInv ==
    ASSUME IInv, NEW s \in Sender, NEW d \in Dest, NEW b \in Bin, TrySend(s, d, b)
    PROVE  IInv'
<1> USE DEF IInv, segVars, blockVars, recvVars, logVars
<1>1. nsent' \in [Sender -> 0 .. MaxSend] /\ nsent'[s] # 0
  BY DEF TypeOK, TrySend
<1>2. req' \in [Sender -> Request \cup {NoRequest}] /\ req'[s] \in Request
  BY Zenon DEF TypeOK, TrySend, Request
<1>3. pc' \in [Thread -> SenderPc \cup RankPc]
  BY Zenon DEF TypeOK, TrySend, SenderPc
<1>4. TypeOK'
  BY <1>1, <1>2, <1>3, SMTT(30) DEF TypeOK, TrySend
<1>5. Cut' = Cut
  BY Zenon DEF Cut, TrySend
<1>6. PcInv'
  BY <1>1, <1>2, <1>5 DEF PcInv, TrySend, TypeOK, SenderPc, Pushing, Thread
<1>7. SegmentInv'
  BY <1>5, Zenon DEF SegmentInv, TrySend, TypeOK, Thread
<1>8. CutInv' /\ BlocksDisjoint'
  BY <1>5, Zenon DEF CutInv, BlocksDisjoint, TrySend
<1>9. OwnerInv'
  BY OwnerFrame DEF TrySend, InHand, TypeOK, Pushing
<1> QED BY <1>4, <1>6, <1>7, <1>8, <1>9, Zenon

\* Handing a message to the network keeps the sender's variables in their types.
LEMMA FallBackType ==
    ASSUME IInv, NEW s \in Sender, pc[s] # "idle", FallBack(s)
    PROVE  /\ nsent' \in [Sender -> 0 .. MaxSend]
           /\ net' \subseteq Message
           /\ req' \in [Sender -> Request \cup {NoRequest}]
           /\ pc' \in [Thread -> SenderPc \cup RankPc]
<1> USE DEF IInv
<1>1. req[s].dest \in Dest /\ nsent'[s] \in Nat \ {0}
  BY DEF PcInv, TypeOK, FallBack, Request
<1>2. net' \subseteq Message
  BY <1>1, MessageType DEF TypeOK, FallBack
<1>3. req' \in [Sender -> Request \cup {NoRequest}]
  BY Zenon DEF TypeOK, FallBack
<1>4. pc' \in [Thread -> SenderPc \cup RankPc]
  BY Zenon DEF TypeOK, FallBack, SenderPc
<1> QED BY <1>2, <1>3, <1>4, Zenon DEF TypeOK, FallBack

\* A segment that is not ready is not touched, however often it is tried.
LEMMA AllocTimeoutInv ==
    ASSUME IInv, NEW s \in Sender, AllocTimeout(s) PROVE IInv'
<1> USE DEF IInv, segVars, blockVars, recvVars
<1>1. tries' \in [Sender -> 0 .. Timeout]
  BY DEF TypeOK, PcInv, AllocTimeout
<1>2. TypeOK'
  BY <1>1, FallBackType, Zenon DEF TypeOK, AllocTimeout
<1>3. Cut' = Cut
  BY Zenon DEF Cut, AllocTimeout
<1>4. \A t \in Thread : pc'[t] = pc[t] \/ (t = s /\ pc'[t] = "idle")
  BY Zenon DEF AllocTimeout, FallBack, TypeOK
<1>5. PcInv'
  BY <1>3, <1>4 DEF PcInv, AllocTimeout, FallBack, TypeOK, SenderPc, Pushing, Thread
<1>6. SegmentInv'
  BY <1>3, <1>4, Zenon DEF SegmentInv, AllocTimeout, Thread
<1>7. CutInv' /\ BlocksDisjoint'
  BY <1>3, Zenon DEF CutInv, BlocksDisjoint, AllocTimeout
<1>8. OwnerInv'
  BY <1>4, OwnerFrame DEF AllocTimeout, InHand, Pushing
<1> QED BY <1>2, <1>5, <1>6, <1>7, <1>8, Zenon

\* Reading the heap: a sender either gives up or remembers an offset that fits.
LEMMA CheckFitInv ==
    ASSUME IInv, NEW s \in Sender, pc[s] \in {"cut", "casheap"}, CheckFit(s),
           UNCHANGED <<segVars, blockVars, cur, tries, recvVars, posted, arrived>>
    PROVE  IInv'
<1> USE DEF IInv, segVars, blockVars, recvVars
<1>1. heap \in Begin .. End /\ req[s] \in Request
  BY Zenon DEF TypeOK, PcInv, SegmentInv, nil
<1>2. off' \in [Sender -> Nat]
  BY <1>1 DEF TypeOK, CheckFit
<1>3. pc' \in [Thread -> SenderPc \cup RankPc]
  BY FallBackType, Zenon DEF TypeOK, CheckFit, SenderPc
<1>4. TypeOK'
  BY <1>2, <1>3, FallBackType, Zenon DEF TypeOK, CheckFit
<1>5. Cut' = Cut
  BY Zenon DEF Cut
<1>6. \A t \in Thread : pc'[t] = pc[t] \/ (t = s /\ pc'[t] \in {"idle", "casheap"})
  BY Zenon DEF CheckFit, FallBack, TypeOK
<1>7. pc'[s] = "casheap" =>
        off'[s] \in Begin .. heap' /\ off'[s] + Stride[req'[s].bin] <= End
  BY <1>1 DEF CheckFit, FallBack, TypeOK, Thread
<1>8. PcInv'
  <2>1. \A t \in Sender : t # s =>
            pc'[t] = pc[t] /\ req'[t] = req[t] /\ nsent'[t] = nsent[t] /\ off'[t] = off[t]
    BY Zenon DEF CheckFit, FallBack, TypeOK, Thread
  <2>2. pc'[s] = "casheap" => req'[s] \in Request /\ nsent'[s] # 0
    BY <1>1, Zenon DEF CheckFit, FallBack, TypeOK, PcInv, Thread
  <2>3. pc'[s] \in {"idle", "casheap"} /\ cur'[s] = max
    BY Zenon DEF CheckFit, FallBack, TypeOK, PcInv, Thread, Pushing
  <2>4. \A r \in Rank : pc'[r] = pc[r]
    BY <1>6, Zenon DEF Thread
  <2> QED BY <1>5, <1>7, <2>1, <2>2, <2>3, <2>4 DEF PcInv, SenderPc, Pushing
<1>9. SegmentInv'
  BY <1>5, <1>6, <1>1, Zenon DEF SegmentInv, Thread, nil
<1>10. CutInv' /\ BlocksDisjoint'
  BY <1>5, Zenon DEF CutInv, BlocksDisjoint
<1>11. OwnerInv'
  BY <1>6, OwnerFrame DEF InHand, Pushing
<1> QED BY <1>4, <1>8, <1>9, <1>10, <1>11, Zenon

-----------------------------------------------------------------------------
\* Steps that move blocks.

\* Filling a block that is already cut: reuse from a free list.
LEMMA ObtainInv ==
    ASSUME IInv, NEW s \in Sender, pc[s] # "idle", NEW o \in Cut, Obtain(s, o, size[o]),
           \A t \in Thread : cur[t] # o,
           UNCHANGED <<heap, next, req, tries, off, recvVars, logVars>>
    PROVE  /\ Cut' = Cut /\ size' = size
           /\ pc' = [pc EXCEPT ![s] = "link"]
           /\ cur' = [cur EXCEPT ![s] = o]
           /\ head' \in [List -> Offset \cup {nil}] => TypeOK'
           /\ PcInv' /\ CutInv' /\ BlocksDisjoint'
<1> USE DEF IInv, recvVars, logVars, Obtain
<1>1. size' = size
  BY Zenon DEF TypeOK
<1>2. Cut' = Cut
  BY <1>1, Zenon DEF Cut
<1>3. req[s].dest \in Dest /\ nsent'[s] \in Nat \ {0} /\ o \in Block
  BY DEF PcInv, TypeOK, Request, Cut
<1>4. ThisMessage(s, req[s].dest) \in Message
  BY <1>3, MessageType, Zenon
<1>5. body' \in [Block -> Message \cup {NoMessage}]
  BY <1>4, Zenon DEF TypeOK
<1>6. pc' \in [Thread -> SenderPc \cup RankPc]
  BY Zenon DEF TypeOK, SenderPc
<1>7. cur' \in [Thread -> Offset] /\ owner' \in [Block -> Sender \cup {NoOwner}]
  BY <1>3, Zenon DEF TypeOK, Offset
<1>8. head' \in [List -> Offset \cup {nil}] => TypeOK'
  BY <1>1, <1>5, <1>6, <1>7, Zenon DEF TypeOK
<1>9. body'[o].dest = req[s].dest
  BY <1>3, Zenon DEF TypeOK, ThisMessage
<1>10. PcInv'
  BY <1>2, <1>3, <1>9 DEF PcInv, TypeOK, SenderPc, Pushing, Thread
<1>11. CutInv'
  BY <1>2, <1>4, Zenon DEF CutInv, TypeOK, Cut
<1>12. BlocksDisjoint'
  BY <1>1, <1>2, Zenon DEF BlocksDisjoint
<1> QED BY <1>1, <1>2, <1>8, <1>10, <1>11, <1>12, Zenon

\* The first block of a list, and where its ownership puts it.
LEMMA FirstOfList ==
    ASSUME IInv, NEW at \in [Block -> Place], OwnedAs(at),
           NEW l \in List, head[l] \in Block
    PROVE  /\ head[l] \in Cut
           /\ head[l] \in Listed
           /\ heap # nil
           /\ \A t \in Thread : cur[t] # head[l]
           /\ at[head[l]] = <<"head", l, 0>>
<1>1. head[l] \in Cut /\ at[head[l]] = <<"head", l, 0>>
  BY Zenon DEF OwnedAs
<1>2. \A t \in Thread : cur[t] # head[l]
  BY <1>1 DEF OwnedAs
<1>3. head[l] \notin live
  BY <1>1 DEF OwnedAs
<1>4. \A r \in Rank : \A i \in DOMAIN inbox[r] : inbox[r][i] # head[l]
  BY <1>1 DEF OwnedAs
<1>5. head[l] \in Listed
  BY <1>1, <1>2, <1>3, <1>4, Zenon DEF Listed
<1>6. heap # nil
  BY <1>1, Zenon DEF IInv, SegmentInv
<1> QED BY <1>1, <1>2, <1>5, <1>6, Zenon

\* Popping a list into the PE's hand: its second block becomes the first of
\* list c (the same list, or the private list being refilled from l).
LEMMA PopOwner ==
    ASSUME IInv, NEW s \in Sender, NEW c \in List, NEW l \in List,
           pc[s] \notin Pushing, head[l] \in Block,
           c = l \/ head[c] = max,
           head' = [head EXCEPT ![l] = max, ![c] = next[head[l]]],
           cur' = [cur EXCEPT ![s] = head[l]],
           pc' = [pc EXCEPT ![s] = "link"],
           UNCHANGED <<next, size, inbox, live>>
    PROVE  OwnerInv'
<1> DEFINE o == head[l]
<1>1. PICK at \in [Block -> Place] : OwnedAs(at)
  BY Zenon DEF IInv, OwnerInv
<1>2. o \in Cut /\ o \in Listed /\ (\A t \in Thread : cur[t] # o) /\ at[o] = <<"head", l, 0>>
  BY <1>1, FirstOfList, Zenon
<1>3. cur[s] = max
  BY Zenon DEF IInv, PcInv
<1>4. Cut' = Cut
  BY Zenon DEF Cut
<1>5. Listed' = Listed \ {o}
  BY <1>2, <1>3, <1>4, Zenon DEF Listed, InHand, Pushing, IInv, TypeOK, Thread
<1>6. PICK at2 \in [Block -> Place] :
        at2 = [at EXCEPT ![o] = <<"cur", s, 0>>, ![next[o]] = <<"head", c, 0>>]
  BY Zenon DEF Place, Thread
<1>7. next[o] \in Block => next[o] \in Cut /\ at[next[o]] = <<"next", o, 0>> /\ next[o] # o
  BY <1>1, <1>2 DEF OwnedAs
<1>8. \A m \in List : head'[m] \in Block => head'[m] \in Cut' /\ at2[head'[m]] = <<"head", m, 0>>
  <2> SUFFICES ASSUME NEW m \in List, head'[m] \in Block
               PROVE  head'[m] \in Cut' /\ at2[head'[m]] = <<"head", m, 0>>
    BY Zenon
  <2>1. CASE m = c
    BY <2>1, <1>4, <1>6, <1>7, Zenon DEF IInv, TypeOK
  <2>2. CASE m # c /\ m = l
    BY <2>2, OffsetFacts, ZenonT(30) DEF IInv, TypeOK
  <2>3. CASE m # c /\ m # l
    <3>1. head'[m] = head[m]
      BY <2>3, Zenon DEF IInv, TypeOK
    <3>2. head[m] \in Cut /\ at[head[m]] = <<"head", m, 0>>
      BY <1>1, <3>1, Zenon DEF OwnedAs
    <3>3. at2[head[m]] = at[head[m]]
      BY <2>3, <1>2, <1>6, <1>7, <3>1, <3>2
    <3> QED BY ONLY <1>4, <3>1, <3>2, <3>3
  <2> QED BY <2>1, <2>2, <2>3, Zenon
<1>9. \A t \in Thread : cur'[t] \in Block => cur'[t] \in Cut' /\ at2[cur'[t]] = <<"cur", t, 0>>
  <2> SUFFICES ASSUME NEW t \in Thread, cur'[t] \in Block
               PROVE  cur'[t] \in Cut' /\ at2[cur'[t]] = <<"cur", t, 0>>
    BY Zenon
  <2>1. CASE t = s
    BY <2>1, <1>2, <1>4, <1>6, <1>7 DEF IInv, TypeOK
  <2>2. CASE t # s
    <3>1. cur'[t] = cur[t]
      BY <2>2, Zenon DEF IInv, TypeOK
    <3>2. cur[t] \in Cut /\ at[cur[t]] = <<"cur", t, 0>>
      BY <1>1, <3>1, Zenon DEF OwnedAs
    <3>3. at2[cur[t]] = at[cur[t]]
      BY <1>2, <1>6, <1>7, <3>1, <3>2
    <3> QED BY ONLY <1>4, <3>1, <3>2, <3>3
  <2> QED BY <2>1, <2>2, Zenon
<1>10. \A x \in Listed' : next'[x] \in Block =>
          next'[x] \in Cut' /\ at2[next'[x]] = <<"next", x, 0>>
  <2> SUFFICES ASSUME NEW x \in Listed, x # o, next[x] \in Block
               PROVE  next[x] \in Cut /\ at2[next[x]] = <<"next", x, 0>>
    BY <1>4, <1>5, Zenon
  <2>1. next[x] \in Cut /\ at[next[x]] = <<"next", x, 0>>
    BY <1>1, Zenon DEF OwnedAs
  <2> QED BY <1>2, <1>6, <1>7, <2>1
<1>11. \A x \in live' : x \in Cut' /\ at2[x] = <<"live", x, 0>>
  <2> SUFFICES ASSUME NEW x \in live PROVE x \in Cut /\ at2[x] = <<"live", x, 0>>
    BY <1>4, Zenon
  <2>1. x \in Cut /\ at[x] = <<"live", x, 0>>
    BY <1>1, Zenon DEF OwnedAs
  <2>2. x \in Block
    BY <2>1, Zenon DEF Cut
  <2> QED BY <1>2, <1>6, <1>7, <2>1, <2>2
<1>12. \A r \in Rank : \A i \in DOMAIN inbox'[r] :
          inbox'[r][i] \in Cut' /\ at2[inbox'[r][i]] = <<"inbox", r, i>>
  <2> SUFFICES ASSUME NEW r \in Rank, NEW i \in DOMAIN inbox[r]
               PROVE  inbox[r][i] \in Cut /\ at2[inbox[r][i]] = <<"inbox", r, i>>
    BY <1>4, Zenon
  <2>1. inbox[r][i] \in Cut /\ at[inbox[r][i]] = <<"inbox", r, i>>
    BY <1>1, Zenon DEF OwnedAs
  <2>2. inbox[r][i] \in Block
    BY <2>1, Zenon DEF Cut
  <2> QED BY <1>2, <1>6, <1>7, <2>1, <2>2
<1>13. OwnedAs(at2)'
  BY <1>8, <1>9, <1>10, <1>11, <1>12, Zenon DEF OwnedAs
<1> QED BY <1>13, Zenon DEF OwnerInv

\* CmiAllocIpcBlock takes the first block of the PE's private list.
LEMMA AllocCachedInv ==
    ASSUME IInv, NEW s \in Sender, AllocCached(s) PROVE IInv'
<1> DEFINE c == Cache(s)
           o == head[c]
<1>1. c \in List /\ o \in Block /\ pc[s] = "alloc"
  BY ListFacts, OffsetFacts, ZenonT(30) DEF AllocCached, Cache, IInv, PcInv, TypeOK, SegmentInv, Request, Offset
<1>2. o \in Cut /\ (\A t \in Thread : cur[t] # o) /\ heap # nil
  BY <1>1, FirstOfList, Zenon DEF IInv, OwnerInv
<1>3. next[o] \in Offset
  BY <1>1, Zenon DEF IInv, TypeOK
<1>4. head' \in [List -> Offset \cup {nil}]
  BY <1>3, ZenonT(30) DEF IInv, TypeOK, AllocCached
<1>5. /\ Cut' = Cut /\ size' = size
      /\ pc' = [pc EXCEPT ![s] = "link"] /\ cur' = [cur EXCEPT ![s] = o]
      /\ TypeOK' /\ PcInv' /\ CutInv' /\ BlocksDisjoint'
  BY <1>1, <1>2, <1>4, ObtainInv, Zenon DEF AllocCached
<1>6. SegmentInv'
  BY <1>2, <1>3, OffsetFacts, ListKinds, Zenon DEF SegmentInv, AllocCached, IInv, TypeOK
<1>7. head' = [head EXCEPT ![c] = max, ![c] = next[o]]
  BY Zenon DEF AllocCached, IInv, TypeOK
<1>8. OwnerInv'
  BY <1>1, <1>5, <1>7, PopOwner, Zenon DEF AllocCached, recvVars, Pushing
<1> QED BY <1>5, <1>6, <1>8, Zenon DEF IInv

\* CmiAllocIpcBlock takes over what has been freed, or goes on to the heap.
LEMMA AllocRefillInv ==
    ASSUME IInv, NEW s \in Sender, AllocRefill(s) PROVE IInv'
<1> DEFINE c == Cache(s)
           l == Ret(s)
           o == head[l]
<1>1. c \in List /\ l \in List /\ c # l /\ head[c] = max /\ pc[s] = "alloc" /\ heap # nil
  BY ListFacts, Zenon DEF AllocRefill, Cache, Ret, IInv, PcInv, Request
<1>2. CASE o = max
  <2> USE <1>2 DEF recvVars, logVars, blockVars
  <2>1. pc' = [pc EXCEPT ![s] = "cut"]
    BY Zenon DEF AllocRefill
  <2>2. pc' \in [Thread -> SenderPc \cup RankPc]
    BY <2>1, Zenon DEF IInv, TypeOK, SenderPc
  <2>3. UNCHANGED <<heap, next, req, tries, off, nsent, recvVars, logVars, head, cur, blockVars>>
    BY Zenon DEF AllocRefill
  <2>4. TypeOK'
    BY <2>2, <2>3, Zenon DEF IInv, TypeOK
  <2>5. Cut' = Cut
    BY <2>3, Zenon DEF Cut
  <2>6. PcInv'
    BY <1>1, <2>1, <2>3, <2>5, Zenon DEF IInv, PcInv, TypeOK, SenderPc, Pushing, Thread
  <2>7. SegmentInv'
    BY <1>1, <2>3, <2>5, Zenon DEF IInv, SegmentInv
  <2>8. CutInv' /\ BlocksDisjoint'
    BY <2>3, <2>5, Zenon DEF IInv, CutInv, BlocksDisjoint
  <2>9. OwnerInv'
    BY <1>1, <2>1, <2>3, OwnerFrame DEF IInv, TypeOK, InHand, Pushing
  <2> QED BY <2>4, <2>6, <2>7, <2>8, <2>9, Zenon DEF IInv
<1>3. CASE o # max
  <2> USE <1>3
  <2>1. o \in Block
    BY <1>1, OffsetFacts, Zenon DEF IInv, SegmentInv, TypeOK, Offset
  <2>2. o \in Cut /\ (\A t \in Thread : cur[t] # o)
    BY <1>1, <2>1, FirstOfList, Zenon DEF IInv, OwnerInv
  <2>3. next[o] \in Offset
    BY <2>1, Zenon DEF IInv, TypeOK
  <2>4. Obtain(s, o, size[o]) /\ head' = [head EXCEPT ![l] = max, ![c] = next[o]]
    BY Zenon DEF AllocRefill
  <2>5. head' \in [List -> Offset \cup {nil}]
    BY <2>3, <2>4, ZenonT(30) DEF IInv, TypeOK, Offset
  <2>6. /\ Cut' = Cut /\ size' = size
        /\ pc' = [pc EXCEPT ![s] = "link"] /\ cur' = [cur EXCEPT ![s] = o]
        /\ TypeOK' /\ PcInv' /\ CutInv' /\ BlocksDisjoint'
    BY <1>1, <2>2, <2>4, <2>5, ObtainInv, ZenonT(30) DEF AllocRefill
  <2>7. SegmentInv'
    BY <1>1, <2>3, <2>4, OffsetFacts, ListKinds, Zenon DEF SegmentInv, AllocRefill, IInv, TypeOK
  <2>8. OwnerInv'
    BY <1>1, <2>1, <2>4, <2>6, PopOwner, Zenon DEF AllocRefill, recvVars, Pushing
  <2> QED BY <2>6, <2>7, <2>8, Zenon DEF IInv
<1> QED BY <1>2, <1>3, Zenon

\* Cutting a block: the swap succeeds only at the offset that was checked, so
\* the new block starts where every other one has ended.
LEMMA CutSwapInv ==
    ASSUME IInv, NEW s \in Sender, CutSwap(s) PROVE IInv'
<1> DEFINE o == off[s]
           b == req[s].bin
<1> USE DEF recvVars, logVars
<1>1. /\ pc[s] = "casheap" /\ heap = o /\ heap' = o + Stride[b] /\ Obtain(s, o, b)
      /\ UNCHANGED <<head, next, req, tries, off, recvVars, logVars>>
  BY Zenon DEF CutSwap
<1>2. b \in Bin /\ req[s].dest \in Dest /\ nsent'[s] \in Nat \ {0}
  BY <1>1 DEF IInv, PcInv, TypeOK, Request, Obtain
<1>3. Stride[b] \in Nat \ {0} /\ o \in Nat /\ Begin <= o /\ o + Stride[b] <= End
  <2>1. Stride[b] \in Nat \ {0}
    BY <1>2, Zenon
  <2>2. o \in Nat
    BY Zenon DEF IInv, TypeOK
  <2>3. o \in Begin .. heap /\ o + Stride[b] <= End
    BY <1>1, Zenon DEF IInv, PcInv
  <2> QED BY <1>1, <2>1, <2>2, <2>3
<1>4. o \in Block /\ heap' \in Begin .. End /\ heap # nil /\ heap' # nil /\ heap < heap'
  BY <1>1, <1>3 DEF Block, nil
<1>5. \A q \in Cut : q \in Nat /\ Stride[size[q]] \in Nat \ {0} /\ q + Stride[size[q]] <= o
  BY <1>1, OffsetFacts, Zenon DEF IInv, BlocksDisjoint, TypeOK, Cut
<1>6. o \notin Cut
  BY <1>3, <1>5
<1>7. size' = [size EXCEPT ![o] = b] /\ size' \in [Block -> Bin \cup {NoBin}]
  BY <1>1, <1>2, Zenon DEF Obtain, IInv, TypeOK
<1>8. Cut' = Cut \cup {o}
  BY <1>2, <1>4, <1>7, OffsetFacts DEF Cut, IInv, TypeOK
<1>9. ThisMessage(s, req[s].dest) \in Message
  BY <1>2, MessageType, Zenon DEF IInv
<1>10. TypeOK'
  <2>1. body' \in [Block -> Message \cup {NoMessage}]
    BY <1>1, <1>9, Zenon DEF IInv, TypeOK, Obtain
  <2>2. pc' \in [Thread -> SenderPc \cup RankPc]
    BY <1>1, Zenon DEF IInv, TypeOK, Obtain, SenderPc
  <2>3. cur' \in [Thread -> Offset]
    BY <1>1, <1>4, Zenon DEF IInv, TypeOK, Obtain, Offset
  <2>4. owner' \in [Block -> Sender \cup {NoOwner}]
    BY <1>1, Zenon DEF IInv, TypeOK, Obtain
  <2> QED BY <1>1, <1>4, <1>7, <2>1, <2>2, <2>3, <2>4, Zenon DEF IInv, TypeOK, Obtain
<1>11. PcInv'
  <2>1. body'[o].dest = req[s].dest
    BY <1>1, <1>4, Zenon DEF Obtain, IInv, TypeOK, ThisMessage
  <2>2. \A q \in Cut : body'[q] = body[q]
    BY <1>1, <1>6 DEF Obtain, IInv, TypeOK
  <2>3. \A t \in Sender : off[t] \in Begin .. heap => off[t] \in Begin .. heap'
    BY <1>4, SMTT(30) DEF IInv, TypeOK
  <2>4. pc'[s] = "link" /\ cur'[s] = o /\ req[s] \in Request
    BY <1>1, Zenon DEF IInv, PcInv, TypeOK, Obtain, Thread
  <2>5. \A t \in Thread : t # s => pc'[t] = pc[t] /\ cur'[t] = cur[t]
    BY <1>1, Zenon DEF IInv, TypeOK, Obtain
  <2>6. \A t \in Sender : pc'[t] \in Pushing => body'[cur'[t]].dest = req[t].dest
    <3>1. \A t \in Sender : pc[t] \in Pushing => cur[t] \in Cut /\ body[cur[t]].dest = req[t].dest
      BY Zenon DEF IInv, PcInv
    <3>2. ASSUME NEW t \in Sender, t # s, pc'[t] \in Pushing
          PROVE  body'[cur'[t]].dest = req[t].dest
      BY <2>2, <2>5, <3>1, <3>2, Zenon DEF Thread
    <3> QED BY <2>1, <2>4, <3>2, Zenon
  <2>7. ASSUME NEW t \in Sender
        PROVE  /\ pc'[t] \in SenderPc
               /\ pc'[t] # "idle" => req'[t] \in Request /\ nsent'[t] # 0
               /\ pc'[t] = "alloc" => tries'[t] # 0
               /\ pc'[t] = "casheap" => off'[t] \in Begin .. heap'
                                       /\ off'[t] + Stride[req'[t].bin] <= End
               /\ pc'[t] \in Pushing => cur'[t] \in Cut' /\ body'[cur'[t]].dest = req'[t].dest
               /\ pc'[t] \notin Pushing => cur'[t] = max
    <3>1. CASE t = s
      BY <1>1, <1>2, <1>8, <2>4, <2>6, <3>1, ZenonT(30) DEF SenderPc, Pushing
    <3>2. CASE t # s
      <4>1. /\ pc'[t] = pc[t] /\ cur'[t] = cur[t] /\ nsent'[t] = nsent[t]
            /\ UNCHANGED <<req, tries, off>>
        BY <1>1, <2>5, <3>2, Zenon DEF IInv, TypeOK, Obtain, Thread
      <4> QED BY <1>8, <2>3, <2>6, <4>1, Zenon DEF IInv, PcInv
    <3> QED BY <3>1, <3>2, Zenon
  <2>8. \A r \in Rank : /\ pc'[r] \in RankPc
                        /\ pc'[r] \in Pushing \cup Walking => cur'[r] \in Cut'
                        /\ pc'[r] \notin Pushing \cup Walking => cur'[r] = max
                        /\ pc'[r] = "deliver" => inbox'[r] # <<>>
    BY <1>1, <1>8, <2>5, Zenon DEF IInv, PcInv, Thread
  <2> QED BY <2>7, <2>8, Zenon DEF PcInv
<1>12. SegmentInv'
  BY <1>1, <1>4, <1>8, Zenon DEF IInv, SegmentInv, Obtain
<1>13. CutInv'
  BY <1>1, <1>4, <1>8, <1>9, Zenon DEF IInv, CutInv, Obtain, TypeOK, Cut
<1>14. BlocksDisjoint'
  <2>1. \A q \in Cut : size'[q] = size[q]
    BY <1>6, <1>7, Zenon DEF IInv, TypeOK, Cut
  <2>2. size'[o] = b
    BY <1>4, <1>7, Zenon DEF IInv, TypeOK
  <2>3. \A p, q \in Cut : p < q => p + Stride[size[p]] <= q
    BY Zenon DEF IInv, BlocksDisjoint
  <2>4. \A q \in Cut : q < o /\ q + Stride[size'[q]] <= o
    BY <1>3, <1>5, <2>1, SMTT(30)
  <2>5. heap' = o + Stride[size'[o]] /\ o < heap' /\ heap' <= End
    BY <1>1, <1>4, <2>2
  <2>6. \A q \in Cut' : q + Stride[size'[q]] <= heap'
    BY <1>3, <1>4, <1>5, <1>8, <2>1, <2>4, <2>5
  <2>7. \A p, q \in Cut' : p < q => p + Stride[size'[p]] <= q
    <3> SUFFICES ASSUME NEW p \in Cut', NEW q \in Cut', p < q
                 PROVE  p + Stride[size'[p]] <= q
      BY Zenon
    <3>1. p # o
      BY <1>3, <1>5, <1>8
    <3>2. CASE q = o
      BY <1>8, <2>4, <3>1, <3>2, Zenon
    <3>3. CASE q # o
      BY <1>8, <2>1, <2>3, <3>1, <3>3, Zenon
    <3> QED BY <3>2, <3>3, Zenon
  <2> QED BY <2>5, <2>6, <2>7, Zenon DEF BlocksDisjoint
<1>15. OwnerInv'
  <2>1. PICK at \in [Block -> Place] : OwnedAs(at)
    BY Zenon DEF IInv, OwnerInv
  <2>2. cur[s] = max /\ \A t \in Thread : cur[t] # o
    BY <1>1, <1>4, <1>6, <2>1, Zenon DEF IInv, PcInv, OwnedAs, Pushing
  <2>3. cur' = [cur EXCEPT ![s] = o] /\ pc' = [pc EXCEPT ![s] = "link"]
    BY <1>1, Zenon DEF Obtain
  <2>4. Listed' = Listed
    BY <1>1, <1>8, <2>2, <2>3, <1>6, ZenonT(30) DEF Listed, InHand, Pushing, IInv, TypeOK, Thread
  <2>5. PICK at2 \in [Block -> Place] : at2 = [at EXCEPT ![o] = <<"cur", s, 0>>]
    BY Zenon DEF Place, Thread
  <2>6. \A q \in Cut : q \in Block /\ at2[q] = at[q] /\ q \in Cut'
    BY <1>6, <1>8, <2>5, Zenon DEF Cut
  <2>7. \A t \in Thread : cur'[t] \in Block => cur'[t] \in Cut' /\ at2[cur'[t]] = <<"cur", t, 0>>
    BY <1>4, <1>8, <2>1, <2>3, <2>5, <2>6, SMTT(30) DEF OwnedAs, IInv, TypeOK
  <2>8. \A l \in List : head'[l] \in Block => head'[l] \in Cut' /\ at2[head'[l]] = <<"head", l, 0>>
    BY <1>1, <2>1, <2>6, Zenon DEF OwnedAs
  <2>9. \A x \in Listed' : next'[x] \in Block =>
            next'[x] \in Cut' /\ at2[next'[x]] = <<"next", x, 0>>
    BY <1>1, <2>1, <2>4, <2>6, Zenon DEF OwnedAs
  <2>10. \A x \in live' : x \in Cut' /\ at2[x] = <<"live", x, 0>>
    BY <1>1, <2>1, <2>6, Zenon DEF OwnedAs
  <2>11. \A r \in Rank : \A i \in DOMAIN inbox'[r] :
             inbox'[r][i] \in Cut' /\ at2[inbox'[r][i]] = <<"inbox", r, i>>
    BY <1>1, <2>1, <2>6, Zenon DEF OwnedAs
  <2>12. OwnedAs(at2)'
    BY <2>7, <2>8, <2>9, <2>10, <2>11, Zenon DEF OwnedAs
  <2> QED BY <2>12, Zenon DEF OwnerInv
<1> QED BY <1>10, <1>11, <1>12, <1>13, <1>14, <1>15, Zenon DEF IInv
=============================================================================
