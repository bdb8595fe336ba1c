--------------------------- MODULE IpcPool_proofs ---------------------------
(***************************************************************************)
(* What becomes of blocks and messages, for every number of senders, ranks *)
(* and size classes and every segment: a block stays with the PE that cut  *)
(* it, no block leaks, and every message takes one route.                  *)
(***************************************************************************)
EXTENDS IpcPoolInv_proofs

USE ThreadAssumption, SegmentAssumption, BoundAssumption

-----------------------------------------------------------------------------
\* Blocks go home.  `on` gives each block the list it was last pushed on, or the
\* private list its return list became: the links of a list stay in that list,
\* and a return or private list holds only its PE's blocks of its size.
ListedAs(on) ==
    /\ \A l \in List : head[l] \in Block => on[head[l]] = l
    /\ \A o \in Listed : next[o] \in Block => on[next[o]] = on[o]
    /\ \A o \in Listed : on[o] \notin RecvList =>
         on[o] \in {<<"ret", owner[o], size[o]>>, <<"cache", owner[o], size[o]>>}

HomeInv == \E on \in [Block -> List] : ListedAs(on)

\* No block is cut before the process starts.
LEMMA InitHome == Init => HomeInv
<1> SUFFICES ASSUME Init PROVE HomeInv
  BY Zenon
<1>1. Cut = {}
  BY Zenon DEF Init, Cut
<1>2. \A l \in List : head[l] \notin Block
  BY OffsetFacts, Zenon DEF Init, Offset
<1>3. <<"rq", Node>> \in List
  BY Zenon DEF List, SharedList, RecvList, Dest
<1>4. PICK on \in [Block -> List] : on = [o \in Block |-> <<"rq", Node>>]
  BY <1>3, Zenon
<1>5. Listed = {}
  BY <1>1, Zenon DEF Listed
<1>6. ListedAs(on)
  BY <1>2, <1>5, Zenon DEF ListedAs
<1> QED BY <1>6, Zenon DEF HomeInv

\* A step that puts no block on a list, and leaves what is on them alone.
LEMMA HomeFrame ==
    ASSUME NEW on \in [Block -> List], ListedAs(on),
           \A l \in List : head'[l] \in Block => on[head'[l]] = l,
           Listed' \subseteq Listed,
           \A o \in Listed' : /\ next'[o] = next[o]
                              /\ owner'[o] = owner[o] /\ size'[o] = size[o]
    PROVE  HomeInv'
<1>1. \A o \in Listed' : next'[o] \in Block => on[next'[o]] = on[o]
  BY Zenon DEF ListedAs
<1>2. ASSUME NEW o \in Listed', on[o] \notin RecvList
      PROVE  on[o] \in {<<"ret", owner'[o], size'[o]>>, <<"cache", owner'[o], size'[o]>>}
  <2>1. o \in Listed /\ owner'[o] = owner[o] /\ size'[o] = size[o]
    BY Zenon
  <2> QED BY <1>2, <2>1, Zenon DEF ListedAs
<1>3. ListedAs(on)'
  BY <1>1, <1>2, Zenon DEF ListedAs
<1> QED BY <1>3, Zenon DEF HomeInv

\* Nothing is put on a list while every hand keeps the block it holds.
LEMMA ListedFrame ==
    ASSUME UNCHANGED <<size, live, inbox>>,
           \A t \in Thread : InHand(t) => InHand(t)' /\ cur'[t] = cur[t]
    PROVE  Listed' \subseteq Listed
  BY Zenon DEF Listed, Cut

\* Steps that take no block off a list and put none on one.
LEMMA QuietHome ==
    ASSUME HomeInv, UNCHANGED <<next, owner, size, live, inbox>>,
           \A l \in List : head'[l] \in Block => head'[l] = head[l],
           \A t \in Thread : InHand(t) => InHand(t)' /\ cur'[t] = cur[t]
    PROVE  HomeInv'
<1>1. PICK on \in [Block -> List] : ListedAs(on)
  BY Zenon DEF HomeInv
<1>2. \A l \in List : head'[l] \in Block => on[head'[l]] = l
  BY <1>1, Zenon DEF ListedAs
<1>3. Listed' \subseteq Listed
  BY ListedFrame, Zenon
<1> QED BY <1>1, <1>2, <1>3, HomeFrame, Zenon

\* Start-up, and the sends that reach no block.
LEMMA StartHome ==
    ASSUME IInv, HomeInv, OwnerStep \/ \E s \in Sender : SendStart(s) PROVE HomeInv'
<1> USE DEF segVars, blockVars, sendVars, recvVars, logVars
<1>1. CASE InitLists
  <2>1. \A l \in List : head'[l] \in Block => head'[l] = head[l]
    BY <1>1, OffsetFacts, Zenon DEF InitLists
  <2> QED BY <1>1, <2>1, QuietHome, Zenon DEF InitLists, InHand
<1>2. CASE PublishHeap
  BY <1>2, QuietHome, Zenon DEF PublishHeap, InHand
<1>3. ASSUME NEW s \in Sender, NEW d \in Dest, SendNetwork(s, d) PROVE HomeInv'
  BY <1>3, QuietHome, Zenon DEF SendNetwork, InHand
<1>4. ASSUME NEW s \in Sender, NEW d \in Dest, NEW b \in Bin, TrySend(s, d, b)
      PROVE  HomeInv'
  <2>1. \A t \in Thread : InHand(t) => InHand(t)'
    BY <1>4, Zenon DEF TrySend, InHand, Pushing, IInv, TypeOK
  <2> QED BY <1>4, <2>1, QuietHome, Zenon DEF TrySend
<1> QED BY <1>1, <1>2, <1>3, <1>4, Zenon DEF OwnerStep, SendStart

\* An attempt that times out, finds the segment full or goes on to the heap.
LEMMA RetryHome ==
    ASSUME IInv, HomeInv, NEW s \in Sender,
           AllocTimeout(s) \/ CutRead(s) \/ CutRetry(s) PROVE HomeInv'
<1> USE DEF segVars, blockVars, sendVars, recvVars, logVars
<1>1. /\ UNCHANGED <<next, owner, size, live, inbox, head, cur>>
      /\ pc[s] \notin Pushing
      /\ \A t \in Thread : t # s => pc'[t] = pc[t]
  BY Zenon DEF AllocTimeout, CutRead, CutRetry, CheckFit, FallBack, Pushing, IInv, TypeOK
<1>2. \A t \in Thread : InHand(t) => InHand(t)'
  BY <1>1, Zenon DEF InHand
<1> QED BY <1>1, <1>2, QuietHome, Zenon

\* What is first on a return or private list is its PE's block, of its size.
LEMMA FirstIsMine ==
    ASSUME IInv, NEW on \in [Block -> List], ListedAs(on),
           NEW l \in List, l \notin RecvList, head[l] \in Block
    PROVE  /\ head[l] \in Listed /\ on[head[l]] = l
           /\ l[2] = owner[head[l]] /\ l[3] = size[head[l]]
<1>1. head[l] \in Listed
  BY FirstOfList, Zenon DEF IInv, OwnerInv
<1>2. on[head[l]] = l
  BY Zenon DEF ListedAs
<1>3. l \in {<<"ret", owner[head[l]], size[head[l]]>>, <<"cache", owner[head[l]], size[head[l]]>>}
  BY <1>1, <1>2, Zenon DEF ListedAs
<1>4. l[2] = owner[head[l]] /\ l[3] = size[head[l]]
  BY <1>3
<1> QED BY <1>1, <1>2, <1>4, Zenon

\* CmiAllocIpcBlock takes the first of the PE's own blocks.
LEMMA CachedHome ==
    ASSUME IInv, HomeInv, NEW s \in Sender, AllocCached(s)
    PROVE  HomeInv' /\ owner' = owner /\ size' = size
<1> DEFINE c == Cache(s)
           o == head[c]
<1>1. PICK on \in [Block -> List] : ListedAs(on)
  BY Zenon DEF HomeInv
<1>2. pc[s] = "alloc" /\ req[s].bin \in Bin /\ c \in CacheList /\ c \in List
  BY ListFacts, Zenon DEF AllocCached, Cache, IInv, PcInv, Request
<1>3. o \in Block
  BY <1>2, OffsetFacts, Zenon DEF AllocCached, IInv, SegmentInv, TypeOK, Offset
<1>4. o \in Listed /\ on[o] = c /\ owner[o] = s
  <2>1. c \notin RecvList /\ c[2] = s
    BY DEF Cache, RecvList
  <2> HIDE DEF c
  <2> QED BY <1>1, <1>2, <1>3, <2>1, FirstIsMine, Zenon
<1>5. owner' = owner /\ size' = size
  BY <1>3, <1>4, Zenon DEF AllocCached, Obtain, IInv, TypeOK
<1>6. \A t \in Thread : InHand(t) => InHand(t)' /\ cur'[t] = cur[t]
  BY <1>2, Zenon DEF AllocCached, Obtain, InHand, Pushing, IInv, TypeOK
<1>7. Listed' \subseteq Listed
  BY <1>5, <1>6, ListedFrame, Zenon DEF AllocCached, recvVars
<1>8. head' = [head EXCEPT ![c] = next[o]] /\ next' = next
  BY Zenon DEF AllocCached
<1>9. \A l \in List : head'[l] \in Block => on[head'[l]] = l
  BY <1>1, <1>2, <1>4, <1>8, Zenon DEF ListedAs, IInv, TypeOK
<1> QED BY <1>1, <1>5, <1>7, <1>8, <1>9, HomeFrame, Zenon

\* It makes the whole of the PE's return list its private list.
LEMMA RefillHome ==
    ASSUME IInv, HomeInv, NEW s \in Sender, AllocRefill(s)
    PROVE  HomeInv' /\ owner' = owner /\ size' = size
<1> DEFINE c == Cache(s)
           r == Ret(s)
           o == head[r]
<1>1. PICK on \in [Block -> List] : ListedAs(on)
  BY Zenon DEF HomeInv
<1>2. /\ pc[s] = "alloc" /\ req[s].bin \in Bin /\ c \in List /\ r \in List /\ c # r
      /\ head[c] = max /\ heap # nil /\ UNCHANGED <<next, inbox, live>>
  BY ListFacts, Zenon DEF AllocRefill, Cache, Ret, IInv, PcInv, Request, recvVars
<1>3. CASE o = max
  <2>1. pc' = [pc EXCEPT ![s] = "cut"] /\ UNCHANGED <<head, cur, owner, size>>
    BY <1>3, Zenon DEF AllocRefill, blockVars
  <2>2. \A t \in Thread : InHand(t) => InHand(t)'
    BY <1>2, <2>1, Zenon DEF InHand, Pushing, IInv, TypeOK
  <2> QED BY <1>2, <2>1, <2>2, QuietHome, Zenon
<1>4. CASE o # max
  <2>1. Obtain(s, o, size[o]) /\ head' = [head EXCEPT ![r] = max, ![c] = next[o]]
    BY <1>4, Zenon DEF AllocRefill
  <2>2. o \in Block
    BY <1>2, <1>4, Zenon DEF IInv, SegmentInv, TypeOK, Offset
  <2>3. o \in Listed /\ on[o] = r /\ owner[o] = s
    <3>1. r \notin RecvList /\ r[2] = s
      BY DEF Ret, RecvList
    <3> HIDE DEF r
    <3> QED BY <1>1, <1>2, <2>2, <3>1, FirstIsMine, Zenon
  <2>4. owner' = owner /\ size' = size
    BY <2>1, <2>2, <2>3, Zenon DEF Obtain, IInv, TypeOK
  <2>5. \A t \in Thread : InHand(t) => InHand(t)' /\ cur'[t] = cur[t]
    BY <1>2, <2>1, Zenon DEF Obtain, InHand, Pushing, IInv, TypeOK
  <2>6. Listed' \subseteq Listed
    BY <1>2, <2>4, <2>5, ListedFrame, Zenon
  <2>7. PICK on2 \in [Block -> List] :
            \A q \in Block : on2[q] = IF on[q] = r THEN c ELSE on[q]
    <3>1. [q \in Block |-> IF on[q] = r THEN c ELSE on[q]] \in [Block -> List]
      BY <1>2, Zenon
    <3> QED BY <3>1, Zenon
  <2>8. \A l \in List : head'[l] \in Block => on2[head'[l]] = l
    <3> SUFFICES ASSUME NEW l \in List, head'[l] \in Block PROVE on2[head'[l]] = l
      BY Zenon
    <3>1. CASE l = c
      <4>1. head'[l] = next[o] /\ on[next[o]] = r
        BY <1>1, <1>2, <2>1, <2>3, <3>1, Zenon DEF ListedAs, IInv, TypeOK
      <4> QED BY <2>7, <3>1, <4>1, Zenon
    <3>2. CASE l # c
      <4>1. l # r /\ head'[l] = head[l]
        BY <1>2, <2>1, <3>2, OffsetFacts, Zenon DEF IInv, TypeOK
      <4> QED BY <1>1, <2>7, <4>1, Zenon DEF ListedAs
    <3> QED BY <3>1, <3>2, Zenon
  <2>9. \A x \in Listed : next[x] \in Block => on2[next[x]] = on2[x]
    BY <1>1, <2>7, Zenon DEF ListedAs, Listed, Cut
  <2>10. ASSUME NEW x \in Listed, on2[x] \notin RecvList
         PROVE  on2[x] \in {<<"ret", owner[x], size[x]>>, <<"cache", owner[x], size[x]>>}
    <3>1. x \in Block
      BY Zenon DEF Listed, Cut
    <3>2. CASE on[x] = r
      <4>1. r \in {<<"ret", owner[x], size[x]>>, <<"cache", owner[x], size[x]>>}
        <5>1. r \notin RecvList
          BY DEF Ret, RecvList
        <5> QED BY <1>1, <3>2, <5>1, Zenon DEF ListedAs
      <4>2. r[2] = s /\ r[3] = req[s].bin
        BY DEF Ret
      <4>3. owner[x] = s /\ size[x] = req[s].bin
        <5>1. r[2] = owner[x] /\ r[3] = size[x]
          BY <4>1
        <5> QED BY <4>2, <5>1, Zenon
      <4> QED BY <2>7, <3>1, <3>2, <4>3, Zenon DEF Cache
    <3>3. CASE on[x] # r
      BY <1>1, <2>7, <2>10, <3>1, <3>3, Zenon DEF ListedAs
    <3> QED BY <3>2, <3>3, Zenon
  <2>11. ListedAs(on2)'
    BY <1>2, <2>4, <2>6, <2>8, <2>9, <2>10, Zenon DEF ListedAs
  <2> QED BY <2>4, <2>11, Zenon DEF HomeInv
<1> QED BY <1>3, <1>4, Zenon

\* The heap offset a sender's swap confirms is past every block.
LEMMA CutFresh == ASSUME IInv, NEW s \in Sender, CutSwap(s) PROVE off[s] \notin Cut
<1> SUFFICES ASSUME off[s] \in Cut PROVE FALSE
  BY Zenon
<1>1. /\ off[s] \in Nat /\ Stride[size[off[s]]] \in Nat \ {0}
      /\ off[s] + Stride[size[off[s]]] <= off[s]
  BY OffsetFacts, Zenon DEF CutSwap, IInv, BlocksDisjoint, TypeOK, Cut
<1> QED BY <1>1

\* It leaves room for the block below the segment's end.
LEMMA CutInBlock == ASSUME IInv, NEW s \in Sender, CutSwap(s) PROVE off[s] \in Block
<1>1. pc[s] = "casheap" /\ req[s].bin \in Bin
  BY Zenon DEF CutSwap, IInv, PcInv, Request
<1>2. off[s] \in Nat /\ Stride[req[s].bin] \in Nat \ {0}
  BY <1>1, Zenon DEF IInv, TypeOK
<1>3. off[s] \in Begin .. heap /\ off[s] + Stride[req[s].bin] <= End
  BY <1>1, Zenon DEF IInv, PcInv
<1> QED BY <1>2, <1>3 DEF Block

\* A block cut from the heap was no block before, and is in its PE's hand.
LEMMA CutHome ==
    ASSUME IInv, HomeInv, NEW s \in Sender, CutSwap(s)
    PROVE  HomeInv' /\ \A q \in Cut : owner'[q] = owner[q] /\ size'[q] = size[q]
<1> DEFINE o == off[s]
<1> USE DEF recvVars
<1>1. PICK on \in [Block -> List] : ListedAs(on)
  BY Zenon DEF HomeInv
<1>2. /\ pc[s] = "casheap" /\ heap = o /\ Obtain(s, o, req[s].bin)
      /\ UNCHANGED <<head, next, inbox, live>>
  BY Zenon DEF CutSwap
<1>3. o \notin Cut
  BY CutFresh, Zenon
<1>4. \A q \in Cut : owner'[q] = owner[q] /\ size'[q] = size[q]
  BY <1>2, <1>3, Zenon DEF Obtain, IInv, TypeOK, Cut
<1>5. \A q \in Cut' : q \in Cut \/ q = o
  BY <1>2, Zenon DEF Obtain, Cut, IInv, TypeOK
<1>6. InHand(s)' /\ cur'[s] = o
  BY <1>2, Zenon DEF Obtain, InHand, Pushing, IInv, TypeOK, Thread
<1>7. \A t \in Thread : InHand(t) => InHand(t)' /\ cur'[t] = cur[t]
  BY <1>2, Zenon DEF Obtain, InHand, Pushing, IInv, TypeOK
<1>8. Listed' \subseteq Listed
  <2> SUFFICES ASSUME NEW x \in Listed' PROVE x \in Listed
    BY Zenon
  <2>1. s \in Thread
    BY Zenon DEF Thread
  <2>2. x \in Cut
    BY <1>5, <1>6, <2>1, Zenon DEF Listed
  <2> QED BY <1>2, <1>7, <2>2, Zenon DEF Listed
<1>9. \A x \in Listed' : next'[x] = next[x] /\ owner'[x] = owner[x] /\ size'[x] = size[x]
  BY <1>2, <1>4, <1>8, Zenon DEF Listed
<1>10. \A l \in List : head'[l] \in Block => on[head'[l]] = l
  BY <1>1, <1>2, Zenon DEF ListedAs
<1> QED BY <1>1, <1>4, <1>8, <1>9, <1>10, HomeFrame, Zenon

\* pushList_ writes the link of a block that is in no list yet.
LEMMA LinkHome ==
    ASSUME IInv, HomeInv, NEW t \in Thread, PushLink(t) \/ PushRetry(t) PROVE HomeInv'
<1> USE DEF blockVars, recvVars
<1>1. PICK on \in [Block -> List] : ListedAs(on)
  BY Zenon DEF HomeInv
<1>2. /\ pc[t] \in Pushing /\ pc'[t] \in Pushing
      /\ \A u \in Thread : u # t => pc'[u] = pc[u]
      /\ \A x \in Block : x # cur[t] => next'[x] = next[x]
      /\ UNCHANGED <<head, owner, size, cur, inbox, live>>
  BY Zenon DEF PushLink, PushRetry, Pushing, IInv, TypeOK
<1>3. \A u \in Thread : InHand(u) => InHand(u)'
  BY <1>2, Zenon DEF InHand
<1>4. Listed' \subseteq Listed
  BY <1>2, <1>3, ListedFrame, Zenon
<1>5. \A x \in Listed : x \in Block /\ x # cur[t]
  BY <1>2, Zenon DEF Listed, Cut, InHand
<1>6. \A x \in Listed' : next'[x] = next[x] /\ owner'[x] = owner[x] /\ size'[x] = size[x]
  BY <1>2, <1>4, <1>5, Zenon
<1>7. \A l \in List : head'[l] \in Block => on[head'[l]] = l
  BY <1>1, <1>2, Zenon DEF ListedAs
<1> QED BY <1>1, <1>4, <1>6, <1>7, HomeFrame, Zenon

\* The swap puts the block on its receiver's queue, or on the return list of
\* the PE that cut it, for its size.
LEMMA SwapHome == ASSUME IInv, HomeInv, NEW t \in Thread, PushSwap(t) PROVE HomeInv'
<1> DEFINE o == cur[t]
           l == Target(t)
<1> USE DEF blockVars, recvVars
<1>1. PICK on \in [Block -> List] : ListedAs(on)
  BY Zenon DEF HomeInv
<1>2. PICK at \in [Block -> Place] : OwnedAs(at)
  BY Zenon DEF IInv, OwnerInv
<1>3. /\ pc[t] \in Pushing /\ head[l] = next[o]
      /\ head' = [head EXCEPT ![l] = o]
      /\ cur' = [cur EXCEPT ![t] = max]
      /\ pc' = [pc EXCEPT ![t] = "idle"]
      /\ UNCHANGED <<next, owner, size, inbox, live>>
  BY Zenon DEF PushSwap, Pushing
<1>4. l \in List /\ o \in Cut /\ o \in Block /\ head[l] \in Offset
  BY <1>3, PushFacts, Zenon
<1>5. at[o] = <<"cur", t, 0>>
  BY <1>2, <1>4, Zenon DEF OwnedAs
<1>6. \A m \in List : head[m] # o
  BY <1>2, <1>4, <1>5 DEF OwnedAs
<1>7. \A x \in Listed : x \in Block /\ x # o /\ next[x] # o
  <2>1. \A x \in Listed : x \in Block /\ x # o
    BY <1>3, Zenon DEF Listed, Cut, InHand
  <2>2. \A x \in Listed : next[x] # o
    BY <1>2, <1>4, <1>5 DEF OwnedAs
  <2> QED BY <2>1, <2>2, Zenon
<1>8. Listed' \subseteq Listed \cup {o}
  <2>1. \A u \in Thread : u # t => InHand(u)' = InHand(u) /\ cur'[u] = cur[u]
    BY <1>3, Zenon DEF InHand, IInv, TypeOK
  <2>2. Cut' = Cut
    BY <1>3, Zenon DEF Cut
  <2> SUFFICES ASSUME NEW x \in Listed', x # o PROVE x \in Listed
    BY Zenon
  <2>3. \A u \in Thread : InHand(u) => cur[u] # x
    BY <2>1, Zenon DEF Listed
  <2> QED BY <1>3, <2>2, <2>3, Zenon DEF Listed
<1>9. PICK on2 \in [Block -> List] :
          on2[o] = l /\ \A q \in Block : q # o => on2[q] = on[q]
  <2>1. [on EXCEPT ![o] = l] \in [Block -> List]
    BY <1>4, Zenon
  <2> QED BY <1>4, <2>1, Zenon
<1>10. \A m \in List : head'[m] \in Block => on2[head'[m]] = m
  <2> SUFFICES ASSUME NEW m \in List, head'[m] \in Block PROVE on2[head'[m]] = m
    BY Zenon
  <2>1. CASE m = l
    BY <1>3, <1>4, <1>9, <2>1, Zenon DEF IInv, TypeOK
  <2>2. CASE m # l
    <3>1. head'[m] = head[m]
      BY <1>3, <2>2, Zenon DEF IInv, TypeOK
    <3> QED BY <1>1, <1>6, <1>9, <3>1, Zenon DEF ListedAs
  <2> QED BY <2>1, <2>2, Zenon
<1>11. ASSUME NEW x \in Listed', next'[x] \in Block PROVE on2[next'[x]] = on2[x]
  <2>1. CASE x = o
    <3>1. next'[x] = head[l]
      BY <1>3, <2>1, Zenon
    <3>2. head[l] \in Block /\ head[l] # o
      BY <1>4, <1>6, <1>11, <3>1, Zenon
    <3>3. on[head[l]] = l
      BY <1>1, <1>4, <3>2, Zenon DEF ListedAs
    <3> QED BY <1>9, <2>1, <3>1, <3>2, <3>3, Zenon
  <2>2. CASE x # o
    <3>1. x \in Listed /\ next'[x] = next[x] /\ on[next[x]] = on[x]
      BY <1>1, <1>3, <1>8, <1>11, <2>2, Zenon DEF ListedAs
    <3> QED BY <1>7, <1>9, <1>11, <3>1, Zenon
  <2> QED BY <2>1, <2>2, Zenon
<1>12. ASSUME NEW x \in Listed', on2[x] \notin RecvList
       PROVE  on2[x] \in {<<"ret", owner[x], size[x]>>, <<"cache", owner[x], size[x]>>}
  <2>1. CASE x = o
    <3>1. l \notin RecvList
      BY <1>9, <1>12, <2>1, Zenon
    <3>2. l = <<"ret", owner[o], size[o]>>
      <4>1. t \in Sender => body[o].dest \in Dest
        BY <1>3, Zenon DEF IInv, PcInv, Request, Pushing
      <4> QED BY <3>1, <4>1, Zenon DEF Target, RecvList
    <3> QED BY <1>9, <2>1, <3>2, Zenon
  <2>2. CASE x # o
    <3>1. x \in Listed /\ on2[x] = on[x]
      BY <1>7, <1>8, <1>9, <2>2, Zenon
    <3> QED BY <1>1, <1>12, <3>1, Zenon DEF ListedAs
  <2> QED BY <2>1, <2>2, Zenon
<1>13. ListedAs(on2)'
  BY <1>3, <1>10, <1>11, <1>12, Zenon DEF ListedAs
<1> QED BY <1>13, Zenon DEF HomeInv

\* A receiver takes lists over and hands their blocks on; a delivered block that
\* is freed goes to a PE's hand.
LEMMA ReceiveHome ==
    ASSUME IInv, HomeInv, NEW r \in Rank, RecvStep(r) \/ FreeStart(r) PROVE HomeInv'
<1> USE DEF segVars, blockVars, recvVars
<1>1. PICK on \in [Block -> List] : ListedAs(on)
  BY Zenon DEF HomeInv
<1>2. r \in Thread /\ UNCHANGED <<next, owner, size>>
  BY Zenon DEF RecvStep, FreeStart, Poll, TakeNode, Walk, Deliver, Free, Thread
<1>3. \A l \in List : head'[l] \in Block => head'[l] = head[l]
  <2>1. ASSUME NEW d, NEW w, NEW e, TakeList(r, d, w, e), NEW l \in List, head'[l] \in Block
        PROVE  head'[l] = head[l]
    BY <2>1, OffsetFacts, Zenon DEF TakeList, IInv, TypeOK
  <2> QED BY <2>1, Zenon DEF RecvStep, FreeStart, Poll, TakeNode, Walk, Deliver, Free
<1>4. ~ InHand(r) /\ \A u \in Thread : u # r => pc'[u] = pc[u] /\ cur'[u] = cur[u]
  <2>1. ~ InHand(r)
    BY Zenon DEF InHand, RecvStep, FreeStart, Poll, TakeNode, Walk, Deliver, Free, Pushing, Walking
  <2>2. \A u \in Thread : u # r => pc'[u] = pc[u]
    BY Zenon DEF RecvStep, FreeStart, Poll, TakeNode, TakeList, Walk, Deliver, Free, IInv, TypeOK
  <2>3. \A u \in Thread : u # r => cur'[u] = cur[u]
    BY Zenon DEF RecvStep, FreeStart, Poll, TakeNode, TakeList, Walk, Deliver, Free, IInv, TypeOK
  <2> QED BY <2>1, <2>2, <2>3, Zenon
<1>5. \A u \in Thread : InHand(u) => InHand(u)' /\ cur'[u] = cur[u]
  BY <1>4, Zenon DEF InHand
<1>6. Listed' \subseteq Listed
  <2>1. CASE Poll(r) \/ TakeNode(r)
    BY <1>2, <1>5, <2>1, ListedFrame, Zenon DEF Poll, TakeNode
  <2>2. CASE Walk(r)
    <3>1. live' = live
      BY <2>2, Zenon DEF Walk
    <3>2. ASSUME NEW q \in Rank, NEW i \in DOMAIN inbox[q]
          PROVE  i \in DOMAIN inbox'[q] /\ inbox'[q][i] = inbox[q][i]
      <4>1. CASE q # r
        BY <2>2, <3>2, <4>1, Zenon DEF Walk, IInv, TypeOK
      <4>2. CASE q = r
        <5>1. inbox'[r] = Append(inbox[r], cur[r]) /\ inbox[r] \in Seq(Block)
          BY <2>2, Zenon DEF Walk, IInv, TypeOK
        <5> QED BY <3>2, <4>2, <5>1
      <4> QED BY <4>1, <4>2, Zenon
    <3> SUFFICES ASSUME NEW x \in Listed' PROVE x \in Listed
      BY Zenon
    <3>3. /\ x \in Cut /\ x \notin live /\ x \notin live'
          /\ \A u \in Thread : InHand(u) => cur[u] # x
      BY <1>2, <1>5, <3>1, Zenon DEF Listed, Cut
    <3>4. \A q \in Rank : \A i \in DOMAIN inbox'[q] : inbox'[q][i] # x
      BY Zenon DEF Listed
    <3>5. ASSUME NEW q \in Rank, NEW i \in DOMAIN inbox[q] PROVE inbox[q][i] # x
      BY <3>2, <3>3, <3>4, <3>5, Zenon
    <3> QED BY <3>3, <3>5, Zenon DEF Listed
  <2>3. CASE Deliver(r)
    <3> DEFINE n == Len(inbox[r])
    <3>1. live' = live \cup {inbox[r][n]} /\ inbox' = [inbox EXCEPT ![r] = SubSeq(@, 1, n - 1)]
      BY <2>3, Zenon DEF Deliver
    <3>2. ASSUME NEW q \in Rank, NEW i \in DOMAIN inbox[q]
          PROVE  inbox[q][i] \in live' \/ (i \in DOMAIN inbox'[q] /\ inbox'[q][i] = inbox[q][i])
      <4>1. CASE q # r
        BY <3>1, <3>2, <4>1, Zenon DEF IInv, TypeOK
      <4>2. CASE q = r
        <5>1. inbox'[r] = SubSeq(inbox[r], 1, n - 1) /\ inbox[r] \in Seq(Block)
          BY <3>1, Zenon DEF IInv, TypeOK
        <5>2. CASE i = n
          BY <3>1, <4>2, <5>2, Zenon
        <5>3. CASE i # n
          BY <3>2, <4>2, <5>1, <5>3
        <5> QED BY <5>2, <5>3, Zenon
      <4> QED BY <4>1, <4>2, Zenon
    <3> SUFFICES ASSUME NEW x \in Listed' PROVE x \in Listed
      BY Zenon
    <3>3. /\ x \in Cut /\ x \notin live /\ x \notin live'
          /\ \A u \in Thread : InHand(u) => cur[u] # x
      BY <1>2, <1>5, <3>1, Zenon DEF Listed, Cut
    <3>4. \A q \in Rank : \A i \in DOMAIN inbox'[q] : inbox'[q][i] # x
      BY Zenon DEF Listed
    <3>5. ASSUME NEW q \in Rank, NEW i \in DOMAIN inbox[q] PROVE inbox[q][i] # x
      BY <3>2, <3>3, <3>4, <3>5, Zenon
    <3> QED BY <3>3, <3>5, Zenon DEF Listed
  <2>4. ASSUME NEW o \in live, Free(r, o) PROVE Listed' \subseteq Listed
    <3>1. InHand(r)' /\ cur'[r] = o /\ live' = live \ {o} /\ inbox' = inbox
      BY <1>2, <2>4, Zenon DEF Free, InHand, Pushing, IInv, TypeOK
    <3> QED BY <1>2, <1>5, <3>1, Zenon DEF Listed, Cut
  <2> QED BY <2>1, <2>2, <2>3, <2>4, Zenon DEF RecvStep, FreeStart
<1>7. \A l \in List : head'[l] \in Block => on[head'[l]] = l
  BY <1>1, <1>3, Zenon DEF ListedAs
<1> QED BY <1>1, <1>2, <1>6, <1>7, HomeFrame, Zenon

\* Every step keeps the lists apart, and every block with its owner.
LEMMA NextHome ==
    ASSUME IInv, HomeInv, Next
    PROVE  HomeInv' /\ \A o \in Cut : owner'[o] = owner[o] /\ size'[o] = size[o]
<1> DEFINE Kept == \A o \in Cut : owner'[o] = owner[o] /\ size'[o] = size[o]
<1> USE DEF segVars, blockVars
<1>1. CASE OwnerStep \/ \E s \in Sender : SendStart(s)
  <2>1. UNCHANGED <<owner, size>>
    BY <1>1, Zenon DEF OwnerStep, InitLists, PublishHeap, SendStart, SendNetwork, TrySend
  <2> QED BY <1>1, <2>1, StartHome, Zenon
<1>2. ASSUME NEW s \in Sender, AllocStep(s) PROVE HomeInv' /\ Kept
  <2>1. CASE AllocTimeout(s) \/ CutRead(s) \/ CutRetry(s)
    <3>1. UNCHANGED <<owner, size>>
      BY <2>1, Zenon DEF AllocTimeout, CutRead, CutRetry
    <3> QED BY <2>1, <3>1, RetryHome, Zenon
  <2> QED BY <1>2, <2>1, CachedHome, RefillHome, CutHome, Zenon DEF AllocStep
<1>3. ASSUME NEW t \in Thread, PushStep(t) PROVE HomeInv' /\ Kept
  <2>1. UNCHANGED <<owner, size>>
    BY <1>3, Zenon DEF PushStep, PushLink, PushSwap, PushRetry
  <2> QED BY <1>3, <2>1, LinkHome, SwapHome, Zenon DEF PushStep
<1>4. ASSUME NEW r \in Rank, RecvStep(r) \/ FreeStart(r) PROVE HomeInv' /\ Kept
  <2>1. UNCHANGED <<owner, size>>
    BY <1>4, Zenon DEF RecvStep, FreeStart, Poll, TakeNode, Walk, Deliver, Free
  <2> QED BY <1>4, <2>1, ReceiveHome, Zenon
<1> QED BY <1>1, <1>2, <1>3, <1>4, Zenon DEF Next

\* For any number of PEs freeing and allocating at once, a block returns to the
\* PE that cut it and keeps its size, whoever freed it and however often
\* CmiAllocIpcBlock reuses it.
THEOREM KeepsOwner == Spec => BlockKeepsOwner
<1> DEFINE Kept == \A o \in Cut : owner'[o] = owner[o] /\ size'[o] = size[o]
<1>1. IInv /\ HomeInv /\ [Next]_vars => HomeInv' /\ [Kept]_vars
  <2>1. CASE UNCHANGED vars
    BY <2>1, QuietHome, Zenon DEF vars, InHand
  <2> QED BY <2>1, NextHome, Zenon
<1> HIDE DEF Kept
<1>2. Spec => [][Kept]_vars
  BY InitHome, Invariance, <1>1, PTL DEF Spec
<1> QED BY <1>2, Zenon DEF BlockKeepsOwner, Kept

-----------------------------------------------------------------------------
\* No block leaks.  A set that holds whatever is reachable after a step holds
\* whatever was reachable before it, so what was reachable stays so.
LEMMA LeakFrame ==
    ASSUME NoLeak,
           \A S \in SUBSET Block : HoldsReachable(S)' =>
               HoldsReachable(S) /\ \A o \in Cut' \ Cut : o \in S
    PROVE  NoLeak'
<1> SUFFICES ASSUME NEW o \in Cut', NEW S \in SUBSET (Block \ {o}), HoldsReachable(S)'
             PROVE  FALSE
  BY Zenon DEF NoLeak
<1>1. S \in SUBSET Block /\ o \notin S
  BY Zenon
<1>2. HoldsReachable(S) /\ o \in Cut
  BY <1>1, Zenon
<1> QED BY <1>1, <1>2, Zenon DEF NoLeak

\* A step that keeps the hands and the links, and takes no block off a list.
LEMMA QuietLeak ==
    ASSUME NoLeak, UNCHANGED <<next, size, cur, live, inbox>>,
           \A l \in List : head[l] \in Block => head'[l] = head[l],
           \A t \in Thread : InHand(t)' => InHand(t)
    PROVE  NoLeak'
<1>1. Cut' = Cut /\ Listed \subseteq Listed'
  BY Zenon DEF Cut, Listed
<1>2. ASSUME NEW S \in SUBSET Block, HoldsReachable(S)' PROVE HoldsReachable(S)
  <2>1. \A l \in List : head[l] \in Block => head[l] \in S
    BY <1>2, Zenon DEF HoldsReachable
  <2>2. \A o \in S \cap Listed : next[o] \in Block => next[o] \in S
    BY <1>1, <1>2, Zenon DEF HoldsReachable
  <2> QED BY <1>2, <2>1, <2>2, Zenon DEF HoldsReachable
<1> QED BY <1>1, <1>2, LeakFrame, Zenon

\* Taking the first block of a list: it is in hand, and the rest is where it
\* can be found.
LEMMA PopLeak ==
    ASSUME IInv, NoLeak, NEW s \in Thread, NEW c \in List, NEW l \in List,
           pc[s] \notin Pushing, cur[s] = max, head[l] \in Block,
           c = l \/ head[c] = max,
           head' = [head EXCEPT ![l] = max, ![c] = next[head[l]]],
           cur' = [cur EXCEPT ![s] = head[l]],
           pc' = [pc EXCEPT ![s] = "link"],
           UNCHANGED <<next, size, inbox, live>>
    PROVE  NoLeak'
<1> DEFINE o == head[l]
<1>1. Cut' = Cut
  BY Zenon DEF Cut
<1>2. Listed \subseteq Listed' \cup {o}
  <2>1. \A t \in Thread : t # s => InHand(t)' = InHand(t) /\ cur'[t] = cur[t]
    BY Zenon DEF InHand, IInv, TypeOK
  <2>2. cur'[s] = o
    BY Zenon DEF IInv, TypeOK
  <2> SUFFICES ASSUME NEW x \in Listed, x # o PROVE x \in Listed'
    BY Zenon
  <2>3. \A t \in Thread : InHand(t)' => cur'[t] # x
    BY <2>1, <2>2, Zenon DEF Listed
  <2> QED BY <1>1, <2>3, Zenon DEF Listed
<1>3. head'[c] = next[o] /\ \A m \in List : m # c => head'[m] = head[m] \/ head[m] = o
  BY Zenon DEF IInv, TypeOK
<1>4. ASSUME NEW S \in SUBSET Block, HoldsReachable(S)' PROVE HoldsReachable(S)
  <2>1. o \in S
    BY <1>4, Zenon DEF HoldsReachable, IInv, TypeOK
  <2>2. next[o] \in Block => next[o] \in S
    BY <1>3, <1>4, Zenon DEF HoldsReachable
  <2>3. \A m \in List : head[m] \in Block => head[m] \in S
    BY <1>3, <1>4, <2>1, OffsetFacts, Zenon DEF HoldsReachable
  <2>4. \A t \in Thread : cur[t] \in Block => cur[t] \in S
    BY <1>4, OffsetFacts, Zenon DEF HoldsReachable, IInv, TypeOK
  <2>5. \A x \in S \cap Listed : next[x] \in Block => next[x] \in S
    BY <1>2, <1>4, <2>2, Zenon DEF HoldsReachable
  <2> QED BY <1>4, <2>3, <2>4, <2>5, Zenon DEF HoldsReachable
<1> QED BY <1>1, <1>4, LeakFrame, Zenon

\* A block cut from the heap is in its PE's hand.
LEMMA CutLeak == ASSUME IInv, NoLeak, NEW s \in Sender, CutSwap(s) PROVE NoLeak'
<1> DEFINE o == off[s]
<1>1. /\ pc[s] = "casheap" /\ Obtain(s, o, req[s].bin)
      /\ UNCHANGED <<head, next, inbox, live>>
  BY Zenon DEF CutSwap, recvVars
<1>2. s \in Thread /\ cur[s] = max /\ o \in Block
  BY <1>1, CutInBlock, Zenon DEF IInv, PcInv, Pushing, Thread
<1>3. \A q \in Cut' : q \in Cut \/ q = o
  BY <1>1, Zenon DEF Obtain, Cut, IInv, TypeOK
<1>4. cur'[s] = o /\ \A t \in Thread : t # s => InHand(t)' = InHand(t) /\ cur'[t] = cur[t]
  BY <1>1, <1>2, Zenon DEF Obtain, InHand, IInv, TypeOK
<1>5. \A q \in Cut : q # o => q \in Cut'
  BY <1>1, Zenon DEF Obtain, Cut, IInv, TypeOK
<1>6. ASSUME NEW x \in Listed, x # o PROVE x \in Listed'
  <2>1. \A t \in Thread : InHand(t)' => cur'[t] # x
    BY <1>4, <1>6, Zenon DEF Listed
  <2> QED BY <1>1, <1>5, <1>6, <2>1, Zenon DEF Listed
<1>7. o \notin Cut
  BY CutFresh, Zenon
<1>8. ASSUME NEW S \in SUBSET Block, HoldsReachable(S)'
      PROVE  HoldsReachable(S) /\ \A q \in Cut' \ Cut : q \in S
  <2>1. o \in S
    BY <1>2, <1>4, <1>8, Zenon DEF HoldsReachable
  <2>2. \A t \in Thread : cur[t] \in Block => cur[t] \in S
    BY <1>2, <1>4, <1>8, OffsetFacts, Zenon DEF HoldsReachable
  <2>3. \A x \in S \cap Listed : next[x] \in Block => next[x] \in S
    <3>1. \A x \in Listed : x \in Listed'
      BY <1>6, <1>7, Zenon DEF Listed
    <3> QED BY <1>1, <1>8, <3>1, Zenon DEF HoldsReachable
  <2>4. HoldsReachable(S)
    BY <1>1, <1>8, <2>2, <2>3, Zenon DEF HoldsReachable
  <2> QED BY <1>3, <2>1, <2>4, Zenon
<1> QED BY <1>8, LeakFrame, Zenon

\* pushList_: the block stays in hand while its link is written ...
LEMMA LinkLeak ==
    ASSUME IInv, NoLeak, NEW t \in Thread, PushLink(t) \/ PushRetry(t) PROVE NoLeak'
<1> USE DEF blockVars, recvVars
<1>1. /\ pc[t] \in Pushing /\ pc'[t] \in Pushing
      /\ \A u \in Thread : u # t => pc'[u] = pc[u]
      /\ \A x \in Block : x # cur[t] => next'[x] = next[x]
      /\ UNCHANGED <<head, size, cur, inbox, live>>
  BY Zenon DEF PushLink, PushRetry, Pushing, IInv, TypeOK
<1>2. \A u \in Thread : InHand(u)' => InHand(u)
  BY <1>1, Zenon DEF InHand
<1>3. Cut' = Cut /\ Listed \subseteq Listed'
  BY <1>1, <1>2, Zenon DEF Cut, Listed
<1>4. \A x \in Listed : next'[x] = next[x]
  BY <1>1, Zenon DEF Listed, Cut, InHand
<1>5. ASSUME NEW S \in SUBSET Block, HoldsReachable(S)' PROVE HoldsReachable(S)
  <2>1. \A x \in S \cap Listed : next[x] \in Block => next[x] \in S
    BY <1>3, <1>4, <1>5, Zenon DEF HoldsReachable
  <2> QED BY <1>1, <1>5, <2>1, Zenon DEF HoldsReachable
<1> QED BY <1>3, <1>5, LeakFrame, Zenon

\* ... and the swap that makes it the first of the list links it to the rest,
\* because the head it replaces is the one its link was written with.
LEMMA SwapLeak == ASSUME IInv, NoLeak, NEW t \in Thread, PushSwap(t) PROVE NoLeak'
<1> DEFINE o == cur[t]
           l == Target(t)
<1> USE DEF blockVars, recvVars
<1>1. PICK at \in [Block -> Place] : OwnedAs(at)
  BY Zenon DEF IInv, OwnerInv
<1>2. /\ pc[t] \in Pushing /\ head[l] = next[o]
      /\ head' = [head EXCEPT ![l] = o]
      /\ cur' = [cur EXCEPT ![t] = max]
      /\ pc' = [pc EXCEPT ![t] = "idle"]
      /\ UNCHANGED <<next, size, inbox, live>>
  BY Zenon DEF PushSwap, Pushing
<1>3. l \in List /\ o \in Cut /\ o \in Block
  BY <1>2, PushFacts, Zenon
<1>4. Cut' = Cut
  BY <1>2, Zenon DEF Cut
<1>5. \A u \in Thread : u # t => InHand(u)' = InHand(u) /\ cur'[u] = cur[u]
  BY <1>2, Zenon DEF InHand, IInv, TypeOK
<1>6. ~ InHand(t)'
  BY <1>2, Zenon DEF InHand, Pushing, IInv, TypeOK
<1>7. ASSUME NEW x \in Listed PROVE x \in Listed'
  <2>1. \A u \in Thread : InHand(u)' => cur'[u] # x
    BY <1>5, <1>6, Zenon DEF Listed
  <2> QED BY <1>2, <1>4, <2>1, Zenon DEF Listed
<1>8. o \in Listed'
  <2>1. at[o] = <<"cur", t, 0>>
    BY <1>1, <1>3, Zenon DEF OwnedAs
  <2>2. o \notin live
    BY <1>1, <2>1 DEF OwnedAs
  <2>3. \A r \in Rank : \A i \in DOMAIN inbox[r] : inbox[r][i] # o
    BY <1>1, <2>1 DEF OwnedAs
  <2>4. \A u \in Thread : InHand(u)' => cur'[u] # o
    <3> SUFFICES ASSUME NEW u \in Thread, u # t PROVE cur[u] # o
      BY <1>5, <1>6, Zenon
    <3>1. cur[u] = o => at[o] = <<"cur", u, 0>>
      BY <1>1, <1>3, Zenon DEF OwnedAs
    <3> QED BY <2>1, <3>1
  <2> QED BY <1>2, <1>3, <1>4, <2>2, <2>3, <2>4, Zenon DEF Listed
<1>9. ASSUME NEW S \in SUBSET Block, HoldsReachable(S)' PROVE HoldsReachable(S)
  <2>1. o \in S
    <3>1. head'[l] = o
      BY <1>2, <1>3, Zenon DEF IInv, TypeOK
    <3> QED BY <1>3, <1>9, <3>1, Zenon DEF HoldsReachable
  <2>2. next[o] \in Block => next[o] \in S
    BY <1>2, <1>8, <1>9, <2>1, Zenon DEF HoldsReachable
  <2>3. \A m \in List : head[m] \in Block => head[m] \in S
    BY <1>2, <1>9, <2>2, Zenon DEF HoldsReachable, IInv, TypeOK
  <2>4. \A u \in Thread : cur[u] \in Block => cur[u] \in S
    BY <1>5, <1>9, <2>1, Zenon DEF HoldsReachable
  <2>5. \A x \in S \cap Listed : next[x] \in Block => next[x] \in S
    BY <1>2, <1>7, <1>9, Zenon DEF HoldsReachable
  <2> QED BY <1>2, <1>9, <2>3, <2>4, <2>5, Zenon DEF HoldsReachable
<1> QED BY <1>4, <1>9, LeakFrame, Zenon

\* takeList_: what was on the list hangs from the PE's hand.
LEMMA TakeLeak ==
    ASSUME IInv, NoLeak, NEW r \in Rank, NEW d \in Dest, NEW w \in Walking,
           NEW e \in {"idle", "node", "deliver"}, TakeList(r, d, w, e), cur[r] = max,
           UNCHANGED <<next, size, inbox, live>>
    PROVE  NoLeak'
<1> DEFINE l == <<"rq", d>>
<1>1. /\ cur' = [cur EXCEPT ![r] = head[l]] /\ head' = [head EXCEPT ![l] = max]
      /\ pc' = [pc EXCEPT ![r] = IF head[l] = max THEN e ELSE w]
  BY Zenon DEF TakeList
<1>2. r \in Thread /\ l \in List
  BY Zenon DEF Thread, SharedList, RecvList, List
<1>3. \A t \in Thread : t # r => InHand(t)' = InHand(t) /\ cur'[t] = cur[t]
  BY <1>1, Zenon DEF InHand, IInv, TypeOK
<1>4. ~ InHand(r)' /\ cur'[r] = head[l]
  BY <1>1, <1>2, Zenon DEF InHand, Pushing, Walking, IInv, TypeOK
<1>5. Cut' = Cut /\ Listed \subseteq Listed'
  BY <1>3, <1>4, Zenon DEF Cut, Listed
<1>6. ASSUME NEW S \in SUBSET Block, HoldsReachable(S)' PROVE HoldsReachable(S)
  <2>1. head[l] \in Block => head[l] \in S
    BY <1>2, <1>4, <1>6, Zenon DEF HoldsReachable
  <2>2. \A m \in List : head[m] \in Block => head[m] \in S
    BY <1>1, <1>6, <2>1, Zenon DEF HoldsReachable, IInv, TypeOK
  <2>3. \A t \in Thread : cur[t] \in Block => cur[t] \in S
    BY <1>3, <1>6, OffsetFacts, Zenon DEF HoldsReachable
  <2>4. \A x \in S \cap Listed : next[x] \in Block => next[x] \in S
    BY <1>5, <1>6, Zenon DEF HoldsReachable
  <2> QED BY <1>6, <2>2, <2>3, <2>4, Zenon DEF HoldsReachable
<1> QED BY <1>5, <1>6, LeakFrame, Zenon

\* Its walk puts the block in the inbox and takes the next one in hand.
LEMMA WalkLeak == ASSUME IInv, NoLeak, NEW r \in Rank, Walk(r) PROVE NoLeak'
<1> DEFINE o == cur[r]
<1>1. /\ pc[r] \in Walking /\ inbox' = [inbox EXCEPT ![r] = Append(@, o)]
      /\ cur' = [cur EXCEPT ![r] = next[o]]
      /\ pc' = [pc EXCEPT ![r] = IF next[o] # max THEN @
                                 ELSE IF @ = "walk_rq" THEN "node" ELSE "deliver"]
      /\ UNCHANGED <<head, next, size, live>>
  BY Zenon DEF Walk, segVars, blockVars
<1>2. r \in Thread /\ o \in Block /\ inbox[r] \in Seq(Block)
  BY <1>1, Zenon DEF IInv, PcInv, TypeOK, Thread, Cut
<1>3. \A t \in Thread : t # r => InHand(t)' = InHand(t) /\ cur'[t] = cur[t]
  BY <1>1, Zenon DEF InHand, IInv, TypeOK
<1>4. ~ InHand(r)' /\ cur'[r] = next[o]
  BY <1>1, <1>2, Zenon DEF InHand, Pushing, Walking, IInv, TypeOK
<1>5. inbox'[r] = Append(inbox[r], o) /\ \A q \in Rank : q # r => inbox'[q] = inbox[q]
  BY <1>1, Zenon DEF IInv, TypeOK
<1>6. \A i \in DOMAIN inbox'[r] : inbox'[r][i] = o \/ (i \in DOMAIN inbox[r] /\ inbox'[r][i] = inbox[r][i])
  BY <1>2, <1>5
<1>7. \E i \in DOMAIN inbox'[r] : inbox'[r][i] = o
  <2>1. Len(inbox[r]) + 1 \in DOMAIN inbox'[r] /\ inbox'[r][Len(inbox[r]) + 1] = o
    BY <1>2, <1>5
  <2> QED BY <2>1, Zenon
<1>8. \A i \in DOMAIN inbox[r] : i \in DOMAIN inbox'[r] /\ inbox'[r][i] = inbox[r][i]
  BY <1>2, <1>5
<1>9. Cut' = Cut
  BY <1>1, Zenon DEF Cut
<1>10. ASSUME NEW x \in Listed, x # o PROVE x \in Listed'
  <2>1. \A q \in Rank : \A i \in DOMAIN inbox'[q] : inbox'[q][i] # x
    BY <1>5, <1>6, <1>10, Zenon DEF Listed
  <2>2. \A t \in Thread : InHand(t)' => cur'[t] # x
    BY <1>3, <1>4, Zenon DEF Listed
  <2> QED BY <1>1, <1>9, <2>1, <2>2, Zenon DEF Listed
<1>11. ASSUME NEW S \in SUBSET Block, HoldsReachable(S)' PROVE HoldsReachable(S)
  <2>1. o \in S
    BY <1>7, <1>11, Zenon DEF HoldsReachable
  <2>2. next[o] \in Block => next[o] \in S
    BY <1>2, <1>4, <1>11, Zenon DEF HoldsReachable
  <2>3. \A t \in Thread : cur[t] \in Block => cur[t] \in S
    BY <1>3, <1>11, <2>1, Zenon DEF HoldsReachable
  <2>4. \A q \in Rank : \A i \in DOMAIN inbox[q] : inbox[q][i] \in S
    BY <1>5, <1>8, <1>11, Zenon DEF HoldsReachable
  <2>5. \A x \in S \cap Listed : next[x] \in Block => next[x] \in S
    BY <1>1, <1>10, <1>11, <2>2, Zenon DEF HoldsReachable
  <2> QED BY <1>1, <1>11, <2>3, <2>4, <2>5, Zenon DEF HoldsReachable
<1> QED BY <1>9, <1>11, LeakFrame, Zenon

\* Delivery turns an inbox entry into a live message, and freeing that into a
\* block in hand.
LEMMA DeliverLeak ==
    ASSUME IInv, NoLeak, NEW r \in Rank, Deliver(r) \/ FreeStart(r) PROVE NoLeak'
<1>1. CASE Deliver(r)
  <2> DEFINE n == Len(inbox[r])
             o == inbox[r][n]
  <2>1. /\ pc[r] = "deliver" /\ inbox' = [inbox EXCEPT ![r] = SubSeq(@, 1, n - 1)]
        /\ live' = live \cup {o}
        /\ pc' = pc \/ pc' = [pc EXCEPT ![r] = "idle"]
        /\ UNCHANGED <<head, next, size, cur>>
    BY <1>1, Zenon DEF Deliver, segVars, blockVars
  <2>2. inbox[r] \in Seq(Block) /\ inbox[r] # <<>>
    BY <2>1, Zenon DEF IInv, PcInv, TypeOK
  <2>3. n \in Nat /\ n \in DOMAIN inbox[r]
    BY <2>2
  <2>4. inbox'[r] = SubSeq(inbox[r], 1, n - 1) /\ \A q \in Rank : q # r => inbox'[q] = inbox[q]
    BY <2>1, Zenon DEF IInv, TypeOK
  <2>5. \A i \in DOMAIN inbox'[r] : i \in DOMAIN inbox[r] /\ inbox'[r][i] = inbox[r][i]
    BY <2>2, <2>3, <2>4
  <2>6. \A i \in DOMAIN inbox[r] : i = n \/ (i \in DOMAIN inbox'[r] /\ inbox'[r][i] = inbox[r][i])
    BY <2>2, <2>3, <2>4
  <2>7. \A t \in Thread : InHand(t)' => InHand(t)
    BY <2>1, Zenon DEF InHand, Pushing, IInv, TypeOK
  <2>8. Cut' = Cut
    BY <2>1, Zenon DEF Cut
  <2>9. ASSUME NEW x \in Listed PROVE x \in Listed'
    <3>1. \A q \in Rank : \A i \in DOMAIN inbox'[q] : inbox'[q][i] # x
      BY <2>4, <2>5, Zenon DEF Listed
    <3>2. x \notin live'
      BY <2>1, <2>3, Zenon DEF Listed
    <3> QED BY <2>1, <2>7, <2>8, <3>1, <3>2, Zenon DEF Listed
  <2>10. ASSUME NEW S \in SUBSET Block, HoldsReachable(S)' PROVE HoldsReachable(S)
    <3>1. live \subseteq S /\ o \in S
      BY <2>1, <2>10, Zenon DEF HoldsReachable
    <3>2. \A q \in Rank : \A i \in DOMAIN inbox[q] : inbox[q][i] \in S
      BY <2>4, <2>6, <2>10, <3>1, Zenon DEF HoldsReachable
    <3>3. \A x \in S \cap Listed : next[x] \in Block => next[x] \in S
      BY <2>1, <2>9, <2>10, Zenon DEF HoldsReachable
    <3> QED BY <2>1, <2>10, <3>1, <3>2, <3>3, Zenon DEF HoldsReachable
  <2> QED BY <2>8, <2>10, LeakFrame, Zenon
<1>2. ASSUME NEW o \in live, Free(r, o) PROVE NoLeak'
  <2>1. /\ pc[r] = "idle" /\ live' = live \ {o}
        /\ cur' = [cur EXCEPT ![r] = o] /\ pc' = [pc EXCEPT ![r] = "link"]
        /\ UNCHANGED <<head, next, size, inbox>>
    BY <1>2, Zenon DEF Free, segVars, blockVars
  <2>2. r \in Thread /\ o \in Block /\ cur[r] = max
    BY <2>1, Zenon DEF IInv, PcInv, TypeOK, Thread, Pushing, Walking
  <2>3. cur'[r] = o /\ \A t \in Thread : t # r => InHand(t)' = InHand(t) /\ cur'[t] = cur[t]
    BY <2>1, <2>2, Zenon DEF InHand, IInv, TypeOK
  <2>4. Cut' = Cut
    BY <2>1, Zenon DEF Cut
  <2>5. ASSUME NEW x \in Listed PROVE x \in Listed'
    <3>1. x # o /\ x \notin live'
      BY <2>1, Zenon DEF Listed
    <3>2. \A t \in Thread : InHand(t)' => cur'[t] # x
      BY <2>3, <3>1, Zenon DEF Listed
    <3> QED BY <2>1, <2>4, <3>1, <3>2, Zenon DEF Listed
  <2>6. ASSUME NEW S \in SUBSET Block, HoldsReachable(S)' PROVE HoldsReachable(S)
    <3>1. o \in S
      BY <2>2, <2>3, <2>6, Zenon DEF HoldsReachable
    <3>2. live \subseteq S
      BY <2>1, <2>6, <3>1, Zenon DEF HoldsReachable
    <3>3. \A t \in Thread : cur[t] \in Block => cur[t] \in S
      BY <2>2, <2>3, <2>6, OffsetFacts, Zenon DEF HoldsReachable
    <3>4. \A x \in S \cap Listed : next[x] \in Block => next[x] \in S
      BY <2>1, <2>5, <2>6, Zenon DEF HoldsReachable
    <3> QED BY <2>1, <2>6, <3>2, <3>3, <3>4, Zenon DEF HoldsReachable
  <2> QED BY <2>4, <2>6, LeakFrame, Zenon
<1> QED BY <1>1, <1>2, Zenon DEF FreeStart

\* Every step keeps every block within reach.
LEMMA NextLeak == ASSUME IInv, NoLeak, Next PROVE NoLeak'
<1> USE DEF segVars, blockVars, sendVars, recvVars, logVars
<1>1. CASE InitLists
  <2>1. \A l \in List : head[l] \notin Block
    BY <1>1, Zenon DEF InitLists, IInv, SegmentInv, OwnerInv, OwnedAs
  <2> QED BY <1>1, <2>1, QuietLeak, Zenon DEF InitLists, InHand
<1>2. CASE PublishHeap
  BY <1>2, QuietLeak, Zenon DEF PublishHeap, InHand
<1>3. ASSUME NEW s \in Sender, SendStart(s) PROVE NoLeak'
  <2>1. /\ UNCHANGED <<next, size, cur, live, inbox, head>>
        /\ pc' = pc \/ pc' = [pc EXCEPT ![s] = "alloc"]
    BY <1>3, Zenon DEF SendStart, SendNetwork, TrySend
  <2>2. \A t \in Thread : InHand(t)' => InHand(t)
    BY <2>1, Zenon DEF InHand, Pushing, IInv, TypeOK
  <2> QED BY <2>1, <2>2, QuietLeak, Zenon
<1>4. ASSUME NEW s \in Sender, AllocTimeout(s) \/ CutRead(s) \/ CutRetry(s) PROVE NoLeak'
  <2>1. /\ UNCHANGED <<next, size, cur, live, inbox, head>>
        /\ pc' = pc \/ \E v \in {"idle", "casheap"} : pc' = [pc EXCEPT ![s] = v]
    BY <1>4, Zenon DEF AllocTimeout, CutRead, CutRetry, CheckFit, FallBack
  <2>2. \A t \in Thread : InHand(t)' => InHand(t)
    BY <2>1, Zenon DEF InHand, Pushing, IInv, TypeOK
  <2> QED BY <2>1, <2>2, QuietLeak, Zenon
<1>5. ASSUME NEW s \in Sender, AllocCached(s) PROVE NoLeak'
  <2>1. s \in Thread /\ Cache(s) \in List /\ head[Cache(s)] \in Block /\ pc[s] \notin Pushing /\ cur[s] = max
    <3>1. pc[s] = "alloc" /\ Cache(s) \in CacheList /\ Cache(s) \in List
      BY <1>5, ListFacts, Zenon DEF AllocCached, Cache, IInv, PcInv, Request
    <3>2. head[Cache(s)] \in Block
      BY <1>5, <3>1, Zenon DEF AllocCached, IInv, SegmentInv, TypeOK, Offset
    <3> QED BY <3>1, <3>2, Zenon DEF IInv, PcInv, Pushing, Thread
  <2>2. head' = [head EXCEPT ![Cache(s)] = max, ![Cache(s)] = next[head[Cache(s)]]]
    BY <1>5, Zenon DEF AllocCached, IInv, TypeOK
  <2>3. size' = size
    BY <1>5, <2>1, Zenon DEF AllocCached, Obtain, IInv, TypeOK
  <2> QED BY <1>5, <2>1, <2>2, <2>3, PopLeak, Zenon DEF AllocCached, Obtain
<1>6. ASSUME NEW s \in Sender, AllocRefill(s) PROVE NoLeak'
  <2>1. /\ s \in Thread /\ Cache(s) \in List /\ Ret(s) \in List /\ head[Cache(s)] = max
        /\ pc[s] = "alloc" /\ pc[s] \notin Pushing /\ cur[s] = max /\ heap # nil
    BY <1>6, ListFacts, Zenon DEF AllocRefill, Cache, Ret, IInv, PcInv, Request, Pushing, Thread
  <2>2. CASE head[Ret(s)] = max
    <3>1. /\ UNCHANGED <<next, size, cur, live, inbox, head>>
          /\ pc' = [pc EXCEPT ![s] = "cut"]
      BY <1>6, <2>2, Zenon DEF AllocRefill
    <3>2. \A t \in Thread : InHand(t)' => InHand(t)
      BY <3>1, Zenon DEF InHand, Pushing, IInv, TypeOK
    <3> QED BY <3>1, <3>2, QuietLeak, Zenon
  <2>3. CASE head[Ret(s)] # max
    <3>1. /\ Obtain(s, head[Ret(s)], size[head[Ret(s)]])
          /\ head' = [head EXCEPT ![Ret(s)] = max, ![Cache(s)] = next[head[Ret(s)]]]
          /\ UNCHANGED <<next, inbox, live>>
      BY <1>6, <2>3, Zenon DEF AllocRefill
    <3>2. head[Ret(s)] \in Block
      BY <2>1, <2>3, Zenon DEF IInv, SegmentInv, TypeOK, Offset
    <3>3. size' = size
      BY <3>1, <3>2, Zenon DEF Obtain, IInv, TypeOK
    <3> QED BY <2>1, <3>1, <3>2, <3>3, PopLeak, Zenon DEF Obtain
  <2> QED BY <2>2, <2>3, Zenon
<1>7. ASSUME NEW r \in Rank, Poll(r) \/ TakeNode(r) PROVE NoLeak'
  <2>1. cur[r] = max /\ r \in Dest /\ Node \in Dest
    BY <1>7, Zenon DEF Poll, TakeNode, IInv, PcInv, Pushing, Walking, Dest
  <2>2. CASE pc' = [pc EXCEPT ![r] = "deliver"] /\ UNCHANGED <<head, cur, next, size, inbox, live>>
    <3>1. \A t \in Thread : InHand(t)' => InHand(t)
      BY <2>2, Zenon DEF InHand, Pushing, IInv, TypeOK
    <3> QED BY <2>2, <3>1, QuietLeak, Zenon
  <2>3. ASSUME NEW d \in Dest, NEW w \in Walking, NEW e \in {"idle", "node", "deliver"},
               TakeList(r, d, w, e)
        PROVE  NoLeak'
    <3>1. UNCHANGED <<next, size, inbox, live>>
      BY <1>7, Zenon DEF Poll, TakeNode
    <3> QED BY <2>1, <2>3, <3>1, TakeLeak, Zenon
  <2>4. CASE Poll(r)
    BY <2>1, <2>2, <2>3, <2>4, Zenon DEF Poll, Walking
  <2>5. CASE TakeNode(r)
    <3>1. PICK e \in {"idle", "node", "deliver"} :
              e = IF inbox[r] = <<>> THEN "idle" ELSE "deliver"
      BY Zenon
    <3>2. TakeList(r, Node, "walk_node", e)
      BY <2>5, <3>1, Zenon DEF TakeNode, TakeList
    <3> QED BY <2>1, <2>3, <3>2, Zenon DEF Walking
  <2> QED BY <1>7, <2>4, <2>5, Zenon
<1> QED BY <1>1, <1>2, <1>3, <1>4, <1>5, <1>6, <1>7, CutLeak, LinkLeak, SwapLeak, WalkLeak,
           DeliverLeak, Zenon DEF Next, OwnerStep, AllocStep, PushStep, RecvStep

-----------------------------------------------------------------------------
\* A message takes one route.  Only messages a sender has started are in the
\* pool or on the network, and the block in its hand holds the last of them.
RouteBound ==
    \A s \in Sender : \A n \in Nat : Pooled(s, n) \/ Networked(s, n) => n \in 1 .. nsent[s]

HandInv ==
    \A s \in Sender : pc[s] \in Pushing => body[cur[s]].src = s /\ body[cur[s]].seq = nsent[s]

RouteInv == OneRoute /\ RouteBound /\ HandInv

\* The routes of a sender's messages, and what they are after a step.
SameRoute(s) ==
    /\ \A n \in Nat : Pooled(s, n)' = Pooled(s, n) /\ Networked(s, n)' = Networked(s, n)
    /\ nsent'[s] = nsent[s]
    /\ pc'[s] = "idle" <=> pc[s] = "idle"

\* Message k, the last one started, has just been put on its route.
Settled(s, k) ==
    /\ nsent'[s] = k /\ pc'[s] = "idle"
    /\ \/ k = nsent[s] /\ pc[s] # "idle"
       \/ k = nsent[s] + 1 /\ pc[s] = "idle"
    /\ \A n \in Nat : n # k => /\ Pooled(s, n)' = Pooled(s, n)
                               /\ Networked(s, n)' = Networked(s, n)
    /\ \/ Pooled(s, k)' /\ Networked(s, k)' = Networked(s, k)
       \/ Networked(s, k)' /\ Pooled(s, k)' = Pooled(s, k)

\* Message k has just been started.
Started(s, k) ==
    /\ \A n \in Nat : Pooled(s, n)' = Pooled(s, n) /\ Networked(s, n)' = Networked(s, n)
    /\ nsent'[s] = k /\ k = nsent[s] + 1 /\ pc[s] = "idle" /\ pc'[s] # "idle"

\* A sender's messages are counted from one.
LEMMA CountFacts ==
    ASSUME IInv, NEW s \in Sender
    PROVE  nsent[s] \in Nat /\ (pc[s] # "idle" => nsent[s] \in Nat \ {0})
<1>1. nsent \in [Sender -> 0 .. MaxSend] /\ (pc[s] # "idle" => nsent[s] # 0)
  BY Zenon DEF IInv, TypeOK, PcInv
<1> QED BY <1>1

\* These are the ways a step may treat a sender's messages, and each of them
\* leaves every message on one route.
LEMMA RouteStep ==
    ASSUME IInv, OneRoute, RouteBound,
           \A s \in Sender : \/ SameRoute(s)
                             \/ \E k \in Nat \ {0} : Settled(s, k) \/ Started(s, k)
    PROVE  OneRoute' /\ RouteBound'
<1> DEFINE One(p, w, t) == (p \/ w \/ t) /\ ~ (p /\ w) /\ ~ (t /\ (p \/ w))
<1> SUFFICES ASSUME NEW s \in Sender
             PROVE  /\ \A n \in 1 .. nsent'[s] : One(Pooled(s, n)', Networked(s, n)', Trying(s, n)')
                    /\ \A n \in Nat : Pooled(s, n)' \/ Networked(s, n)' => n \in 1 .. nsent'[s]
  BY Zenon DEF OneRoute, RouteBound
<1>1. nsent[s] \in Nat
  BY CountFacts, Zenon
<1>2. \A n \in 1 .. nsent[s] : One(Pooled(s, n), Networked(s, n), Trying(s, n))
  BY Zenon DEF OneRoute
<1>3. \A n \in Nat : Pooled(s, n) \/ Networked(s, n) => n \in 1 .. nsent[s]
  BY Zenon DEF RouteBound
<1>4. CASE SameRoute(s)
  <2>1. \A n \in 1 .. nsent[s] : n \in Nat
    BY <1>1
  <2>2. \A n \in Nat : Trying(s, n)' = Trying(s, n)
    BY <1>4, Zenon DEF SameRoute, Trying
  <2> QED BY <1>2, <1>3, <1>4, <2>1, <2>2, Zenon DEF SameRoute
<1>5. ASSUME NEW k \in Nat \ {0}, Settled(s, k)
      PROVE  /\ \A n \in 1 .. nsent'[s] : One(Pooled(s, n)', Networked(s, n)', Trying(s, n)')
             /\ \A n \in Nat : Pooled(s, n)' \/ Networked(s, n)' => n \in 1 .. nsent'[s]
  <2>1. /\ \A n \in 1 .. k : n \in Nat /\ (n # k => n \in 1 .. nsent[s])
        /\ \A n \in 1 .. nsent[s] : n \in 1 .. k
        /\ k \in 1 .. k /\ nsent'[s] = k
    BY <1>1, <1>5 DEF Settled
  <2>2. \A n \in Nat : ~ Trying(s, n)'
    BY <1>5, Zenon DEF Settled, Trying
  <2>3. ~ Pooled(s, k) /\ ~ Networked(s, k)
    <3>1. CASE k = nsent[s] /\ pc[s] # "idle"
      <4>1. k \in 1 .. nsent[s]
        BY <2>1, <3>1, Zenon
      <4> QED BY <1>2, <3>1, <4>1, Zenon DEF Trying
    <3>2. CASE k = nsent[s] + 1
      <4>1. k \in Nat /\ k \notin 1 .. nsent[s]
        BY <1>1, <3>2
      <4> QED BY <1>3, <4>1, Zenon
    <3> QED BY <1>5, <3>1, <3>2, Zenon DEF Settled
  <2>4. Pooled(s, k)' \/ Networked(s, k)'
    BY <1>5, Zenon DEF Settled
  <2>5. ~ (Pooled(s, k)' /\ Networked(s, k)')
    BY <1>5, <2>3, Zenon DEF Settled
  <2>6. ASSUME NEW n \in 1 .. k PROVE One(Pooled(s, n)', Networked(s, n)', Trying(s, n)')
    <3>1. CASE n = k
      BY <2>2, <2>4, <2>5, <3>1, Zenon
    <3>2. CASE n # k
      <4>1. n \in Nat /\ n \in 1 .. nsent[s]
        BY <2>1, <3>2, Zenon
      <4>2. Pooled(s, n)' = Pooled(s, n) /\ Networked(s, n)' = Networked(s, n)
        BY <1>5, <3>2, <4>1, Zenon DEF Settled
      <4>3. ~ Trying(s, n)
        <5>1. CASE pc[s] = "idle"
          BY <5>1, Zenon DEF Trying
        <5>2. CASE k = nsent[s]
          BY <3>2, <5>2, Zenon DEF Trying
        <5> QED BY <1>5, <5>1, <5>2, Zenon DEF Settled
      <4> QED BY <1>2, <2>2, <4>1, <4>2, <4>3, Zenon
    <3> QED BY <3>1, <3>2, Zenon
  <2>7. ASSUME NEW n \in Nat, Pooled(s, n)' \/ Networked(s, n)' PROVE n \in 1 .. k
    <3>1. CASE n = k
      BY <2>1, <3>1, Zenon
    <3>2. CASE n # k
      BY <1>3, <1>5, <2>1, <2>7, <3>2, Zenon DEF Settled
    <3> QED BY <3>1, <3>2, Zenon
  <2> QED BY <2>1, <2>6, <2>7, Zenon
<1>6. ASSUME NEW k \in Nat \ {0}, Started(s, k)
      PROVE  /\ \A n \in 1 .. nsent'[s] : One(Pooled(s, n)', Networked(s, n)', Trying(s, n)')
             /\ \A n \in Nat : Pooled(s, n)' \/ Networked(s, n)' => n \in 1 .. nsent'[s]
  <2>1. /\ \A n \in 1 .. k : n \in Nat /\ (n # k => n \in 1 .. nsent[s])
        /\ \A n \in 1 .. nsent[s] : n \in 1 .. k
        /\ k \notin 1 .. nsent[s] /\ nsent'[s] = k
    BY <1>1, <1>6 DEF Started
  <2>2. /\ \A n \in Nat : Trying(s, n)' = (n = k)
        /\ \A n \in Nat : ~ Trying(s, n)
    BY <1>6, <2>1, Zenon DEF Started, Trying
  <2>3. ~ Pooled(s, k)' /\ ~ Networked(s, k)'
    <3>1. ~ Pooled(s, k) /\ ~ Networked(s, k)
      BY <1>3, <2>1, Zenon
    <3> QED BY <1>6, <3>1, Zenon DEF Started
  <2>4. ASSUME NEW n \in 1 .. k PROVE One(Pooled(s, n)', Networked(s, n)', Trying(s, n)')
    <3>1. CASE n = k
      <4>1. Trying(s, k)'
        BY <2>2, Zenon
      <4> QED BY <2>3, <3>1, <4>1, Zenon
    <3>2. CASE n # k
      BY <1>2, <1>6, <2>1, <2>2, <3>2, Zenon DEF Started
    <3> QED BY <3>1, <3>2, Zenon
  <2>5. ASSUME NEW n \in Nat, Pooled(s, n)' \/ Networked(s, n)' PROVE n \in 1 .. k
    BY <1>3, <1>6, <2>1, <2>5, Zenon DEF Started
  <2> QED BY <2>1, <2>4, <2>5, Zenon
<1> QED BY <1>4, <1>5, <1>6, Zenon

\* Pushing a message changes that message's routes only.
LEMMA PoolRoute ==
    ASSUME TypeOK, NEW z \in Sender, NEW d \in Dest, NEW k \in Nat,
           posted'[z][d] = Append(posted[z][d], k), net' = net,
           \A s \in Sender : \A e \in Dest : s # z \/ e # d => posted'[s][e] = posted[s][e]
    PROVE  /\ Pooled(z, k)'
           /\ \A s \in Sender : \A n \in Nat :
                /\ Networked(s, n)' = Networked(s, n)
                /\ s # z \/ n # k => Pooled(s, n)' = Pooled(s, n)
<1>1. posted[z][d] \in Seq(Nat)
  <2>1. posted \in [Sender -> [Dest -> Seq(Nat)]]
    BY Zenon DEF TypeOK
  <2> QED BY <2>1
<1>2. Len(posted[z][d]) \in Nat
  BY <1>1
<1>3. \E i \in DOMAIN posted'[z][d] : posted'[z][d][i] = k
  <2>1. /\ Len(posted[z][d]) + 1 \in DOMAIN posted'[z][d]
        /\ posted'[z][d][Len(posted[z][d]) + 1] = k
    BY <1>1, <1>2
  <2> QED BY <2>1, Zenon
<1>4. /\ \A i \in DOMAIN posted[z][d] : i \in DOMAIN posted'[z][d] /\ posted'[z][d][i] = posted[z][d][i]
      /\ \A i \in DOMAIN posted'[z][d] : posted'[z][d][i] = k
            \/ (i \in DOMAIN posted[z][d] /\ posted'[z][d][i] = posted[z][d][i])
  BY <1>1
<1>5. \A s \in Sender : \A n \in Nat : Networked(s, n)' = Networked(s, n)
  BY Zenon DEF Networked
<1>6. ASSUME NEW s \in Sender, NEW n \in Nat, s # z \/ n # k
      PROVE  Pooled(s, n)' = Pooled(s, n)
  <2>1. ASSUME NEW e \in Dest
        PROVE  (\E i \in DOMAIN posted'[s][e] : posted'[s][e][i] = n)
                 <=> (\E i \in DOMAIN posted[s][e] : posted[s][e][i] = n)
    <3>1. CASE s # z \/ e # d
      BY <3>1, Zenon
    <3>2. CASE s = z /\ e = d
      BY <1>4, <1>6, <3>2, Zenon
    <3> QED BY <3>1, <3>2, Zenon
  <2> QED BY <2>1, Zenon DEF Pooled
<1>7. Pooled(z, k)'
  BY <1>3, Zenon DEF Pooled
<1> QED BY <1>5, <1>6, <1>7, Zenon

\* Most steps start no message and settle none.
LEMMA KeepRoutes ==
    ASSUME UNCHANGED <<nsent, posted, net>>,
           \A s \in Sender : pc'[s] = "idle" <=> pc[s] = "idle"
    PROVE  \A s \in Sender : SameRoute(s)
  BY Zenon DEF SameRoute, Pooled, Networked

\* A message that does not go through the pool is handed to the network.
LEMMA NetSettles ==
    ASSUME IInv, NEW z \in Sender, NEW d \in Dest,
           net' = net \cup {ThisMessage(z, d)}, posted' = posted,
           pc'[z] = "idle", \A s \in Sender : s # z => pc'[s] = pc[s],
           \/ nsent' = nsent /\ pc[z] # "idle"
           \/ nsent' = [nsent EXCEPT ![z] = @ + 1] /\ pc[z] = "idle"
    PROVE  \A s \in Sender : SameRoute(s) \/ \E k \in Nat \ {0} : Settled(s, k) \/ Started(s, k)
<1>1. /\ nsent[z] \in Nat /\ nsent'[z] \in Nat \ {0}
      /\ \/ nsent'[z] = nsent[z] /\ pc[z] # "idle"
         \/ nsent'[z] = nsent[z] + 1 /\ pc[z] = "idle"
  <2>1. nsent[z] \in Nat /\ (pc[z] # "idle" => nsent[z] \in Nat \ {0})
    BY CountFacts, Zenon
  <2>2. nsent \in [Sender -> 0 .. MaxSend]
    BY Zenon DEF IInv, TypeOK
  <2> QED BY <2>1, <2>2
<1>2. PICK k \in Nat \ {0} : k = nsent'[z]
  BY <1>1, Zenon
<1>3. PICK m : m = ThisMessage(z, d)
  BY Zenon
<1>4. m.src = z /\ m.seq = k /\ net' = net \cup {m}
  <2>1. m.src = z /\ m.seq = k
    BY <1>2, <1>3 DEF ThisMessage
  <2> QED BY <1>3, <2>1, Zenon
<1>5. /\ Networked(z, k)'
      /\ \A s \in Sender : \A n \in Nat :
           /\ Pooled(s, n)' = Pooled(s, n)
           /\ s # z \/ n # k => Networked(s, n)' = Networked(s, n)
  BY <1>4, Zenon DEF Networked, Pooled
<1>6. k \in Nat
  OBVIOUS
<1>7. Settled(z, k)
  BY <1>1, <1>2, <1>5, <1>6, Zenon DEF Settled
<1>8. ASSUME NEW s \in Sender, s # z PROVE SameRoute(s)
  <2>1. nsent'[s] = nsent[s] /\ pc'[s] = pc[s]
    BY <1>8, Zenon DEF IInv, TypeOK
  <2> QED BY <1>5, <1>8, <2>1, Zenon DEF SameRoute
<1> QED BY <1>7, <1>8, Zenon

\* The block in each sender's hand holds its last message: Obtain wrote it there,
\* and no other PE writes to a block in hand.
LEMMA HandFrame ==
    ASSUME HandInv,
           \A s \in Sender : pc'[s] \in Pushing =>
               /\ pc[s] \in Pushing /\ cur'[s] = cur[s] /\ nsent'[s] = nsent[s]
               /\ body'[cur[s]] = body[cur[s]]
    PROVE  HandInv'
<1> SUFFICES ASSUME NEW s \in Sender, pc'[s] \in Pushing
             PROVE  body'[cur'[s]].src = s /\ body'[cur'[s]].seq = nsent'[s]
  BY Zenon DEF HandInv
<1>1. body'[cur'[s]] = body[cur[s]] /\ nsent'[s] = nsent[s] /\ pc[s] \in Pushing
  BY Zenon
<1> QED BY <1>1, Zenon DEF HandInv

\* A PE that obtains a block nobody else holds writes its own message into it
\* (CmiAllocIpcBlock, then the copy into the payload), and every other PE's block
\* keeps its message.
LEMMA ObtainHand ==
    ASSUME IInv, HandInv, NEW z \in Sender, NEW o \in Block, NEW b, Obtain(z, o, b),
           \A t \in Thread : cur[t] # o
    PROVE  HandInv'
<1> SUFFICES ASSUME NEW s \in Sender, pc'[s] \in Pushing
             PROVE  body'[cur'[s]].src = s /\ body'[cur'[s]].seq = nsent'[s]
  BY Zenon DEF HandInv
<1>1. CASE s = z
  <2>1. cur'[s] = o /\ body'[o] = ThisMessage(z, req[z].dest)
    BY <1>1, Zenon DEF Obtain, IInv, TypeOK, Thread
  <2> QED BY <1>1, <2>1 DEF ThisMessage
<1>2. CASE s # z
  <2>1. pc[s] \in Pushing /\ cur'[s] = cur[s] /\ nsent'[s] = nsent[s] /\ s \in Thread
    BY <1>2, Zenon DEF Obtain, IInv, TypeOK, Thread
  <2>2. body'[cur[s]] = body[cur[s]]
    BY <2>1, Zenon DEF Obtain, IInv, TypeOK, PcInv, Cut
  <2> QED BY <2>1, <2>2, Zenon DEF HandInv
<1> QED BY <1>1, <1>2, Zenon

\* What each step does with the messages of each sender.
LEMMA NextRoutes ==
    ASSUME IInv, HandInv, Next
    PROVE  \A s \in Sender : SameRoute(s) \/ \E k \in Nat \ {0} : Settled(s, k) \/ Started(s, k)
<1> DEFINE Routes == \A s \in Sender :
                         SameRoute(s) \/ \E k \in Nat \ {0} : Settled(s, k) \/ Started(s, k)
<1> HIDE DEF Routes
<1> USE DEF segVars, blockVars, sendVars, recvVars, logVars
<1>1. ASSUME UNCHANGED <<nsent, posted, net>>,
             \A s \in Sender : pc'[s] = "idle" <=> pc[s] = "idle"
      PROVE  Routes
  BY <1>1, KeepRoutes, Zenon DEF Routes
<1>2. ASSUME OwnerStep PROVE Routes
  BY <1>1, <1>2, Zenon DEF OwnerStep, InitLists, PublishHeap
<1>3. ASSUME NEW z \in Sender, NEW d \in Dest, SendNetwork(z, d) PROVE Routes
  <2>1. /\ net' = net \cup {ThisMessage(z, d)} /\ posted' = posted /\ pc' = pc /\ pc[z] = "idle"
        /\ nsent' = [nsent EXCEPT ![z] = @ + 1]
    BY <1>3, Zenon DEF SendNetwork
  <2> QED BY <2>1, NetSettles, Zenon DEF Routes
<1>4. ASSUME NEW z \in Sender, NEW d \in Dest, NEW b \in Bin, TrySend(z, d, b) PROVE Routes
  <2>1. /\ nsent' = [nsent EXCEPT ![z] = @ + 1] /\ pc[z] = "idle"
        /\ pc' = [pc EXCEPT ![z] = "alloc"] /\ UNCHANGED <<posted, net>>
    BY <1>4, Zenon DEF TrySend
  <2>2. /\ nsent[z] \in Nat /\ nsent'[z] = nsent[z] + 1 /\ nsent'[z] \in Nat \ {0}
    <3>1. nsent[z] \in Nat /\ nsent'[z] = nsent[z] + 1
      BY <2>1, CountFacts, Zenon DEF IInv, TypeOK
    <3> QED BY <3>1
  <2>3. PICK k \in Nat \ {0} : k = nsent'[z]
    BY <2>2, Zenon
  <2>4. pc'[z] # "idle" /\ \A s \in Sender : s # z => pc'[s] = pc[s] /\ nsent'[s] = nsent[s]
    BY <2>1, Zenon DEF IInv, TypeOK, Thread
  <2>5. Started(z, k)
    BY <2>1, <2>2, <2>3, <2>4, Zenon DEF Started, Pooled, Networked
  <2>6. \A s \in Sender : s # z => SameRoute(s)
    BY <2>1, <2>4, Zenon DEF SameRoute, Pooled, Networked
  <2> QED BY <2>5, <2>6, Zenon DEF Routes
<1>5. ASSUME NEW z \in Sender, FallBack(z), pc[z] # "idle", posted' = posted PROVE Routes
  <2>1. /\ nsent' = nsent /\ net' = net \cup {ThisMessage(z, req[z].dest)}
        /\ pc' = [pc EXCEPT ![z] = "idle"]
    BY <1>5, Zenon DEF FallBack
  <2>2. req[z].dest \in Dest
    BY <1>5, Zenon DEF IInv, PcInv, Request
  <2>3. pc'[z] = "idle" /\ \A s \in Sender : s # z => pc'[s] = pc[s]
    BY <2>1, Zenon DEF IInv, TypeOK, Thread
  <2> QED BY <1>5, <2>1, <2>2, <2>3, NetSettles, Zenon DEF Routes
<1>6. ASSUME NEW z \in Sender, AllocTimeout(z) \/ CutRead(z) \/ CutRetry(z) PROVE Routes
  <2>1. pc[z] # "idle" /\ posted' = posted
    BY <1>6, Zenon DEF AllocTimeout, CutRead, CutRetry
  <2>2. \/ FallBack(z)
        \/ UNCHANGED <<nsent, net>> /\ (pc' = pc \/ pc' = [pc EXCEPT ![z] = "casheap"])
    BY <1>6, Zenon DEF AllocTimeout, CutRead, CutRetry, CheckFit
  <2>3. CASE UNCHANGED <<nsent, net>> /\ (pc' = pc \/ pc' = [pc EXCEPT ![z] = "casheap"])
    <3>1. pc'[z] # "idle" /\ \A s \in Sender : s # z => pc'[s] = pc[s]
      BY <2>1, <2>3, Zenon DEF IInv, TypeOK, Thread
    <3> QED BY <1>1, <2>1, <2>3, <3>1, Zenon
  <2> QED BY <1>5, <2>1, <2>2, <2>3, Zenon
<1>7. ASSUME NEW z \in Sender, AllocCached(z) \/ AllocRefill(z) \/ CutSwap(z) PROVE Routes
  <2>1. /\ pc[z] # "idle" /\ UNCHANGED <<nsent, posted, net>>
        /\ \E v \in {"link", "cut"} : pc' = [pc EXCEPT ![z] = v]
    BY <1>7, Zenon DEF AllocCached, AllocRefill, CutSwap, Obtain
  <2>2. pc'[z] # "idle" /\ \A s \in Sender : s # z => pc'[s] = pc[s]
    BY <2>1, Zenon DEF IInv, TypeOK, Thread
  <2> QED BY <1>1, <2>1, <2>2, Zenon
<1>8. ASSUME NEW t \in Thread, PushLink(t) \/ PushRetry(t) PROVE Routes
  <2>1. /\ pc[t] # "idle" /\ UNCHANGED <<nsent, posted, net>>
        /\ pc' = pc \/ pc' = [pc EXCEPT ![t] = "cas"]
    BY <1>8, Zenon DEF PushLink, PushRetry
  <2>2. pc'[t] # "idle" /\ \A s \in Sender : s # t => pc'[s] = pc[s]
    BY <2>1, Zenon DEF IInv, TypeOK, Thread
  <2> QED BY <1>1, <2>1, <2>2, Zenon
<1>9. ASSUME NEW r \in Rank, PushSwap(r) \/ RecvStep(r) \/ FreeStart(r) PROVE Routes
  <2>1. r \in Thread /\ r \notin Sender
    BY Zenon DEF Thread
  <2>2. UNCHANGED <<nsent, posted, net>>
    BY <1>9, <2>1, Zenon DEF PushSwap, RecvStep, FreeStart, Poll, TakeNode, Walk, Deliver, Free
  <2>3. \A u \in Thread : u # r => pc'[u] = pc[u]
    BY <1>9, Zenon DEF PushSwap, RecvStep, FreeStart, Poll, TakeNode, TakeList, Walk,
                       Deliver, Free, IInv, TypeOK
  <2>4. \A s \in Sender : pc'[s] = pc[s]
    BY <2>1, <2>3, Zenon DEF Thread
  <2> QED BY <1>1, <2>2, <2>4, Zenon
<1>10. ASSUME NEW z \in Sender, PushSwap(z) PROVE Routes
  <2>1. /\ pc[z] = "cas" /\ pc' = [pc EXCEPT ![z] = "idle"] /\ nsent' = nsent /\ net' = net
        /\ posted' = [posted EXCEPT ![z][req[z].dest] = Append(@, body[cur[z]].seq)]
    BY <1>10, Zenon DEF PushSwap
  <2>2. req[z].dest \in Dest /\ body[cur[z]].seq = nsent[z]
    BY <2>1, Zenon DEF IInv, PcInv, Request, HandInv, Pushing
  <2>3. nsent[z] \in Nat \ {0}
    BY <2>1, CountFacts, Zenon
  <2>4. PICK k \in Nat \ {0} : k = nsent[z]
    BY <2>3, Zenon
  <2>5. k \in Nat
    OBVIOUS
  <2>6. PICK d \in Dest : d = req[z].dest
    BY <2>2, Zenon
  <2>7. /\ posted'[z][d] = Append(posted[z][d], k)
        /\ \A s \in Sender : \A e \in Dest : s # z \/ e # d => posted'[s][e] = posted[s][e]
    <3>1. posted' = [posted EXCEPT ![z][d] = Append(@, k)]
      BY <2>1, <2>2, <2>4, <2>6, Zenon
    <3>2. posted \in [Sender -> [Dest -> Seq(Nat)]]
      BY Zenon DEF IInv, TypeOK
    <3> QED BY <3>1, <3>2
  <2>8. /\ Pooled(z, k)'
        /\ \A s \in Sender : \A n \in Nat :
             /\ Networked(s, n)' = Networked(s, n)
             /\ s # z \/ n # k => Pooled(s, n)' = Pooled(s, n)
    <3>1. TypeOK /\ net' = net
      BY <2>1, Zenon DEF IInv
    <3> QED BY <2>5, <2>7, <3>1, PoolRoute
  <2>9. pc'[z] = "idle" /\ \A s \in Sender : s # z => pc'[s] = pc[s]
    BY <2>1, Zenon DEF IInv, TypeOK, Thread
  <2>10. Settled(z, k)
    BY <2>1, <2>4, <2>5, <2>8, <2>9, Zenon DEF Settled
  <2>11. \A s \in Sender : s # z => SameRoute(s)
    BY <2>1, <2>8, <2>9, Zenon DEF SameRoute
  <2> QED BY <2>10, <2>11, Zenon DEF Routes
<1>11. ASSUME NEW t \in Thread, PushStep(t) PROVE Routes
  BY <1>8, <1>9, <1>10, <1>11, Zenon DEF PushStep, Thread
<1>12. ASSUME NEW s \in Sender, SendStart(s) \/ AllocStep(s) PROVE Routes
  BY <1>3, <1>4, <1>6, <1>7, <1>12, Zenon DEF SendStart, AllocStep
<1>13. Routes
  BY <1>2, <1>9, <1>11, <1>12, Zenon DEF Next
<1> QED BY <1>13, Zenon DEF Routes

\* Every step keeps in each sender's hand the message it is sending.
LEMMA NextHand == ASSUME IInv, HandInv, Next PROVE HandInv'
<1> USE DEF segVars, blockVars, sendVars, recvVars, logVars
<1>1. CASE OwnerStep
  BY <1>1, HandFrame, Zenon DEF OwnerStep, InitLists, PublishHeap
<1>2. ASSUME NEW z \in Sender,
             \/ SendStart(z) \/ AllocTimeout(z) \/ CutRead(z) \/ CutRetry(z)
             \/ AllocRefill(z) /\ head[Ret(z)] = max
      PROVE  HandInv'
  <2>1. /\ pc[z] \notin Pushing /\ UNCHANGED <<cur, body>>
        /\ \/ nsent' = nsent
           \/ nsent' = [nsent EXCEPT ![z] = @ + 1]
        /\ \/ pc' = pc
           \/ \E v \in {"alloc", "cut", "casheap", "idle"} : pc' = [pc EXCEPT ![z] = v]
    BY <1>2, Zenon DEF SendStart, SendNetwork, TrySend, AllocTimeout, CutRead, CutRetry,
                       AllocRefill, CheckFit, FallBack, Pushing
  <2>2. \A s \in Sender : pc'[s] \in Pushing => s # z /\ pc[s] \in Pushing
    BY <2>1, Zenon DEF Pushing, IInv, TypeOK, Thread
  <2>3. \A s \in Sender : s # z => nsent'[s] = nsent[s]
    BY <2>1, Zenon DEF IInv, TypeOK
  <2> QED BY <2>1, <2>2, <2>3, HandFrame, Zenon
<1>3. ASSUME NEW z \in Sender, NEW l \in List, NEW b, head[l] \in Block, Obtain(z, head[l], b)
      PROVE  HandInv'
  <2>1. \A t \in Thread : cur[t] # head[l]
    BY <1>3, FirstOfList, Zenon DEF IInv, OwnerInv
  <2> QED BY <1>3, <2>1, ObtainHand, Zenon
<1>4. ASSUME NEW z \in Sender, AllocCached(z) PROVE HandInv'
  <2>1. Cache(z) \in CacheList /\ Cache(z) \in List
    BY <1>4, ListFacts, Zenon DEF AllocCached, Cache, IInv, PcInv, Request
  <2>2. head[Cache(z)] \in Block
    BY <1>4, <2>1, Zenon DEF AllocCached, IInv, SegmentInv, TypeOK, Offset
  <2> QED BY <1>3, <1>4, <2>1, <2>2, Zenon DEF AllocCached
<1>5. ASSUME NEW z \in Sender, AllocRefill(z), head[Ret(z)] # max PROVE HandInv'
  <2>1. Ret(z) \in List /\ heap # nil
    BY <1>5, ListFacts, Zenon DEF AllocRefill, Ret, IInv, PcInv, Request
  <2>2. head[Ret(z)] \in Block
    BY <1>5, <2>1, Zenon DEF IInv, SegmentInv, TypeOK, Offset
  <2> QED BY <1>3, <1>5, <2>1, <2>2, Zenon DEF AllocRefill
<1>6. ASSUME NEW z \in Sender, CutSwap(z) PROVE HandInv'
  <2>1. off[z] \notin Cut /\ Obtain(z, off[z], req[z].bin)
    BY <1>6, CutFresh, Zenon DEF CutSwap
  <2>2. off[z] \in Block
    BY <1>6, CutInBlock, Zenon
  <2>3. \A t \in Thread : cur[t] # off[z]
    BY <2>1, <2>2, Zenon DEF IInv, OwnerInv, OwnedAs
  <2> QED BY <2>1, <2>2, <2>3, ObtainHand, Zenon
<1>7. ASSUME NEW t \in Thread, PushStep(t) PROVE HandInv'
  <2>1. /\ pc[t] \in Pushing /\ UNCHANGED <<nsent, body>>
        /\ \A s \in Sender : s # t => pc'[s] = pc[s] /\ cur'[s] = cur[s]
        /\ t \in Sender => pc'[t] \notin Pushing \/ cur' = cur
    BY <1>7, Zenon DEF PushStep, PushLink, PushSwap, PushRetry, Pushing, IInv, TypeOK, Thread
  <2> QED BY <2>1, HandFrame, Zenon
<1>8. ASSUME NEW r \in Rank, RecvStep(r) \/ FreeStart(r) PROVE HandInv'
  <2>1. r \notin Sender /\ UNCHANGED <<nsent, body>>
    BY <1>8, Zenon DEF RecvStep, FreeStart, Poll, TakeNode, Walk, Deliver, Free
  <2>2. \A s \in Sender : pc'[s] = pc[s] /\ cur'[s] = cur[s]
    BY <1>8, <2>1, Zenon DEF RecvStep, FreeStart, Poll, TakeNode, TakeList, Walk,
                             Deliver, Free, IInv, TypeOK, Thread
  <2> QED BY <2>1, <2>2, HandFrame, Zenon
<1> QED BY <1>1, <1>2, <1>4, <1>5, <1>6, <1>7, <1>8, Zenon DEF Next, AllocStep

\* For any senders, sizes and segment: no block leaks and no message is lost or
\* sent twice, through every timeout, full segment and lost race of
\* CmiIpcTrySendAndFree, CmiAllocIpcBlock and pushList_.
THEOREM NoneLost == Spec => []NothingLost
<1> DEFINE Kept == NoLeak /\ RouteInv
<1>1. Init => Kept
  <2> SUFFICES ASSUME Init PROVE Kept
    BY Zenon
  <2>1. NoLeak
    BY Zenon DEF Init, NoLeak, Cut
  <2>2. \A s \in Sender : nsent[s] = 0 /\ pc[s] = "idle"
    BY Zenon DEF Init, Thread
  <2>3. OneRoute
    BY <2>2 DEF OneRoute
  <2>4. \A s \in Sender : \A n \in Nat : ~ Pooled(s, n) /\ ~ Networked(s, n)
    BY DEF Init, Pooled, Networked
  <2>5. RouteBound /\ HandInv
    BY <2>2, <2>4, Zenon DEF RouteBound, HandInv, Pushing
  <2> QED BY <2>1, <2>3, <2>5, Zenon DEF RouteInv
<1>2. IInv /\ Kept /\ [Next]_vars => Kept'
  <2>1. ASSUME IInv, Kept, Next PROVE Kept'
    BY <2>1, NextLeak, NextRoutes, NextHand, RouteStep, Zenon DEF RouteInv
  <2>2. ASSUME IInv, Kept, UNCHANGED vars PROVE Kept'
    <3>1. NoLeak'
      BY <2>2, QuietLeak, Zenon DEF vars, InHand
    <3>2. OneRoute' /\ RouteBound'
      BY <2>2, KeepRoutes, RouteStep, Zenon DEF vars, RouteInv
    <3>3. HandInv'
      BY <2>2, HandFrame, Zenon DEF vars, RouteInv
    <3> QED BY <3>1, <3>2, <3>3, Zenon DEF RouteInv
  <2> QED BY <2>1, <2>2, Zenon
<1>3. Kept => NothingLost
  BY Zenon DEF RouteInv, NothingLost
<1> HIDE DEF Kept
<1> QED BY Invariance, <1>1, <1>2, <1>3, PTL DEF Spec
=============================================================================
