------------------------- MODULE IpcPoolInv_proofs --------------------------
(***************************************************************************)
(* pushList_, takeList_, delivery and freeing preserve the inductive       *)
(* invariant, and what follows from it for every number of senders, ranks  *)
(* and size classes and every segment: the pool is type correct, its       *)
(* blocks never overlap, and no block is reachable through two places.     *)
(***************************************************************************)
EXTENDS IpcPoolAlloc_proofs

USE ThreadAssumption, SegmentAssumption, BoundAssumption

\* pushList_.

\* A pushing PE holds a cut block, and pushes it onto an initialized list.
LEMMA PushFacts ==
    ASSUME IInv, NEW t \in Thread, pc[t] \in Pushing
    PROVE  /\ Target(t) \in SharedList
           /\ Target(t) \in List
           /\ cur[t] \in Cut /\ cur[t] \in Block
           /\ head[Target(t)] \in Offset
           /\ heap # nil
           /\ body[cur[t]] \in Message
<1>1. cur[t] \in Cut
  BY Zenon DEF IInv, PcInv, Thread
<1>2. cur[t] \in Block /\ size[cur[t]] \in Bin
  BY <1>1, Zenon DEF IInv, TypeOK, Cut
<1>3. owner[cur[t]] \in Sender /\ body[cur[t]] \in Message
  BY <1>1, Zenon DEF IInv, CutInv
<1>4. Target(t) \in SharedList
  <2>1. CASE t \in Sender
    BY <1>3, <2>1, Zenon DEF Target, Message, SharedList, RecvList
  <2>2. CASE t \notin Sender
    <3>1. Target(t) = <<"ret", owner[cur[t]], size[cur[t]]>>
      BY <2>2, Zenon DEF Target
    <3>2. \A s \in Sender, b \in Bin : <<"ret", s, b>> \in SharedList
      BY DEF SharedList, RetList
    <3> QED BY <1>2, <1>3, <3>1, <3>2, Zenon
  <2> QED BY <2>1, <2>2, Zenon
<1>5. heap # nil /\ Target(t) \in List
  BY <1>1, <1>4, ListKinds, Zenon DEF IInv, SegmentInv
<1>6. head[Target(t)] \in Offset
  BY <1>5, Zenon DEF IInv, SegmentInv, TypeOK
<1> QED BY <1>1, <1>2, <1>3, <1>4, <1>5, <1>6, Zenon

\* Writing block->next of the block in hand: no link changes.
LEMMA LinkInv ==
    ASSUME IInv, NEW t \in Thread, pc[t] \in Pushing,
           next' = [next EXCEPT ![cur[t]] = head[Target(t)]],
           pc' = [pc EXCEPT ![t] = "cas"],
           UNCHANGED <<heap, head, blockVars, cur, sendVars, recvVars, logVars>>
    PROVE  IInv'
<1> USE DEF blockVars, sendVars, recvVars, logVars
<1>1. next' \in [Block -> Offset]
  BY PushFacts, Zenon DEF IInv, TypeOK
<1>2. pc' \in [Thread -> SenderPc \cup RankPc]
  BY Zenon DEF IInv, TypeOK, SenderPc
<1>3. TypeOK'
  BY <1>1, <1>2, Zenon DEF IInv, TypeOK
<1>4. Cut' = Cut
  BY Zenon DEF Cut
<1>5. PcInv'
  BY <1>4, Zenon DEF IInv, PcInv, TypeOK, SenderPc, RankPc, Pushing, Walking, Thread
<1>6. SegmentInv'
  BY <1>4, PushFacts, Zenon DEF IInv, SegmentInv
<1>7. CutInv' /\ BlocksDisjoint'
  BY <1>4, Zenon DEF IInv, CutInv, BlocksDisjoint
<1>8. Listed' = Listed /\ cur[t] \notin Listed
  BY <1>4 DEF Listed, InHand, Pushing, IInv, TypeOK
<1>9. OwnerInv'
  <2>1. PICK at \in [Block -> Place] : OwnedAs(at)
    BY Zenon DEF IInv, OwnerInv
  <2>2. \A o \in Listed : next'[o] = next[o]
    BY <1>8, Zenon DEF IInv, TypeOK, Listed, Cut
  <2>3. OwnedAs(at)'
    BY <1>4, <1>8, <2>1, <2>2 DEF OwnedAs
  <2> QED BY <2>3, Zenon DEF OwnerInv
<1> QED BY <1>3, <1>5, <1>6, <1>7, <1>9, Zenon DEF IInv

\* pushList_ writes the link of the block in hand.
LEMMA PushLinkInv == ASSUME IInv, NEW t \in Thread, PushLink(t) PROVE IInv'
  BY LinkInv, Zenon DEF PushLink, Pushing

\* pushList_ writes that link again when the swap fails.
LEMMA PushRetryInv == ASSUME IInv, NEW t \in Thread, PushRetry(t) PROVE IInv'
<1>1. pc' = [pc EXCEPT ![t] = "cas"]
  BY Zenon DEF PushRetry, IInv, TypeOK
<1> QED BY <1>1, LinkInv, Zenon DEF PushRetry, Pushing

\* The swap: the block becomes the first of the list, and its next, which still
\* is the head it read, the link to what was first.
LEMMA PushSwapInv == ASSUME IInv, NEW t \in Thread, PushSwap(t) PROVE IInv'
<1> DEFINE o == cur[t]
           l == Target(t)
           h == head[l]
<1> USE DEF blockVars, recvVars
<1>1. /\ pc[t] = "cas" /\ h = next[o]
      /\ head' = [head EXCEPT ![l] = o] /\ cur' = [cur EXCEPT ![t] = max]
      /\ pc' = [pc EXCEPT ![t] = "idle"]
      /\ UNCHANGED <<heap, next, blockVars, tries, off, nsent, recvVars, net, arrived>>
  BY Zenon DEF PushSwap
<1>2. /\ l \in SharedList /\ l \in List /\ o \in Cut /\ o \in Block
      /\ h \in Offset /\ heap # nil /\ body[o] \in Message
  BY <1>1, PushFacts, Zenon DEF Pushing
<1>3. TypeOK'
  <2>1. head' \in [List -> Offset \cup {nil}]
    BY <1>1, <1>2, Zenon DEF IInv, TypeOK, Offset
  <2>2. pc' \in [Thread -> SenderPc \cup RankPc]
    BY <1>1, Zenon DEF IInv, TypeOK, SenderPc
  <2>3. cur' \in [Thread -> Offset]
    BY <1>1, Zenon DEF IInv, TypeOK, Offset
  <2>4. req' \in [Sender -> Request \cup {NoRequest}]
    BY Zenon DEF PushSwap, IInv, TypeOK
  <2>5. posted' \in [Sender -> [Dest -> Seq(Nat)]]
    <3>1. CASE t \in Sender
      <4>1. req[t].dest \in Dest /\ body[o].seq \in Nat
        BY <1>1, <1>2, <3>1, Zenon DEF IInv, PcInv, Request, Message
      <4>2. Append(posted[t][req[t].dest], body[o].seq) \in Seq(Nat)
        BY <3>1, <4>1 DEF IInv, TypeOK
      <4>3. PICK f \in [Dest -> Seq(Nat)] :
              f = [posted[t] EXCEPT ![req[t].dest] = Append(@, body[o].seq)]
        BY <3>1, <4>1, <4>2, Zenon DEF IInv, TypeOK
      <4>4. posted' = [posted EXCEPT ![t] = f]
        BY <3>1, <4>3, Zenon DEF PushSwap
      <4> QED BY <4>3, <4>4, Zenon DEF IInv, TypeOK
    <3>2. CASE t \notin Sender
      BY <3>2, Zenon DEF PushSwap, IInv, TypeOK
    <3> QED BY <3>1, <3>2, Zenon
  <2> QED BY <1>1, <2>1, <2>2, <2>3, <2>4, <2>5, Zenon DEF IInv, TypeOK
<1>4. Cut' = Cut
  BY <1>1, Zenon DEF Cut
<1>5. PcInv'
  BY <1>1, <1>4, SMTT(30) DEF PushSwap, IInv, PcInv, TypeOK, SenderPc, RankPc, Pushing, Walking, Thread
<1>6. SegmentInv'
  BY <1>1, <1>2, <1>4, OffsetFacts, ListKinds, Zenon DEF IInv, SegmentInv, TypeOK, Offset
<1>7. CutInv' /\ BlocksDisjoint'
  BY <1>1, <1>4, Zenon DEF IInv, CutInv, BlocksDisjoint
<1>8. PICK at \in [Block -> Place] : OwnedAs(at)
  BY Zenon DEF IInv, OwnerInv
<1>9. /\ at[o] = <<"cur", t, 0>> /\ o # h
      /\ h \in Block => h \in Cut /\ at[h] = <<"head", l, 0>>
  BY <1>2, <1>8 DEF OwnedAs
<1>10. Listed' = Listed \cup {o}
  <2>1. o \notin live /\ (\A r \in Rank : \A i \in DOMAIN inbox[r] : inbox[r][i] # o)
        /\ (\A u \in Thread : u # t => cur[u] # o)
    BY <1>2, <1>8, <1>9 DEF OwnedAs
  <2>2. \A u \in Thread : u # t => InHand(u)' = InHand(u) /\ cur'[u] = cur[u]
    BY <1>1, Zenon DEF InHand, IInv, TypeOK
  <2>3. ~ InHand(t)'
    BY <1>1, Zenon DEF InHand, Pushing, IInv, TypeOK
  <2> QED BY <1>1, <1>2, <1>4, <2>1, <2>2, <2>3 DEF Listed
<1>11. OwnerInv'
  <2>1. PICK at2 \in [Block -> Place] :
          at2 = [at EXCEPT ![o] = <<"head", l, 0>>, ![h] = <<"next", o, 0>>]
    BY <1>2, Zenon DEF Place
  <2>2. \A m \in List : head'[m] \in Block => head'[m] \in Cut' /\ at2[head'[m]] = <<"head", m, 0>>
    <3> SUFFICES ASSUME NEW m \in List, head'[m] \in Block
                 PROVE  head'[m] \in Cut' /\ at2[head'[m]] = <<"head", m, 0>>
      BY Zenon
    <3>1. CASE m = l
      <4>1. head'[m] = o
        BY <1>1, <3>1, Zenon DEF IInv, TypeOK
      <4>2. at2[o] = <<"head", l, 0>>
        BY <1>2, <1>9, <2>1, Zenon
      <4> QED BY <1>2, <1>4, <3>1, <4>1, <4>2, Zenon
    <3>2. CASE m # l
      <4>1. head'[m] = head[m]
        BY <1>1, <3>2, Zenon DEF IInv, TypeOK
      <4>2. head[m] \in Cut /\ at[head[m]] = <<"head", m, 0>>
        BY <1>8, <4>1, Zenon DEF OwnedAs
      <4>3. head[m] # o /\ head[m] # h
        BY <1>9, <3>2, <4>1, <4>2
      <4> QED BY <1>4, <2>1, <4>1, <4>2, <4>3, Zenon
    <3> QED BY <3>1, <3>2, Zenon
  <2>3. \A u \in Thread : cur'[u] \in Block => cur'[u] \in Cut' /\ at2[cur'[u]] = <<"cur", u, 0>>
    <3> SUFFICES ASSUME NEW u \in Thread, cur'[u] \in Block
                 PROVE  cur'[u] \in Cut' /\ at2[cur'[u]] = <<"cur", u, 0>>
      BY Zenon
    <3>1. u # t /\ cur'[u] = cur[u]
      BY <1>1, OffsetFacts, Zenon DEF IInv, TypeOK
    <3>2. cur[u] \in Cut /\ at[cur[u]] = <<"cur", u, 0>>
      BY <1>8, <3>1, Zenon DEF OwnedAs
    <3>3. cur[u] # o /\ cur[u] # h
      BY <1>9, <3>1, <3>2
    <3> QED BY <1>4, <2>1, <3>1, <3>2, <3>3, Zenon
  <2>4. \A x \in Listed' : next'[x] \in Block =>
            next'[x] \in Cut' /\ at2[next'[x]] = <<"next", x, 0>>
    <3> SUFFICES ASSUME NEW x \in Listed \cup {o}, next[x] \in Block
                 PROVE  next[x] \in Cut /\ at2[next[x]] = <<"next", x, 0>>
      BY <1>1, <1>4, <1>10, Zenon
    <3>1. CASE x = o
      BY <1>1, <1>9, <2>1, <3>1
    <3>2. CASE x # o
      <4>1. next[x] \in Cut /\ at[next[x]] = <<"next", x, 0>>
        BY <1>8, <3>2, Zenon DEF OwnedAs
      <4> QED BY <1>9, <2>1, <4>1
    <3> QED BY <3>1, <3>2, Zenon
  <2>5. \A x \in live' : x \in Cut' /\ at2[x] = <<"live", x, 0>>
    <3> SUFFICES ASSUME NEW x \in live PROVE x \in Cut /\ at2[x] = <<"live", x, 0>>
      BY <1>1, <1>4, Zenon
    <3>1. x \in Cut /\ at[x] = <<"live", x, 0>>
      BY <1>8, Zenon DEF OwnedAs
    <3>2. x \in Block
      BY <3>1, Zenon DEF Cut
    <3> QED BY <1>9, <2>1, <3>1, <3>2
  <2>6. \A r \in Rank : \A i \in DOMAIN inbox'[r] :
            inbox'[r][i] \in Cut' /\ at2[inbox'[r][i]] = <<"inbox", r, i>>
    <3> SUFFICES ASSUME NEW r \in Rank, NEW i \in DOMAIN inbox[r]
                 PROVE  inbox[r][i] \in Cut /\ at2[inbox[r][i]] = <<"inbox", r, i>>
      BY <1>1, <1>4, Zenon
    <3>1. inbox[r][i] \in Cut /\ at[inbox[r][i]] = <<"inbox", r, i>>
      BY <1>8, Zenon DEF OwnedAs
    <3>2. inbox[r][i] \in Block
      BY <3>1, Zenon DEF Cut
    <3> QED BY <1>9, <2>1, <3>1, <3>2
  <2>7. OwnedAs(at2)'
    BY <2>2, <2>3, <2>4, <2>5, <2>6, Zenon DEF OwnedAs
  <2> QED BY <2>7, Zenon DEF OwnerInv
<1> QED BY <1>3, <1>5, <1>6, <1>7, <1>11, Zenon DEF IInv

-----------------------------------------------------------------------------
\* takeList_ and delivery.

\* The exchange: what was first on the list is now in the PE's hand.
LEMMA TakeInv ==
    ASSUME IInv, NEW r \in Rank, NEW d \in Dest, NEW w \in Walking,
           NEW e \in {"idle", "node", "deliver"},
           TakeList(r, d, w, e), heap # nil, cur[r] = max, pc[r] \in {"idle", "node"},
           e = "deliver" => inbox[r] # <<>>,
           UNCHANGED <<heap, next, blockVars, sendVars, recvVars, logVars>>
    PROVE  IInv'
<1> DEFINE l == <<"rq", d>>
           h == head[l]
<1> USE DEF blockVars, sendVars, recvVars, logVars
<1>1. /\ cur' = [cur EXCEPT ![r] = h] /\ head' = [head EXCEPT ![l] = max]
      /\ pc' = [pc EXCEPT ![r] = IF h = max THEN e ELSE w]
  BY Zenon DEF TakeList
<1>2. l \in SharedList /\ l \in List /\ r \in Thread
  BY Zenon DEF SharedList, RecvList, List, Thread
<1>3. h \in Offset
  BY <1>2, Zenon DEF IInv, SegmentInv, TypeOK
<1>4. PICK at \in [Block -> Place] : OwnedAs(at)
  BY Zenon DEF IInv, OwnerInv
<1>5. h # max => h \in Block /\ h \in Cut
  BY <1>2, <1>3, <1>4, Zenon DEF OwnedAs, Offset
<1>6. TypeOK'
  <2>1. head' \in [List -> Offset \cup {nil}]
    BY <1>1, Zenon DEF IInv, TypeOK, Offset
  <2>2. pc' \in [Thread -> SenderPc \cup RankPc]
    BY <1>1, Zenon DEF IInv, TypeOK, RankPc, Walking
  <2>3. cur' \in [Thread -> Offset]
    BY <1>1, <1>3, Zenon DEF IInv, TypeOK
  <2> QED BY <2>1, <2>2, <2>3, Zenon DEF IInv, TypeOK
<1>7. Cut' = Cut
  BY Zenon DEF Cut
<1>8. PcInv'
  BY <1>1, <1>2, <1>5, <1>7, ZenonT(30) DEF IInv, PcInv, TypeOK, SenderPc, RankPc, Pushing, Walking, Thread
<1>9. SegmentInv'
  BY <1>1, <1>2, <1>7, OffsetFacts, ListKinds, Zenon DEF IInv, SegmentInv, TypeOK, Offset
<1>10. CutInv' /\ BlocksDisjoint'
  BY <1>7, Zenon DEF IInv, CutInv, BlocksDisjoint
<1>11. Listed' = Listed
  <2>1. \A u \in Thread : u # r => InHand(u)' = InHand(u) /\ cur'[u] = cur[u]
    BY <1>1, Zenon DEF InHand, IInv, TypeOK
  <2>2. ~ InHand(r)' /\ ~ InHand(r)
    BY <1>1, <1>2, Zenon DEF InHand, Pushing, Walking, IInv, TypeOK
  <2> QED BY <1>7, <2>1, <2>2, Zenon DEF Listed
<1>12. OwnerInv'
  <2>1. PICK at2 \in [Block -> Place] : at2 = [at EXCEPT ![h] = <<"cur", r, 0>>]
    BY <1>2, Zenon DEF Place
  <2>2. h \in Block => at[h] = <<"head", l, 0>>
    BY <1>2, <1>4, Zenon DEF OwnedAs
  <2>3. \A m \in List : head'[m] \in Block => head'[m] \in Cut' /\ at2[head'[m]] = <<"head", m, 0>>
    <3> SUFFICES ASSUME NEW m \in List, head'[m] \in Block
                 PROVE  head'[m] \in Cut' /\ at2[head'[m]] = <<"head", m, 0>>
      BY Zenon
    <3>1. m # l /\ head'[m] = head[m]
      BY <1>1, OffsetFacts, Zenon DEF IInv, TypeOK
    <3>2. head[m] \in Cut /\ at[head[m]] = <<"head", m, 0>>
      BY <1>4, <3>1, Zenon DEF OwnedAs
    <3>3. head[m] # h
      BY <2>2, <3>1, <3>2
    <3> QED BY <1>7, <2>1, <3>1, <3>2, <3>3, Zenon
  <2>4. \A u \in Thread : cur'[u] \in Block => cur'[u] \in Cut' /\ at2[cur'[u]] = <<"cur", u, 0>>
    <3> SUFFICES ASSUME NEW u \in Thread, cur'[u] \in Block
                 PROVE  cur'[u] \in Cut' /\ at2[cur'[u]] = <<"cur", u, 0>>
      BY Zenon
    <3>1. CASE u = r
      <4>1. cur'[u] = h
        BY <1>1, <1>2, <3>1, Zenon DEF IInv, TypeOK
      <4> QED BY <1>5, <1>7, <2>1, <3>1, <4>1, OffsetFacts, Zenon
    <3>2. CASE u # r
      <4>1. cur'[u] = cur[u]
        BY <1>1, <3>2, Zenon DEF IInv, TypeOK
      <4>2. cur[u] \in Cut /\ at[cur[u]] = <<"cur", u, 0>>
        BY <1>4, <4>1, Zenon DEF OwnedAs
      <4>3. cur[u] # h
        BY <2>2, <4>1, <4>2, SMTT(30)
      <4> QED BY <1>7, <2>1, <4>1, <4>2, <4>3, Zenon
    <3> QED BY <3>1, <3>2, Zenon
  <2>5. \A x \in Listed' : next'[x] \in Block =>
            next'[x] \in Cut' /\ at2[next'[x]] = <<"next", x, 0>>
    BY <1>4, <1>7, <1>11, <2>1, <2>2 DEF OwnedAs
  <2>6. \A x \in live' : x \in Cut' /\ at2[x] = <<"live", x, 0>>
    BY <1>4, <1>7, <2>1, <2>2 DEF OwnedAs, Cut
  <2>7. \A q \in Rank : \A i \in DOMAIN inbox'[q] :
            inbox'[q][i] \in Cut' /\ at2[inbox'[q][i]] = <<"inbox", q, i>>
    BY <1>4, <1>7, <2>1, <2>2 DEF OwnedAs, Cut
  <2>8. OwnedAs(at2)'
    BY <2>3, <2>4, <2>5, <2>6, <2>7, Zenon DEF OwnedAs
  <2> QED BY <2>8, Zenon DEF OwnerInv
<1> QED BY <1>6, <1>8, <1>9, <1>10, <1>12, Zenon DEF IInv

\* CmiDeliverIpcInbox begins to poll, or goes on with its inbox.
LEMMA PollInv == ASSUME IInv, NEW r \in Rank, Poll(r) PROVE IInv'
<1>1. r \in Dest /\ r \in Thread
  BY Zenon DEF Dest, Thread
<1>2. cur[r] = max /\ pc[r] = "idle" /\ heap # nil
  BY Zenon DEF Poll, IInv, PcInv, Pushing, Walking
<1>3. CASE inbox[r] # <<>>
  <2> USE DEF blockVars, sendVars, recvVars, logVars
  <2>1. pc' = [pc EXCEPT ![r] = "deliver"]
        /\ UNCHANGED <<heap, head, next, blockVars, cur, sendVars, recvVars, logVars>>
    BY <1>3, Zenon DEF Poll
  <2>2. TypeOK'
    BY <2>1, ZenonT(30) DEF IInv, TypeOK, RankPc
  <2>3. Cut' = Cut /\ Listed' = Listed
    <3>1. \A t \in Thread : InHand(t)' = InHand(t)
      BY <1>1, <1>2, <2>1, SMTT(30) DEF InHand, Pushing, IInv, TypeOK
    <3> QED BY <2>1, <3>1, Zenon DEF Listed, Cut
  <2>4. PcInv'
    BY <1>2, <1>3, <2>1, <2>3, Zenon DEF IInv, PcInv, TypeOK, SenderPc, RankPc, Pushing, Walking, Thread
  <2>5. SegmentInv' /\ CutInv' /\ BlocksDisjoint'
    BY <1>2, <2>1, <2>3, Zenon DEF IInv, SegmentInv, CutInv, BlocksDisjoint
  <2>6. OwnerInv'
    <3>1. PICK at \in [Block -> Place] : OwnedAs(at)
      BY Zenon DEF IInv, OwnerInv
    <3>2. OwnedAs(at)'
      BY <2>1, <2>3, <3>1, Zenon DEF OwnedAs
    <3> QED BY <3>2, Zenon DEF OwnerInv
  <2> QED BY <2>2, <2>4, <2>5, <2>6, Zenon DEF IInv
<1>4. CASE inbox[r] = <<>>
  <2>1. TakeList(r, r, "walk_rq", "node")
        /\ UNCHANGED <<heap, next, blockVars, sendVars, recvVars, logVars>>
    BY <1>4, Zenon DEF Poll
  <2> QED BY <1>1, <1>2, <2>1, TakeInv, Zenon DEF Walking
<1> QED BY <1>3, <1>4, Zenon

\* refillInbox_ also takes the process's node queue.
LEMMA TakeNodeInv == ASSUME IInv, NEW r \in Rank, TakeNode(r) PROVE IInv'
<1>1. cur[r] = max /\ pc[r] = "node" /\ heap # nil /\ Node \in Dest
  BY Zenon DEF TakeNode, IInv, PcInv, SegmentInv, Pushing, Walking, Dest
<1>2. PICK e \in {"idle", "deliver"} : e = IF inbox[r] = <<>> THEN "idle" ELSE "deliver"
  BY Zenon
<1>3. TakeList(r, Node, "walk_node", e)
      /\ UNCHANGED <<heap, next, blockVars, sendVars, recvVars, logVars>>
  BY <1>2, Zenon DEF TakeNode, TakeList
<1> QED BY <1>1, <1>2, <1>3, TakeInv, Zenon DEF Walking

\* One iteration of the walk: the block goes to the inbox, and the one its next
\* links to into the PE's hand.
LEMMA WalkInv == ASSUME IInv, NEW r \in Rank, Walk(r) PROVE IInv'
<1> DEFINE o == cur[r]
           x == next[o]
           n == Len(inbox[r])
<1> USE DEF segVars, blockVars, sendVars, logVars
<1>1. /\ pc[r] \in Walking /\ inbox' = [inbox EXCEPT ![r] = Append(@, o)]
      /\ cur' = [cur EXCEPT ![r] = x]
      /\ pc' = [pc EXCEPT ![r] = IF x # max THEN @
                                 ELSE IF @ = "walk_rq" THEN "node" ELSE "deliver"]
      /\ UNCHANGED <<segVars, blockVars, sendVars, live, logVars>>
  BY Zenon DEF Walk
<1>2. r \in Thread /\ o \in Cut /\ o \in Block /\ x \in Offset /\ n \in Nat
      /\ inbox[r] \in Seq(Block)
  BY <1>1 DEF IInv, PcInv, TypeOK, Thread, Cut
<1>3. PICK at \in [Block -> Place] : OwnedAs(at)
  BY Zenon DEF IInv, OwnerInv
<1>4. at[o] = <<"cur", r, 0>>
  BY <1>2, <1>3, Zenon DEF OwnedAs
<1>5. o \in Listed
  <2>1. o \notin live /\ (\A q \in Rank : \A i \in DOMAIN inbox[q] : inbox[q][i] # o)
    BY <1>3, <1>4 DEF OwnedAs
  <2>2. \A t \in Thread : t # r => cur[t] # o
    BY <1>2, <1>3, <1>4 DEF OwnedAs
  <2>3. ~ InHand(r)
    BY <1>1, Zenon DEF InHand, Pushing, Walking
  <2> QED BY <1>2, <2>1, <2>2, <2>3, Zenon DEF Listed
<1>6. (x \in Block => x \in Cut /\ at[x] = <<"next", o, 0>>) /\ x # o
  BY <1>3, <1>4, <1>5, <1>2 DEF OwnedAs
<1>7. x # max => x \in Block
  BY <1>2, Zenon DEF Offset
<1>8. /\ Len(inbox'[r]) = n + 1 /\ inbox'[r] \in Seq(Block) /\ inbox'[r] # <<>>
      /\ DOMAIN inbox'[r] = 1 .. (n + 1) /\ DOMAIN inbox[r] = 1 .. n
      /\ inbox'[r][n + 1] = o /\ \A i \in 1 .. n : inbox'[r][i] = inbox[r][i]
  <2>1. inbox'[r] = Append(inbox[r], o)
    BY <1>1, Zenon DEF IInv, TypeOK
  <2> QED BY <1>2, <2>1
<1>9. TypeOK'
  <2>1. pc' \in [Thread -> SenderPc \cup RankPc]
    BY <1>1, Zenon DEF IInv, TypeOK, RankPc
  <2>2. cur' \in [Thread -> Offset]
    BY <1>1, <1>2, Zenon DEF IInv, TypeOK
  <2>3. inbox' \in [Rank -> Seq(Block)]
    BY <1>1, <1>2, <1>8, Zenon DEF IInv, TypeOK
  <2> QED BY <1>1, <2>1, <2>2, <2>3, Zenon DEF IInv, TypeOK
<1>10. Cut' = Cut
  BY <1>1, Zenon DEF Cut
<1>11. PcInv'
  BY <1>1, <1>2, <1>6, <1>7, <1>8, <1>10, Zenon
     DEF IInv, PcInv, TypeOK, SenderPc, RankPc, Pushing, Walking, Thread
<1>12. SegmentInv' /\ CutInv' /\ BlocksDisjoint'
  BY <1>1, <1>2, <1>10, Zenon DEF IInv, SegmentInv, CutInv, BlocksDisjoint
<1>13. Listed' = Listed \ {o}
  <2>1. \A u \in Thread : u # r => InHand(u)' = InHand(u) /\ cur'[u] = cur[u]
    BY <1>1, Zenon DEF InHand, IInv, TypeOK
  <2>2. ~ InHand(r)' /\ ~ InHand(r)
    BY <1>1, <1>2, Zenon DEF InHand, Pushing, Walking, IInv, TypeOK
  <2>3. ASSUME NEW y \in Block
        PROVE  (\A q \in Rank : \A i \in DOMAIN inbox'[q] : inbox'[q][i] # y)
               <=> y # o /\ (\A q \in Rank : \A i \in DOMAIN inbox[q] : inbox[q][i] # y)
    <3>1. \A q \in Rank : q # r => inbox'[q] = inbox[q]
      BY <1>1, Zenon DEF IInv, TypeOK
    <3>2. (\A i \in DOMAIN inbox'[r] : inbox'[r][i] # y)
          <=> y # o /\ (\A i \in DOMAIN inbox[r] : inbox[r][i] # y)
      <4>1. \A i \in 1 .. (n + 1) : i \in 1 .. n \/ i = n + 1
        BY <1>2
      <4>2. (\A i \in 1 .. n : i \in 1 .. (n + 1)) /\ n + 1 \in 1 .. (n + 1)
        BY <1>2
      <4> QED BY <1>8, <4>1, <4>2, Zenon
    <3> QED BY <3>1, <3>2, Zenon
  <2> QED BY <1>1, <1>10, <2>1, <2>2, <2>3, SMTT(30) DEF Listed, Cut
<1>14. OwnerInv'
  <2>1. PICK at2 \in [Block -> Place] :
          at2 = [at EXCEPT ![o] = <<"inbox", r, n + 1>>, ![x] = <<"cur", r, 0>>]
    <3>1. <<"inbox", r, n + 1>> \in Place /\ <<"cur", r, 0>> \in Place
      BY <1>2 DEF Place
    <3> QED BY <3>1, Zenon
  <2>2. \A y \in Block : y # o /\ y # x => at2[y] = at[y]
    BY <2>1, Zenon
  <2>3. at2[o] = <<"inbox", r, n + 1>> /\ (x \in Block => at2[x] = <<"cur", r, 0>>)
    BY <1>2, <1>6, <2>1, Zenon
  <2>4. \A m \in List : head'[m] \in Block => head'[m] \in Cut' /\ at2[head'[m]] = <<"head", m, 0>>
    BY <1>1, <1>3, <1>4, <1>6, <1>10, <2>2, SMTT(30) DEF OwnedAs
  <2>5. \A u \in Thread : cur'[u] \in Block => cur'[u] \in Cut' /\ at2[cur'[u]] = <<"cur", u, 0>>
    <3> SUFFICES ASSUME NEW u \in Thread, cur'[u] \in Block
                 PROVE  cur'[u] \in Cut' /\ at2[cur'[u]] = <<"cur", u, 0>>
      BY Zenon
    <3>1. CASE u = r
      <4>1. cur'[u] = x
        BY <1>1, <1>2, <3>1, Zenon DEF IInv, TypeOK
      <4> QED BY <1>6, <1>10, <2>3, <3>1, <4>1, Zenon
    <3>2. CASE u # r
      <4>1. cur'[u] = cur[u]
        BY <1>1, <3>2, Zenon DEF IInv, TypeOK
      <4>2. cur[u] \in Cut /\ at[cur[u]] = <<"cur", u, 0>>
        BY <1>3, <4>1, Zenon DEF OwnedAs
      <4>3. cur[u] # o /\ cur[u] # x
        BY <1>4, <1>6, <3>2, <4>1, <4>2
      <4> QED BY <1>10, <2>2, <4>1, <4>2, <4>3, Zenon
    <3> QED BY <3>1, <3>2, Zenon
  <2>6. \A y \in Listed' : next'[y] \in Block =>
            next'[y] \in Cut' /\ at2[next'[y]] = <<"next", y, 0>>
    <3> SUFFICES ASSUME NEW y \in Listed, y # o, next[y] \in Block
                 PROVE  next[y] \in Cut /\ at2[next[y]] = <<"next", y, 0>>
      BY <1>1, <1>10, <1>13, Zenon
    <3>1. next[y] \in Cut /\ at[next[y]] = <<"next", y, 0>>
      BY <1>3, Zenon DEF OwnedAs
    <3>2. next[y] # o /\ next[y] # x
      BY <1>4, <1>6, <3>1
    <3> QED BY <2>2, <3>1, <3>2, Zenon
  <2>7. \A y \in live' : y \in Cut' /\ at2[y] = <<"live", y, 0>>
    BY <1>1, <1>3, <1>4, <1>6, <1>10, <2>2, SMTT(30) DEF OwnedAs, Cut
  <2>8. \A q \in Rank : \A i \in DOMAIN inbox'[q] :
            inbox'[q][i] \in Cut' /\ at2[inbox'[q][i]] = <<"inbox", q, i>>
    <3> SUFFICES ASSUME NEW q \in Rank, NEW i \in DOMAIN inbox'[q]
                 PROVE  inbox'[q][i] \in Cut' /\ at2[inbox'[q][i]] = <<"inbox", q, i>>
      BY Zenon
    <3>1. CASE q = r /\ i = n + 1
      BY <1>2, <1>8, <1>10, <2>3, <3>1, Zenon
    <3>2. CASE ~ (q = r /\ i = n + 1)
      <4>1. i \in DOMAIN inbox[q] /\ inbox'[q][i] = inbox[q][i]
        BY <1>1, <1>2, <1>8, <3>2 DEF IInv, TypeOK
      <4>2. inbox[q][i] \in Cut /\ at[inbox[q][i]] = <<"inbox", q, i>>
        BY <1>3, <4>1, Zenon DEF OwnedAs
      <4>3. inbox[q][i] \in Block /\ inbox[q][i] # o /\ inbox[q][i] # x
        BY <1>4, <1>6, <4>2 DEF Cut
      <4> QED BY <1>10, <2>2, <4>1, <4>2, <4>3, Zenon
    <3> QED BY <3>1, <3>2, Zenon
  <2>9. OwnedAs(at2)'
    BY <2>4, <2>5, <2>6, <2>7, <2>8, Zenon DEF OwnedAs
  <2> QED BY <2>9, Zenon DEF OwnerInv
<1> QED BY <1>9, <1>11, <1>12, <1>14, Zenon DEF IInv

\* Delivery moves the last inbox entry to the application.
LEMMA DeliverInv == ASSUME IInv, NEW r \in Rank, Deliver(r) PROVE IInv'
<1> DEFINE n == Len(inbox[r])
           o == inbox[r][n]
<1> USE DEF segVars, blockVars, sendVars
<1>1. /\ pc[r] = "deliver" /\ inbox' = [inbox EXCEPT ![r] = SubSeq(@, 1, n - 1)]
      /\ live' = live \cup {o}
      /\ arrived' = [arrived EXCEPT ![body[o].src][body[o].dest] = Append(@, body[o].seq)]
      /\ (n > 1 /\ pc' = pc) \/ pc' = [pc EXCEPT ![r] = "idle"]
      /\ UNCHANGED <<segVars, blockVars, cur, sendVars, posted, net>>
  BY Zenon DEF Deliver
<1>2. /\ r \in Thread /\ inbox[r] \in Seq(Block) /\ n \in Nat \ {0}
      /\ DOMAIN inbox[r] = 1 .. n /\ n \in DOMAIN inbox[r] /\ cur[r] = max
  <2>1. r \in Thread /\ inbox[r] \in Seq(Block)
    BY ZenonT(30) DEF IInv, TypeOK, Thread
  <2>2. inbox[r] # <<>> /\ cur[r] = max
    BY <1>1, Zenon DEF IInv, PcInv, Pushing, Walking
  <2>3. n \in Nat \ {0} /\ DOMAIN inbox[r] = 1 .. n
    BY <2>1, <2>2
  <2> QED BY <2>1, <2>2, <2>3
<1>3. PICK at \in [Block -> Place] : OwnedAs(at)
  BY Zenon DEF IInv, OwnerInv
<1>4. o \in Block /\ o \in Cut /\ at[o] = <<"inbox", r, n>> /\ body[o] \in Message
  BY <1>2, <1>3, Zenon DEF OwnedAs, IInv, CutInv, Cut
<1>5. /\ inbox'[r] \in Seq(Block) /\ Len(inbox'[r]) = n - 1
      /\ DOMAIN inbox'[r] = 1 .. (n - 1)
      /\ \A i \in 1 .. (n - 1) : inbox'[r][i] = inbox[r][i]
  <2>1. inbox'[r] = SubSeq(inbox[r], 1, n - 1)
    BY <1>1, Zenon DEF IInv, TypeOK
  <2> QED BY <1>2, <2>1
<1>6. \A q \in Rank : q # r => inbox'[q] = inbox[q]
  BY <1>1, Zenon DEF IInv, TypeOK
<1>7. TypeOK'
  <2>1. pc' \in [Thread -> SenderPc \cup RankPc]
    BY <1>1, Zenon DEF IInv, TypeOK, RankPc
  <2>2. inbox' \in [Rank -> Seq(Block)]
    BY <1>1, <1>5, Zenon DEF IInv, TypeOK
  <2>3. arrived' \in [Sender -> [Dest -> Seq(Nat)]]
    <3>1. body[o].src \in Sender /\ body[o].dest \in Dest /\ body[o].seq \in Nat
      BY <1>4 DEF Message
    <3>2. arrived \in [Sender -> [Dest -> Seq(Nat)]]
      BY Zenon DEF IInv, TypeOK
    <3> DEFINE s == body[o].src
               d == body[o].dest
               k == body[o].seq
    <3>3. arrived' = [arrived EXCEPT ![s][d] = Append(@, k)]
      BY <1>1, Zenon
    <3>4. s \in Sender /\ d \in Dest /\ k \in Nat
      BY <3>1, Zenon
    <3> HIDE DEF s, d, k
    <3>5. arrived[s] \in [Dest -> Seq(Nat)] /\ arrived[s][d] \in Seq(Nat)
      BY <3>2, <3>4, Zenon
    <3>6. Append(arrived[s][d], k) \in Seq(Nat)
      BY <3>4, <3>5
    <3>7. [arrived[s] EXCEPT ![d] = Append(arrived[s][d], k)] \in [Dest -> Seq(Nat)]
      BY <3>5, <3>6, Zenon
    <3>8. arrived' = [arrived EXCEPT ![s] = [arrived[s] EXCEPT ![d] = Append(arrived[s][d], k)]]
      BY <3>3
    <3> QED BY <3>2, <3>7, <3>8, Zenon
  <2>4. live' \subseteq Block
    BY <1>1, <1>4, Zenon DEF IInv, TypeOK
  <2> QED BY <1>1, <2>1, <2>2, <2>3, <2>4, Zenon DEF IInv, TypeOK
<1>8. Cut' = Cut
  BY <1>1, Zenon DEF Cut
<1>9. PcInv'
  <2>1. n > 1 => inbox'[r] # <<>>
    BY <1>2, <1>5, SMTT(30)
  <2>2. CASE n > 1 /\ pc' = pc
    BY <1>1, <1>2, <1>6, <1>8, <2>1, <2>2, Zenon DEF IInv, PcInv
  <2>3. CASE pc' = [pc EXCEPT ![r] = "idle"]
    BY <1>1, <1>2, <1>6, <1>8, <2>3, Zenon
       DEF IInv, PcInv, TypeOK, SenderPc, RankPc, Pushing, Walking, Thread
  <2> QED BY <1>1, <2>2, <2>3, Zenon
<1>10. SegmentInv' /\ CutInv' /\ BlocksDisjoint'
  BY <1>1, <1>2, <1>4, <1>8, Zenon DEF IInv, SegmentInv, CutInv, BlocksDisjoint
<1>11. Listed' = Listed
  <2>1. \A u \in Thread : InHand(u)' <=> InHand(u)
    BY <1>1, <1>2, Zenon DEF InHand, Pushing, IInv, TypeOK
  <2>2. ASSUME NEW y \in Block
        PROVE  (y # o /\ \A q \in Rank : \A i \in DOMAIN inbox'[q] : inbox'[q][i] # y)
               <=> (\A q \in Rank : \A i \in DOMAIN inbox[q] : inbox[q][i] # y)
    <3>1. (\A i \in 1 .. n : i \in 1 .. (n - 1) \/ i = n)
          /\ (\A i \in 1 .. (n - 1) : i \in 1 .. n)
      BY <1>2
    <3>2. (y # o /\ \A i \in DOMAIN inbox'[r] : inbox'[r][i] # y)
          <=> (\A i \in DOMAIN inbox[r] : inbox[r][i] # y)
      BY <1>2, <1>5, <3>1, Zenon
    <3> QED BY <1>6, <3>2, Zenon
  <2> QED BY <1>1, <1>8, <2>1, <2>2, Zenon DEF Listed, Cut
<1>12. OwnerInv'
  <2>1. PICK at2 \in [Block -> Place] : at2 = [at EXCEPT ![o] = <<"live", o, 0>>]
    <3>1. <<"live", o, 0>> \in Place
      BY <1>4, Zenon DEF Place
    <3> QED BY <3>1, Zenon
  <2>2. at2[o] = <<"live", o, 0>> /\ \A y \in Block : y # o => at2[y] = at[y]
    BY <1>4, <2>1, ZenonT(30)
  <2>3. \A m \in List : head'[m] \in Block => head'[m] \in Cut' /\ at2[head'[m]] = <<"head", m, 0>>
    <3> SUFFICES ASSUME NEW m \in List, head[m] \in Block
                 PROVE  head[m] \in Cut /\ at2[head[m]] = <<"head", m, 0>>
      BY <1>1, <1>8, Zenon DEF segVars
    <3>1. head[m] \in Cut /\ at[head[m]] = <<"head", m, 0>>
      BY <1>3, Zenon DEF OwnedAs
    <3> QED BY <1>4, <2>2, <3>1
  <2>4. \A u \in Thread : cur'[u] \in Block => cur'[u] \in Cut' /\ at2[cur'[u]] = <<"cur", u, 0>>
    <3> SUFFICES ASSUME NEW u \in Thread, cur[u] \in Block
                 PROVE  cur[u] \in Cut /\ at2[cur[u]] = <<"cur", u, 0>>
      BY <1>1, <1>8, Zenon
    <3>1. cur[u] \in Cut /\ at[cur[u]] = <<"cur", u, 0>>
      BY <1>3, Zenon DEF OwnedAs
    <3> QED BY <1>4, <2>2, <3>1
  <2>5. \A y \in Listed' : next'[y] \in Block =>
            next'[y] \in Cut' /\ at2[next'[y]] = <<"next", y, 0>>
    <3> SUFFICES ASSUME NEW y \in Listed, next[y] \in Block
                 PROVE  next[y] \in Cut /\ at2[next[y]] = <<"next", y, 0>>
      BY <1>1, <1>8, <1>11, Zenon
    <3>1. next[y] \in Cut /\ at[next[y]] = <<"next", y, 0>>
      BY <1>3, Zenon DEF OwnedAs
    <3> QED BY <1>4, <2>2, <3>1, SMTT(30)
  <2>6. \A y \in live' : y \in Cut' /\ at2[y] = <<"live", y, 0>>
    BY <1>1, <1>3, <1>4, <1>8, <2>2, Zenon DEF OwnedAs, Cut
  <2>7. \A q \in Rank : \A i \in DOMAIN inbox'[q] :
            inbox'[q][i] \in Cut' /\ at2[inbox'[q][i]] = <<"inbox", q, i>>
    <3> SUFFICES ASSUME NEW q \in Rank, NEW i \in DOMAIN inbox'[q]
                 PROVE  inbox'[q][i] \in Cut' /\ at2[inbox'[q][i]] = <<"inbox", q, i>>
      BY Zenon
    <3>1. i \in DOMAIN inbox[q] /\ inbox'[q][i] = inbox[q][i] /\ ~ (q = r /\ i = n)
      <4>1. CASE q = r
        <5>1. i \in 1 .. (n - 1)
          BY <1>5, <4>1, Zenon
        <5>2. i \in 1 .. n /\ i # n
          BY <1>2, <5>1
        <5> QED BY <1>2, <1>5, <4>1, <5>1, <5>2, Zenon
      <4>2. CASE q # r
        BY <1>6, <4>2, Zenon
      <4> QED BY <4>1, <4>2, Zenon
    <3>2. inbox[q][i] \in Cut /\ at[inbox[q][i]] = <<"inbox", q, i>>
      BY <1>3, <3>1, Zenon DEF OwnedAs
    <3>3. inbox[q][i] \in Block /\ inbox[q][i] # o
      BY <1>4, <3>1, <3>2 DEF Cut
    <3> QED BY <1>8, <2>2, <3>1, <3>2, <3>3, Zenon
  <2>8. OwnedAs(at2)'
    BY <2>3, <2>4, <2>5, <2>6, <2>7, Zenon DEF OwnedAs
  <2> QED BY <2>8, Zenon DEF OwnerInv
<1> QED BY <1>7, <1>9, <1>10, <1>12, Zenon DEF IInv

\* CmiFree hands the block back to a PE's hand.
LEMMA FreeInv == ASSUME IInv, NEW r \in Rank, NEW o, Free(r, o) PROVE IInv'
<1> USE DEF segVars, blockVars, sendVars, logVars
<1>1. /\ pc[r] = "idle" /\ o \in live /\ live' = live \ {o}
      /\ cur' = [cur EXCEPT ![r] = o] /\ pc' = [pc EXCEPT ![r] = "link"]
      /\ UNCHANGED <<segVars, blockVars, sendVars, inbox, logVars>>
  BY Zenon DEF Free
<1>2. PICK at \in [Block -> Place] : OwnedAs(at)
  BY Zenon DEF IInv, OwnerInv
<1>3. /\ r \in Thread /\ o \in Block /\ o \in Cut /\ at[o] = <<"live", o, 0>>
      /\ cur[r] = max
  BY <1>1, <1>2, Zenon DEF OwnedAs, IInv, TypeOK, PcInv, Thread, Pushing, Walking
<1>4. heap # nil
  BY <1>3, Zenon DEF IInv, SegmentInv
<1>5. TypeOK'
  <2>1. pc' \in [Thread -> SenderPc \cup RankPc]
    BY <1>1, Zenon DEF IInv, TypeOK, RankPc
  <2>2. cur' \in [Thread -> Offset]
    BY <1>1, <1>3, Zenon DEF IInv, TypeOK, Offset
  <2>3. live' \subseteq Block
    BY <1>1, Zenon DEF IInv, TypeOK
  <2> QED BY <1>1, <2>1, <2>2, <2>3, Zenon DEF IInv, TypeOK
<1>6. Cut' = Cut
  BY <1>1, Zenon DEF Cut
<1>7. PcInv'
  BY <1>1, <1>3, <1>6, Zenon DEF IInv, PcInv, TypeOK, SenderPc, RankPc, Pushing, Walking, Thread
<1>8. SegmentInv' /\ CutInv' /\ BlocksDisjoint'
  BY <1>1, <1>4, <1>6, Zenon DEF IInv, SegmentInv, CutInv, BlocksDisjoint
<1>9. Listed' = Listed
  <2>1. \A u \in Thread : u # r => InHand(u)' = InHand(u) /\ cur'[u] = cur[u]
    BY <1>1, Zenon DEF InHand, IInv, TypeOK
  <2>2. InHand(r)' /\ cur'[r] = o /\ ~ InHand(r)
    BY <1>1, <1>3, Zenon DEF InHand, Pushing, IInv, TypeOK
  <2> QED BY <1>1, <1>3, <1>6, <2>1, <2>2, Zenon DEF Listed
<1>10. OwnerInv'
  <2>1. PICK at2 \in [Block -> Place] : at2 = [at EXCEPT ![o] = <<"cur", r, 0>>]
    <3>1. <<"cur", r, 0>> \in Place
      BY <1>3, Zenon DEF Place
    <3> QED BY <3>1, Zenon
  <2>2. at2[o] = <<"cur", r, 0>> /\ \A y \in Block : y # o => at2[y] = at[y]
    BY <1>3, <2>1, Zenon
  <2>3. \A m \in List : head'[m] \in Block => head'[m] \in Cut' /\ at2[head'[m]] = <<"head", m, 0>>
    BY <1>1, <1>2, <1>3, <1>6, <2>2 DEF OwnedAs
  <2>4. \A u \in Thread : cur'[u] \in Block => cur'[u] \in Cut' /\ at2[cur'[u]] = <<"cur", u, 0>>
    <3> SUFFICES ASSUME NEW u \in Thread, cur'[u] \in Block
                 PROVE  cur'[u] \in Cut' /\ at2[cur'[u]] = <<"cur", u, 0>>
      BY Zenon
    <3>1. CASE u = r
      BY <1>1, <1>3, <1>6, <2>2, <3>1, Zenon DEF IInv, TypeOK
    <3>2. CASE u # r
      <4>1. cur'[u] = cur[u]
        BY <1>1, <3>2, Zenon DEF IInv, TypeOK
      <4>2. cur[u] \in Cut /\ at[cur[u]] = <<"cur", u, 0>>
        BY <1>2, <4>1, Zenon DEF OwnedAs
      <4> QED BY <1>3, <1>6, <2>2, <4>1, <4>2
    <3> QED BY <3>1, <3>2, Zenon
  <2>5. \A y \in Listed' : next'[y] \in Block =>
            next'[y] \in Cut' /\ at2[next'[y]] = <<"next", y, 0>>
    <3> SUFFICES ASSUME NEW y \in Listed, next[y] \in Block
                 PROVE  next[y] \in Cut /\ at2[next[y]] = <<"next", y, 0>>
      BY <1>1, <1>6, <1>9, Zenon
    <3>1. next[y] \in Cut /\ at[next[y]] = <<"next", y, 0>>
      BY <1>2, Zenon DEF OwnedAs
    <3> QED BY <1>3, <2>2, <3>1
  <2>6. \A y \in live' : y \in Cut' /\ at2[y] = <<"live", y, 0>>
    BY <1>1, <1>2, <1>6, <2>2, Zenon DEF OwnedAs, Cut
  <2>7. \A q \in Rank : \A i \in DOMAIN inbox'[q] :
            inbox'[q][i] \in Cut' /\ at2[inbox'[q][i]] = <<"inbox", q, i>>
    BY <1>1, <1>2, <1>3, <1>6, <2>2 DEF OwnedAs, Cut
  <2>8. OwnedAs(at2)'
    BY <2>3, <2>4, <2>5, <2>6, <2>7, Zenon DEF OwnedAs
  <2> QED BY <2>8, Zenon DEF OwnerInv
<1> QED BY <1>5, <1>7, <1>8, <1>10, Zenon DEF IInv

-----------------------------------------------------------------------------
\* Every step of every PE preserves the invariant.
LEMMA NextInv == ASSUME IInv, Next PROVE IInv'
<1>1. CASE OwnerStep
  BY <1>1, InitListsInv, PublishHeapInv, Zenon DEF OwnerStep
<1>2. ASSUME NEW s \in Sender, SendStart(s) PROVE IInv'
  BY <1>2, SendNetworkInv, TrySendInv, Zenon DEF SendStart
<1>3. ASSUME NEW s \in Sender, AllocStep(s) PROVE IInv'
  <2>1. CASE CutRead(s)
    BY <2>1, CheckFitInv, Zenon DEF CutRead
  <2>2. CASE CutRetry(s)
    BY <2>2, CheckFitInv, Zenon DEF CutRetry
  <2> QED BY <1>3, <2>1, <2>2, AllocCachedInv, AllocTimeoutInv, AllocRefillInv,
             CutSwapInv, Zenon DEF AllocStep
<1>4. ASSUME NEW t \in Thread, PushStep(t) PROVE IInv'
  BY <1>4, PushLinkInv, PushSwapInv, PushRetryInv, Zenon DEF PushStep
<1>5. ASSUME NEW r \in Rank, RecvStep(r) PROVE IInv'
  BY <1>5, PollInv, TakeNodeInv, WalkInv, DeliverInv, Zenon DEF RecvStep
<1>6. ASSUME NEW r \in Rank, FreeStart(r) PROVE IInv'
  BY <1>6, FreeInv, Zenon DEF FreeStart
<1> QED BY <1>1, <1>2, <1>3, <1>4, <1>5, <1>6, Zenon DEF Next

\* Nothing changes, nothing breaks.
LEMMA StutterInv == ASSUME IInv, UNCHANGED vars PROVE IInv'
<1> USE DEF vars
<1>1. Cut' = Cut /\ Listed' = Listed
  BY Zenon DEF Cut, Listed, InHand
<1>2. TypeOK' /\ PcInv' /\ SegmentInv' /\ CutInv' /\ BlocksDisjoint'
  BY <1>1, Zenon DEF IInv, TypeOK, PcInv, SegmentInv, CutInv, BlocksDisjoint
<1>3. OwnerInv'
  BY OwnerFrame, Zenon DEF IInv, InHand
<1> QED BY <1>2, <1>3, Zenon DEF IInv

\* The inductive invariant holds in every state the pool's code can reach.
THEOREM Invariance == Spec => []IInv
<1>1. IInv /\ [Next]_vars => IInv'
  BY NextInv, StutterInv, Zenon
<1> QED BY InitInv, <1>1, PTL DEF Spec

\* The variables keep their types.
THEOREM TypeCorrect == Spec => []TypeOK
<1>1. IInv => TypeOK
  BY Zenon DEF IInv
<1> QED BY Invariance, <1>1, PTL

\* For any senders, ranks, sizes and segment: blocks cut by racing senders do
\* not overlap and stay below the segment's end.
THEOREM Disjointness == Spec => []BlocksDisjoint
<1>1. IInv => BlocksDisjoint
  BY Zenon DEF IInv
<1> QED BY Invariance, <1>1, PTL

\* If every block has a place, no two places hold the same block.
LEMMA OnePlace == IInv => ExclusiveOwnership
<1> SUFFICES ASSUME IInv, NEW p \in Slot, NEW q \in Slot,
                    Content(p) = Content(q), Content(p) \in Block
             PROVE  p = q
  BY Zenon DEF ExclusiveOwnership
<1>1. PICK at \in [Block -> Place] : OwnedAs(at)
  BY Zenon DEF IInv, OwnerInv
<1>2. ASSUME NEW z \in Slot, Content(z) \in Block PROVE at[Content(z)] = z
  <2>1. CASE \E l \in List : z = <<"head", l, 0>>
    BY <1>1, <1>2, <2>1 DEF Content, OwnedAs
  <2>2. CASE \E t \in Thread : z = <<"cur", t, 0>>
    BY <1>1, <1>2, <2>2 DEF Content, OwnedAs
  <2>3. CASE \E o \in Listed : z = <<"next", o, 0>>
    BY <1>1, <1>2, <2>3 DEF Content, OwnedAs
  <2>4. CASE \E o \in live : z = <<"live", o, 0>>
    BY <1>1, <1>2, <2>4 DEF Content, OwnedAs
  <2>5. CASE \E r \in Rank : \E i \in DOMAIN inbox[r] : z = <<"inbox", r, i>>
    BY <1>1, <1>2, <2>5 DEF Content, OwnedAs
  <2> QED BY <2>1, <2>2, <2>3, <2>4, <2>5 DEF Slot
<1> QED BY <1>2, Zenon

\* For any number of senders and receivers, pushing, taking, delivering and
\* freeing concurrently, a block is in one place at a time.
THEOREM Exclusion == Spec => []ExclusiveOwnership
  BY Invariance, OnePlace, PTL
=============================================================================
