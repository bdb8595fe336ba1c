------------------------------ MODULE IpcPool ------------------------------
(***************************************************************************)
(* The shared-memory block pool of +ipc (src/cmishmem.cpp and              *)
(* src/cmi-shmem-common.h): one segment, the PEs of other processes that   *)
(* send into it, and the PEs (ranks) of the process that owns it.          *)
(*                                                                         *)
(* Segments share no state, so one segment is the whole pool as far as its *)
(* blocks are concerned.  A PE that sends to a peer and also receives in   *)
(* its own segment appears once as a Sender of the one and once as a Rank  *)
(* of the other.                                                           *)
(*                                                                         *)
(* Every list is what the code has: a head holding a segment offset, and a *)
(* next offset in each block.  A step reads or writes one shared word.     *)
(***************************************************************************)
EXTENDS Integers, Sequences, FiniteSets

CONSTANTS
    Sender,     \* PEs of the host's other processes
    Rank,       \* PEs of the process that owns the segment
    Node,       \* the destination cmi::ipc::nodeDatagram
    Bin,        \* block size classes (indices into kCutOffPoints)
    Stride,     \* [Bin -> Nat]: header plus block, rounded up
    Begin,      \* segmentBegin_()
    End,        \* ipc_shared_::max, the end of the segment
    Timeout,    \* cmi::ipc::defaultTimeout
    NetworkOnly,   \* whether some sends may not use the pool
    MaxSend     \* bound: messages a sender sends

ASSUME ThreadAssumption ==
    /\ Sender \cap Rank = {}
    /\ Node \notin Rank
ASSUME SegmentAssumption ==
    /\ Begin \in Nat \ {0}
    /\ End \in Nat
    /\ Begin <= End
    /\ Bin \subseteq Nat
    /\ Stride \in [Bin -> Nat \ {0}]
ASSUME BoundAssumption ==
    /\ Timeout \in Nat \ {0}
    /\ MaxSend \in Nat

ASSUME NetworkAssumption == NetworkOnly \in BOOLEAN

nil == 0                        \* "not initialized": what fresh pages read as
max == End + 1                  \* the end of a list; any value no block has
Block == Begin .. (End - 1)     \* offsets a block may have
Offset == Block \cup {max}

Dest == Rank \cup {Node}
Thread == Sender \cup Rank

\* The lists whose head is in the segment, and each sender's private ones.
RecvList == {<<"rq", d>> : d \in Dest}
RetList == {<<"ret", s, b>> : s \in Sender, b \in Bin}
CacheList == {<<"cache", s, b>> : s \in Sender, b \in Bin}
SharedList == RecvList \cup RetList
List == SharedList \cup CacheList

Message == [src : Sender, dest : Dest, seq : Nat \ {0}]
NoMessage == [src |-> "none"]
Request == [dest : Dest, bin : Bin]
NoRequest == [dest |-> "none"]
NoOwner == "nobody"
NoBin == -1

SenderPc == {"idle", "alloc", "cut", "casheap", "link", "cas"}
RankPc == {"idle", "walk_rq", "node", "walk_node", "deliver", "link", "cas"}
Walking == {"walk_rq", "walk_node"}
Pushing == {"link", "cas"}

VARIABLES
    heap,       \* ipc_shared_::heap
    head,       \* the head of every list
    next,       \* CmiIpcBlock::next
    owner,      \* CmiIpcBlock::owner
    size,       \* CmiIpcBlock::size, as a bin; NoBin before the block is cut
    body,       \* the message in the block
    pc,         \* what each PE is doing in the pool's code
    cur,        \* the PE's local offset: the block in hand, or takeList_'s off
    req,        \* the send in progress: destination and size class
    tries,      \* attempts left before CmiMsgToIpcBlock gives up
    off,        \* the heap offset a sender read
    inbox,      \* ipc_pe_state_::inbox
    live,       \* blocks delivered to the application and not freed
    nsent,      \* messages each sender has started to send
    posted,     \* history: sequence numbers pushed, per sender and destination
    net,        \* messages handed to the network backend
    arrived     \* history: those put on the destination's local queue

segVars == <<heap, head, next>>
blockVars == <<owner, size, body>>
sendVars == <<req, tries, off, nsent>>
recvVars == <<inbox, live>>
logVars == <<posted, net, arrived>>
vars == <<heap, head, next, owner, size, body, pc, cur, req, tries, off,
          inbox, live, nsent, posted, net, arrived>>

Cut == {o \in Block : size[o] # NoBin}

TypeOK ==
    /\ heap \in {nil} \cup (Begin .. End)
    /\ head \in [List -> Offset \cup {nil}]
    /\ next \in [Block -> Offset]
    /\ owner \in [Block -> Sender \cup {NoOwner}]
    /\ size \in [Block -> Bin \cup {NoBin}]
    /\ body \in [Block -> Message \cup {NoMessage}]
    /\ pc \in [Thread -> SenderPc \cup RankPc]
    /\ cur \in [Thread -> Offset]
    /\ req \in [Sender -> Request \cup {NoRequest}]
    /\ tries \in [Sender -> 0 .. Timeout]
    /\ off \in [Sender -> Nat]
    /\ inbox \in [Rank -> Seq(Block)]
    /\ live \subseteq Block
    /\ nsent \in [Sender -> 0 .. MaxSend]
    /\ posted \in [Sender -> [Dest -> Seq(Nat)]]
    /\ net \subseteq Message
    /\ arrived \in [Sender -> [Dest -> Seq(Nat)]]

\* A peer may map the segment before its owner initializes it: every word of
\* it reads zero.  Private lists are set up by finishSetup_.
Init ==
    /\ heap = nil
    /\ head = [l \in List |-> IF l \in SharedList THEN nil ELSE max]
    /\ next = [o \in Block |-> max]
    /\ owner = [o \in Block |-> NoOwner]
    /\ size = [o \in Block |-> NoBin]
    /\ body = [o \in Block |-> NoMessage]
    /\ pc = [t \in Thread |-> "idle"]
    /\ cur = [t \in Thread |-> max]
    /\ req = [s \in Sender |-> NoRequest]
    /\ tries = [s \in Sender |-> Timeout]
    /\ off = [s \in Sender |-> nil]
    /\ inbox = [r \in Rank |-> <<>>]
    /\ live = {}
    /\ nsent = [s \in Sender |-> 0]
    /\ posted = [s \in Sender |-> [d \in Dest |-> <<>>]]
    /\ net = {}
    /\ arrived = posted
-----------------------------------------------------------------------------
\* The owner's constructor of ipc_shared_: every list head first ...
InitLists ==
    /\ heap = nil
    /\ \E l \in SharedList : head[l] = nil
    /\ head' = [l \in List |-> IF l \in SharedList THEN max ELSE head[l]]
    /\ UNCHANGED <<heap, next, blockVars, pc, cur, sendVars, recvVars, logVars>>

\* ... and the heap last, which is what tells peers the segment is ready.
PublishHeap ==
    /\ heap = nil
    /\ \A l \in SharedList : head[l] # nil
    /\ heap' = Begin
    /\ UNCHANGED <<head, next, blockVars, pc, cur, sendVars, recvVars, logVars>>

-----------------------------------------------------------------------------
\* Sending: CmiIpcTrySendAndFree, CmiMsgToIpcBlock, CmiAllocIpcBlock.

ThisMessage(s, d) == [src |-> s, dest |-> d, seq |-> nsent'[s]]

\* The pool is not an option: destination not reachable through it, message
\* over the cutoff, or inside a CmiIpcBeginNetworkOnly scope.
SendNetwork(s, d) ==
    /\ NetworkOnly
    /\ pc[s] = "idle"
    /\ nsent[s] < MaxSend
    /\ nsent' = [nsent EXCEPT ![s] = @ + 1]
    /\ net' = net \cup {ThisMessage(s, d)}
    /\ UNCHANGED <<segVars, blockVars, pc, cur, req, tries, off, recvVars,
                   posted, arrived>>

TrySend(s, d, b) ==
    /\ pc[s] = "idle"
    /\ nsent[s] < MaxSend
    /\ nsent' = [nsent EXCEPT ![s] = @ + 1]
    /\ req' = [req EXCEPT ![s] = [dest |-> d, bin |-> b]]
    /\ tries' = [tries EXCEPT ![s] = Timeout]
    /\ pc' = [pc EXCEPT ![s] = "alloc"]
    /\ UNCHANGED <<segVars, blockVars, cur, off, recvVars, logVars>>

\* (mutant) CmiIpcTrySendAndFree reports success for a message it dropped.
FallBackDrops(s) ==
    /\ nsent' = nsent
    /\ net' = net
    /\ req' = [req EXCEPT ![s] = NoRequest]
    /\ pc' = [pc EXCEPT ![s] = "idle"]

\* Allocation failed: the caller sends the message over the network.
FallBack(s) ==
    /\ nsent' = nsent
    /\ net' = net \cup {ThisMessage(s, req[s].dest)}
    /\ req' = [req EXCEPT ![s] = NoRequest]
    /\ pc' = [pc EXCEPT ![s] = "idle"]

\* A block is found: its header and the message are written.  Nobody else can
\* see the block until it is pushed.
Obtain(s, o, b) ==
    /\ cur' = [cur EXCEPT ![s] = o]
    /\ owner' = [owner EXCEPT ![o] = s]
    /\ size' = [size EXCEPT ![o] = b]
    /\ nsent' = nsent
    /\ body' = [body EXCEPT ![o] = ThisMessage(s, req[s].dest)]
    /\ pc' = [pc EXCEPT ![s] = "link"]

Cache(s) == <<"cache", s, req[s].bin>>
Ret(s) == <<"ret", s, req[s].bin>>

\* From the private list.
AllocCached(s) ==
    LET o == head[Cache(s)] IN
    /\ pc[s] = "alloc"
    /\ o # max
    /\ Obtain(s, o, size[o])
    /\ head' = [head EXCEPT ![Cache(s)] = next[o]]
    /\ UNCHANGED <<heap, next, req, tries, off, recvVars, logVars>>

\* The segment is mapped and not initialized: CMI_IPC_TIMEOUT, retried.
AllocTimeout(s) ==
    /\ pc[s] = "alloc"
    /\ head[Cache(s)] = max
    /\ heap = nil
    /\ tries' = [tries EXCEPT ![s] = @ - 1]
    /\ \/ /\ tries[s] > 1
          /\ UNCHANGED <<pc, req, nsent, net>>
       \/ /\ tries[s] <= 1
          /\ FallBack(s)
    /\ UNCHANGED <<segVars, blockVars, cur, off, recvVars, posted, arrived>>

\* The private list is empty: take the whole of this PE's return list.
AllocRefill(s) ==
    LET o == head[Ret(s)] IN
    /\ pc[s] = "alloc"
    /\ head[Cache(s)] = max
    /\ heap # nil
    /\ \/ /\ o = max
          /\ pc' = [pc EXCEPT ![s] = "cut"]
          /\ UNCHANGED <<head, cur, blockVars, nsent>>
       \/ /\ o # max
          /\ Obtain(s, o, size[o])
          /\ head' = [head EXCEPT ![Ret(s)] = max, ![Cache(s)] = next[o]]
    /\ UNCHANGED <<heap, next, req, tries, off, recvVars, logVars>>

\* A heap offset was read: does the block fit below the segment's end?
CheckFit(s) ==
    /\ off' = [off EXCEPT ![s] = heap]
    /\ \/ /\ heap + Stride[req[s].bin] > End
          /\ FallBack(s)
       \/ /\ heap + Stride[req[s].bin] <= End
          /\ pc' = [pc EXCEPT ![s] = "casheap"]
          /\ UNCHANGED <<nsent, net, req>>

CutRead(s) ==
    /\ pc[s] = "cut"
    /\ CheckFit(s)
    /\ UNCHANGED <<segVars, blockVars, cur, tries, recvVars, posted, arrived>>

\* (mutant) A store where the compare-and-swap is.
CutSwapBlind(s) ==
    /\ pc[s] = "casheap"
    /\ heap' = off[s] + Stride[req[s].bin]
    /\ Obtain(s, off[s], req[s].bin)
    /\ UNCHANGED <<head, next, req, tries, off, recvVars, logVars>>

CutSwap(s) ==
    /\ pc[s] = "casheap"
    /\ heap = off[s]
    /\ heap' = off[s] + Stride[req[s].bin]
    /\ Obtain(s, off[s], req[s].bin)
    /\ UNCHANGED <<head, next, req, tries, off, recvVars, logVars>>

\* (mutant) The new offset is not checked against the segment's end.
CutRetryUnchecked(s) ==
    /\ pc[s] = "casheap"
    /\ heap # off[s]
    /\ off' = [off EXCEPT ![s] = heap]
    /\ UNCHANGED <<segVars, blockVars, pc, cur, req, tries, nsent, recvVars, logVars>>

CutRetry(s) ==
    /\ pc[s] = "casheap"
    /\ heap # off[s]
    /\ CheckFit(s)
    /\ UNCHANGED <<segVars, blockVars, cur, tries, recvVars, posted, arrived>>

-----------------------------------------------------------------------------
\* pushList_, for both its callers: CmiPushIpcBlock on the sender's side and
\* CmiFreeIpcBlock on the receiver's.

\* (mutant) A block is returned to some PE, not to the one that cut it.
TargetAnyone(t) ==
    IF t \in Sender THEN <<"rq", body[cur[t]].dest>>
    ELSE <<"ret", CHOOSE s \in Sender : TRUE, size[cur[t]]>>

Target(t) ==
    IF t \in Sender THEN <<"rq", body[cur[t]].dest>>
    ELSE <<"ret", owner[cur[t]], size[cur[t]]>>

PushLink(t) ==
    /\ pc[t] = "link"
    /\ next' = [next EXCEPT ![cur[t]] = head[Target(t)]]
    /\ pc' = [pc EXCEPT ![t] = "cas"]
    /\ UNCHANGED <<heap, head, blockVars, cur, sendVars, recvVars, logVars>>

\* The compare-and-swap: block->next still holds the head it expects.
PushSwap(t) ==
    /\ pc[t] = "cas"
    /\ head[Target(t)] = next[cur[t]]
    /\ head' = [head EXCEPT ![Target(t)] = cur[t]]
    /\ cur' = [cur EXCEPT ![t] = max]
    /\ pc' = [pc EXCEPT ![t] = "idle"]
    /\ IF t \in Sender
       THEN /\ req' = [req EXCEPT ![t] = NoRequest]
            /\ posted' = [posted EXCEPT
                            ![t][req[t].dest] = Append(@, body[cur[t]].seq)]
       ELSE UNCHANGED <<req, posted>>
    /\ UNCHANGED <<heap, next, blockVars, tries, off, nsent, recvVars,
                   net, arrived>>

PushRetry(t) ==
    /\ pc[t] = "cas"
    /\ head[Target(t)] # next[cur[t]]
    /\ next' = [next EXCEPT ![cur[t]] = head[Target(t)]]
    /\ UNCHANGED <<heap, head, blockVars, pc, cur, sendVars, recvVars, logVars>>

-----------------------------------------------------------------------------
\* Receiving: CmiDeliverIpcInbox, and CmiPopIpcBlock followed by
\* CmiDeliverIpcBlockMsg, which differ in how much of the inbox they empty.

\* takeList_'s exchange; the walk that follows touches only blocks it took.
TakeList(r, d, walking, empty) ==
    /\ cur' = [cur EXCEPT ![r] = head[<<"rq", d>>]]
    /\ head' = [head EXCEPT ![<<"rq", d>>] = max]
    /\ pc' = [pc EXCEPT ![r] = IF head[<<"rq", d>>] = max THEN empty ELSE walking]

\* The inbox is refilled only when empty.  metadataReady_ and ready guard it:
\* the owner polls only after its segment is initialized.
Poll(r) ==
    /\ pc[r] = "idle"
    /\ heap # nil
    /\ \/ /\ inbox[r] # <<>>
          /\ pc' = [pc EXCEPT ![r] = "deliver"]
          /\ UNCHANGED <<head, cur>>
       \/ /\ inbox[r] = <<>>
          /\ TakeList(r, r, "walk_rq", "node")
    /\ UNCHANGED <<heap, next, blockVars, sendVars, recvVars, logVars>>

TakeNode(r) ==
    /\ pc[r] = "node"
    /\ TakeList(r, Node, "walk_node",
                IF inbox[r] = <<>> THEN "idle" ELSE "deliver")
    /\ UNCHANGED <<heap, next, blockVars, sendVars, recvVars, logVars>>

\* One iteration of takeList_'s loop.
Walk(r) ==
    LET o == cur[r] IN
    /\ pc[r] \in Walking
    /\ inbox' = [inbox EXCEPT ![r] = Append(@, o)]
    /\ cur' = [cur EXCEPT ![r] = next[o]]
    /\ pc' = [pc EXCEPT ![r] = IF next[o] # max THEN @
                               ELSE IF @ = "walk_rq" THEN "node" ELSE "deliver"]
    /\ UNCHANGED <<segVars, blockVars, sendVars, live, logVars>>

\* (mutant) Pops the front: newest first.
DeliverFront(r) ==
    LET n == Len(inbox[r])
        o == inbox[r][1] IN
    /\ pc[r] = "deliver"
    /\ inbox' = [inbox EXCEPT ![r] = Tail(@)]
    /\ live' = live \cup {o}
    /\ arrived' = [arrived EXCEPT ![body[o].src][body[o].dest] = Append(@, body[o].seq)]
    /\ \/ /\ n > 1
          /\ pc' = pc
       \/ pc' = [pc EXCEPT ![r] = "idle"]
    /\ UNCHANGED <<segVars, blockVars, cur, sendVars, posted, net>>

\* Pops the back of the inbox and puts the message on a local queue.  The loop
\* of CmiDeliverIpcInbox goes on; CmiPopIpcBlock's caller has what it wanted.
Deliver(r) ==
    LET n == Len(inbox[r])
        o == inbox[r][n] IN
    /\ pc[r] = "deliver"
    /\ inbox' = [inbox EXCEPT ![r] = SubSeq(@, 1, n - 1)]
    /\ live' = live \cup {o}
    /\ arrived' = [arrived EXCEPT ![body[o].src][body[o].dest] = Append(@, body[o].seq)]
    /\ \/ /\ n > 1
          /\ pc' = pc
       \/ pc' = [pc EXCEPT ![r] = "idle"]
    /\ UNCHANGED <<segVars, blockVars, cur, sendVars, posted, net>>

\* CmiFree of a delivered message, by whichever PE of the process ends up with it.
Free(r, o) ==
    /\ pc[r] = "idle"
    /\ o \in live
    /\ live' = live \ {o}
    /\ cur' = [cur EXCEPT ![r] = o]
    /\ pc' = [pc EXCEPT ![r] = "link"]
    /\ UNCHANGED <<segVars, blockVars, sendVars, inbox, logVars>>

-----------------------------------------------------------------------------
AllocStep(s) ==
    \/ AllocCached(s)
    \/ AllocTimeout(s)
    \/ AllocRefill(s)
    \/ CutRead(s)
    \/ CutSwap(s)
    \/ CutRetry(s)

PushStep(t) == PushLink(t) \/ PushSwap(t) \/ PushRetry(t)
RecvStep(r) == Poll(r) \/ TakeNode(r) \/ Walk(r) \/ Deliver(r)
SendStart(s) == \E d \in Dest : SendNetwork(s, d) \/ \E b \in Bin : TrySend(s, d, b)
FreeStart(r) == \E o \in live : Free(r, o)
OwnerStep == InitLists \/ PublishHeap

Next ==
    \/ OwnerStep
    \/ \E s \in Sender : SendStart(s) \/ AllocStep(s)
    \/ \E t \in Thread : PushStep(t)
    \/ \E r \in Rank : RecvStep(r) \/ FreeStart(r)

Spec == Init /\ [][Next]_vars

\* Every PE keeps running the pool's code it is in, and every scheduler keeps
\* polling (CmiSchedulerPollIpc runs in every pass); starting a send and
\* freeing a message are up to the application.
Fairness ==
    /\ WF_vars(OwnerStep)
    /\ \A s \in Sender : WF_vars(AllocStep(s))
    /\ \A t \in Thread : WF_vars(PushStep(t))
    /\ \A r \in Rank : WF_vars(RecvStep(r))

FairSpec == Spec /\ Fairness

-----------------------------------------------------------------------------
\* Properties.

\* The block a PE holds outside any list: being filled or being pushed back.
InHand(t) == pc[t] \in Pushing

\* Blocks on a list: their next is a link.  In the others it is scratch.
Listed ==
    {o \in Cut : /\ o \notin live
                 /\ \A r \in Rank : \A i \in DOMAIN inbox[r] : inbox[r][i] # o
                 /\ \A t \in Thread : InHand(t) => cur[t] # o}

\* Everything through which a PE can reach a block, and the offset it holds.
Slot ==
    {<<"head", l, 0>> : l \in List}
    \cup {<<"cur", t, 0>> : t \in Thread}
    \cup {<<"next", o, 0>> : o \in Listed}
    \cup {<<"live", o, 0>> : o \in live}
    \cup UNION {{<<"inbox", r, i>> : i \in DOMAIN inbox[r]} : r \in Rank}

Content(p) ==
    CASE p[1] = "head" -> head[p[2]]
      [] p[1] = "cur" -> cur[p[2]]
      [] p[1] = "next" -> next[p[2]]
      [] p[1] = "live" -> p[2]
      [] p[1] = "inbox" -> inbox[p[2]][p[3]]

\* A block is reachable through one place at a time: one list head, one link,
\* one inbox entry, one PE's hand or one live message.  The compare-and-swap
\* pushes and whole-list exchanges of pushList_ and takeList_, with blocks
\* recycled between them, never let two PEs have the same block.
ExclusiveOwnership ==
    LET used == {p \in Slot : Content(p) \in Block}
    IN  \A p, q \in used : Content(p) = Content(q) => p = q

\* The blocks CmiAllocIpcBlock cuts never overlap and never pass the segment's
\* end, whatever senders race on the heap and whatever sizes they cut.
BlocksDisjoint ==
    \A o \in Cut :
        /\ o + Stride[size[o]] <= heap
        /\ heap <= End
        /\ \A q \in Cut : o < q => o + Stride[size[o]] <= q

\* A block stays with the PE that cut it and keeps its size for ever: freeing
\* always finds the list its allocating PE will look in for that size.
BlockKeepsOwner ==
    [][\A o \in Cut : owner'[o] = owner[o] /\ size'[o] = size[o]]_vars

\* S holds whatever a list head, a PE's hand, an inbox or a live message leads to.
HoldsReachable(S) ==
    /\ \A l \in List : head[l] \in Block => head[l] \in S
    /\ \A t \in Thread : cur[t] \in Block => cur[t] \in S
    /\ \A r \in Rank : \A i \in DOMAIN inbox[r] : inbox[r][i] \in S
    /\ live \subseteq S
    /\ \A o \in S \cap Listed : next[o] \in Block => next[o] \in S

\* No block leaks: every block cut can be reached from a list head, a PE's
\* hand, an inbox or a live message, so a set without it does not hold
\* everything that can be.
NoLeak == \A o \in Cut : \A S \in SUBSET (Block \ {o}) : ~ HoldsReachable(S)

\* The routes of the n-th message of s: pushed into the pool, handed to the
\* network, or still being tried.
Pooled(s, n) == \E d \in Dest : \E i \in DOMAIN posted[s][d] : posted[s][d][i] = n
Networked(s, n) == \E m \in net : m.src = s /\ m.seq = n
Trying(s, n) == pc[s] # "idle" /\ n = nsent[s]

\* A message takes one of these routes and never two of them, through every
\* timeout, full segment and retry of CmiIpcTrySendAndFree.
OneRoute ==
    \A s \in Sender : \A n \in 1 .. nsent[s] :
        /\ Pooled(s, n) \/ Networked(s, n) \/ Trying(s, n)
        /\ ~ (Pooled(s, n) /\ Networked(s, n))
        /\ ~ (Trying(s, n) /\ (Pooled(s, n) \/ Networked(s, n)))

\* Neither a block nor a message is lost: NoLeak and OneRoute.
NothingLost == NoLeak /\ OneRoute

Channel == INSTANCE IpcChannel WITH
    Msg <- 1 .. MaxSend,
    sent <- posted,
    received <- arrived

\* The pool implements the channel of IpcChannel: nothing pushed is lost,
\* delivered twice or overtaken by a later message of the same sender to the
\* same PE, and everything pushed is delivered.
ImplementsChannel == Channel!Spec
=============================================================================
