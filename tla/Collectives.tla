----------------------------- MODULE Collectives -----------------------------
(***************************************************************************)
(* Reductions, broadcasts and list sends (collectives.cpp), used together  *)
(* the way programs use them: every PE contributes to one reduction after  *)
(* another, the destination handler at the root sends the result to all    *)
(* who contributed (to all PEs by CmiSyncBroadcastAll, to a list of PEs by *)
(* CmiSyncListSend), and a PE has at most Window reductions unfinished:    *)
(* it starts one only when it has heard the result of the one Window       *)
(* before.  Messages arrive in any order.                                  *)
(*                                                                         *)
(* A process's node reductions (CmiNodeReduce) are the same algorithm on   *)
(* nodes in place of PEs, with a lock for each slot of the table that is   *)
(* held through every operation on the slot, the destination handler       *)
(* included.  A member is a PE, or a node where kind is "node".            *)
(***************************************************************************)
EXTENDS SpanTree, Sequences

CONSTANTS
    N,                          \* members
    NodeSize,                   \* PEs of a node
    CST_W,                      \* arity of the spanning tree
    CmiReductionsNumChildren,   \* arity of a list's tree
    CmiMaxReductions,           \* slots of the table
    Multiplier,                 \* CmiReductionID_multiplier
    IdRange,                    \* ids wrap to 0 here
    Window,                     \* reductions of a kind in flight
    List,                       \* PEs of the list reductions
    MaxReduce, MaxListReduce    \* bounds on the calls of each member

ASSUME CollectivesAssumption ==
    /\ {N, NodeSize, CST_W, CmiReductionsNumChildren, CmiMaxReductions,
        Multiplier, IdRange, Window} \subseteq Nat \ {0}
    /\ N % NodeSize = 0
    /\ CmiMaxReductions % Multiplier = 0 /\ IdRange % CmiMaxReductions = 0
    /\ Window <= CmiMaxReductions \div Multiplier
    /\ {MaxReduce, MaxListReduce} \subseteq Nat
    /\ List \in Seq(0 .. N - 1) /\ List # <<>>

VARIABLES
    kind,      \* "pe" or "node"
    counter,   \* the next id of each counter, at each member
    table,     \* _reduction_info, _node_reduction_info
    net,       \* messages on their way
    aborted,   \* CmiAbort was called
    calls,     \* history: reductions each member has started
    results,   \* history: what the destination handler was called with
    heard      \* history: how often each member was told each result

vars == <<kind, counter, table, net, aborted, calls, results, heard>>

Member == 0 .. N - 1
Slot == 0 .. CmiMaxReductions - 1
Counter == {"global", "request"}
MaxOf == [global |-> MaxReduce, request |-> MaxListReduce]

\* Reductions by counter and number; a contribution is that of one member.
Reduction == UNION {{c} \X (0 .. MaxOf[c] - 1) : c \in Counter}
Contribution == Member \X Reduction

\* Node reductions have one counter, which steps by one.
nodeSize == IF kind = "pe" THEN NodeSize ELSE 1
numNodes == N \div nodeSize
Step == IF kind = "pe" THEN Multiplier ELSE 1
Offset == [global |-> 0, request |-> 1]

ListPes == {List[i] : i \in DOMAIN List}
MyPos(m) == (CHOOSE i \in DOMAIN List : List[i] = m) - 1
Contributors(c) == IF c = "global" THEN Member ELSE ListPes

Free == [id |-> -1, numChildren |-> 0, parent |-> -1, messagesReceived |-> 0,
         slots |-> 0, localContributed |-> FALSE, data |-> {}]

TypeOK ==
    /\ kind \in {"pe", "node"}
    /\ counter \in [Member -> [Counter -> 0 .. IdRange - 1]]
    /\ \A m \in Member, s \in Slot :
        LET red == table[m][s]
        IN  red # Free =>
            /\ red.id \in 0 .. IdRange - 1 /\ red.id % CmiMaxReductions = s
            /\ red.parent \in Member \cup {-1}
            /\ red.numChildren \in 0 .. N - 1
            /\ red.data \subseteq Contribution
    /\ \A msg \in net : msg.to \in Member
    /\ aborted \in BOOLEAN
    /\ calls \in [Member -> [Counter -> Nat]]
    /\ \A data \in results : data \subseteq Contribution
    /\ heard \in [Member -> [Reduction -> Nat]]

Init ==
    /\ kind \in {"pe", "node"}
    /\ counter = [m \in Member |-> [c \in Counter |-> IF kind = "pe" THEN Offset[c] ELSE 0]]
    /\ table = [m \in Member |-> [s \in Slot |-> Free]]
    /\ net = {} /\ aborted = FALSE
    /\ calls = [m \in Member |-> [c \in Counter |-> 0]]
    /\ results = {}
    /\ heard = [m \in Member |-> [r \in Reduction |-> 0]]

-----------------------------------------------------------------------------
\* Broadcasts and list sends.

FirstPe(node) == node * nodeSize
NodeOf(m) == m \div nodeSize
Peers(m) == {q \in Member : NodeOf(q) = NodeOf(m)} \ {m}

Told(m, from, r) == [type |-> "result", to |-> m, from |-> from, result |-> r]

\* CmiBcastForward and CmiBcastSendToPeers, or CmiNodeBcastForward, at m.
BcastForward(m, root, r) ==
    {[type |-> "bcast", to |-> FirstPe(n), from |-> m, root |-> root, result |-> r] :
        n \in ForwardToNodes(CST_W, numNodes, root, NodeOf(m))}
    \cup {Told(q, m, r) : q \in Peers(m)}

\* CmiSyncBroadcastAll: the sender's own copy is queued.
SyncBroadcastAll(m, r) == {Told(m, m, r)} \cup BcastForward(m, NodeOf(m), r)

\* CmiSyncListSend: one message for each other process, which names the ranks if
\* there are several; a message for each PE of the own process.
SyncListSend(m, r) ==
    LET On(n) == SelectSeq(List, LAMBDA q : NodeOf(q) = n)
        Direct == {q \in ListPes : NodeOf(q) = NodeOf(m) \/ Len(On(NodeOf(q))) = 1}
    IN  {Told(q, m, r) : q \in Direct}
        \cup {[type |-> "fanout", to |-> On(n)[1], from |-> m, pes |-> On(n), result |-> r] :
                n \in {NodeOf(q) : q \in ListPes \ Direct}}

\* The user's handler: the result is heard.
Hear(m, r) == heard' = [heard EXCEPT ![m][r] = @ + 1]

\* A queued result is handled.
ResultHandler(msg) ==
    /\ msg.type = "result"
    /\ Hear(msg.to, msg.result)
    /\ net' = net \ {msg}
    /\ UNCHANGED <<kind, counter, table, aborted, calls, results>>

\* CmiBcastHandler, CmiNodeBcastHandler: forward, then deliver.
BcastHandler(msg) ==
    /\ msg.type = "bcast"
    /\ net' = (net \ {msg}) \cup BcastForward(msg.to, msg.root, msg.result)
    /\ Hear(msg.to, msg.result)
    /\ UNCHANGED <<kind, counter, table, aborted, calls, results>>

\* (mutant) The received buffer is not handed to the first rank.
FanoutHandlerOthers(msg) ==
    /\ msg.type = "fanout"
    /\ net' = (net \ {msg}) \cup {Told(msg.pes[i], msg.to, msg.result) : i \in DOMAIN msg.pes \ {1}}
    /\ UNCHANGED <<kind, counter, table, aborted, calls, results, heard>>

\* CmiFanoutHandler: push the message to every rank it names.
FanoutHandler(msg) ==
    /\ msg.type = "fanout"
    /\ net' = (net \ {msg}) \cup {Told(msg.pes[i], msg.to, msg.result) : i \in DOMAIN msg.pes}
    /\ UNCHANGED <<kind, counter, table, aborted, calls, results, heard>>

-----------------------------------------------------------------------------
\* Reductions.

Index(id) == id % CmiMaxReductions

\* CmiCheckReductionSlot stops the program.
Conflict(m, id) == table[m][Index(id)].id \notin {-1, id}

Larger(a, b) == IF a > b THEN a ELSE b

\* CmiGetCreateNodeReduction: a record with the spanning tree's shape.
NewNodeReduction(m, id) ==
    LET children == NumSpanTreeChildren(CST_W, numNodes, nodeSize, m)
    IN  [Free EXCEPT !.id = id, !.numChildren = children, !.slots = children,
                     !.parent = SpanTreeParent(CST_W, nodeSize, m)]

\* (mutant) Room only for the children in the spanning tree.
NewPeReductionTight(m, id) == NewNodeReduction(m, id)

\* CmiGetCreateReduction: there is room for the children of a list's tree too.
NewPeReduction(m, id) ==
    LET red == NewNodeReduction(m, id)
    IN  [red EXCEPT !.slots = Larger(@, CmiReductionsNumChildren)]

\* CmiGetCreateReduction, CmiGetCreateNodeReduction.
GetCreateReduction(m, id) ==
    IF table[m][Index(id)] # Free THEN table[m][Index(id)]
    ELSE IF kind = "pe" THEN NewPeReduction(m, id) ELSE NewNodeReduction(m, id)

\* The destination handler sends the result to the contributors.
DestHandler(m, data) ==
    LET r == (CHOOSE d \in data : d[1] = m)[2]
    IN  IF r[1] = "global" THEN SyncBroadcastAll(m, r) ELSE SyncListSend(m, r)

Complete(red) == red.localContributed /\ red.numChildren = red.messagesReceived

\* CmiSendReduce, CmiSendNodeReduce, with the record red and the other messages
\* rest: once everything is there, merge, send the result up or hand it to the
\* destination handler, and clear the slot.
SendReduce(m, red, rest) ==
    \/ /\ ~ Complete(red)
       /\ table' = [table EXCEPT ![m][Index(red.id)] = red]
       /\ net' = rest
       /\ UNCHANGED results
    \/ /\ Complete(red)
       /\ table' = [table EXCEPT ![m][Index(red.id)] = Free]
       /\ \/ /\ red.parent # -1
             /\ net' = rest \cup {[type |-> "reduce", to |-> red.parent, id |-> red.id,
                                   data |-> red.data]}
             /\ UNCHANGED results
          \/ /\ red.parent = -1
             /\ net' = rest \cup DestHandler(m, red.data)
             /\ results' = results \cup {red.data}

\* CmiAbort, or go on with the step given.
Unless(stops, step) ==
    /\ aborted' = stops
    /\ IF stops THEN UNCHANGED <<table, net, results>> ELSE step

\* The member's program may start its next reduction of counter c.
MayStart(m, c) ==
    /\ calls[m][c] < MaxOf[c]
    /\ \A k \in 0 .. calls[m][c] - Window : heard[m][<<c, k>>] > 0

\* getNextID.
GetNextID(m, c) ==
    /\ calls' = [calls EXCEPT ![m][c] = @ + 1]
    /\ counter' = [counter EXCEPT ![m][c] = (@ + Step) % IdRange]

\* CmiInternalReduce: m's own contribution to its next reduction of counter c.
Contribute(m, c, red) ==
    SendReduce(m, [red EXCEPT !.localContributed = TRUE,
                              !.data = @ \cup {<<m, <<c, calls[m][c]>>>>}], net)

\* CmiReduce.
Reduce(m) ==
    /\ kind = "pe"
    /\ MayStart(m, "global")
    /\ GetNextID(m, "global")
    /\ LET id == counter[m]["global"]
       IN  Unless(Conflict(m, id), Contribute(m, "global", GetCreateReduction(m, id)))
    /\ UNCHANGED <<kind, heard>>

\* CmiNodeReduce: the counter is atomic, and the slot's lock makes the rest of it
\* one step.
NodeReduce(m) ==
    /\ kind = "node"
    /\ MayStart(m, "global")
    /\ GetNextID(m, "global")
    /\ LET id == counter[m]["global"]
       IN  Unless(Conflict(m, id), Contribute(m, "global", GetCreateReduction(m, id)))
    /\ UNCHANGED <<kind, heard>>

\* The list's tree.
ListShape(m, red) ==
    LET parent == ListParent(CmiReductionsNumChildren, MyPos(m))
    IN  [red EXCEPT
            !.numChildren = ListChildren(CmiReductionsNumChildren, Len(List), MyPos(m)),
            !.parent = IF parent = -1 THEN -1 ELSE List[parent + 1]]

\* CmiListReduce with an id from CmiGetGlobalReduction, which every PE calls and
\* those not in the list do not use.
ListReduce(m) ==
    /\ kind = "pe" /\ m \in ListPes
    /\ MayStart(m, "request")
    /\ GetNextID(m, "request")
    /\ LET id == counter[m]["request"]
       IN  Unless(Conflict(m, id),
                  Contribute(m, "request", ListShape(m, GetCreateReduction(m, id))))
    /\ UNCHANGED <<kind, heard>>

\* A record takes what a child sent.
Merged(red, msg) ==
    [red EXCEPT !.messagesReceived = @ + 1, !.data = @ \cup msg.data]

\* CmiReduceHandler.
ReduceHandler(msg) ==
    /\ kind = "pe" /\ msg.type = "reduce"
    /\ LET m == msg.to
           red == GetCreateReduction(m, msg.id)
       IN  Unless(Conflict(m, msg.id), SendReduce(m, Merged(red, msg), net \ {msg}))
    /\ UNCHANGED <<kind, counter, calls, heard>>

\* CmiNodeReduceHandler, which stops the program if it gets more contributions
\* than the node has children.
NodeReduceHandler(msg) ==
    /\ kind = "node" /\ msg.type = "reduce"
    /\ LET m == msg.to
           red == GetCreateReduction(m, msg.id)
       IN  Unless(Conflict(m, msg.id) \/ red.messagesReceived >= red.numChildren,
                  SendReduce(m, Merged(red, msg), net \ {msg}))
    /\ UNCHANGED <<kind, counter, calls, heard>>

-----------------------------------------------------------------------------
Handler(msg) ==
    \/ ResultHandler(msg) \/ BcastHandler(msg) \/ FanoutHandler(msg)
    \/ ReduceHandler(msg) \/ NodeReduceHandler(msg)

Next ==
    /\ ~ aborted
    /\ \/ \E m \in Member : Reduce(m) \/ NodeReduce(m) \/ ListReduce(m)
       \/ \E msg \in net : Handler(msg)

Spec == Init /\ [][Next]_vars

\* Every member goes on calling, and every message is delivered.
FairSpec == Spec /\ WF_vars(Next)

-----------------------------------------------------------------------------
\* The ring of slots is large enough for the documented number of reductions in
\* flight: no contribution, early, late or after a wrap of the ids, finds its
\* slot held by another reduction, no node gets more than it has children, and
\* the children's messages fit the array that was allocated for them, also when
\* they come before CmiListReduce has told the PE the list's tree.
SlotsHold ==
    /\ ~ aborted
    /\ \A m \in Member, s \in Slot : table[m][s].messagesReceived <= table[m][s].slots

\* The destination handler gets exactly one reduction's contributions, each
\* contributor's among them: none is missing and reductions are never mixed.
WholeResults ==
    \A data \in results : \E r \in Reduction : data = Contributors(r[1]) \X {r}

\* A broadcast or list send reaches no PE twice.
HeardOnce == \A m \in Member, r \in Reduction : heard[m][r] <= 1

\* Before any collective is called: the trees that reductions and broadcasts will
\* use are spanning trees, on every machine of up to 11 nodes of up to 7 PEs.
TreesSpan ==
    (\A m \in Member, c \in Counter : calls[m][c] = 0) =>
        /\ ReduceTreeSpans(1 .. 4, 1 .. 11, IF kind = "pe" THEN 1 .. 7 ELSE {1})
        /\ BcastTreeSpans(1 .. 4, 1 .. 11)

\* SlotsHold, WholeResults, HeardOnce and TreesSpan: reductions do not meet in a slot,
\* and what a collective hands over is whole, and handed over once, along trees that
\* span whatever the machine.
ResultsAreWhole == SlotsHold /\ WholeResults /\ HeardOnce /\ TreesSpan

\* Every reduction completes, and everyone who contributed is told its result.
EveryResultHeard ==
    []<>(\A r \in Reduction : \A m \in Contributors(r[1]) :
        kind = "pe" \/ r[1] = "global" => heard[m][r] = 1)
==============================================================================
