-------------------------------- MODULE Rdma --------------------------------
(***************************************************************************)
(* The zero-copy Direct API (conv-rdma.cpp, cmirdmautils.cpp): one get,    *)
(* put or migration get between two buffers, over memory regions of the    *)
(* backend or, where it has none, by messages.  The side that starts it    *)
(* and its peer run in two processes or in one; what they agree on is in   *)
(* the NcpyOperationInfo that travels with every message.  Operators on    *)
(* the state x of the transfer are composed as the code calls them.        *)
(***************************************************************************)
EXTENDS Integers

VARIABLE x

Side == {"src", "dest"}
Other(s) == IF s = "src" THEN "dest" ELSE "src"

\* What may be asked for.  The side that starts a transfer has a registered buffer or
\* one to be registered for it, its peer any; a buffer is deregistered after the
\* transfer or kept.  copyBased: CmiUseCopyBasedRDMA; pool: the processes share an
\* IPC pool.
Request ==
    {c \in [kind : {"get", "put", "zcpup"}, remote : BOOLEAN, copyBased : BOOLEAN, pool : BOOLEAN,
            starter : {"REG", "UNREG"}, peer : {"REG", "UNREG", "NOREG"},
            dereg : [Side -> BOOLEAN]] :
        /\ c.kind = "zcpup" => c.remote /\ c.peer = "REG" /\ c.starter = "REG"
                               /\ c.dereg = [s \in Side |-> TRUE]
        /\ ~ c.remote => ~ c.pool /\ (c.kind = "put" => ~ c.dereg["dest"])}

Starter(c) == IF c.kind = "put" THEN "src" ELSE "dest"

\* CmiNcpyBuffer::init, registerMem on either side.
Registers(c, s) == (IF s = Starter(c) THEN c.starter ELSE c.peer) = "REG"

Init ==
    \E c \in Request :
        x = [conf |-> c, started |-> FALSE,
             reg |-> [s \in Side |-> IF Registers(c, s) /\ ~ c.copyBased THEN 1 ELSE 0],
             infos |-> 0,        \* NcpyOperationInfos allocated on their own
             msgs |-> {}, rma |-> {},
             data |-> "no",      \* "wire": put, not at the destination yet; "there"
             read |-> FALSE,     \* the source was read
             acks |-> 0, called |-> [s \in Side |-> 0],
             netOnly |-> FALSE]  \* CmiIpcBeginNetworkOnly

-----------------------------------------------------------------------------
\* Messages, and the backend.

\* CmiSyncSendAndFree: a peer of the pool gets it there, unless in a network-only scope.
Send(y, handler, to, info) ==
    [y EXCEPT !.msgs = @ \cup {[h |-> handler, to |-> to, info |-> info,
                               path |-> IF y.conf.pool /\ ~ y.netOnly THEN "pool" ELSE "net"]}]

\* CmiSetRdmaBufferInfo, CmiDeregisterMem: nothing when transfers are copied.
Register(y, s) == IF y.conf.copyBased THEN y ELSE [y EXCEPT !.reg[s] = @ + 1]
Deregister(y, s) == IF y.conf.copyBased THEN y ELSE [y EXCEPT !.reg[s] = @ - 1]

FreeInfo(y, info) == IF info.free THEN [y EXCEPT !.infos = @ - 1] ELSE y
Callback(y, s) == [y EXCEPT !.called[s] = @ + 1]

\* remoteDeregHandler's NcpyOperationInfo.
RemoteDeregInfo(s, info) ==
    [info EXCEPT !.free = FALSE, !.registered[s] = FALSE, !.ack = s, !.op = "invoke"]

\* CmiInvokeRemoteDeregAckHandler.
InvokeRemoteDereg(y, s, info) == FreeInfo(Send(y, "dereg", s, info), info)

\* ncpyDirectAckHandlerFn, the program's handler, running on side s: its own buffer
\* is deregistered if that was asked for and its callback runs; the other side is
\* told, by the deregistration request where its buffer is to be deregistered.
AckHandler(y, s, info) ==
    LET own == Callback(IF info.registered[s] /\ y.conf.dereg[s] THEN Deregister(y, s) ELSE y, s)
        acked == [own EXCEPT !.acks = @ + 1]
    IN  IF info.op = "invoke" THEN Callback(y, s)
        ELSE IF info.op = "zcpup" THEN Send(acked, "zcpup", "src", info)
        ELSE IF info.registered[Other(s)] /\ y.conf.dereg[Other(s)]
             THEN InvokeRemoteDereg(acked, Other(s), info)
        ELSE Send(acked, "callback", Other(s), info)

\* (mutant) The acknowledgement is not kept behind the put.
OrderBehindPutNever(y, isPut) == FALSE

OrderBehindPut(y, isPut) == isPut /\ y.conf.pool

\* CommRputLocalHandler, CommRgetLocalHandler: the info is freed after the handler.
LocalHandler(y, s, info, isPut) ==
    LET scoped == [y EXCEPT !.netOnly = OrderBehindPut(y, isPut)]
        acked == AckHandler(scoped, s, [info EXCEPT !.free = FALSE])
    IN  FreeInfo([acked EXCEPT !.netOnly = FALSE], info)

\* rdmaIssueGet, rdmaIssuePut.
IssueGet(y, s, info) == [y EXCEPT !.rma = @ \cup {[op |-> "get", by |-> s, info |-> info]}]
IssuePut(y, s, info) ==
    [y EXCEPT !.rma = @ \cup {[op |-> "put", by |-> s, info |-> info]}, !.data = "wire"]

\* sendRegRequest.
SendRegRequest(y, owner, handler, info) == Send(FreeInfo(y, info), handler, owner, info)

\* (mutant) The acknowledgement of a put is always the source's.
CopyPutAckFixed(info) == "both"

\* CmiIssueRputCopyBased: who is acknowledged.
CopyPutAck(info) == IF info.ack # "dest" THEN "both" ELSE "dest"
IssueRputCopyBased(y, info) ==
    Send([FreeInfo(y, info) EXCEPT !.read = TRUE], "putData", "dest",
         [info EXCEPT !.ack = CopyPutAck(info)])

\* CmiIssueRgetCopyBased.
IssueRgetCopyBased(y, info) == FreeInfo(Send(y, "getRequest", "src", info), info)

\* CmiIssueRget, CmiIssueRput.
Copied(y) == [y EXCEPT !.data = "there", !.read = TRUE]
CmiIssueRget(y, info) ==
    IF ~ y.conf.remote THEN LocalHandler(Copied(y), "dest", info, FALSE)
    ELSE IF y.conf.copyBased THEN IssueRgetCopyBased(y, info)
    ELSE IF info.registered["src"] THEN IssueGet(y, "dest", info)
    ELSE SendRegRequest(y, "src", "regAndPut", info)
CmiIssueRput(y, info) ==
    IF ~ y.conf.remote THEN LocalHandler(Copied(y), "src", info, TRUE)
    ELSE IF y.conf.copyBased THEN IssueRputCopyBased(y, info)
    ELSE IF info.registered["dest"] THEN IssuePut(y, "src", info)
    ELSE SendRegRequest(y, "dest", "regAndGet", info)

-----------------------------------------------------------------------------
\* CmiNcpyBuffer::createNcpyOpInfo, setNcpyOpInfo.
OpInfo(c) ==
    [op |-> IF c.kind = "zcpup" THEN "zcpup" ELSE "direct", ack |-> "both", free |-> TRUE,
     registered |-> [s \in Side |-> s = Starter(c) \/ Registers(c, s)]]

\* CmiNcpyBuffer::rdmaGet, rdmaPut; zcPupGet, whose get the migration issues.
Start ==
    /\ ~ x.started
    /\ LET c == x.conf
           y == IF c.starter = "UNREG" THEN Register(x, Starter(c)) ELSE x
           z == [y EXCEPT !.started = TRUE, !.infos = 1]
       IN  x' = IF c.kind = "put" THEN CmiIssueRput(z, OpInfo(c)) ELSE CmiIssueRget(z, OpInfo(c))

\* A message m is taken; the network delivers it after the bytes put before it.
Deliverable(m) == m.path = "pool" \/ x.data # "wire"
Receive(m) == [x EXCEPT !.msgs = @ \ {m}]

remoteDeregHandler(m) ==
    /\ m.h = "dereg"
    /\ x' = AckHandler(Deregister(Receive(m), m.to), m.to, RemoteDeregInfo(m.to, m.info))

\* The peer's callback, sent by the program.
runCallback(m) == m.h = "callback" /\ x' = Callback(Receive(m), m.to)

\* zcPupDone: the source buffer goes.
zcPupHandler(m) == m.h = "zcpup" /\ x' = Callback(Deregister(Receive(m), "src"), "src")

getRequestHandler(m) ==
    /\ m.h = "getRequest"
    /\ x' = CmiIssueRput(Receive(m), [m.info EXCEPT !.free = FALSE, !.ack = "dest"])

putDataHandler(m) ==
    /\ m.h = "putData"
    /\ LET y == [Receive(m) EXCEPT !.data = "there"]
           i == [m.info EXCEPT !.free = FALSE, !.ack = "both"]
       IN  x' = IF m.info.ack = "dest" THEN AckHandler(y, "dest", i) ELSE Send(y, "putDone", "src", i)

putDoneHandler(m) ==
    /\ m.h = "putDone"
    /\ x' = AckHandler(Receive(m), "src", [m.info EXCEPT !.free = FALSE, !.ack = "both"])

\* takeRegRequest.
TakeRegRequest(m) == [Receive(m) EXCEPT !.infos = @ + 1]
RegInfo(m, s) == [m.info EXCEPT !.free = TRUE, !.registered[s] = TRUE]

regAndPutHandler(m) ==
    /\ m.h = "regAndPut"
    /\ x' = IssuePut(Register(TakeRegRequest(m), "src"), "src", RegInfo(m, "src"))
regAndGetHandler(m) ==
    /\ m.h = "regAndGet"
    /\ x' = IssueGet(Register(TakeRegRequest(m), "dest"), "dest", RegInfo(m, "dest"))

\* The backend completes an operation on the side that issued it.
Complete(r) ==
    /\ x' = LET y == [x EXCEPT !.rma = @ \ {r}, !.read = TRUE,
                               !.data = IF r.op = "get" THEN "there" ELSE @]
            IN  LocalHandler(y, r.by, r.info, r.op = "put")

\* The bytes of a put reach the destination, before or after it completes.
Land == x.data = "wire" /\ x' = [x EXCEPT !.data = "there"]

Handle ==
    \E m \in x.msgs :
        /\ Deliverable(m)
        /\ \/ remoteDeregHandler(m) \/ runCallback(m) \/ zcPupHandler(m) \/ getRequestHandler(m)
           \/ putDataHandler(m) \/ putDoneHandler(m) \/ regAndPutHandler(m) \/ regAndGetHandler(m)

Next == Start \/ Handle \/ Land \/ \E r \in x.rma : Complete(r)

Spec == Init /\ [][Next]_x

-----------------------------------------------------------------------------
\* The source's callback runs only once its buffer was read, and the destination's
\* only once the data is there, whichever way and in whichever order data and
\* acknowledgements travel.
AckAfterData ==
    /\ x.called["src"] > 0 => x.read
    /\ x.called["dest"] > 0 => x.data = "there"

\* A buffer is deregistered only where it was registered, and never while the
\* backend still reads or writes it; no NcpyOperationInfo is freed twice or while
\* an operation of the backend holds it.
RegionsHold ==
    /\ \A s \in Side : x.reg[s] >= 0
    /\ x.infos >= 0
    /\ x.rma # {} => x.infos = 1 /\ x.reg["src"] > 0 /\ x.reg["dest"] > 0
    /\ x.data = "wire" => x.reg["dest"] > 0

\* The transfer ended with one acknowledgement and one callback on each side, every
\* NcpyOperationInfo freed, and just the regions registered that are to be kept.
Completed ==
    /\ x.started /\ x.msgs = {} /\ x.rma = {} /\ x.data = "there"
    /\ x.acks = 1 /\ x.called = [s \in Side |-> 1] /\ x.infos = 0
    /\ \A s \in Side : x.conf.dereg[s] => x.reg[s] = 0
=============================================================================
