---------------------------- MODULE MCMessaging -----------------------------
(***************************************************************************)
(* What carries messages and must not lose them (a PE's queue, zero-copy   *)
(* transfers, the backend below them, the client-server interface), and    *)
(* the threads that wait for them, each on an instance of its own.  part   *)
(* tells which one a behaviour is about, and the others stay as they were  *)
(* made.                                                                   *)
(***************************************************************************)
EXTENDS AtomicQueue

CONSTANTS Client, NumPes, Requests, MaxConn
CONSTANTS NumThreads, NumDevices, Room, backend_poll_thread, Ops, Owner, Kept
CONSTANTS Main, Standin, Thread, Future, NULL, MaxCalls, MaxCtv

VARIABLES
  part,
  transfer,
  backend,
  server,
  pe, sets, calls

threadVars == <<pe, sets, calls>>
messaging == <<part, vars, transfer, backend, server, threadVars>>

ZeroCopy == INSTANCE Rdma WITH x <- transfer
Lci == INSTANCE Backend WITH b <- backend
Clients == INSTANCE Ccs WITH x <- server
Cth == INSTANCE Threads

\* Constants: seven PEs, so that a list of six has a tree of two levels below its
\* first PE; a request of each kind, and one of each kind that is refused.
Ask(to, list, h) == [pe |-> to, list |-> list, h |-> h]
MCRequests == {Ask(0, <<>>, "now"), Ask(2, <<>>, "?"), Ask(2, <<>>, "late"),
               Ask(-1, <<>>, "now"), Ask(-1, <<>>, "solo"),
               Ask(-6, <<3, 1, 2, 5, 6, 4>>, "now"), Ask(-2, <<4, 2>>, "late"),
               Ask(-2, <<1, 1>>, "now"), Ask(-7, <<0, 1, 2, 3, 4, 5, 6>>, "now")}

\* Three PEs on two devices: two gets into one buffer on the device of PEs 0 and 1,
\* which PE 2 does not poll, beside a send of PE 0, and an acknowledgement that one
\* get's completion handler sends.  The program never deregisters y.
Operation(by, after, op, dev, mr) ==
  [by |-> by, after |-> after, kind |-> op, dev |-> dev, mr |-> mr]
MCOps == [send |-> Operation(0, "none", "am", 0, "pool"), get1 |-> Operation(1, "none", "rma", 0, "x"),
          get2 |-> Operation(2, "none", "rma", 0, "x"), ack |-> Operation(3, "get1", "am", 0, "null")]
MCOwner == [x |-> 2, y |-> 0]

MessagingInit ==
  /\ part \in {"queue", "transfer", "backend", "server", "threads"}
  /\ Init /\ (part # "queue" => kind = "thread")
  /\ ZeroCopy!Init /\ (part # "transfer" => transfer.conf = CHOOSE c \in ZeroCopy!Request : TRUE)
  /\ Lci!Init
  /\ Clients!Init /\ (part # "server" => server.auth)
  /\ Cth!Init

MessagingNext ==
  /\ UNCHANGED part
  /\ \/ part = "queue" /\ Next /\ UNCHANGED <<transfer, backend, server, threadVars>>
     \/ part = "transfer" /\ ZeroCopy!Next /\ UNCHANGED <<vars, backend, server, threadVars>>
     \/ part = "backend" /\ Lci!Next /\ UNCHANGED <<vars, transfer, server, threadVars>>
     \/ part = "server" /\ Clients!Next /\ UNCHANGED <<vars, transfer, backend, threadVars>>
     \/ part = "threads" /\ Cth!Next /\ UNCHANGED <<vars, transfer, backend, server>>

\* A push that started ends and every scheduler keeps polling its queue; messages
\* and completions are handled; calls into the backend go on, a device's first thread
\* polls it and the network completes what was posted; the server is polled and its handlers answer; the
\* scheduler handles what is queued and code comes to its end.
MessagingSpec ==
  /\ MessagingInit /\ [][MessagingNext]_messaging
  /\ \A p \in Producer : WF_vars(part = "queue" /\ CountPush(p) /\ UNCHANGED kind)
  /\ \A c \in Consumer : WF_vars(part = "queue" /\ MayPop(c) /\ Pop(c) /\ UNCHANGED kind)
  /\ WF_transfer(part = "transfer" /\ ZeroCopy!Next)
  /\ \A t \in Lci!ThreadId :
       /\ WF_backend(part = "backend" /\ Lci!Step(t))
       /\ Lci!threadMustPoll(t) => WF_backend(part = "backend" /\ Lci!StartPoll(t))
  /\ \A d \in Lci!Device : WF_backend(part = "backend" /\ Lci!Complete(d))
  /\ WF_server(part = "server" /\ Clients!Served)
  /\ WF_threadVars(part = "threads" /\ Cth!RunToken)
  /\ WF_threadVars(part = "threads" /\ Cth!Finish)
  /\ WF_threadVars(part = "threads" /\ Cth!WaitReturns)
  /\ \A f \in Future : WF_threadVars(part = "threads" /\ Cth!CfutureStore(f))

-----------------------------------------------------------------------------
\* A message pushed on a PE's queue is not stranded behind a count that reads zero
\* (queue.h): the consumers, as they poll, take everything there is.
QueueDrains == []<>(part = "queue" => q = {})

\* conv-rdma.cpp: each side is called back only after its data was read or has
\* landed, and the regions and the operation's record last as long as they are used.
AckAfterData == part = "transfer" => ZeroCopy!AckAfterData /\ ZeroCopy!RegionsHold

\* conv-rdma.cpp: every transfer ends, each side called back once, with nothing left
\* registered or allocated that it was to give back.
TransferCompletes == <>[](part = "transfer" => ZeroCopy!Completed)

\* comm_backend_lci.cpp: a registration is open as long as a posted operation needs
\* it, is closed once, and none is left when the devices are freed.
RegistrationsAccounted == part = "backend" => Lci!RegistrationsAccounted

\* comm_backend_lci.cpp: every operation that is issued completes, on whichever device
\* and from whichever callback it was posted.
EveryPostCompletes == []<>(part = "backend" => Lci!AllCompleted)

\* conv-ccs.cpp: a client gets one reply, to its own request and from every PE it
\* asked; and the client and the server agree on the salt.
ReplyIsWhole == part = "server" => Clients!ReplyIsWhole /\ Clients!SaltsInStep

\* conv-ccs.cpp: every connection is closed in the end, whatever its request was.
EveryConnectionCloses == []<>(part = "server" => Clients!AllClosed)

\* threads.cpp: a context is in one list or none, a scheduler is left to return to
\* whenever a thread may suspend, and nothing freed is used.
NothingFreedIsUsed ==
  part = "threads" => Cth!NothingFreedIsUsed /\ Cth!OneListAtATime /\ Cth!SchedulerToReturnTo

\* threads.cpp, futures.cpp: every thread that is awakened runs, and whoever waits
\* for a future whose value has come goes on.
EveryoneAwakenedRuns == []<>(part = "threads" => Cth!NobodyLeftWaiting)
=============================================================================
