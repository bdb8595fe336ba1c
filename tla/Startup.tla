------------------------------ MODULE Startup ------------------------------
(***************************************************************************)
(* Start-up of a job: ConverseInit's threads, converseRunPe up to the      *)
(* program's start function, and what +ipc adds to it: the gathering of    *)
(* the topology (LrtsInitCpuTopo) and the building of the shared-memory    *)
(* pool over POSIX shared memory or xpmem (CmiIpcStartup).                 *)
(*                                                                         *)
(* Every PE runs the same program, a sequence of steps separated by        *)
(* barriers of its process (CmiNodeBarrier) and of all processes (the      *)
(* backend's barrier, called by rank 0).  Only the polling steps run       *)
(* messages.  Nothing but these barriers orders the steps of different     *)
(* processes: that nobody meets a message it cannot handle, or a segment   *)
(* that is not there, is what the module is about.                         *)
(***************************************************************************)
EXTENDS Naturals, FiniteSets, SequencesExt

CONSTANT Layouts   \* the jobs: [host, ranks, ipc, obtain, xpmem]

VARIABLES lay,     \* the job being started
          pe,      \* per PE <<n, r>>: step of its program, barriers reached
          pr,      \* per process: what its PEs share
          seg,     \* per process: its shared-memory segment
          net,     \* messages on their way to another process
          q        \* messages in the thread and node queues

vars == <<lay, pe, pr, seg, net, q>>

Nodes == DOMAIN lay.host
Ranks == 0 .. lay.ranks - 1
PE == Nodes \X Ranks
Root == <<1, 0>>
Local(n) == {<<n, r>> : r \in Ranks}

\* The processes on n's host, once the topology is known; n alone before.
Peers(n) == IF pr[n].known THEN {m \in Nodes : lay.host[m] = lay.host[n]} ELSE {n}
Leader(n) == CHOOSE m \in Peers(n) : \A k \in Peers(n) : m <= k

------------------------------------------------------------------------------
\* The program of a PE.

CmiBarrier == <<"bar", "global", "bar">>

\* (mutant) nobody waits for the others after the exchange.
LrtsInitCpuTopoUnfenced ==
    <<"register", "bar", "register", "bar">>
      \o IF lay.obtain
           THEN <<"ip", "bar", "reduce", "topo wait", "tell", "poll">>
           ELSE <<"sort", "bar">>

LrtsInitCpuTopo ==
    <<"register", "bar", "register", "bar">>
      \o IF lay.obtain
           THEN <<"ip", "bar", "reduce", "topo wait", "tell", "poll">> \o CmiBarrier
           ELSE <<"sort", "bar">>

CmiMakeIpcManager == <<"sleeper", "bar", "make", "made", "bar">>

CmiIpcStartup ==
    IF Cardinality(Nodes) = 1
      THEN <<"ignore", "bar">>
      ELSE CmiMakeIpcManager \o <<"core", "bar", "until ready", "bar">> \o CmiBarrier

converseRunPe ==
    <<"init state", "bar", "init thread">> \o CmiBarrier
      \o <<"cli", "bar">>
      \o (IF lay.ipc THEN LrtsInitCpuTopo \o CmiIpcStartup ELSE <<>>)
      \o <<"startfn", "scheduler">>

At(p) == IF pe[p].pc = 0 THEN "off" ELSE converseRunPe[pe[p].pc]

\* A PE that reaches a barrier has arrived at it.
AdvanceIn(x, p) ==
    LET pc == x[p].pc + 1
        next == converseRunPe[pc]
    IN  [x EXCEPT ![p] = [pc |-> pc,
                          tick |-> @.tick + (IF next = "bar" THEN 1 ELSE 0),
                          global |-> @.global + (IF next = "global" /\ p[2] = 0
                                                   THEN 1 ELSE 0)]]
Advance(p) == pe' = AdvanceIn(pe, p)

Past(p, step) == \E i \in 1 .. pe[p].pc - 1 : converseRunPe[i] = step

Init ==
    /\ lay \in Layouts
    /\ pe = [p \in PE |-> [pc |-> 0, tick |-> 0, global |-> IF p[2] = 0 THEN 1 ELSE 0]]
    /\ pr = [n \in Nodes |-> [done |-> FALSE, known |-> FALSE, mgr |-> FALSE,
                             pid |-> FALSE, cbs |-> 0, mapped |-> {},
                             opening |-> <<>>, ready |-> FALSE]]
    /\ seg = [n \in Nodes |-> [st |-> "none", by |-> 0]]
    /\ net = {} /\ q = {}

------------------------------------------------------------------------------
\* Barriers and threads.

AllArrived(p) == \A o \in Local(p[1]) : pe[o].tick >= pe[p].tick
AllReached(p) == \A n \in Nodes : pe[<<n, 0>>].global >= pe[p].global

\* ConverseInit: the queue arrays exist, the backend's barrier is passed, and
\* the threads of ranks 1 and up start beside rank 0.
ConverseInit(n) ==
    /\ At(<<n, 0>>) = "off" /\ AllReached(<<n, 0>>)
    /\ pe' = [p \in PE |-> IF p[1] = n THEN [pe[p] EXCEPT !.pc = 1] ELSE pe[p]]
    /\ UNCHANGED <<lay, pr, seg, net, q>>

CmiNodeBarrier(p) ==
    /\ At(p) = "bar" /\ AllArrived(p)
    /\ Advance(p) /\ UNCHANGED <<lay, pr, seg, net, q>>

BackendBarrier(p) ==
    /\ At(p) = "global" /\ (p[2] = 0 => AllReached(p))
    /\ Advance(p) /\ UNCHANGED <<lay, pr, seg, net, q>>

\* Steps that only set the PE up: its queue and handler table (CmiInitState),
\* its backend state and handlers, its flags, its handlers of the topology.
SetUp(p) ==
    /\ At(p) \in {"init state", "init thread", "cli", "register", "ip", "sort",
                  "sleeper", "core", "ignore"}
    /\ Advance(p) /\ UNCHANGED <<lay, pr, seg, net, q>>

------------------------------------------------------------------------------
\* Messages.

Msg(k, n, r, from) == [k |-> k, n |-> n, r |-> r, from |-> from, ipc |-> FALSE]
AnyRank == lay.ranks     \* the rank of a message to the node queue

Deliver(m) ==
    /\ m \in net
    /\ net' = net \ {m} /\ q' = q \cup {m}
    /\ UNCHANGED <<lay, pe, pr, seg>>

Send(ms, n) ==
    /\ net' = net \cup {m \in ms : m.n # n}
    /\ q' = q \cup {m \in ms : m.n = n}

Polls(p) == /\ At(p) \in {"topo wait", "poll", "until ready", "scheduler"}
            /\ p[2] = 0 => pr[p[1]].opening = <<>>
For(p) == {m \in q : m.n = p[1] /\ m.r \in {p[2], AnyRank}}

\* CsdSchedulePoll comes back only with nothing to run.
PollReturns(p) == Polls(p) /\ For(p) = {}

------------------------------------------------------------------------------
\* The topology.

\* The last contribution sends the reduction's result to PE 0.
Reduce(p) ==
    /\ At(p) = "reduce"
    /\ Advance(p)
    /\ IF \A o \in PE \ {p} : Past(o, "reduce")
         THEN Send({Msg("topo", 1, 0, 1)}, p[1])
         ELSE UNCHANGED <<net, q>>
    /\ UNCHANGED <<lay, pr, seg>>

cpuTopoSyncWait(p) ==
    /\ At(p) = "topo wait" /\ pr[p[1]].done /\ PollReturns(p)
    /\ Advance(p) /\ UNCHANGED <<lay, pr, seg, net, q>>

\* PE 0 tells every process, itself included, and polls once more.
Tell(p) ==
    /\ At(p) = "tell"
    /\ Advance(p)
    /\ IF p = Root THEN Send({Msg("recv", n, AnyRank, 1) : n \in Nodes}, 1)
                   ELSE UNCHANGED <<net, q>>
    /\ UNCHANGED <<lay, pr, seg>>

TellPolls(p) ==
    /\ At(p) = "poll" /\ (p = Root => PollReturns(p))
    /\ Advance(p) /\ UNCHANGED <<lay, pr, seg, net, q>>

------------------------------------------------------------------------------
\* The pool.

finishSetup_(x) == [x EXCEPT !.ready = TRUE]

\* openAllShared_ goes through the host's processes one by one.
openAllShared_(x, n) == [x EXCEPT !.opening = SetToSortSeq(Peers(n), <)]

procBroadcast(k, n) == {Msg(k, m, 0, n) : m \in Peers(n) \ {n}}

\* ipcBootstrapShm_, ipcBootstrapXpmem_ (its manager's segment is made with it)
Bootstrap(n) ==
    LET x == [pr[n] EXCEPT !.mgr = TRUE]
        mine == [x EXCEPT !.mapped = {n}]
    IN  IF lay.xpmem
          THEN /\ seg' = [seg EXCEPT ![n].st = "ready"]
               /\ IF Peers(n) = {n}
                    THEN pr' = [pr EXCEPT ![n] = finishSetup_(mine)]
                         /\ UNCHANGED <<net, q>>
                    ELSE pr' = [pr EXCEPT ![n] = mine] /\ Send(procBroadcast("init", n), n)
          ELSE /\ UNCHANGED seg
               /\ CASE Leader(n) # n -> pr' = [pr EXCEPT ![n] = x] /\ UNCHANGED <<net, q>>
                    [] Peers(n) = {n} -> pr' = [pr EXCEPT ![n] = openAllShared_(x, n)]
                                         /\ UNCHANGED <<net, q>>
                    [] OTHER -> pr' = [pr EXCEPT ![n] = [x EXCEPT !.pid = TRUE]]
                                /\ Send(procBroadcast("pid", n), n)

\* Rank 0 makes the manager; the others wait for it at the next barrier.
Make(p) ==
    /\ At(p) = "make"
    /\ Advance(p)
    /\ IF p[2] = 0 THEN Bootstrap(p[1]) ELSE UNCHANGED <<pr, seg, net, q>>
    /\ UNCHANGED lay

Made(p) ==
    /\ At(p) = "made" /\ (p[2] = 0 => pr[p[1]].opening = <<>>)
    /\ Advance(p) /\ UNCHANGED <<lay, pr, seg, net, q>>

\* openShared_: whoever creates the segment sizes it, the others wait for that;
\* the owner initializes it.
openShared_(n) ==
    /\ pr[n].opening # <<>>
    /\ LET m == Head(pr[n].opening)
           mapped == [pr[n] EXCEPT !.mapped = @ \cup {m}, !.opening = Tail(@)]
           next == IF mapped.opening = <<>> THEN finishSetup_(mapped) ELSE mapped
       IN  \/ /\ seg[m].st = "none"
              /\ seg' = [seg EXCEPT ![m] = [st |-> "created", by |-> n]]
              /\ UNCHANGED pr
           \/ /\ seg[m] = [st |-> "created", by |-> n]
              /\ seg' = [seg EXCEPT ![m].st = "sized"]
              /\ UNCHANGED pr
           \/ /\ seg[m].st \in {"sized", "ready"}
              /\ seg' = IF m = n THEN [seg EXCEPT ![m].st = "ready"] ELSE seg
              /\ pr' = [pr EXCEPT ![n] = next]
    /\ UNCHANGED <<lay, pe, net, q>>

UntilReady(p) ==
    /\ At(p) = "until ready" /\ pr[p[1]].ready /\ PollReturns(p)
    /\ Advance(p) /\ UNCHANGED <<lay, pr, seg, net, q>>

------------------------------------------------------------------------------
\* The handlers: the state of the process after m, and what m's handler sends.

cpuTopoHandler(x) == [x EXCEPT !.done = TRUE]
cpuTopoRecvHandler(x) == [x EXCEPT !.known = TRUE, !.done = TRUE]
nodePidHandler_(x) == [x EXCEPT !.pid = TRUE]

\* (mutant) the leader waits for a reply of its own too.
callbackHandler_OneMore(x, n) ==
    LET heard == [x EXCEPT !.cbs = @ + 1]
    IN  IF Leader(n) = n
          THEN IF heard.cbs < Cardinality(Peers(n))
                 THEN heard ELSE openAllShared_(heard, n)
          ELSE openAllShared_(x, n)

callbackHandler_(x, n) ==
    LET heard == [x EXCEPT !.cbs = @ + 1]
    IN  IF Leader(n) = n
          THEN IF heard.cbs < Cardinality(Peers(n)) - 1
                 THEN heard ELSE openAllShared_(heard, n)
          ELSE openAllShared_(x, n)

handleInitialize_(x, n, from) ==
    LET attached == [x EXCEPT !.mapped = @ \cup {from}]
    IN  IF attached.mapped = Peers(n) THEN finishSetup_(attached) ELSE attached

After(m, n) ==
    CASE m.k = "topo" -> cpuTopoHandler(pr[n])
      [] m.k = "recv" -> cpuTopoRecvHandler(pr[n])
      [] m.k = "pid" -> nodePidHandler_(pr[n])
      [] m.k = "cb" -> callbackHandler_(pr[n], n)
      [] m.k = "init" -> handleInitialize_(pr[n], n, m.from)
      [] m.k = "user" -> pr[n]

Replies(m, n) ==
    CASE m.k = "pid" -> {Msg("cb", Leader(n), 0, n)}
      [] m.k = "cb" /\ Leader(n) = n /\ After(m, n).opening # <<>> -> procBroadcast("cb", n)
      [] OTHER -> {}

Run(p) ==
    /\ Polls(p)
    /\ \E m \in For(p) :
         /\ pr' = [pr EXCEPT ![p[1]] = After(m, p[1])]
         /\ net' = net \cup Replies(m, p[1])
         /\ q' = q \ {m}
    /\ UNCHANGED <<lay, pe, seg>>

------------------------------------------------------------------------------
\* The program: its start function registers its handlers and sends.

CmiIpcReaches(n, m) == lay.ipc /\ pr[n].ready /\ m \in Peers(n) \ {n}

StartFn(p) ==
    /\ At(p) = "startfn"
    /\ Advance(p)
    /\ \E d \in PE \ {p} :
         Send({[Msg("user", d[1], d[2], p) EXCEPT !.ipc = CmiIpcReaches(p[1], d[1])]}, p[1])
    /\ UNCHANGED <<lay, pr, seg>>

Step(p) ==
    \/ CmiNodeBarrier(p) \/ BackendBarrier(p) \/ SetUp(p) \/ Reduce(p) \/ cpuTopoSyncWait(p)
    \/ Tell(p) \/ TellPolls(p) \/ Make(p) \/ Made(p) \/ UntilReady(p) \/ StartFn(p)

Next ==
    \/ \E n \in Nodes : ConverseInit(n) \/ openShared_(n)
    \/ \E p \in PE : Step(p) \/ Run(p)
    \/ \E m \in net : Deliver(m)

Spec == Init /\ [][Next]_vars

------------------------------------------------------------------------------
\* Properties.

\* What a message needs where it is run: the handler of its kind, registered by
\* the PE itself, and for the pool's own messages the process's manager, which
\* the handler looks up by its key, and the topology.
Meets(p, m) ==
    CASE m.k = "topo" -> Past(p, "ip")
      [] m.k = "recv" -> Past(p, "ip")
      [] m.k = "user" -> Past(p, "startfn")
      [] OTHER -> Past(p, "cli") /\ pr[p[1]].mgr /\ pr[p[1]].known

\* No message is on its way to a PE whose queue is not allocated, and whatever
\* a polling PE may run next finds its handler, and what the handler uses,
\* whichever process is ahead of the others (CmiIpcStartup's "only bootstrap
\* messages are in flight here").
NothingTooEarly ==
    /\ \A m \in net \cup q : \A p \in Local(m.n) :
          m.r \in {p[2], AnyRank} => Past(p, "init state")
    /\ \A p \in PE : Polls(p) => \A m \in For(p) : Meets(p, m)

\* A message goes through a segment only after its owner has initialized it and
\* every process of the host has mapped every other's, and no process builds a
\* pool for a host it does not know.
PoolIsUp ==
    /\ \A m \in net \cup q : m.ipc => /\ seg[m.n].st = "ready"
                                      /\ \A k \in Peers(m.n) : pr[k].ready
    /\ \A n \in Nodes : /\ pr[n].ready => /\ pr[n].mapped = Peers(n)
                                         /\ seg[n].st = "ready"
                       /\ pr[n].mgr => pr[n].known = lay.obtain

\* Every PE got through start-up, and every message its peers then sent it was
\* run.
Started == q = {} /\ net = {} /\ \A p \in PE : At(p) = "scheduler"
=============================================================================
