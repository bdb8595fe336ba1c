------------------------------ MODULE Shutdown ------------------------------
(***************************************************************************)
(* The end of a job: CmiExit's broadcast, ConverseExit's meeting of all    *)
(* PEs and the teardown of a process, in the three ways a program runs:    *)
(* "exit", where the runtime drives the scheduler and ends the process;    *)
(* "interop", where rank 0 is the user's main and the other ranks follow   *)
(* it from one scheduler pass to the next (interopWorkerLoop); and         *)
(* "return", interop whose ConverseExit comes back to the user's main      *)
(* (CmiInteropReturnOnExit).                                               *)
(*                                                                         *)
(* StartCharmScheduler and CharmLibExit, which drive rank 0 in the last    *)
(* two, are Charm++'s: they are modelled as interopWorkerLoop's comment    *)
(* and StartInteropScheduler's callers describe them.                      *)
(***************************************************************************)
EXTENDS Naturals, FiniteSets

CONSTANTS Jobs,    \* [nodes, ranks, mode, callers, workers, phases, early]
          CST_W    \* arity of the broadcast tree

VARIABLES job, pe, pr, msgs, called

vars == <<job, pe, pr, msgs, called>>

T == INSTANCE SpanTree

Nodes == 0 .. job.nodes - 1
Ranks == 0 .. job.ranks - 1
PE == Nodes \X Ranks
Local(n) == {<<n, r>> : r \in Ranks}
Interop == job.mode # "exit"

\* pe: at, the place in the code; tick, the node barriers reached; pass, the
\* scheduler passes begun; stop, flag: stopFlag and interopExitFlag.
\* pr: clean, _cleanUp; ready, numPEsReadyForExit; global, rank 0 is in the
\* backend's barrier; done, barrier_done; arrived, CmiNodeTeardown's count; up,
\* the backend; queues, the queues and handler tables.
Init ==
    /\ job \in Jobs
    /\ pe = [p \in PE |->
               [at |-> IF Interop THEN IF p[2] = 0 THEN "start pass" ELSE "worker" ELSE "run",
                tick |-> 0, pass |-> 0, stop |-> job.early, flag |-> job.early]]
    /\ pr = [n \in Nodes |-> [clean |-> FALSE, ready |-> 0, global |-> FALSE, done |-> FALSE,
                             arrived |-> 0, up |-> TRUE, queues |-> TRUE]]
    /\ msgs = {}
    /\ called = [stops |-> IF job.early THEN 1 ELSE 0, exits |-> {}, sent |-> {}]

Go(p, at) == pe' = [pe EXCEPT ![p].at = at]
Arrive(x, at) == [x EXCEPT !.at = at, !.tick = @ + 1]
AllArrived(p) == \A o \in Local(p[1]) : pe[o].tick >= pe[p].tick

------------------------------------------------------------------------------
\* Scheduling.

Schedules(p) == pe[p].at \in {"run", "pass", "final"}

\* (mutant) The flag is not looked at before the pass.
StartPassBlind(p) ==
    /\ pe[p].at = "start pass"
    /\ pe' = [pe EXCEPT ![p] = [@ EXCEPT !.at = "pass", !.pass = @ + 1, !.stop = FALSE]]
    /\ UNCHANGED <<job, pr, msgs, called>>

\* StartInteropScheduler: a stop that came before the pass is its stop.
StartPass(p) ==
    /\ pe[p].at = "start pass"
    /\ pe' = [pe EXCEPT ![p] =
                IF @.flag THEN Arrive([@ EXCEPT !.pass = @ + 1, !.flag = FALSE], "trail")
                ELSE [@ EXCEPT !.at = "pass", !.pass = @ + 1, !.stop = FALSE]]
    /\ UNCHANGED <<job, pr, msgs, called>>

\* The scheduler sees stopFlag: the pass, or the run, is over.
Returns(p) ==
    /\ Schedules(p) /\ pe[p].stop
    /\ IF pe[p].at = "run"
         THEN /\ Go(p, "ready")
              /\ pr' = [pr EXCEPT ![p[1]].ready = @ + 1]
         ELSE /\ pe' = [pe EXCEPT ![p] =
                          IF @.at = "pass" THEN Arrive([@ EXCEPT !.flag = FALSE], "trail")
                                           ELSE Arrive(@, "end")]
              /\ UNCHANGED pr
    /\ UNCHANGED <<job, msgs, called>>

\* A stop sets the flag of the pass and the scheduler's, an exit the latter.
StopInteropScheduler(x) == [x EXCEPT !.flag = TRUE, !.stop = TRUE]
CmiExitHandler(x) == [x EXCEPT !.stop = TRUE]

Msg(k, p, root) == [k |-> k, to |-> p, root |-> root]

\* A relay step of the exit broadcast: the children of the tree of root, and
\* the peers, which do not relay.
CmiBcastForward(p, root) ==
    {Msg("exit", <<n, 0>>, root) : n \in T!ForwardToNodes(CST_W, job.nodes, root, p[1])}
      \cup {Msg("own", o, root) : o \in Local(p[1]) \ {p}}

\* One message: work, a stop of the interop scheduler, or an exit, whose handler
\* in interop is Charm++'s and calls ConverseExit.
Handle(p) ==
    /\ Schedules(p) /\ ~pe[p].stop
    /\ \E m \in msgs :
         /\ m.to = p
         /\ msgs' = (msgs \ {m}) \cup (IF m.k = "exit" THEN CmiBcastForward(p, m.root) ELSE {})
         /\ IF m.k \in {"exit", "own"} /\ Interop
              THEN Go(p, "ready") /\ pr' = [pr EXCEPT ![p[1]].ready = @ + 1]
              ELSE /\ pe' = [pe EXCEPT ![p] = CASE m.k = "stop" -> StopInteropScheduler(@)
                                                [] m.k = "work" -> @
                                                [] OTHER -> CmiExitHandler(@)]
                   /\ UNCHANGED pr
    /\ UNCHANGED <<job, called>>

\* The program: each caller of CmiExit calls it once, and a PE may leave work
\* behind that nobody waits for.
CmiExit(p) ==
    /\ Schedules(p) /\ ~pe[p].stop /\ p \in job.callers \ called.exits
    /\ Interop => \A o \in PE : pe[o].at = "final"
    /\ msgs' = msgs \cup {Msg("own", p, p[1])} \cup CmiBcastForward(p, p[1])
    /\ called' = [called EXCEPT !.exits = @ \cup {p}]
    /\ UNCHANGED <<job, pe, pr>>

Work(p) ==
    /\ Schedules(p) /\ ~pe[p].stop /\ p \in job.workers \ called.sent
    /\ \E d \in PE \ {p} : msgs' = msgs \cup {Msg("work", d, p[1])}
    /\ called' = [called EXCEPT !.sent = @ \cup {p}]
    /\ UNCHANGED <<job, pe, pr>>

\* One PE ends a phase for all.
StopAll(p) ==
    /\ pe[p].at = "pass" /\ ~pe[p].stop /\ called.stops < pe[p].pass
    /\ msgs' = msgs \cup {Msg("stop", o, pe[p].pass) : o \in PE}
    /\ called' = [called EXCEPT !.stops = pe[p].pass]
    /\ UNCHANGED <<job, pe, pr>>

------------------------------------------------------------------------------
\* Interop: rank 0 between the passes, and interopWorkerLoop.

\* The user's main begins another phase, or CharmLibExit.
Main(p) ==
    /\ pe[p].at = "main" /\ p[2] = 0
    /\ IF pe[p].pass < job.phases
         THEN /\ pe' = [pe EXCEPT ![p] = Arrive(@, "lead")]
              /\ UNCHANGED pr
         ELSE /\ pr' = [pr EXCEPT ![p[1]].clean = TRUE]
              /\ pe' = [pe EXCEPT ![p] = Arrive(@, "lead")]
    /\ UNCHANGED <<job, msgs, called>>

interopWorkerLoop(p) ==
    /\ pe[p].at = "worker"
    /\ pe' = [pe EXCEPT ![p] = IF pr[p[1]].clean
                                 THEN [@ EXCEPT !.at = "final", !.stop = FALSE]
                                 ELSE [@ EXCEPT !.at = "start pass"]]
    /\ UNCHANGED <<job, pr, msgs, called>>

\* Where a PE goes on from the barrier it is at.
AfterBarrier(p) ==
    CASE pe[p].at = "trail" /\ p[2] = 0 -> [pe[p] EXCEPT !.at = "main"]
      [] pe[p].at = "trail" -> Arrive(pe[p], "lead")
      [] pe[p].at = "lead" /\ p[2] = 0 /\ ~pr[p[1]].clean -> [pe[p] EXCEPT !.at = "start pass"]
      [] pe[p].at = "lead" /\ p[2] = 0 -> [pe[p] EXCEPT !.at = "final", !.stop = FALSE]
      [] pe[p].at = "lead" -> [pe[p] EXCEPT !.at = "worker"]
      [] pe[p].at = "end" -> [pe[p] EXCEPT !.at = "teardown"]

CmiNodeBarrier(p) ==
    /\ pe[p].at \in {"trail", "lead", "end"} /\ AllArrived(p)
    /\ pe' = [pe EXCEPT ![p] = AfterBarrier(p)]
    /\ UNCHANGED <<job, pr, msgs, called>>

------------------------------------------------------------------------------
\* ConverseExit.

\* All PEs of the process are here: rank 0 goes to meet the other processes.
AllReady(p) ==
    /\ pe[p].at = "ready" /\ pr[p[1]].ready = job.ranks
    /\ Go(p, IF p[2] = 0 THEN "global" ELSE "wait")
    /\ pr' = IF p[2] = 0 THEN [pr EXCEPT ![p[1]].global = TRUE] ELSE pr
    /\ UNCHANGED <<job, msgs, called>>

\* Return-on-exit comes back to the scheduler, stopped.
Met(p) ==
    /\ \/ pe[p].at = "global" /\ \A n \in Nodes : pr[n].global
       \/ pe[p].at = "wait" /\ pr[p[1]].done
    /\ pe' = [pe EXCEPT ![p] = IF job.mode = "return"
                                 THEN [@ EXCEPT !.at = "final", !.stop = TRUE]
                                 ELSE [@ EXCEPT !.at = "teardown"]]
    /\ pr' = IF p[2] = 0 THEN [pr EXCEPT ![p[1]].done = TRUE] ELSE pr
    /\ UNCHANGED <<job, msgs, called>>

\* CmiNodeTeardown: exitThread and the count; ranks above 0 are then done.
CmiNodeTeardown(p) ==
    /\ pe[p].at = "teardown"
    /\ Go(p, IF p[2] = 0 THEN "arrivals" ELSE "gone")
    /\ pr' = [pr EXCEPT ![p[1]].arrived = @ + 1]
    /\ UNCHANGED <<job, msgs, called>>

\* (mutant) Rank 0 does not wait for the others.
AllGoneAtOnce(n) == TRUE

AllGone(n) == pr[n].arrived >= job.ranks

BackendExit(p) ==
    /\ pe[p].at = "arrivals" /\ AllGone(p[1])
    /\ Go(p, "delete")
    /\ pr' = [pr EXCEPT ![p[1]].up = FALSE]
    /\ UNCHANGED <<job, msgs, called>>

\* The process ends, or goes back to its main.
Delete(p) ==
    /\ pe[p].at = "delete"
    /\ Go(p, "gone")
    /\ pr' = [pr EXCEPT ![p[1]].queues = FALSE]
    /\ UNCHANGED <<job, msgs, called>>

Next ==
    \E p \in PE :
        \/ StartPass(p) \/ Returns(p) \/ Handle(p) \/ CmiExit(p) \/ Work(p) \/ StopAll(p)
        \/ Main(p) \/ interopWorkerLoop(p) \/ CmiNodeBarrier(p)
        \/ AllReady(p) \/ Met(p) \/ CmiNodeTeardown(p) \/ BackendExit(p) \/ Delete(p)

\* Every thread runs, every message is delivered and handled, and the program
\* does call CmiExit.
Spec == Init /\ [][Next]_vars /\ WF_vars(Next)

------------------------------------------------------------------------------
\* Properties.

InExit(p) == pe[p].at \in {"ready", "global", "wait", "teardown", "arrivals", "delete", "gone"}
Polls(p) == pe[p].at \notin {"gone", "delete", "main"}

\* A process takes its backend down only after every PE of every process is in
\* ConverseExit or past it, so that nobody still runs the program and sends to
\* it, and when no thread of its own polls any more; and its queues go only
\* after that (CmiNodeTeardown).
TornDownLast ==
    \A n \in Nodes :
        /\ ~pr[n].up => /\ \A p \in Local(n) : ~Polls(p)
                        /\ \A k \in Nodes : pr[k].ready = job.ranks
                        /\ pr[n].arrived = job.ranks
        /\ ~pr[n].queues => ~pr[n].up

\* The barriers of rank 0's phases and of interopWorkerLoop pair up: PEs of a
\* process that schedule at the same time are in the same pass, the last one
\* for all of them or for none, and none schedules while rank 0 is in the
\* user's main.
PassesTogether ==
    \A n \in Nodes : \A p, o \in Local(n) :
        Interop /\ Schedules(p) =>
            /\ Schedules(o) => pe[o].at = pe[p].at /\ pe[o].pass = pe[p].pass
            /\ pe[o].at # "main"

\* Once CmiExit is called (and in interop every phase is over) every process
\* ends, or returns to its main.
Ended == \A p \in PE : pe[p].at = "gone"
EveryProcessEnds == <>Ended
=============================================================================
