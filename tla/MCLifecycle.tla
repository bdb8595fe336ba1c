---------------------------- MODULE MCLifecycle -----------------------------
(***************************************************************************)
(* A job's processes together: its start, its barriers and its end, each   *)
(* on jobs of its own.  part tells which one a behaviour is about, and the *)
(* others stay as they were made.                                          *)
(***************************************************************************)
EXTENDS CmiBarrier

CONSTANTS Layouts, Jobs, CST_W

VARIABLES
  part,
  lay, starter, process, seg, net, q,
  job, leaver, dying, msgs, called

startVars == <<lay, starter, process, seg, net, q>>
endVars == <<job, leaver, dying, msgs, called>>

Start == INSTANCE Startup WITH pe <- starter, pr <- process
End == INSTANCE Shutdown WITH pe <- leaver, pr <- dying

\* Constants: the jobs that are started, ...
Layout(host, ranks, ipc, obtain, xpmem) ==
    [host |-> host, ranks |-> ranks, ipc |-> ipc, obtain |-> obtain, xpmem |-> xpmem]

MCLayouts ==
    {Layout(<<1, 1>>, 2, TRUE, TRUE, x) : x \in BOOLEAN}
      \cup {Layout(<<1, 2, 1>>, 1, TRUE, TRUE, x) : x \in BOOLEAN}
      \cup {Layout(<<1, 1, 1>>, 1, TRUE, TRUE, TRUE)}
      \cup {Layout(<<1, 1>>, 1, TRUE, FALSE, x) : x \in BOOLEAN}
      \cup {Layout(<<1>>, 2, TRUE, TRUE, FALSE), Layout(<<1, 1>>, 2, FALSE, FALSE, FALSE)}

\* ... and those that are ended.
Job(nodes, ranks, mode, callers, workers, phases, early) ==
    [nodes |-> nodes, ranks |-> ranks, mode |-> mode, callers |-> callers,
     workers |-> workers, phases |-> phases, early |-> early]

ThreeOfFour == {<<0, 0>>, <<0, 1>>, <<1, 1>>}

MCJobs ==
    {Job(2, 2, "exit", {p}, {<<0, 0>>, <<1, 1>>}, 0, FALSE) : p \in {<<0, 0>>, <<1, 1>>}}
      \cup {Job(2, 2, "exit", ThreeOfFour, {}, 0, FALSE), Job(6, 1, "exit", {<<2, 0>>}, {}, 0, FALSE)}
      \cup {Job(2, 2, m, {<<0, 0>>}, {<<1, 1>>}, 2, FALSE) : m \in {"interop", "return"}}
      \cup {Job(1, 1, "return", {<<0, 0>>}, {}, 2, TRUE)}

LifecycleInit ==
  /\ part \in {"barrier", "start", "end"}
  /\ Init
  /\ Start!Init /\ (part # "start" => lay = CHOOSE l \in Layouts : TRUE)
  /\ End!Init /\ (part # "end" => job = CHOOSE j \in Jobs : TRUE)

LifecycleNext ==
  \/ part = "barrier" /\ Next /\ UNCHANGED <<part, startVars, endVars>>
  \/ part = "start" /\ Start!Next /\ UNCHANGED <<part, vars, endVars>>
  \/ part = "end" /\ End!Next /\ UNCHANGED <<part, vars, startVars>>

lifecycle == <<part, vars, startVars, endVars>>

\* As long as a PE or a message can take a step, one is taken.
LifecycleSpec ==
  /\ LifecycleInit /\ [][LifecycleNext]_lifecycle
  /\ WF_vars(part = "barrier" /\ Next)
  /\ WF_startVars(part = "start" /\ Start!Next)
  /\ WF_endVars(part = "end" /\ End!Next)

-----------------------------------------------------------------------------
\* CmiBarrier: if every PE calls it, every call returns.
CallsReturn == <>[](part = "barrier" => AllReturned)

\* ConverseInit and the start of the shared-memory pool: no message is handled, no
\* handler index sent and no segment opened before what it needs is there, and the
\* pool is up where it is used.
NothingTooEarly == part = "start" => Start!NothingTooEarly /\ Start!PoolIsUp

\* Every PE of every job gets to its scheduler, with nothing left on the way.
StartupCompletes == <>[](part = "start" => Start!Started)

\* ConverseExit: what the PEs share is torn down when nobody uses it any more, and the
\* processes enter and leave the passes of an interoperating program together.
TornDownLast == part = "end" => End!TornDownLast /\ End!PassesTogether

\* However the program ends (one CmiExit, or several at once in small jobs), every
\* process does.
EveryProcessEnds == <>[](part = "end" => End!Ended)
=============================================================================
