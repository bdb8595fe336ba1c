------------------------------- MODULE Threads -------------------------------
(***************************************************************************)
(* User-level threads and futures of one PE (threads.cpp, futures.cpp).    *)
(* A context is a thread with a stack: the PE's main thread, which runs    *)
(* the scheduler; stand-ins, which run it while another scheduling context *)
(* is blocked in a handler; and the program's threads.  Exactly one        *)
(* context runs, and only it takes steps.  The runtime's functions are     *)
(* operators on the PE's state, composed as the code calls them.           *)
(***************************************************************************)
EXTENDS Naturals, Sequences, FiniteSets

CONSTANTS
    Main,        \* CthMainThread
    Standin,     \* contexts that run CthStandinCode
    Thread,      \* contexts the program creates
    Future, NULL,
    MaxCalls,    \* bound on the program's calls
    MaxCtv       \* bound on the registered thread-private data

VARIABLES
    pe,     \* the PE's thread state
    sets,   \* futures whose value is on its way from another PE
    calls   \* the program's calls so far

vars == <<pe, sets, calls>>

Context == {Main} \cup Standin \cup Thread

\* Where a context is.  "loop": in the scheduler; "resuming": in a token's handler,
\* which has switched to another context; "code": in its function or in a handler;
\* "suspended": in CthSuspend; "waiting", "woken": in CfutureWait, before and after
\* its CthSuspend returns; "doomed": freed, but its memory is not.
At == {"none", "new", "loop", "resuming", "code", "suspended", "waiting", "woken", "doomed"}

NoContext == [at |-> "none", next |-> NULL, scheduled |-> 0, exiting |-> FALSE,
              datasize |-> 0, on |-> NULL]
NoCell == [exists |-> FALSE, ready |-> FALSE, waiters |-> NULL]

\* CthInit, CthSchedInit.
Init ==
    /\ pe = [current |-> Main, schedulingThread |-> Main, sleepingStandins |-> NULL,
             th |-> [c \in Context |-> IF c = Main THEN [NoContext EXCEPT !.at = "loop"]
                                                  ELSE NoContext],
             doomed |-> NULL, ctv |-> 0, queue |-> <<>>, cell |-> [f \in Future |-> NoCell]]
    /\ sets = {} /\ calls = 0

Self == pe.current
My == pe.th[Self]

-----------------------------------------------------------------------------
\* threads.cpp.

\* CthFixData.
FixData(p, c) ==
    [p EXCEPT !.th[c].datasize = IF @ < p.ctv THEN 2 * p.ctv ELSE @]

\* CthThreadInit, with CthCreateInner.
CthCreate(p, c) == FixData([p EXCEPT !.th[c] = [NoContext EXCEPT !.at = "new"]], c)

\* CthThreadBaseFree: the token is freed too, unless it is queued.
BaseFree(p, c) ==
    [p EXCEPT !.th[c] = NoContext,
              !.queue = [i \in DOMAIN @ |-> IF @[i] # c THEN @[i]
                                            ELSE IF p.th[c].scheduled = 0 THEN "freed" ELSE NULL]]

\* CthThreadFree: the thread may still be running, so the one before it goes.
CthThreadFree(p, c) ==
    LET q == IF p.doomed = NULL THEN p ELSE BaseFree(p, p.doomed)
    IN  [q EXCEPT !.doomed = c, !.th[c].at = "doomed"]

\* Where a context goes on when it is switched to.
Continues(c, a) ==
    CASE a = "new"       -> IF c \in Standin THEN "loop" ELSE "code"
      [] a = "resuming"  -> "loop"
      [] a = "suspended" -> "code"
      [] a = "waiting"   -> "woken"
      [] OTHER           -> a

\* (mutant) The data of the thread switched to is left as it is.
CthResumeUnfixed(p, c) ==
    LET r == [p EXCEPT !.current = c, !.th[c].at = Continues(c, @)]
    IN  IF p.th[p.current].exiting THEN CthThreadFree(r, p.current) ELSE r

\* CthResume, CthBaseResume.
CthResume(p, c) ==
    LET r == [FixData(p, c) EXCEPT !.current = c, !.th[c].at = Continues(c, @)]
    IN  IF c # p.current /\ p.th[p.current].exiting THEN CthThreadFree(r, p.current) ELSE r

\* Memory for a stand-in.
UnusedStandins(p) == {c \in Standin : p.th[c].at = "none"}

\* CthSuspendSchedulingThread.
SuspendSchedulingThread(p) ==
    LET succ == IF p.sleepingStandins # NULL THEN p.sleepingStandins
                ELSE CHOOSE c \in UnusedStandins(p) : TRUE
        q == IF p.sleepingStandins # NULL
             THEN [p EXCEPT !.sleepingStandins = p.th[succ].next]
             ELSE CthCreate(p, succ)
    IN  [q EXCEPT !.schedulingThread = succ]

\* CthSuspend of the current context, which is then at the place given.
CthSuspend(p, place) ==
    LET c == p.current
        q == IF c \in Thread THEN p ELSE SuspendSchedulingThread(p)
    IN  CthResume([q EXCEPT !.th[c].scheduled = IF @ > 0 THEN @ - 1 ELSE 0, !.th[c].at = place],
                  q.schedulingThread)

\* CthAwaken; CthAwakenPrio may also put the token in front.
CthAwaken(p, c) == [p EXCEPT !.th[c].scheduled = @ + 1, !.queue = Append(@, c)]
CthAwakenPrio(p, c) == [p EXCEPT !.th[c].scheduled = @ + 1, !.queue = <<c>> \o @]

\* CthResumeSchedulingThread: the main thread waits in the queue, a stand-in sleeps.
ResumeSchedulingThread(p, c) ==
    LET me == p.current
        q == IF me = Main THEN [p EXCEPT !.queue = Append(@, Main)]
             ELSE [p EXCEPT !.th[me].next = p.sleepingStandins, !.sleepingStandins = me]
    IN  CthResume([q EXCEPT !.schedulingThread = c, !.th[me].at = "resuming"], c)

\* CthResumeNormalThread.
ResumeNormalThread(p, c) == CthResume([p EXCEPT !.th[p.current].at = "resuming"], c)

-----------------------------------------------------------------------------
\* futures.cpp.

\* The list a head starts, along the contexts' links.
RECURSIVE Chain(_, _)
Chain(p, c) == IF c = NULL THEN <<>> ELSE <<c>> \o Chain(p, p.th[c].next)

RECURSIVE AwakenAll(_, _)
AwakenAll(p, s) == IF s = <<>> THEN p ELSE AwakenAll(CthAwaken(p, Head(s)), Tail(s))

\* (mutant) Only the first waiter is awakened.
CfutureAwakenOne(p, f) ==
    [(IF p.cell[f].waiters = NULL THEN p ELSE CthAwaken(p, p.cell[f].waiters))
        EXCEPT !.cell[f].ready = TRUE, !.cell[f].waiters = NULL]

\* CfutureAwaken.
CfutureAwaken(p, f) ==
    [AwakenAll(p, Chain(p, p.cell[f].waiters))
        EXCEPT !.cell[f].ready = TRUE, !.cell[f].waiters = NULL]

\* CfutureWait up to the suspension.
CfutureWaitSuspend(p, f) ==
    CthSuspend([p EXCEPT !.th[p.current].next = p.cell[f].waiters, !.th[p.current].on = f,
                         !.cell[f].waiters = p.current],
               "waiting")

-----------------------------------------------------------------------------
\* The scheduler, and the program's calls.

\* A message's handler runs in the scheduling context.
RunHandler ==
    /\ My.at = "loop" /\ calls < MaxCalls
    /\ pe' = [pe EXCEPT !.th[Self].at = "code"]
    /\ calls' = calls + 1
    /\ UNCHANGED sets

\* The next token is handled.
RunToken ==
    /\ My.at = "loop" /\ pe.queue # <<>>
    /\ LET c == Head(pe.queue)
           p == [pe EXCEPT !.queue = Tail(@)]
       IN  pe' = IF c \in {NULL, "freed"} THEN p
                 ELSE IF c \in Thread THEN ResumeNormalThread(p, c)
                 ELSE ResumeSchedulingThread(p, c)
    /\ UNCHANGED <<sets, calls>>

\* CfutureStore: a value arrives from another PE.
CfutureStore(f) ==
    /\ My.at = "loop" /\ f \in sets
    /\ pe' = CfutureAwaken(pe, f)
    /\ sets' = sets \ {f}
    /\ UNCHANGED calls

\* The running code makes a call, within the bound.
Call(step) ==
    /\ My.at = "code" /\ calls < MaxCalls
    /\ pe' = step
    /\ calls' = calls + 1

\* A blocked scheduling context needs a stand-in.
MaySuspend == Self \in Thread \/ pe.sleepingStandins # NULL \/ UnusedStandins(pe) # {}

Queued(c) == \E i \in DOMAIN pe.queue : pe.queue[i] = c

\* The program awakens and frees a context that is blocked or new, and not awakened yet.
Blocked(c) == pe.th[c].at \in {"new", "suspended"} /\ ~ Queued(c)

\* Nobody uses the future f any more.
Unwatched(f) == \A c \in Context : pe.th[c].at \in {"waiting", "woken"} => pe.th[c].on # f

Create == \E c \in Thread : pe.th[c].at = "none" /\ Call(CthCreate(pe, c)) /\ UNCHANGED sets
Awaken ==
    \E c \in Context : /\ Blocked(c)
                       /\ Call(CthAwaken(pe, c)) \/ Call(CthAwakenPrio(pe, c))
                       /\ UNCHANGED sets
Yield == MaySuspend /\ ~ My.exiting /\ Call(CthSuspend(CthAwaken(pe, Self), "suspended")) /\ UNCHANGED sets
Suspend == MaySuspend /\ Call(CthSuspend(pe, "suspended")) /\ UNCHANGED sets
CthFree ==
    \E c \in Thread : /\ \/ Blocked(c) /\ Call(CthThreadFree(pe, c))
                         \/ c = Self /\ ~ My.exiting /\ Call([pe EXCEPT !.th[c].exiting = TRUE])
                      /\ UNCHANGED sets
CthRegister ==
    /\ pe.ctv < MaxCtv
    /\ Call(FixData([pe EXCEPT !.ctv = @ + 1], Self))
    /\ UNCHANGED sets

CfutureCreate(f) ==
    /\ ~ pe.cell[f].exists
    /\ Call([pe EXCEPT !.cell[f] = [NoCell EXCEPT !.exists = TRUE]])
    /\ UNCHANGED sets
Settable(f) == pe.cell[f].exists /\ ~ pe.cell[f].ready /\ f \notin sets
CfutureSet(f) == Settable(f) /\ Call(CfutureAwaken(pe, f)) /\ UNCHANGED sets
CfutureWait(f) ==
    /\ pe.cell[f].exists /\ ~ My.exiting
    /\ IF pe.cell[f].ready THEN Call(pe) ELSE MaySuspend /\ Call(CfutureWaitSuspend(pe, f))
    /\ UNCHANGED sets
CfutureDestroy(f) ==
    /\ pe.cell[f].ready /\ Unwatched(f)
    /\ Call([pe EXCEPT !.cell[f] = NoCell])
    /\ UNCHANGED sets

\* Another PE sets a future.
RemoteSet(f) ==
    /\ Settable(f)
    /\ sets' = sets \cup {f}
    /\ UNCHANGED <<pe, calls>>

\* CfutureWait returns the value.
WaitReturns ==
    /\ My.at = "woken"
    /\ pe' = [pe EXCEPT !.th[Self].at = "code", !.th[Self].on = NULL]
    /\ UNCHANGED <<sets, calls>>

\* The thread's function returns (CthThreadFinished), or the handler does.
Finish ==
    /\ My.at = "code"
    /\ pe' = IF Self \in Thread
             THEN CthSuspend([pe EXCEPT !.th[Self].exiting = TRUE], "code")
             ELSE [pe EXCEPT !.th[Self].at = "loop"]
    /\ UNCHANGED <<sets, calls>>

Next ==
    \/ RunHandler \/ RunToken \/ Finish \/ WaitReturns
    \/ Create \/ Awaken \/ Yield \/ Suspend \/ CthFree \/ CthRegister
    \/ \E f \in Future : \/ CfutureStore(f) \/ RemoteSet(f) \/ CfutureCreate(f)
                         \/ CfutureSet(f) \/ CfutureWait(f) \/ CfutureDestroy(f)

Spec == Init /\ [][Next]_vars

-----------------------------------------------------------------------------
\* The lists that run through the contexts' links.
Lists == {pe.sleepingStandins} \cup {pe.cell[f].waiters : f \in Future}
OnList(h) == {Chain(pe, h)[i] : i \in DOMAIN Chain(pe, h)}

\* A context is on at most one of the lists that share its link, and every list
\* holds only contexts that are blocked where that list is served: the waiters of
\* a future in its CfutureWait, sleeping stand-ins in a token's handler.  So nobody
\* else is awakened: CfutureWait returns only with a value.
OneListAtATime ==
    /\ \A g, h \in Lists : g # h => OnList(g) \cap OnList(h) = {}
    /\ \A f \in Future : \A c \in OnList(pe.cell[f].waiters) :
        pe.th[c].at = "waiting" /\ pe.th[c].on = f
    /\ \A c \in OnList(pe.sleepingStandins) : pe.th[c].at = "resuming" /\ c # Main
    /\ My.at = "woken" => pe.cell[My.on].ready

\* While a thread runs, CthSchedulingThread is a scheduler that has switched to
\* it, so that CthSuspend comes back to a scheduler; while a scheduling context
\* runs, it is that one.  No other scheduler is about to go on by itself.
SchedulerToReturnTo ==
    /\ pe.schedulingThread \notin OnList(pe.sleepingStandins)
    /\ IF Self \in Thread THEN pe.th[pe.schedulingThread].at = "resuming"
                          ELSE pe.schedulingThread = Self

\* No freed context runs or is reached from a token, a list or the scheduler, and
\* no token is freed while it is queued.  The running context has room for the
\* thread-private data registered so far.
NothingFreedIsUsed ==
    /\ My.at \in {"loop", "code", "woken"} /\ My.datasize >= pe.ctv
    /\ \A i \in DOMAIN pe.queue :
        pe.queue[i] # NULL => pe.queue[i] # "freed" /\ pe.th[pe.queue[i]].at \notin {"none", "doomed"}

\* Every context that was awakened has run, and every wait for a future that is set
\* has returned.
NobodyLeftWaiting ==
    pe.queue = <<>> /\ \A c \in Context :
        pe.th[c].at \in {"waiting", "woken"} => ~ pe.cell[pe.th[c].on].ready
=============================================================================
