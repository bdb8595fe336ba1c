---------------------------- MODULE CondCallbacks ----------------------------
(***************************************************************************)
(* Conditional, periodic and timer callbacks of one PE (conv-conds.cpp).   *)
(* A callback is program code: it registers callbacks, raises conditions   *)
(* and enters the scheduler, so that the functions below nest.  The call   *)
(* stack is explicit, innermost call first.                                *)
(***************************************************************************)
EXTENDS Integers, SequencesExt

CONSTANTS
    Cond,        \* conditions without a time
    Interval,    \* periodicCallInterval, in ticks
    MaxSkip,     \* maxSkip
    Resolution,  \* pcb.resolution, in ticks
    MaxId, MaxRaise, MaxTime, MaxDepth   \* bounds on the program

VARIABLES
    condcb, condcbKeep,  \* the lists, of handles (each used once)
    flag,                \* a list's callbacks are being called and removed
    numTimed,            \* _ccd_num_timed_cond_cbs
    heap,                \* ccd_heap, [id, time]
    nextCall, nSkip, lastCheck, numchecks,
    clock, stack,
    nextId, raises,      \* what the program used of its bounds
    called, dropped,     \* history: how often called, and which were cancelled
    fired,               \* history: when an interval's condition was last raised
    lastRun, gap         \* history: the last check of the intervals, and the longest time without one

listVars == <<condcb, condcbKeep, flag, numTimed>>
skipVars == <<nSkip, lastCheck, numchecks>>
runVars == <<lastRun, gap>>
progVars == <<nextId, raises, dropped>>
vars == <<listVars, heap, nextCall, fired, skipVars, clock, stack, progVars, called, runVars>>

Period == DOMAIN Interval
isTimed(c) == c \in Period
AllCond == Cond \cup Period

\* Frame of a callback; 0 is the handler, outside any.
Code(id) == [f |-> "code", id |-> id]

\* CcdModuleInit.
Init ==
    /\ condcb = [c \in AllCond |-> <<>>] /\ condcbKeep = [c \in AllCond |-> <<>>]
    /\ flag = [c \in AllCond |-> FALSE]
    /\ numTimed = 0 /\ heap = {} /\ nextCall = Interval
    /\ nSkip = 1 /\ lastCheck = 0 /\ numchecks = 1
    /\ clock = 0 /\ stack = <<Code(0)>> /\ nextId = 1 /\ raises = 0
    /\ called = [i \in 1..MaxId |-> 0] /\ dropped = {} /\ lastRun = 0 /\ gap = 0
    /\ fired = [i \in Period |-> 0]

Top == Head(stack)
InProgram == Top.f = "code"
Outside == Len(stack) = 1
Pushed(frame) == <<frame>> \o stack
Replaced(frame) == <<frame>> \o Tail(stack)

\* The frame of CcdRaiseCondition(c): its first list, or its second if the first is
\* empty or in use.
KeepFrame(c) == [f |-> "keep", c |-> c, i |-> 1, len |-> Len(condcbKeep[c])]
RaiseFrame(c) ==
    IF condcb[c] = <<>> \/ flag[c] THEN KeepFrame(c)
    ELSE [f |-> "remove", c |-> c, i |-> Len(condcb[c]), len |-> Len(condcb[c])]

Raising(fr) == IF fr.f = "remove" THEN [flag EXCEPT ![fr.c] = TRUE] ELSE flag
Invoke(id) == called' = [called EXCEPT ![id] = @ + 1]

-----------------------------------------------------------------------------
\* The program's calls, from a callback or a handler.

\* CcdCallOnCondition, CcdCallOnConditionKeep (append_elem).
CallOnCondition(c) ==
    /\ InProgram /\ nextId <= MaxId
    /\ \/ condcb' = [condcb EXCEPT ![c] = Append(@, nextId)] /\ UNCHANGED condcbKeep
       \/ condcbKeep' = [condcbKeep EXCEPT ![c] = Append(@, nextId)] /\ UNCHANGED condcb
    /\ numTimed' = IF isTimed(c) THEN numTimed + 1 ELSE numTimed
    /\ nextId' = nextId + 1
    /\ UNCHANGED <<flag, heap, nextCall, fired, skipVars, clock, stack, raises, dropped, called, runVars>>

\* CcdCallFnAfter, CcdCallFnAfterOnPE.
CallFnAfter(delta) ==
    /\ InProgram /\ nextId <= MaxId
    /\ heap' = heap \cup {[id |-> nextId, time |-> clock + delta]}
    /\ nextId' = nextId + 1
    /\ UNCHANGED <<listVars, nextCall, fired, skipVars, clock, stack, raises, dropped, called, runVars>>

\* (mutant) A cancelled timed callback still counts.
CancelUncounted(c, id) ==
    /\ condcb' = [condcb EXCEPT ![c] = SelectSeq(@, LAMBDA x : x # id)]
    /\ condcbKeep' = [condcbKeep EXCEPT ![c] = SelectSeq(@, LAMBDA x : x # id)]
    /\ UNCHANGED numTimed

\* remove_elem.
Cancel(c, id) ==
    /\ condcb' = [condcb EXCEPT ![c] = SelectSeq(@, LAMBDA x : x # id)]
    /\ condcbKeep' = [condcbKeep EXCEPT ![c] = SelectSeq(@, LAMBDA x : x # id)]
    /\ numTimed' = numTimed - IF isTimed(c) /\ (Contains(condcb[c], id) \/ Contains(condcbKeep[c], id))
                              THEN 1 ELSE 0

\* CcdCancelCallOnCondition(Keep), never from a callback; the handle may be gone.
CancelCallOnCondition(c, id) ==
    /\ Outside /\ id < nextId /\ id \notin dropped
    /\ Cancel(c, id)
    /\ dropped' = IF Contains(condcb[c], id) \/ Contains(condcbKeep[c], id)
                  THEN dropped \cup {id} ELSE dropped
    /\ UNCHANGED <<flag, heap, nextCall, fired, skipVars, clock, stack, nextId, raises, called, runVars>>

\* CcdRaiseCondition.
RaiseCondition(c) ==
    /\ InProgram /\ raises < MaxRaise /\ Len(stack) < MaxDepth
    /\ raises' = raises + 1
    /\ stack' = Pushed(RaiseFrame(c)) /\ flag' = Raising(RaiseFrame(c))
    /\ UNCHANGED <<condcb, condcbKeep, numTimed, heap, nextCall, fired, skipVars, clock, nextId, dropped,
                   called, runVars>>

\* The callback returns.
Return ==
    /\ InProgram /\ ~ Outside
    /\ stack' = Tail(stack)
    /\ UNCHANGED <<listVars, heap, nextCall, fired, skipVars, clock, progVars, called, runVars>>

-----------------------------------------------------------------------------
\* remove_n_elems.
RemoveN(c, n) ==
    /\ condcb' = [condcb EXCEPT ![c] = SubSeq(@, n + 1, Len(@))]
    /\ numTimed' = IF isTimed(c) THEN numTimed - n ELSE numTimed

\* call_cblist_remove: from the last callback to the first, then they are removed.
CallRemove ==
    /\ Top.f = "remove"
    /\ IF Top.i > 0
       THEN /\ stack' = <<Code(condcb[Top.c][Top.i])>> \o Replaced([Top EXCEPT !.i = @ - 1])
            /\ Invoke(condcb[Top.c][Top.i])
            /\ UNCHANGED <<condcb, numTimed, flag>>
       ELSE /\ RemoveN(Top.c, Top.len)
            /\ flag' = [flag EXCEPT ![Top.c] = FALSE]
            /\ stack' = Replaced(KeepFrame(Top.c))
            /\ UNCHANGED called
    /\ UNCHANGED <<condcbKeep, heap, nextCall, fired, skipVars, clock, progVars, runVars>>

\* call_cblist_keep.
CallKeep ==
    /\ Top.f = "keep"
    /\ IF Top.i <= Top.len
       THEN /\ stack' = <<Code(condcbKeep[Top.c][Top.i])>> \o Replaced([Top EXCEPT !.i = @ + 1])
            /\ Invoke(condcbKeep[Top.c][Top.i])
       ELSE stack' = Tail(stack) /\ UNCHANGED called
    /\ UNCHANGED <<listVars, heap, nextCall, fired, skipVars, clock, progVars, runVars>>

\* CcdCallBacks' new number of iterations to skip.
NextSkip ==
    LET e == clock - lastCheck
        n == IF e = 0 THEN nSkip
             ELSE IF Resolution >= 2 * e THEN 2 * nSkip
             ELSE IF 2 * Resolution <= e THEN nSkip \div 2 ELSE (nSkip * Resolution) \div e
    IN  IF n < 1 THEN 1 ELSE IF n > MaxSkip THEN MaxSkip ELSE n

\* CsdPeriodic, in an iteration of the scheduler, and the first half of CcdCallBacks.
CsdPeriodic ==
    /\ InProgram /\ Len(stack) < MaxDepth
    /\ heap # {} \/ numTimed > 0   \* CcdNumTimerCBs
    /\ IF numchecks > 0
       THEN numchecks' = numchecks - 1 /\ UNCHANGED <<nSkip, lastCheck, stack>>
       ELSE /\ numchecks' = NextSkip /\ nSkip' = NextSkip /\ lastCheck' = clock
            /\ stack' = Pushed([f |-> "heap", now |-> clock])
    /\ UNCHANGED <<listVars, heap, nextCall, fired, clock, progVars, called, runVars>>

\* CcdCallBacksReset, when the PE goes idle or comes back.
CallBacksReset ==
    /\ Outside
    /\ numchecks' = 1 /\ nSkip' = 1 /\ lastCheck' = clock
    /\ UNCHANGED <<listVars, heap, nextCall, fired, clock, stack, progVars, called, runVars>>

\* ccd_heap_update.
HeapUpdate ==
    /\ Top.f = "heap"
    /\ \/ \E e \in heap :
            /\ e.time < Top.now /\ \A d \in heap : e.time <= d.time
            /\ heap' = heap \ {e} /\ Invoke(e.id)
            /\ stack' = Pushed(Code(e.id))
            /\ UNCHANGED runVars
       \/ /\ \A e \in heap : e.time >= Top.now
          /\ stack' = Replaced([f |-> "periodic", now |-> Top.now, i |-> 1])
          /\ lastRun' = Top.now
          /\ gap' = IF Top.now - lastRun > gap THEN Top.now - lastRun ELSE gap
          /\ UNCHANGED <<heap, called>>
    /\ UNCHANGED <<listVars, nextCall, fired, skipVars, clock, progVars>>

\* The loop over the intervals, which ends at the first that is not due.
CallPeriodic ==
    /\ Top.f = "periodic"
    /\ IF Top.i \in Period /\ nextCall[Top.i] <= Top.now
       THEN /\ stack' = <<RaiseFrame(Top.i)>> \o Replaced([Top EXCEPT !.f = "rearm"])
            /\ flag' = Raising(RaiseFrame(Top.i))
            /\ fired' = [fired EXCEPT ![Top.i] = Top.now]
       ELSE stack' = Tail(stack) /\ UNCHANGED <<flag, fired>>
    /\ UNCHANGED <<condcb, condcbKeep, numTimed, heap, nextCall, skipVars, clock, progVars, called,
                   runVars>>

\* (mutant) The loop is left after one interval.
LoopOnOnce == Tail(stack)

LoopOn == Replaced([Top EXCEPT !.f = "periodic", !.i = @ + 1])

CallPeriodicRearm ==
    /\ Top.f = "rearm"
    /\ nextCall' = [nextCall EXCEPT ![Top.i] = Top.now + Interval[Top.i]]
    /\ stack' = LoopOn
    /\ UNCHANGED <<listVars, heap, fired, skipVars, clock, progVars, called, runVars>>

\* Time passes in the program.
Tick ==
    /\ InProgram /\ clock < MaxTime
    /\ clock' = clock + 1
    /\ UNCHANGED <<listVars, heap, nextCall, fired, skipVars, stack, progVars, called, runVars>>

Next ==
    \/ \E c \in AllCond : \/ CallOnCondition(c) \/ RaiseCondition(c)
                          \/ \E id \in 1..MaxId : CancelCallOnCondition(c, id)
    \/ \E d \in 0..1 : CallFnAfter(d)
    \/ Return \/ CallRemove \/ CallKeep \/ CsdPeriodic \/ CallBacksReset
    \/ HeapUpdate \/ CallPeriodic \/ CallPeriodicRearm \/ Tick

Spec == Init /\ [][Next]_vars

-----------------------------------------------------------------------------
\* The handles of a list, and those a running call_cblist_remove has called.
Listed(l) == UNION {ToSet(l[c]) : c \in AllCond}
BeingCalled ==
    UNION {{condcb[stack[k].c][j] : j \in (stack[k].i + 1)..stack[k].len} :
           k \in {m \in DOMAIN stack : stack[m].f = "remove"}}

\* However callbacks nest, a one-shot callback or a timer is called once, unless
\* it was cancelled or still waits in its list or in the heap: none is called
\* twice, and none registered during the calls is lost.  CcdNumTimerCBs, by which
\* the scheduler decides whether to check the time at all, counts exactly the
\* timed callbacks that are there.
CalledOnce ==
    LET waiting == (Listed(condcb) \ BeingCalled) \cup {e.id : e \in heap}
        keep == Listed(condcbKeep)
    IN  /\ \A id \in 1..(nextId - 1) :
            id \notin keep \cup dropped => called[id] = IF id \in waiting THEN 0 ELSE 1
        /\ numTimed = Len(FlattenSeq([i \in Period |-> condcb[i] \o condcbKeep[i]]))

\* The loop over the intervals ends at the first that is not due, so a longer one
\* that is due waits for a shorter one.  Still, it is raised at most the shorter
\* intervals together and the longest time without a check later than it should be.
LateWithinShorter ==
    Top.f = "periodic" /\ Top.i = 1
        => \A i \in Period :
            Top.now - fired[i] <= gap + FoldSeq(+, 0, SubSeq(Interval, 1, i))
==============================================================================
