------------------------------ MODULE Backend ------------------------------
(***************************************************************************)
(* The LCI communication backend of one process (comm_backend_lci.cpp):    *)
(* PE threads post operations on devices, poll them under one try-lock per *)
(* device, run completion callbacks that may post again, and register      *)
(* buffers on a device the first time a transfer needs it.                 *)
(*                                                                         *)
(* External, from how the code uses it: LCI.  A device has room for Room   *)
(* operations until their completions are polled; a post without room is   *)
(* refused ("retry") or, where retries are not allowed, kept in a backlog  *)
(* that later polls of the device post.                                    *)
(***************************************************************************)
EXTENDS Naturals, Sequences, FiniteSets

CONSTANTS NumThreads, NumDevices, Room,
          backend_poll_thread,  \* every so many ranks poll
          Ops,    \* operation -> [by, after, kind, dev, mr]: issued by a thread,
                  \* or in the completion handler of the operation "after"
          Owner,  \* buffer -> the PE that registered it, the pool's blocks apart
          Kept    \* buffers the program never deregisters (CMK_BUFFER_NODEREG)

VARIABLE b

ThreadId == 0 .. NumThreads - 1
Device == 0 .. NumDevices - 1
Nobody == NumThreads
None == <<>>
Pool == "pool"

\* initThread: the threads are dealt to the devices in blocks, the first of each
\* block being the one that must poll.
ThreadsPerDevice == (NumThreads + NumDevices - 1) \div NumDevices
DeviceIdx(t) == t \div ThreadsPerDevice
threadMustPoll(t) == t % ThreadsPerDevice = 0

\* What LazyMR's slots hold: a registration, named by the thread that made it.
\* registerMemoryAllDevices for the pool's blocks; for another buffer
\* registerMemory and getRMR, which registers it on its owner's device.
Registered(r, d) ==
    IF r = Pool THEN <<r, d, Nobody>>
    ELSE IF d = DeviceIdx(Owner[r]) THEN <<r, d, Owner[r]>> ELSE None

Region == DOMAIN Owner \cup {Pool}
Slots(slot, r) == {slot[r][d] : d \in Device} \ {None}

Init ==
    LET slot == [r \in Region |-> [d \in Device |-> Registered(r, d)]] IN
    b = [stack |-> [t \in ThreadId |-> <<>>], lock |-> [d \in Device |-> FALSE],
         slot |-> slot, live |-> Region, open |-> UNION {Slots(slot, r) : r \in Region},
         twice |-> FALSE, fly |-> [d \in Device |-> {}], cq |-> [d \in Device |-> {}],
         backlog |-> [d \in Device |-> <<>>], issued |-> {}, done |-> {},
         left |-> {}, up |-> TRUE]

-----------------------------------------------------------------------------
\* A thread's calls, the innermost first: an operation being posted, or the
\* devices progress() still has to poll.
Post(o) == [k |-> "post", o |-> o, at |-> "load", mine |-> None, st |-> "none"]
Poll(ds) == [k |-> "poll", ds |-> ds, in |-> FALSE, did |-> FALSE]

Top(t) == Head(b.stack[t])
In(t, k, at) == b.stack[t] # <<>> /\ Top(t).k = k /\ (k = "post" => Top(t).at = at)
Below(t) == Tail(b.stack[t])
Becomes(x, t, frames) == [x EXCEPT !.stack[t] = frames]
Goes(x, t, f) == Becomes(x, t, <<f>> \o Below(t))

\* g_in_progress_callback.
InCallback(t) == \E i \in DOMAIN b.stack[t] : b.stack[t][i].k = "poll" /\ b.stack[t][i].in

\* (mutant) A post spins wherever it is called from.
AllowRetryAlways(t) == TRUE

\* A post made inside a completion callback must not spin: the thread holds the
\* lock that draining the device takes.
AllowRetry(t) == ~InCallback(t)

\* The device an operation is posted on: an active message on the thread's own,
\* a one-sided operation on the one the remote buffer's owner named.
PostsOn(t, o) == IF Ops[o].kind = "am" THEN DeviceIdx(t) ELSE Ops[o].dev

\* progress: the thread's device, or all of them once it has none (exitThread).
progress(t) == IF t \in b.left THEN [i \in 1 .. NumDevices |-> i - 1] ELSE <<DeviceIdx(t)>>

\* What a post that may retry polls: progress() for an active message, for a
\* one-sided operation also the device it is posted on.
progressForPost(t, d) == progress(t) \o IF d # DeviceIdx(t) THEN <<d>> ELSE <<>>

\* releaseRegion and deregister_memory: closes registrations, which must be open.
Release(x, S) == [x EXCEPT !.open = @ \ S, !.twice = @ \/ ~(S \subseteq x.open)]

\* The completion handler of an operation.  The last operation on a buffer has
\* it deregistered (deregisterMemory); a handler may issue another operation,
\* whose frame goes on the caller's.
localComp(x, t, o, frames) ==
    LET r == Ops[o].mr
        over == /\ r \in DOMAIN Owner /\ r \notin Kept
                /\ \A p \in DOMAIN Ops : Ops[p].mr = r => p \in x.done \cup {o}
        next == {p \in DOMAIN Ops : Ops[p].after = o}
        y == [(IF over THEN Release(x, Slots(x.slot, r)) ELSE x) EXCEPT
                !.done = @ \cup {o}, !.issued = @ \cup next,
                !.live = @ \ (IF over THEN {r} ELSE {})]
    IN  Becomes(y, t, IF next = {} THEN frames ELSE <<Post(CHOOSE p \in next : TRUE)>> \o frames)

-----------------------------------------------------------------------------
\* issueAm, issueRget, issueRput.

Issue(t, o) ==
    /\ b.stack[t] = <<>> /\ Ops[o].by = t /\ o \notin b.issued
    /\ b' = Becomes([b EXCEPT !.issued = @ \cup {o}], t, <<Post(o)>>)

\* getDeviceMR: without a registration on the device the thread makes one of its
\* own, which nobody sees yet.
LoadSlot(t) ==
    /\ In(t, "post", "load")
    /\ LET o == Top(t).o
           r == Ops[o].mr
           d == PostsOn(t, o)
       IN  b' = IF r \notin Region \/ b.slot[r][d] # None
                THEN Goes(b, t, [Top(t) EXCEPT !.at = "post"])
                ELSE Goes([b EXCEPT !.open = @ \cup {<<r, d, t>>}], t,
                          [Top(t) EXCEPT !.at = "publish", !.mine = <<r, d, t>>])

\* (mutant) The registration is stored without comparing.
PublishBlind(t) ==
    /\ In(t, "post", "publish")
    /\ b' = Goes([b EXCEPT !.slot[Top(t).mine[1]][Top(t).mine[2]] = Top(t).mine], t,
                 [Top(t) EXCEPT !.at = "post", !.mine = None])

\* The first to publish wins, and the other releases its own.
Publish(t) ==
    /\ In(t, "post", "publish")
    /\ LET m == Top(t).mine
           x == IF b.slot[m[1]][m[2]] = None THEN [b EXCEPT !.slot[m[1]][m[2]] = m]
                ELSE Release(b, {m})
       IN  b' = Goes(x, t, [Top(t) EXCEPT !.at = "post", !.mine = None])

HasRoom(d) == Cardinality(b.fly[d] \cup b.cq[d]) < Room

\* The post itself, and the poll that follows it in the loop, before its status
\* is looked at.
PostOn(t) ==
    /\ In(t, "post", "post")
    /\ LET o == Top(t).o
           d == PostsOn(t, o)
           item == [o |-> o, mr |-> IF Ops[o].mr \in Region THEN b.slot[Ops[o].mr][d] ELSE None]
           poll == IF ~AllowRetry(t) THEN <<>>
                   ELSE IF Ops[o].kind = "am" THEN <<Poll(progress(t))>>
                   ELSE <<Poll(progressForPost(t, d))>>
           Ret(x, st) == Becomes(x, t, poll \o <<[Top(t) EXCEPT !.at = "status", !.st = st]>> \o Below(t))
       IN  \/ HasRoom(d) /\ b' = Ret([b EXCEPT !.fly[d] = @ \cup {item}], "posted")
           \/ HasRoom(d) /\ Ops[o].kind = "am" /\ b' = Ret(b, "done")
           \/ ~HasRoom(d) /\ AllowRetry(t) /\ b' = Ret(b, "retry")
           \/ ~HasRoom(d) /\ ~AllowRetry(t)
                /\ b' = Ret([b EXCEPT !.backlog[d] = Append(@, item)], "posted")

Status(t) ==
    /\ In(t, "post", "status")
    /\ b' = CASE Top(t).st = "retry" -> Goes(b, t, [Top(t) EXCEPT !.at = "load", !.st = "none"])
              [] Top(t).st = "done" -> localComp(b, t, Top(t).o, Below(t))
              [] OTHER -> Becomes(b, t, Below(t))

-----------------------------------------------------------------------------
\* progress: called by the scheduler of the ranks that poll, and by rank 0 as it
\* waits for the others to leave.
StartPoll(t) ==
    /\ b.up /\ b.stack[t] = <<>>
    /\ t % backend_poll_thread = 0 \/ threadMustPoll(t)
    /\ t \in b.left => t = 0
    /\ b' = Becomes(b, t, <<Poll(progress(t))>>)

Polled(x, t) ==
    LET f == Top(t) IN
    IF Len(f.ds) = 1 THEN Becomes(x, t, Below(t)) ELSE Goes(x, t, Poll(Tail(f.ds)))

\* progressDevice: whoever finds the lock taken goes on without polling.
TryLock(t) ==
    /\ In(t, "poll", "") /\ ~Top(t).in
    /\ LET d == Head(Top(t).ds) IN
       b' = IF b.lock[d] THEN Polled(b, t)
            ELSE Goes([b EXCEPT !.lock[d] = TRUE], t, [Top(t) EXCEPT !.in = TRUE])

Inside(t, d) == In(t, "poll", "") /\ Top(t).in /\ Head(Top(t).ds) = d

\* progress_x, external: the callback of a completed operation (localCallback),
\* and a backlogged operation posted once there is room.
Fire(t, d) ==
    /\ Inside(t, d)
    /\ \E i \in b.cq[d] :
         b' = localComp([b EXCEPT !.cq[d] = @ \ {i}], t, i.o, <<[Top(t) EXCEPT !.did = TRUE]>> \o Below(t))

PostBacklog(t, d) ==
    /\ Inside(t, d) /\ b.backlog[d] # <<>> /\ HasRoom(d)
    /\ b' = Goes([b EXCEPT !.fly[d] = @ \cup {Head(b.backlog[d])}, !.backlog[d] = Tail(@)], t,
                 [Top(t) EXCEPT !.did = TRUE])

Unlock(t, d) ==
    /\ Inside(t, d)
    /\ Top(t).did \/ (b.cq[d] = {} /\ ~(b.backlog[d] # <<>> /\ HasRoom(d)))
    /\ b' = Polled([b EXCEPT !.lock[d] = FALSE], t)

\* External: the network completes an operation.
Complete(d) ==
    \E i \in b.fly[d] : b' = [b EXCEPT !.fly[d] = @ \ {i}, !.cq[d] = @ \cup {i}]

-----------------------------------------------------------------------------
\* exitThread, once every operation of the process is over.
exitThread(t) ==
    /\ t \notin b.left /\ b.stack[t] = <<>> /\ b.done = DOMAIN Ops
    /\ b' = [b EXCEPT !.left = @ \cup {t}]

\* exit, on rank 0 when all have left: deregisterAllMemory releases what is still
\* registered, the pool's blocks included, then the devices and the pools go
\* (free_mempool_block, which by then deregisters nothing).
exit ==
    /\ b.up /\ b.left = ThreadId /\ b.stack[0] = <<>>
    /\ b' = [Release(b, UNION {Slots(b.slot, r) : r \in b.live}) EXCEPT !.live = {}, !.up = FALSE]

Step(t) ==
    \/ LoadSlot(t) \/ Publish(t) \/ PostOn(t) \/ Status(t) \/ TryLock(t)
    \/ \E d \in Device : Fire(t, d) \/ PostBacklog(t, d) \/ Unlock(t, d)

Next ==
    \/ \E t \in ThreadId : Step(t) \/ StartPoll(t) \/ exitThread(t)
    \/ \E t \in ThreadId, o \in DOMAIN Ops : Issue(t, o)
    \/ \E d \in Device : Complete(d)
    \/ exit

-----------------------------------------------------------------------------
\* Every registration is open as long as something refers to it, and is closed
\* once: what is open is what the slots of live buffers hold and what a thread is
\* about to publish, every posted or backlogged operation has the one it was
\* posted with, nobody posts from a buffer that is gone, and exit leaves none.
Frames == UNION {{b.stack[t][i] : i \in DOMAIN b.stack[t]} : t \in ThreadId}
Posted == UNION {b.fly[d] \cup b.cq[d] \cup {b.backlog[d][i] : i \in DOMAIN b.backlog[d]} : d \in Device}

RegistrationsAccounted ==
    /\ ~b.twice
    /\ b.open = UNION {Slots(b.slot, r) : r \in b.live}
                  \cup ({f.mine : f \in {g \in Frames : g.k = "post"}} \ {None})
    /\ \A i \in Posted : i.mr = None \/ i.mr \in b.open
    /\ \A f \in Frames :
         f.k = "post" /\ f.st = "none" => Ops[f.o].mr \in b.live \cup {"null"}
    /\ ~b.up => b.open = {}

\* Nothing that was issued is outstanding.
AllCompleted == b.issued = b.done
=============================================================================
