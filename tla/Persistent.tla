----------------------------- MODULE Persistent -----------------------------
(***************************************************************************)
(* Persistent channels (src/persist-comm.cpp): one PE keeps channels to a  *)
(* PE of another process ("far") and to one of its own ("near").  The      *)
(* receive buffers of a channel are written by one-sided puts or by        *)
(* notifications that carry the payload, and are credited back when the    *)
(* program frees the message.  Handlers run to completion on the PE that   *)
(* owns the tables they touch; the network delivers in any order.          *)
(***************************************************************************)
EXTENDS Integers, Sequences, FiniteSets

CONSTANTS
    Handle,     \* addresses of PersistentSendsTable slots
    RecvHandle, \* addresses of PersistentReceivesTable slots
    NumBuf,     \* PERSIST_BUFFERS_NUM
    Recycle,    \* whether new may return an address that messages in flight name
    MaxSend,    \* bound: messages the program sends
    MaxRef      \* bound: references to a delivered message

Buf == 0 .. (NumBuf - 1)
Msg == 1 .. MaxSend
Dest == {"far", "near"}

null == 0  \* nullptr
None == 0  \* no message

VARIABLES
    live,       \* persistentSendsTable of the sending PE
    dest,       \* PersistentSendsTable::destPE (near: isLocal)
    destHandle, \* and the buffers of that receive slot (bufs)
    busy,       \* buffers the sender has no credit for
    nextBuf,
    pending,    \* messages waiting for set-up or for a buffer
    phs,        \* the handle array of CmiUsePersistentHandle
    curphs,
    meant,      \* the messages the program has sent: the PE each is for
    recvs,      \* persistentReceivesTable of the far PE
    rused,      \* the addresses it has ever held
    content,    \* the message in each receive buffer
    refs,       \* REFFIELD - CMK_PERSISTENT_REFBASE
    src,        \* PersistentBufHeader::srcHandle
    puts,       \* puts issued and not complete (PutContext)
    net,        \* Converse messages in flight
    oneSided,   \* whether writeToBuffer puts: useRdma /\ ~CmiIpcReaches(destNode)
    arrived,    \* how often each PE's program was given each message
    dropped     \* messages freed with their channel, or that find it gone

sendVars == <<live, dest, destHandle, busy, nextBuf, pending>>
arrayVars == <<phs, curphs>>
recvVars == <<recvs, rused, content, refs, src>>
progVars == <<arrived, dropped>>
vars == <<sendVars, arrayVars, meant, recvVars, puts, net, oneSided, progVars>>

-----------------------------------------------------------------------------
\* Messages (all from or to the same two PEs).
Request(h) == [type |-> "request", src |-> h]
Granted(h, r) == [type |-> "granted", src |-> h, dst |-> r]
Data(p, in) == [type |-> "data", put |-> p, inline |-> in]
Credit(h, i) == [type |-> "credit", src |-> h, buf |-> i]
DestroyMsg(r) == [type |-> "destroy", dst |-> r]
\* The program's own message with a PersistentReq.
Req(r) == [type |-> "req", dst |-> r]

Put(h, r, i, m) == [src |-> h, dst |-> r, buf |-> i, msg |-> m]

Arrives(m, d) == arrived' = [arrived EXCEPT ![m][d] = @ + 1]

\* (bound) An address for the receive slot of every request is left.
Room ==
    Cardinality(rused) + Cardinality({q \in net : q.type = "request"})
        < Cardinality(RecvHandle)

TypeOK ==
    /\ live \subseteq Handle
    /\ dest \in [Handle -> Dest]
    /\ destHandle \in [Handle -> RecvHandle \cup {null}]
    /\ busy \in [Handle -> SUBSET Buf]
    /\ nextBuf \in [Handle -> Buf]
    /\ pending \in [Handle -> Seq(Msg)]
    /\ phs \in Seq(Handle) /\ curphs \in Nat
    /\ meant \in Seq(Dest) /\ Len(meant) <= MaxSend
    /\ recvs \subseteq rused /\ rused \subseteq RecvHandle
    /\ content \in [RecvHandle -> [Buf -> Msg \cup {None}]]
    /\ refs \in [RecvHandle -> [Buf -> 0 .. MaxRef]]
    /\ src \in [RecvHandle -> [Buf -> Handle \cup {null}]]
    /\ puts \subseteq {Put(h, r, i, m) : h \in Handle, r \in RecvHandle, i \in Buf, m \in Msg}
    /\ oneSided \in BOOLEAN
    /\ arrived \in [Msg -> [Dest -> Nat]]
    /\ dropped \subseteq Msg

Init ==
    /\ live = {}
    /\ dest = [h \in Handle |-> "far"]
    /\ destHandle = [h \in Handle |-> null]
    /\ busy = [h \in Handle |-> {}]
    /\ nextBuf = [h \in Handle |-> 0]
    /\ pending = [h \in Handle |-> <<>>]
    /\ phs = <<>> /\ curphs = 1 /\ meant = <<>>
    /\ recvs = {} /\ rused = {}
    /\ content = [r \in RecvHandle |-> [i \in Buf |-> None]]
    /\ refs = [r \in RecvHandle |-> [i \in Buf |-> 0]]
    /\ src = [r \in RecvHandle |-> [i \in Buf |-> null]]
    /\ puts = {} /\ net = {} /\ oneSided \in BOOLEAN
    /\ arrived = [m \in Msg |-> [d \in Dest |-> 0]]
    /\ dropped = {}

-----------------------------------------------------------------------------
\* Set-up.

\* Whether a message in flight or a message held names the send slot h.
Named(h) ==
    \/ \E q \in net : q.type \in {"request", "granted", "credit"} /\ q.src = h
    \/ \E q \in net : q.type = "data" /\ q.put.src = h
    \/ \E r \in recvs, i \in Buf : src[r][i] = h

\* The addresses a new slot may get; one is as good as another.
Free == {h \in Handle \ live : Recycle \/ ~Named(h)}

newSendSlot(h, d, r) ==
    /\ h \in Free /\ \A g \in Free : h <= g
    /\ live' = live \cup {h}
    /\ dest' = [dest EXCEPT ![h] = d]
    /\ destHandle' = [destHandle EXCEPT ![h] = r]
    /\ busy' = [busy EXCEPT ![h] = {}]
    /\ nextBuf' = [nextBuf EXCEPT ![h] = 0]
    /\ pending' = [pending EXCEPT ![h] = <<>>]

newRecvSlot(r) ==
    /\ r \in RecvHandle \ rused /\ \A s \in RecvHandle \ rused : r <= s
    /\ recvs' = recvs \cup {r}
    /\ rused' = rused \cup {r}
    /\ content' = [content EXCEPT ![r] = [i \in Buf |-> None]]
    /\ refs' = [refs EXCEPT ![r] = [i \in Buf |-> 0]]
    /\ src' = [src EXCEPT ![r] = [i \in Buf |-> null]]

\* setupDone: a local channel is ready at once, another when it has buffers.
SetupDone(h) == dest[h] = "near" \/ destHandle[h] # null

CmiCreatePersistent(h, d) ==
    /\ d = "far" => Room
    /\ newSendSlot(h, d, null)
    /\ net' = IF d = "near" THEN net ELSE net \cup {Request(h)}
    /\ UNCHANGED <<arrayVars, meant, recvVars, puts, oneSided, progVars>>

\* The far PE makes the buffers and its program sends the description.
CmiCreateReceiverPersistent(r) ==
    /\ Room
    /\ newRecvSlot(r)
    /\ net' = net \cup {Req(r)}
    /\ UNCHANGED <<sendVars, arrayVars, meant, puts, oneSided, progVars>>

CmiRegisterReceivePersistent(h, r) ==
    /\ Req(r) \in net
    /\ newSendSlot(h, "far", r)
    /\ net' = net \ {Req(r)}
    /\ UNCHANGED <<arrayVars, meant, recvVars, puts, oneSided, progVars>>

persistentRequestHandler(h, r) ==
    /\ Request(h) \in net
    /\ newRecvSlot(r)
    /\ net' = (net \ {Request(h)}) \cup {Granted(h, r)}
    /\ UNCHANGED <<sendVars, arrayVars, meant, puts, oneSided, progVars>>

-----------------------------------------------------------------------------
\* Sending.

\* The buffers findFreeBuffer returns one after the other.
FreeBuffers(next, taken) ==
    SelectSeq([k \in 1 .. NumBuf |-> (next + k - 1) % NumBuf], LAMBDA i : i \notin taken)

\* writeToBuffer for a set of writes, after which the network holds sent and
\* their notifications: a put's is sent when it completes, another carries the
\* payload.
writeToBuffer(ps, sent) ==
    IF oneSided
    THEN puts' = puts \cup ps /\ net' = sent
    ELSE puts' = puts /\ net' = sent \cup {Data(p, TRUE) : p \in ps}

\* flushPending for the messages queue, with the credits of taken missing.
flushPending(h, r, queue, taken, sent) ==
    LET free == FreeBuffers(nextBuf[h], taken)
        n == IF Len(queue) < Len(free) THEN Len(queue) ELSE Len(free)
    IN  /\ busy' = [busy EXCEPT ![h] = taken \cup {free[k] : k \in 1 .. n}]
        /\ nextBuf' = [nextBuf EXCEPT ![h] = IF n = 0 THEN @ ELSE (free[n] + 1) % NumBuf]
        /\ pending' = [pending EXCEPT ![h] = SubSeq(queue, n + 1, Len(queue))]
        /\ writeToBuffer({Put(h, r, free[k], queue[k]) : k \in 1 .. n}, sent)

\* An ordinary send, which reaches its destination in ways modelled elsewhere.
CmiSyncSendAndFreeNoPersistent(m, d) ==
    /\ Arrives(m, d)
    /\ UNCHANGED <<sendVars, puts, net>>

\* A message that finds no queue and a free buffer is written at once, which is
\* what queueing and flushing it does.
CmiSendPersistentMsg(h, m) ==
    \/ /\ dest[h] = "near"
       /\ CmiSyncSendAndFreeNoPersistent(m, "near")
    \/ /\ dest[h] = "far" /\ ~SetupDone(h)
       /\ pending' = [pending EXCEPT ![h] = Append(@, m)]
       /\ UNCHANGED <<live, dest, destHandle, busy, nextBuf, puts, net, arrived>>
    \/ /\ dest[h] = "far" /\ SetupDone(h)
       /\ flushPending(h, destHandle[h], Append(pending[h], m), busy[h], net)
       /\ UNCHANGED <<live, dest, destHandle, arrived>>

\* The program sends a new message to d.
NewMessage(d) ==
    /\ Len(meant) < MaxSend
    /\ meant' = Append(meant, d)

SendOnChannel(h) ==
    /\ h \in live
    /\ NewMessage(dest[h])
    /\ CmiSendPersistentMsg(h, Len(meant) + 1)
    /\ UNCHANGED <<arrayVars, recvVars, oneSided, dropped>>

\* CmiUsePersistentHandle installs an array of handles, or none; (program) they
\* are handles of channels when it is installed.
CmiUsePersistentHandle(hs) ==
    /\ hs # phs /\ \A k \in DOMAIN hs : hs[k] \in live
    /\ phs' = hs
    /\ curphs' = 1
    /\ UNCHANGED <<sendVars, meant, recvVars, puts, net, oneSided, progVars>>

\* The entry after the current one, around the end.
Advance == curphs' = IF phs = <<>> THEN curphs ELSE (curphs % Len(phs)) + 1

CmiPersistentOneSend ==
    /\ phs # <<>>
    /\ Advance
    /\ UNCHANGED <<sendVars, phs, meant, recvVars, puts, net, oneSided, progVars>>

\* CmiPersistentHandleSend takes the message if the array's current handle is
\* a channel to the destination.
Carries(d) == phs # <<>> /\ phs[curphs] \in live /\ dest[phs[curphs]] = d

CmiSyncSendAndFree(d) ==
    /\ NewMessage(d)
    /\ Advance
    /\ \/ /\ Carries(d)
          /\ CmiSendPersistentMsg(phs[curphs], Len(meant) + 1)
       \/ /\ ~Carries(d)
          /\ CmiSyncSendAndFreeNoPersistent(Len(meant) + 1, d)
    /\ UNCHANGED <<phs, recvVars, oneSided, dropped>>

persistentReqGrantedHandler(h, r) ==
    /\ Granted(h, r) \in net
    /\ \/ /\ h \in live
          /\ destHandle' = [destHandle EXCEPT ![h] = r]
          /\ flushPending(h, r, pending[h], busy[h], net \ {Granted(h, r)})
          /\ UNCHANGED <<live, dest>>
       \/ /\ h \notin live
          /\ net' = net \ {Granted(h, r)}
          /\ UNCHANGED <<sendVars, puts>>
    /\ UNCHANGED <<arrayVars, meant, recvVars, oneSided, progVars>>

\* (mutant) The queue is not flushed.
persistentCreditHandlerNoFlush(h, i) ==
    /\ Credit(h, i) \in net
    /\ net' = net \ {Credit(h, i)}
    /\ busy' = IF h \in live THEN [busy EXCEPT ![h] = @ \ {i}] ELSE busy
    /\ UNCHANGED <<live, dest, destHandle, nextBuf, pending, puts, arrayVars, meant,
                   recvVars, oneSided, progVars>>

persistentCreditHandler(h, i) ==
    /\ Credit(h, i) \in net
    /\ \/ /\ h \in live
          /\ flushPending(h, destHandle[h], pending[h], busy[h] \ {i}, net \ {Credit(h, i)})
          /\ UNCHANGED <<live, dest, destHandle>>
       \/ /\ h \notin live
          /\ net' = net \ {Credit(h, i)}
          /\ UNCHANGED <<sendVars, puts>>
    /\ UNCHANGED <<arrayVars, meant, recvVars, oneSided, progVars>>

\* The put has landed and is complete: any thread sends the notification.
persistentPutDone(p) ==
    /\ p \in puts
    /\ puts' = puts \ {p}
    /\ net' = net \cup {Data(p, FALSE)}
    /\ content' = IF p.dst \in recvs THEN [content EXCEPT ![p.dst][p.buf] = p.msg]
                                     ELSE content
    /\ UNCHANGED <<sendVars, arrayVars, meant, recvs, rused, refs, src, oneSided, progVars>>

-----------------------------------------------------------------------------
\* Receiving.

\* The buffer is given to the program as an ordinary message; its handler may
\* add references (CmiReference) before it returns.
persistentDataHandler(d) ==
    /\ d \in net /\ d.type = "data"
    /\ net' = net \ {d}
    /\ LET r == d.put.dst
           i == d.put.buf
       IN  \/ /\ r \in recvs
              /\ content' = [content EXCEPT ![r][i] = IF d.inline THEN d.put.msg ELSE @]
              /\ src' = [src EXCEPT ![r][i] = d.put.src]
              /\ \E n \in 1 .. MaxRef : refs' = [refs EXCEPT ![r][i] = n]
              /\ Arrives(content'[r][i], "far")
              /\ UNCHANGED dropped
           \/ /\ r \notin recvs
              /\ dropped' = dropped \cup {d.put.msg}
              /\ UNCHANGED <<content, src, refs, arrived>>
    /\ UNCHANGED <<sendVars, arrayVars, meant, recvs, rused, puts, oneSided>>

CmiPersistentReleaseBuffer(r, i) ==
    /\ src' = [src EXCEPT ![r][i] = null]
    /\ net' = net \cup (IF src[r][i] = null THEN {} ELSE {Credit(src[r][i], i)})

\* (mutant) Any release returns the credit, not only the last.
CmiFreeEvery(r, i) ==
    /\ r \in recvs /\ refs[r][i] > 0
    /\ refs' = [refs EXCEPT ![r][i] = @ - 1]
    /\ CmiPersistentReleaseBuffer(r, i)
    /\ UNCHANGED <<sendVars, arrayVars, meant, recvs, rused, content, puts, oneSided, progVars>>

\* CmiFree of a receive buffer.
CmiFree(r, i) ==
    /\ r \in recvs /\ refs[r][i] > 0
    /\ refs' = [refs EXCEPT ![r][i] = @ - 1]
    /\ \/ /\ refs[r][i] = 1
          /\ CmiPersistentReleaseBuffer(r, i)
       \/ /\ refs[r][i] > 1
          /\ UNCHANGED <<src, net>>
    /\ UNCHANGED <<sendVars, arrayVars, meant, recvs, rused, content, puts, oneSided, progVars>>

-----------------------------------------------------------------------------
\* Tear-down.  (program) A channel is destroyed when its puts are complete, and
\* its buffers are freed when the program holds no message in them.
Unwritten(hs) == \A p \in puts : p.src \notin hs
Released(rs) == \A r \in rs, i \in Buf : refs[r][i] = 0

\* The fields f without those of the deleted slots.
Without(slots, f, initial) == [h \in DOMAIN f |-> IF h \in slots THEN initial ELSE f[h]]

FreeRecvSlots(rs) ==
    /\ recvs' = recvs \ rs
    /\ content' = Without(rs, content, [i \in Buf |-> None])
    /\ src' = Without(rs, src, [i \in Buf |-> null])

\* CmiDestroyPersistent on every channel of hs (freeSendSlot included).
DestroySends(hs) ==
    /\ live' = live \ hs
    /\ net' = net \cup {DestroyMsg(destHandle[h]) : h \in {g \in hs : destHandle[g] # null}}
    /\ dest' = Without(hs, dest, "far") /\ destHandle' = Without(hs, destHandle, null)
    /\ busy' = Without(hs, busy, {}) /\ nextBuf' = Without(hs, nextBuf, 0)
    /\ pending' = Without(hs, pending, <<>>)
    /\ dropped' = dropped \cup UNION {{pending[h][k] : k \in DOMAIN pending[h]} : h \in hs}

CmiDestroyPersistent(h) ==
    /\ h \in live /\ Unwritten({h})
    /\ DestroySends({h})
    /\ UNCHANGED <<arrayVars, meant, recvVars, puts, oneSided, arrived>>

\* CmiDestroyAllPersistent on the sending PE.
DestroyAllSends ==
    /\ live # {} /\ Unwritten(live)
    /\ DestroySends(live)
    /\ phs' = <<>> /\ curphs' = 1
    /\ UNCHANGED <<meant, recvVars, puts, oneSided, arrived>>

\* CmiDestroyAllPersistent on the far PE, (program) once no channel to it is
\* in use or being set up.
DestroyAllReceives ==
    /\ recvs # {} /\ puts = {} /\ Released(recvs)
    /\ \A h \in live : dest[h] = "near"
    /\ \A q \in net : q.type \notin {"request", "req"}
    /\ FreeRecvSlots(recvs)
    /\ UNCHANGED <<sendVars, arrayVars, meant, rused, refs, puts, net, oneSided, progVars>>

persistentDestroyHandler(r) ==
    /\ DestroyMsg(r) \in net /\ Released({r})
    /\ net' = net \ {DestroyMsg(r)}
    /\ FreeRecvSlots({r})
    /\ UNCHANGED <<sendVars, arrayVars, meant, rused, refs, puts, oneSided, progVars>>

-----------------------------------------------------------------------------
\* (bound) The arrays a program installs: none, or one with every handle.
AllHandles == CHOOSE s \in [1 .. Cardinality(Handle) -> Handle] :
                  \A h \in Handle : \E k \in DOMAIN s : s[k] = h
Arrays == {<<>>, AllHandles}

Program ==
    \/ \E h \in Handle, d \in Dest : CmiCreatePersistent(h, d)
    \/ \E r \in RecvHandle : CmiCreateReceiverPersistent(r)
    \/ \E h \in Handle, r \in RecvHandle : CmiRegisterReceivePersistent(h, r)
    \/ \E h \in Handle : SendOnChannel(h)
    \/ \E hs \in Arrays : CmiUsePersistentHandle(hs)
    \/ CmiPersistentOneSend
    \/ \E d \in Dest : CmiSyncSendAndFree(d)
    \/ \E h \in Handle : CmiDestroyPersistent(h)
    \/ DestroyAllSends
    \/ DestroyAllReceives

\* What the schedulers of the two PEs and the backend do.
Delivery ==
    \/ \E h \in Handle, r \in RecvHandle : persistentRequestHandler(h, r)
    \/ \E h \in Handle, r \in RecvHandle : persistentReqGrantedHandler(h, r)
    \/ \E h \in Handle, i \in Buf : persistentCreditHandler(h, i)
    \/ \E p \in puts : persistentPutDone(p)
    \/ \E q \in net : persistentDataHandler(q)
    \/ \E r \in RecvHandle : persistentDestroyHandler(r)

Release == \E r \in RecvHandle, i \in Buf : CmiFree(r, i)

Next == Program \/ Delivery \/ Release

\* Every message and put is delivered in the end (each of the finitely many is
\* handled once), and the program releases what it is given.
Spec == Init /\ [][Next]_vars

-----------------------------------------------------------------------------
\* The notifications, credits and held messages that account for buffer i of
\* the live channel h.
Claims(h, i) ==
    {p \in puts : p.src = h /\ p.buf = i}
    \cup {q \in net : q.type = "data" /\ q.put.src = h /\ q.put.buf = i}
    \cup {q \in net : q = Credit(h, i)}
    \cup {r \in recvs : src[r][i] = h}

\* The credit of a buffer is in one place: with the sender, or with exactly one
\* write, notification, held message or returning credit.  A credit lost stalls
\* the channel, one duplicated overwrites a message in use (persist-comm.cpp,
\* writeToBuffer to CmiPersistentReleaseBuffer).
CreditsAccounted ==
    \A h \in live, i \in Buf :
        Cardinality(Claims(h, i)) = IF i \in busy[h] THEN 1 ELSE 0

\* "A burst of sends ... never overwrites a buffer that is still in use": no put
\* and no payload is on its way to a buffer whose message the program holds,
\* whatever references the program took (CmiFree, CmiPersistentReleaseBuffer).
NeverOverwritten ==
    \A r \in recvs, i \in Buf :
        refs[r][i] > 0 =>
            /\ \A p \in puts : ~(p.dst = r /\ p.buf = i)
            /\ \A q \in net : q.type = "data" => ~(q.put.dst = r /\ q.put.buf = i)

\* Whatever channel, queue, array entry or fall-back carries a message, it
\* reaches its own destination at most once and no other.
DeliveredOnce ==
    \A m \in Msg, d \in Dest :
        arrived[m][d] <= IF m <= Len(meant) /\ meant[m] = d THEN 1 ELSE 0

\* No message waits in the queue of a channel that is set up and has a credit:
\* nothing would flush it (persistentCreditHandler, persistentReqGrantedHandler).
QueuedOnlyWhenFull ==
    \A h \in live : SetupDone(h) /\ pending[h] # <<>> => busy[h] = Buf

\* Nothing is stranded: when no message is on its way and the program has freed
\* what it was given, every message sent has arrived, or went with its channel.
NothingStranded ==
    net = {} /\ puts = {} /\ (\A r \in recvs, i \in Buf : refs[r][i] = 0) =>
        \A m \in DOMAIN meant : m \in dropped \/ arrived[m][meant[m]] > 0
====
