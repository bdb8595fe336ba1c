----------------------------- MODULE IpcChannel -----------------------------
(***************************************************************************)
(* What the pool promises its users (doc/internals/shared-memory-ipc.md,   *)
(* "Order"): between one sender and one destination PE, a channel that     *)
(* loses nothing, duplicates nothing and keeps the order sent.  A process's *)
(* node queue is the same without the order.                               *)
(***************************************************************************)
EXTENDS Naturals, Sequences

CONSTANTS Sender, Rank, Node, Msg

Dest == Rank \cup {Node}

VARIABLES
    sent,       \* [Sender -> [Dest -> Seq(Msg)]], in the order sent
    received    \* [Sender -> [Dest -> Seq(Msg)]], in the order received

channelVars == <<sent, received>>

Range(f) == {f[x] : x \in DOMAIN f}

Init ==
    /\ sent = [s \in Sender |-> [d \in Dest |-> <<>>]]
    /\ received = sent

Send(s, d) ==
    /\ \E m \in Msg \ Range(sent[s][d]) :
         sent' = [sent EXCEPT ![s][d] = Append(@, m)]
    /\ UNCHANGED received

Receive(s, r) ==
    LET n == Len(received[s][r]) + 1 IN
    /\ n <= Len(sent[s][r])
    /\ received' = [received EXCEPT ![s][r] = Append(@, sent[s][r][n])]
    /\ UNCHANGED sent

ReceiveNode(s) ==
    /\ \E m \in Range(sent[s][Node]) \ Range(received[s][Node]) :
         received' = [received EXCEPT ![s][Node] = Append(@, m)]
    /\ UNCHANGED sent

Next ==
    \E s \in Sender :
        \/ \E d \in Dest : Send(s, d)
        \/ \E r \in Rank : Receive(s, r)
        \/ ReceiveNode(s)

Spec ==
    /\ Init
    /\ [][Next]_channelVars
    /\ \A s \in Sender : /\ \A r \in Rank : WF_channelVars(Receive(s, r))
                         /\ WF_channelVars(ReceiveNode(s))
=============================================================================
