------------------------------ MODULE PrioList ------------------------------
(***************************************************************************)
(* What a scheduler queue promises (the contract at the top of             *)
(* queueing.cpp): a list of messages in increasing priority, in which a    *)
(* FIFO push goes behind everything of its priority, a LIFO push ahead of  *)
(* it, and the first message is the one that comes out.                    *)
(***************************************************************************)
EXTENDS Integers, Sequences

CONSTANTS Message, Priority

VARIABLE items    \* pairs <<priority, message>>

Init == items = <<>>

Push(m, p) ==
    items' = SelectSeq(items, LAMBDA e : e[1] <= p) \o <<<<p, m>>>>
               \o SelectSeq(items, LAMBDA e : e[1] > p)

PushFront(m, p) ==
    items' = SelectSeq(items, LAMBDA e : e[1] < p) \o <<<<p, m>>>>
               \o SelectSeq(items, LAMBDA e : e[1] >= p)

Pop ==
    /\ items # <<>>
    /\ items' = Tail(items)

Next == Pop \/ \E m \in Message, p \in Priority : Push(m, p) \/ PushFront(m, p)

Spec == Init /\ [][Next]_items
=============================================================================
