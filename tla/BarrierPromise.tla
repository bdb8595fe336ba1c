---------------------------- MODULE BarrierPromise ----------------------------
(***************************************************************************)
(* What a reusable barrier promises: a caller leaves its n-th wait only    *)
(* when everyone who shares its barrier has arrived for the n-th wait.     *)
(***************************************************************************)
EXTENDS Naturals

CONSTANTS
    Caller,
    Peers     \* the callers that share a barrier with each

VARIABLES
    arrived,   \* how often each caller has arrived
    left       \* how often each caller has left

pvars == <<arrived, left>>

PInit ==
    /\ arrived = [c \in Caller |-> 0]
    /\ left = [c \in Caller |-> 0]

Arrive(c) ==
    /\ arrived[c] = left[c]
    /\ arrived' = [arrived EXCEPT ![c] = @ + 1]
    /\ UNCHANGED left

Leave(c) ==
    /\ left[c] < arrived[c]
    /\ \A d \in Peers[c] : arrived[c] <= arrived[d]
    /\ left' = [left EXCEPT ![c] = @ + 1]
    /\ UNCHANGED arrived

PNext == \E c \in Caller : Arrive(c) \/ Leave(c)

PSpec == PInit /\ [][PNext]_pvars
=============================================================================
