----------------------------- MODULE MCIpcPool -----------------------------
(***************************************************************************)
(* Instances of IpcPool for TLC.                                           *)
(***************************************************************************)
EXTENDS IpcPool, TLC

OneBin == {1}
TwoBins == {1, 2}
StrideOne == [b \in {1} |-> 1]
StrideTwo == [b \in {1, 2} |-> b]

\* Senders are interchangeable: no action or invariant names one.
SenderSymmetry == Permutations(Sender)
=============================================================================
