---------------------------- MODULE MCCollectives ----------------------------
(***************************************************************************)
(* Constants of Collectives that a configuration cannot write down.        *)
(***************************************************************************)
EXTENDS Collectives

\* A root that is a leaf of the spanning tree, and two PEs of the other node.
ThreePes == <<3, 0, 1>>
==============================================================================
