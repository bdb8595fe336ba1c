------------------------------ MODULE SpanTree ------------------------------
(***************************************************************************)
(* The trees of the collectives: the spanning tree of nodes and PEs        *)
(* (macros of converse.h), the tree of a broadcast, which is rooted at the *)
(* sender, and the tree over a list of PEs (collectives.cpp).              *)
(*                                                                         *)
(* w is the arity, nn the number of nodes, ns the PEs of a node.           *)
(***************************************************************************)
EXTENDS Integers, FiniteSets

NodeSpanTreeParent(w, n) == IF n # 0 THEN (n - 1) \div w ELSE -1

NumNodeSpanTreeChildren(w, nn, n) ==
    IF (n + 1) * w < nn THEN w
    ELSE IF n * w + 1 >= nn THEN 0 ELSE (nn - 1) - n * w

\* Rank 0 of a node is below rank 0 of the parent node, the other ranks are in a
\* tree of their own below it.
SpanTreeParent(w, ns, p) ==
    IF p = 0 THEN -1
    ELSE IF p % ns # 0 THEN (p \div ns) * ns + NodeSpanTreeParent(w, p % ns)
    ELSE NodeSpanTreeParent(w, p \div ns) * ns

NumSpanTreeChildren(w, nn, ns, p) ==
    (IF p % ns = 0 THEN NumNodeSpanTreeChildren(w, nn, p \div ns) ELSE 0)
    + NumNodeSpanTreeChildren(w, ns, p % ns)

\* The nodes that node n forwards a broadcast of node root to.
ForwardToNodes(w, nn, root, n) ==
    LET rel == (n - root + nn) % nn
    IN  {(child + root) % nn : child \in (rel * w + 1 .. rel * w + w) \cap (0 .. nn - 1)}

\* The tree over len PEs; positions start at 0.
ListParent(w, pos) == IF pos = 0 THEN -1 ELSE (pos - 1) \div w
ListChildren(w, len, pos) ==
    LET left == len - pos * w - 1
    IN  IF left > w THEN w ELSE IF left < 0 THEN 0 ELSE left

-----------------------------------------------------------------------------
\* Every PE of every small machine counts as many children as there are PEs that
\* send to it, and a PE's parent comes before it, so that the reduction tree
\* reaches PE 0 from everywhere; and a list's tree likewise.
ReduceTreeSpans(Arity, Nodes, Ranks) ==
    \A w \in Arity, nn \in Nodes, ns \in Ranks :
        LET P == 0 .. nn * ns - 1
        IN  \A p \in P :
            /\ NumSpanTreeChildren(w, nn, ns, p)
                 = Cardinality({q \in P : SpanTreeParent(w, ns, q) = p})
            /\ SpanTreeParent(w, ns, p) < p
            /\ ListChildren(w, nn * ns, p)
                 = Cardinality({q \in P : ListParent(w, q) = p})

\* A broadcast of any node is forwarded to every other node by exactly one node,
\* which is nearer to the root.
BcastTreeSpans(Arity, Nodes) ==
    \A w \in Arity, nn \in Nodes :
        LET All == 0 .. nn - 1
            Rel(root, n) == (n - root + nn) % nn
        IN  \A root \in All :
            /\ \A n \in All : root \notin ForwardToNodes(w, nn, root, n)
            /\ \A n \in All \ {root} :
                \E m \in All :
                    /\ {k \in All : n \in ForwardToNodes(w, nn, root, k)} = {m}
                    /\ Rel(root, m) < Rel(root, n)
=============================================================================
