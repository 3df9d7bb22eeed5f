------------------------------ MODULE MCGossip ------------------------------
(* A triangle of nodes, two of which have a message each. *)
EXTENDS Gossip

CONSTANTS n1, n2, n3, m1, m2

MCNode == {n1, n2, n3}
MCLink == Both({<<n1, n2>>, <<n2, n3>>, <<n3, n1>>})
MCMsg == {m1, m2}
MCOrigin == [m \in MCMsg |-> IF m = m1 THEN n1 ELSE n2]

=============================================================================
