---------------------------- MODULE MCConsensus2 ----------------------------
(* Two nodes, n2 with twice the weight. *)
EXTENDS Consensus

CONSTANTS n1, n2

MCNode == {n1, n2}
UnequalStake == [v \in MCNode |-> IF v = n1 THEN 1 ELSE 2]
MCCommittee == Slot \X MCNode
\* Both nodes lead slot 1, nobody leads slot 2, n1 leads slot 3.
TwoFirst == {<<1, n1>>, <<1, n2>>, <<3, n1>>}
\* n2 may stop in slot 2, between its votes of slots 1 and 3.
HeavyStops == {<<2, n2>>}
\* n1's proposals beat n2's; of one node's, the earlier the better.
MCPriority == [p \in Leaders |-> 3 * p[1] + IF p[2] = n1 THEN 0 ELSE 4]
=============================================================================
