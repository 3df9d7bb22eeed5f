--------------------------- MODULE MCConsensusSync ---------------------------
(* Three nodes; two leaders compete in slot 1, one leads slot 2. *)
EXTENDS ConsensusSync

CONSTANTS n1, n2, n3

MCNode == {n1, n2, n3}
EqualStake == [v \in MCNode |-> 1]
MCLeaders == {<<1, n1>>, <<1, n2>>, <<2, n3>>}
MCCommittee == (Slot \X MCNode) \ {<<2, n1>>}
MCPriority == [p \in Leaders |->
                 3 * p[1] + IF p[2] = n1 THEN 1 ELSE IF p[2] = n2 THEN 0 ELSE 2]
=============================================================================
