---------------------------- MODULE MCConsensus3 ----------------------------
(* Three nodes and two slots. *)
EXTENDS Consensus

CONSTANTS n1, n2, n3

MCNode == {n1, n2, n3}
EqualStake == [v \in MCNode |-> 1]
UnequalStake == [v \in MCNode |-> IF v = n1 THEN 3 ELSE 2]
\* n1 leads slot 1 and n2 leads slot 2.
OneEach == {<<1, n1>>, <<2, n2>>}
\* n2 leads both slots.
SameLeader == {<<1, n2>>, <<2, n2>>}
\* Two members per slot; n2 is on both committees.
Overlapping == {<<1, n1>>, <<1, n2>>, <<2, n2>>, <<2, n3>>}
\* Everybody on the first committee, n1 missing from the second.
Shrinking == (Slot \X MCNode) \ {<<2, n1>>}
\* The later the slot, the lower (the better) the priority.
MCPriority == [p \in Leaders |->
                 3 * (MaxSlot - p[1]) + IF p[2] = n1 THEN 2 ELSE IF p[2] = n2 THEN 1 ELSE 0]
=============================================================================
