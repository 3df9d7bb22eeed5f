---------------------------- MODULE StakeWeight ----------------------------
(***************************************************************************)
(* The commit rule of AgentChain: how much square-root stake a set of      *)
(* signers carries, and the two gates a commit certificate has to pass.    *)
(* The same rule is written twice in the code, in validate_commit          *)
(* (chain.c) and in try_commit_inner (consensus.c).                        *)
(***************************************************************************)
EXTENDS Naturals, FiniteSets

CONSTANTS
  Node,       \* the keys that take part, bonded or not
  SqrtStake   \* SqrtStake[v] = isqrt(stake of v); 0 when v has less than AC_MIN_STAKE_UCRD

ASSUME WeightAssumption ==
  /\ IsFiniteSet(Node)
  /\ SqrtStake \in [Node -> Nat]

-----------------------------------------------------------------------------
\* The sum of the signers' square-root stakes, counted unit by unit: v owns the
\* SqrtStake[v] units <<v, 1>> .. <<v, SqrtStake[v]>>.
Units == {u \in Node \X UNION {1 .. SqrtStake[v] : v \in Node} : u[2] <= SqrtStake[u[1]]}

UnitsOf(S) == {u \in Units : u[1] \in S}

SqrtSum == [S \in SUBSET Node |-> Cardinality(UnitsOf(S))]

Bonded == {v \in Node : SqrtStake[v] > 0}

\* ac_chain_live_sqrt_stake: the weight of the live set, or of everybody when no
\* bonded validator is live.
LiveSqrt(live) == IF live \cap Bonded = {} THEN SqrtSum[Node] ELSE SqrtSum[live]

\* Liveness gate: at least 2/3 of the live weight.
LiveGate(S, live) == SqrtSum[S] * 3 >= LiveSqrt(live) * 2

\* Safety floor: more than 1/2 of the total bonded weight.
FloorGate(S) == SqrtSum[S] * 2 > SqrtSum[Node]

\* Variant: one third of the live weight is enough and there is no floor.
OneThird(S, live) == LiveSqrt(live) > 0 /\ SqrtSum[S] * 3 >= LiveSqrt(live)

CommitThreshold(S, live) ==
  /\ LiveSqrt(live) > 0
  /\ LiveGate(S, live)
  /\ FloorGate(S)
=============================================================================
