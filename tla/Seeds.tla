------------------------------- MODULE Seeds -------------------------------
(***************************************************************************)
(* The epoch seed (chain.c), from which leaders and committees are drawn:  *)
(* compute_epoch_seed finds it in the block files, ac_chain_epoch_seed     *)
(* keeps the last one it was asked for. The chain is the one of module     *)
(* Storage, with its failed writes, stops and restarts. A seed is the set  *)
(* of the block it is taken from, empty for the genesis seed.              *)
(***************************************************************************)
EXTENDS Storage, FiniteSetsExt

CONSTANTS
  SlotOf,      \* SlotOf[b]: the slot in the header of b
  EpochSlots,  \* AC_EPOCH_SLOTS
  MaxEpoch     \* bound: the epochs seeds are asked for

ASSUME SeedsAssumption ==
  /\ SlotOf \in [Block -> Nat \ {0}]
  /\ EpochSlots \in Nat \ {0} /\ MaxEpoch \in Nat

VARIABLE cache \* cached_epoch and cached_seed; empty when not cached_valid

evars == <<svars, cache>>

Seed == [epoch : Nat, seed : SUBSET Tip]

Epoch(b) == SlotOf[b] \div EpochSlots
LastSlot(t) == IF t = << >> THEN 0 ELSE SlotOf[t[Len(t)]]

\* The scan goes down from the tip and ends at a block that cannot be read or is older.
EndsScan(e, h) == \A t \in blockFile[h] : LastSlot(t) < e * EpochSlots

\* compute_epoch_seed: the block the scan ends at or, at the latest, the genesis block.
ComputeEpochSeed(e) ==
  IF e = 0 THEN {} ELSE blockFile[Max({0} \cup {h \in 1 .. Len(tip) : EndsScan(e, h)})]

\* Variant: whatever is cached is returned.
AnyCached(e) ==
  cache' = IF cache # {} THEN cache ELSE {[epoch |-> e, seed |-> ComputeEpochSeed(e)]}

\* ac_chain_epoch_seed
EpochSeed(e) ==
  cache' = IF \E c \in cache : c.epoch = e
           THEN cache
           ELSE {[epoch |-> e, seed |-> ComputeEpochSeed(e)]}

\* am_i_leader and am_i_committee for the slot of the clock, the handlers of blocks and votes
\* for the slot of the block: each takes the chain lock.
AskSeed(e) ==
  /\ pc = "idle"
  /\ EpochSeed(e)
  /\ UNCHANGED svars

\* accept_block: a later slot than the tip's, and a proposer and signers drawn from the seed
\* of the block's epoch, before the transactions are applied.
CheckAndApply(b) ==
  /\ SlotOf[b] > LastSlot(tip)
  /\ Apply(b)
  /\ EpochSeed(Epoch(b))

\* The last statement of accept_block, which a failed write does not reach.
Commit == SaveMeta /\ cache' = {}

EInit == SInit /\ cache = {}

ENext ==
  \/ (OpenFresh \/ OpenExisting) /\ UNCHANGED cache
  \/ (GenesisBlock \/ GenesisMeta \/ GenesisState \/ GenesisFails) /\ UNCHANGED cache
  \/ \E e \in 0 .. MaxEpoch : AskSeed(e)
  \/ \E b \in Block : CheckAndApply(b)
  \/ (WriteBlock \/ SaveState \/ AcceptFails) /\ UNCHANGED cache
  \/ Commit
  \/ Stop /\ cache' = {}

ESpec == EInit /\ [][ENext]_evars

-----------------------------------------------------------------------------
\* The height of the last block of t before epoch e.
LastBefore(t, e) ==
  Max({0} \cup {h \in 1 .. Len(t) : LastSlot(Cut(t, h)) < e * EpochSlots})

\* A cached seed is the one of the chain the node is on, also after a write failed with the
\* height already moved, over epoch boundaries, and after asking for epochs ahead of the
\* chain: nodes with the same tip draw the same leaders and committees, so none refuses a
\* block for a seed of its own.
SeedCurrent ==
  pc \in Running =>
    \A c \in cache :
      c.seed = IF c.epoch = 0 THEN {} ELSE {Cut(tip, LastBefore(tip, c.epoch))}
=============================================================================
