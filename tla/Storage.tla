------------------------------ MODULE Storage ------------------------------
(***************************************************************************)
(* The files of one node (chain.c): a file per block, state.bin and        *)
(* meta.bin, each replaced atomically by ac_file_write_atomic, but written *)
(* one after the other. A write may fail and the process may stop between  *)
(* any two of them; ac_chain_open then starts from what is on disk.        *)
(*                                                                         *)
(* A tip is the sequence of the blocks that lead to it and a state the     *)
(* sequence of the blocks applied to it, so a state belongs to a tip when  *)
(* the two are equal (every block changes the state: it pays a reward).    *)
(* A file is the set of its contents: empty, or with one element.          *)
(***************************************************************************)
EXTENDS Naturals, Sequences

CONSTANTS
  PeerBlock,  \* blocks other nodes build, on a state that belongs to their tip
  OwnBlock,   \* blocks this node builds, on the state it has
  MaxHeight,  \* bound on the height
  MaxFaults   \* bound on the number of failed writes and stops

ASSUME StorageAssumption == MaxHeight \in Nat /\ MaxFaults \in Nat

VARIABLES
  pc,         \* what the chain is doing under its lock
  blockFile,  \* blockFile[h]: the block file of height h, as the tip it leads to
  metaFile,   \* meta.bin: the tip
  stateFile,  \* state.bin
  tip,        \* in memory: height and tip_hash
  state,      \* in memory: the accounts
  accepting,  \* the block being persisted, as the tip it leads to
  indexed,    \* the heights in the transaction and address indexes and the live map
  acked,      \* the last tip ac_chain_accept_block has returned AC_ACCEPT_OK for
  failed,     \* a write has failed since the chain was opened
  torn,       \* the node stopped, or built a block, at a damaging moment
  faults      \* failed writes and stops so far

svars == <<pc, blockFile, metaFile, stateFile, tip, state, accepting, indexed, acked,
           failed, torn, faults>>

Block == PeerBlock \cup OwnBlock
Tip == Seq(Block)
Running == {"idle", "block", "state", "meta"}

\* The block at height h of the chain that leads to t.
Cut(t, h) == SubSeq(t, 1, h)

SInit ==
  /\ pc = "closed"
  /\ blockFile = [h \in 0 .. MaxHeight |-> {}]
  /\ metaFile = {}
  /\ stateFile = {}
  /\ tip = << >>
  /\ state = << >>
  /\ accepting = << >>
  /\ indexed = {}
  /\ acked = << >>
  /\ failed = FALSE
  /\ torn = FALSE
  /\ faults = 0

-----------------------------------------------------------------------------
(* ac_chain_open *)

\* No meta.bin: chain_apply_genesis starts from the genesis allocations.
OpenFresh ==
  /\ pc = "closed"
  /\ metaFile = {}
  /\ pc' = "genesis block"
  /\ UNCHANGED <<blockFile, metaFile, stateFile, tip, state, accepting, indexed, acked,
                 failed, torn, faults>>

\* Variant: the height is the number of block files found.
OpenByBlocks ==
  /\ pc = "closed"
  /\ metaFile # {}
  /\ \E h \in 0 .. MaxHeight :
       /\ blockFile[h] # {} /\ \A k \in h + 1 .. MaxHeight : blockFile[k] = {}
       /\ tip' \in blockFile[h]
       /\ indexed' = 1 .. h
  /\ state' \in stateFile
  /\ pc' = "idle"
  /\ UNCHANGED <<blockFile, metaFile, stateFile, accepting, acked, failed, torn, faults>>

\* meta_load, ac_state_load (no state file: the open fails and the node stays closed) and
\* tx_index_rebuild, which skips block files it cannot read.
OpenExisting ==
  /\ pc = "closed"
  /\ tip' \in metaFile
  /\ state' \in stateFile
  /\ indexed' = {h \in 1 .. Len(tip') : blockFile[h] # {}}
  /\ pc' = "idle"
  /\ UNCHANGED <<blockFile, metaFile, stateFile, accepting, acked, failed, torn, faults>>

\* The process stops. What the memory held is gone.
Stop ==
  /\ pc # "closed"
  /\ faults < MaxFaults
  /\ faults' = faults + 1
  /\ pc' = "closed"
  /\ tip' = << >> /\ state' = << >> /\ accepting' = << >> /\ indexed' = {}
  /\ failed' = FALSE
  /\ torn' = (torn \/ pc \in {"meta", "genesis state"}
                   \/ (pc \in Running /\ metaFile # {tip}))
  /\ UNCHANGED <<blockFile, metaFile, stateFile, acked>>

\* A write fails and its file stays as it was. In accept_block the caller sees
\* AC_ACCEPT_INTERNAL; during genesis the open fails.
FailWith(next) ==
  /\ faults < MaxFaults
  /\ faults' = faults + 1
  /\ pc' = next
  /\ accepting' = << >>
  /\ failed' = (next # "closed")
  /\ UNCHANGED <<blockFile, metaFile, stateFile, state, indexed, acked>>

Genesis(step, next) == pc = step /\ pc' = next /\ UNCHANGED <<tip, state, accepting,
                         indexed, acked, failed, torn, faults>>

GenesisBlock ==
  /\ Genesis("genesis block", "genesis meta")
  /\ blockFile' = [blockFile EXCEPT ![0] = {<< >>}]
  /\ UNCHANGED <<metaFile, stateFile>>

GenesisMeta ==
  /\ Genesis("genesis meta", "genesis state")
  /\ metaFile' = {<< >>}
  /\ UNCHANGED <<blockFile, stateFile>>

GenesisState ==
  /\ Genesis("genesis state", "idle")
  /\ stateFile' = {<< >>}
  /\ UNCHANGED <<blockFile, metaFile>>

GenesisFails ==
  /\ pc \in {"genesis block", "genesis meta", "genesis state"}
  /\ FailWith("closed")
  /\ tip' = tip
  /\ torn' = (torn \/ pc = "genesis state")

-----------------------------------------------------------------------------
(* ac_chain_accept_block. Everything happens under the chain lock, so nothing else *)
(* reads or changes the chain in between. A block that fails a check leaves no     *)
(* trace: the accounts are restored from the snapshot.                             *)

\* The checks and the transactions. A block of another node was built on the state that
\* belongs to our tip, so its state root is ours only if our state belongs to our tip;
\* a block of our own, which others vote for without executing it, always fits.
Apply(b) ==
  /\ pc = "idle"
  /\ Len(tip) < MaxHeight
  /\ b \in OwnBlock \/ state = tip
  /\ state' = Append(state, b)
  /\ accepting' = Append(tip, b)
  /\ pc' = "block"
  /\ torn' = (torn \/ state # tip)
  /\ UNCHANGED <<blockFile, metaFile, stateFile, tip, indexed, acked, failed, faults>>

\* Variant: the block is filed under the height of its parent.
MisfiledBlock ==
  /\ pc = "block"
  /\ blockFile' = [blockFile EXCEPT ![Len(tip)] = {accepting}]
  /\ pc' = "state"
  /\ UNCHANGED <<metaFile, stateFile, tip, state, accepting, indexed, acked, failed, torn,
                 faults>>

WriteBlock ==
  /\ pc = "block"
  /\ blockFile' = [blockFile EXCEPT ![Len(accepting)] = {accepting}]
  /\ pc' = "state"
  /\ UNCHANGED <<metaFile, stateFile, tip, state, accepting, indexed, acked, failed, torn,
                 faults>>

\* Variant: the state is not saved with every block.
SkipState ==
  /\ pc = "state"
  /\ pc' = "meta"
  /\ UNCHANGED <<blockFile, metaFile, stateFile, tip, state, accepting, indexed, acked,
                 failed, torn, faults>>

SaveState ==
  /\ pc = "state"
  /\ stateFile' = {state}
  /\ pc' = "meta"
  /\ UNCHANGED <<blockFile, metaFile, tip, state, accepting, indexed, acked, failed, torn,
                 faults>>

\* Variant: the block is acknowledged before meta.bin is written.
UnsavedMeta ==
  /\ pc = "meta"
  /\ tip' = accepting
  /\ acked' = accepting
  /\ indexed' = indexed \cup {Len(accepting)}
  /\ accepting' = << >>
  /\ pc' = "idle"
  /\ UNCHANGED <<blockFile, metaFile, stateFile, state, failed, torn, faults>>

\* The new height and tip in memory, meta.bin, and the indexes.
SaveMeta ==
  /\ pc = "meta"
  /\ tip' = accepting
  /\ metaFile' = {accepting}
  /\ acked' = accepting
  /\ indexed' = indexed \cup {Len(accepting)}
  /\ accepting' = << >>
  /\ pc' = "idle"
  /\ UNCHANGED <<blockFile, stateFile, state, failed, torn, faults>>

\* AC_ACCEPT_INTERNAL: the accounts are not restored; when it is meta.bin that cannot be
\* written, height and tip have moved already.
AcceptFails ==
  /\ pc \in {"block", "state", "meta"}
  /\ FailWith("idle")
  /\ tip' = IF pc = "meta" THEN accepting ELSE tip
  /\ torn' = torn

SNext ==
  \/ OpenFresh \/ OpenExisting
  \/ GenesisBlock \/ GenesisMeta \/ GenesisState \/ GenesisFails
  \/ \E b \in Block : Apply(b)
  \/ WriteBlock \/ SaveState \/ SaveMeta \/ AcceptFails
  \/ Stop

SSpec == SInit /\ [][SNext]_svars

-----------------------------------------------------------------------------
\* The block files a running node serves to others (HEADERS_REQ) are the blocks of its
\* chain, one for each height up to its own, whatever was left behind by blocks that were
\* written and never committed.
ServesChain ==
  pc \in Running => \A h \in 0 .. Len(tip) : blockFile[h] = {Cut(tip, h)}

\* A block acknowledged with AC_ACCEPT_OK is never lost, whatever fails afterwards.
DurableCommits ==
  pc \in Running => Len(acked) <= Len(tip) /\ acked = Cut(tip, Len(acked))

\* The state is never behind the chain, on disk or in memory: no committed block's
\* effects are missing (accept_block writes state.bin before meta.bin).
StateNotBehind ==
  /\ \A m \in metaFile, s \in stateFile : Len(m) <= Len(s)
  /\ pc \in Running => Len(tip) <= Len(state)

\* A restart undoes the effects of failed writes: as long as the node has not stopped
\* between state.bin and meta.bin and has not built a block on a state left over from a
\* failed write, the files can be opened, the state belongs to the tip, and every block is
\* in the indexes.
Intact ==
  ~torn =>
    /\ pc = "closed" => (metaFile = {} \/ metaFile = stateFile)
    /\ (pc = "idle" /\ ~failed) => (state = tip /\ indexed = 1 .. Len(tip))

\* The tip meta.bin names; genesis when there is none.
MetaTip == IF metaFile = {} THEN << >> ELSE CHOOSE m \in metaFile : TRUE

Log == INSTANCE ChainLog WITH durable <- MetaTip,
                              inUse <- IF pc \in Running THEN tip ELSE << >>,
                              promised <- acked,
                              up <- pc \in Running

\* The files, written one by one, with failed writes and stops anywhere between them, behave
\* as one durable log: meta.bin is its end, a commit makes everything up to it durable in
\* one step, and ac_chain_open comes back with exactly what was durable.
ImplementsLog == Log!LogSpec

\* "On success, the block file, state snapshot, and meta header are atomically persisted"
\* (TECHNICAL-IMPLEMENTATION.md): an open node's state belongs to its tip.
AtomicCommit == (pc = "idle" /\ ~failed) => state = tip
=============================================================================
