# AgentChain in TLA+

AgentChain (`src/`) is a proof-of-stake blockchain node in C. Slots of two seconds follow
each other; a verifiable random function (VRF) makes some validators leaders of a slot and
some members of its committee; leaders propose a block on their tip, the committee votes,
and a block is final on a node as soon as that node has collected votes worth enough
square-root stake. This directory holds TLA+ models of the node, the TLC runs that check
them on small instances, and proofs for every size.

## Inventory

| Component | Files | State | Operations that change it | What makes it hard |
|---|---|---|---|---|
| Consensus engine | consensus.c | pending table (8 entries), vote lock (height, block, priority), ring of slot votes, slot thread | slot_routine, vote_phase, seal_phase, handle_block, handle_vote, try_commit | two threads and two locks; messages late, twice, out of order, lost; table full; clocks apart; restart |
| Commit rule | chain.c, consensus.c | stakes, live map | validate_commit, try_commit_inner | written twice; depends on the node's own history |
| Chain | chain.c | height, tip, slot, live map, indexes, files | open, genesis, accept_block, build_block | four files written one after the other; rebuild at start |
| Codec | codec.c | none | encode, decode, hash | what the hash covers |
| State machine | state.c | accounts, names | apply_tx (5 kinds), credit, debit, load, save | two copies of one account, clamping, u64 arithmetic |
| Mempool | mempool.c | sorted entries | add, remove, prune, snapshot | checks against a state that moves on, capacity |
| Peer network | net.c | 64 peer slots, output queues, dedup ring | listener, connector, reader, writer, reaper, stop | five kinds of threads, reconnection, queue limits |
| Node wiring | node.c | pointers to the above | callbacks, start, stop | order of start and stop |
| RPC server | rpc.c | none of its own | tx_submit; reads under the chain lock | state moves between two reads |
| Utilities, crypto, command line, portability | common.c, crypto.c, main.c, portable.h | files, keys | atomic write, isqrt | step of persistence; arithmetic |

The components interact as follows. The network threads call the node's callbacks, which
pass BLOCK_ANN, BLOCK_RES and COMMIT_VOTE to the engine and TX to the mempool. The slot
thread takes a snapshot of the mempool, lets the chain build a block and broadcasts it.
Engine and chain have a mutex each; the engine's is taken first. When a pending block has
its quorum the engine hands it to `ac_chain_accept_block`, which applies the transactions to
the state, checks the certificate and writes files, and the engine broadcasts the block again
with its certificate. `PROJECT.json` lists the hazards of the code with their lines and the
property that covers each.

## Modules

| Module | Models |
|---|---|
| `StakeWeight` | square-root stake of a set of signers and the two gates of a certificate |
| `Finality` | what the chain promises: nodes sign children of their tip and append blocks with valid certificates (abstract specification `FSpec`) |
| `Consensus` | the engine of every node, the network between them, restarts (`Spec`; extends `Finality`) |
| `ConsensusSync` | the engine when the network keeps the phase deadlines (`SyncSpec`) |
| `ChainLog` | what the files of a node promise: a log that only grows, with a tail that is not durable (abstract, `LogSpec`) |
| `Storage` | the files of one node: genesis, accept_block, a failed write or a stop anywhere, ac_chain_open (`SSpec`) |
| `Seeds` | the epoch seed and its cache on the chain of `Storage` (`ESpec`; extends `Storage`) |
| `AtomicLedger` | what the ledger promises: one whole block after the other (abstract, `AtomicSpec`) |
| `Ledger` | accounts and names; build_block and accept_block applying transactions to them, with roll-back (`LSpec`) |
| `LedgerBlocks` | the execution of a block as a function, and the mapping of `Ledger` to `AtomicLedger` |
| `Mempool` | the pool of one validator composed with `Ledger`: submission, snapshot, prune, build, commit, remove (`MSpec`; extends `Ledger`) |
| `Peers` | the peer connections of one node: slot table, listener, connector, reaper, readers, writers, ac_net_stop (`PSpec`) |
| `Gossip` | broadcast, output queues, dedup ring and relay of all nodes (`GSpec`) |
| `Isqrt` | ac_isqrt_u64, step by step (`RSpec`) |
| `ConsensusProofs` | theorems on `Finality`, `Consensus` and `Isqrt` |
| `NodeProofs` | theorems on `Gossip`, `Storage` and `Seeds` |
| `LedgerProofs`, `SupplyProofs`, `LedgerBlocksProofs` | theorems on `Ledger` and `LedgerBlocks` |
| `PoolProofs`, `MempoolProofs` | theorems on `Mempool` |
| `PeersProofs` | theorems on `Peers` |
| `MCConsensus2`, `MCConsensus3`, `MCConsensusSync`, `MCStorage`, `MCLedger`, `MCMempool`, `MCPeers`, `MCGossip` | instances for TLC |

Three detailed models are shown to implement a smaller one: `Consensus` implements `FSpec` (the
nodes only ever sign children of their tip and append certified blocks), `Storage` implements
`LogSpec` (the durable log ends where `meta.bin` says), and `Ledger` implements `AtomicSpec`
(what build_block tries and accept_block refuses half-way leaves nothing behind).

### How the state corresponds to the code

* **Block.** A block hash commits to the parent hash, so a block is the sequence of
  `<<slot, proposer>>` pairs from genesis to itself: its length is its height, `Parent` drops
  the last pair. An honest leader makes one block per slot and parent, and its transactions
  do not matter to the engine. The certificate is not covered by the hash and is kept beside
  the block.
* **Node.** `chain[n]`, `certs[n]` are the committed blocks with the signers stored for them.
  The live map is a function of these (`LiveSet`): `live_record_signer` keeps the height of
  the last signature, and `genesisLive` says whether the entries the genesis block made are
  still there (a restart does not restore them).
* **Engine.** `pending[n]` is the `pending_t` table, oldest first; `reached` stands for
  `threshold_reached_ms`. `lock[n]` is `vote_block` (height and priority are read off it),
  `slotVoted[n]` the slot-vote ring, `clock[n]` and `pc[n]` the position of `slot_loop`,
  `built[n]` the block between `ac_chain_unlock` and `pthread_mutex_lock(&cs->mu)` in
  `slot_routine`.
* **Network.** `anns` and `votes` hold everything ever sent. A handler may take any of it at
  any time and again: loss, delay, duplication and reordering are all included. `anns` also
  stands for the stored blocks a node serves on HEADERS_REQ, so a node that has missed
  everything can be handed old blocks with their certificates (BLOCK_RES goes through
  `handle_block`), and a stop between the commit and the re-broadcast makes no difference.
* **Actions.** One per critical section: `StartSlot` and `StashBlock` (slot_routine before
  and after it takes `cs->mu`), `VoteForLowest`, `Reaffirm`, `NoVote` (the three outcomes of
  vote_phase), `SealPhase`, `MergeBlock` and `ReceiveBlock` (handle_block), `HandleVote`,
  `Crash`, `Restart`. `try_commit` is part of every action that calls it. Time shows up as
  nondeterminism: the grace window may or may not be over when `try_commit` is called again,
  and a block of the next slot is or is not "future" (the check has a tolerance of 500 ms).
* **Storage.** A block is again the history up to itself, and a state is named by the history
  it is the result of. The block files are a function from heights to blocks, `meta.bin` is
  the tip it names, `state.bin` the history of its state; the memory of the process has its
  own copies of tip and state. Every file write is one step (`ac_file_write_atomic` renames)
  and may fail, and the process may stop before each.
* **Ledger.** `state` is `c->state`, with three fields that only the properties use: what has
  been burned, whether one of the named irregular cases has happened, and which transactions
  were applied. `snap` is the serialised copy a roll-back restores, which is the state of the
  tip. `task`, `block`, `todo`, `gas`, `tips` are the loop that holds the chain lock. apply_tx
  copies the sender's account, changes other accounts in the state and writes the copy back
  last, and so does `ApplyTx`. Sums are taken modulo `Word`; a state root is the accounts and
  names it commits to. `refused` records that a block built on the tip was refused for its
  contents.
* **Mempool.** `pool` is `mp->entries`; `stage`, `leadSlot`, `taken` are slot_routine between
  its three calls, each of which takes the pool's lock for itself; `removing` is the loop of
  ac_mempool_remove after a commit, which runs when the chain lock is free again. `Add` needs
  the chain lock (`task = "idle"`), so it never sees a speculative state.
* **Seeds.** `cache` holds `cached_epoch` and `cached_seed`; a seed is named by the block it is
  taken from. The scan of compute_epoch_seed reads the block files of `Storage`. accept_block
  asks for the seed of the block's epoch first and clears the cache last, so a write that fails
  leaves the cache as it is; the callers outside accept_block may ask for any epoch.
* **Peers.** A slot has the fields of `peer_t`; a connection has a number that is also its
  descriptor and the name of its two threads. `rpc[c]` and `wpc[c]` are the positions of its
  reader and writer, `stage[c]` that of the thread that makes it (`peer_alloc`, then
  `pthread_create`, then `reader_started`), `at` and `seen` the connector with its reaper, `stop`
  and `stopAt` ac_net_stop. `overtaken`, `late` and `died` record the three races named below.
  The other nodes may send, stay silent or close at any time.
* **Gossip.** `queue[<<p, n>>]` is p's output queue for n with what is on the wire, `ring[n]` the
  dedup ring. dispatch_message takes the ring's lock twice, to look a payload up and to store
  it, and relays afterwards, so `Receive`, `Remember` and `Relay` are three steps of each
  reader. A link that is shut down loses what is queued and may be dialled again.
* **Isqrt.** One action for the iteration and one for each correction loop, with sums modulo
  the word.

### Abstractions and assumptions

Nodes follow the code. Signatures cannot be forged and hashes do not collide. Stakes and VRF
outcomes are constants in the models of the engine, so a behaviour stays within one validator
set; they are arbitrary in the proofs. That nodes with the same tip draw them from the same
seed is `SeedCurrent` of `Seeds`. A pending entry at or below the tip is committed or can never be
accepted; signers that arrive for it are not tracked. Where the order of table positions
would decide between blocks of equal priority, or between several sealable blocks in
`seal_phase`, the model allows each. Announcements carry well-formed blocks: the checks of
`accept_block` on contents (roots, gas, fee, VRF proof) always pass for blocks that honest
leaders build on the same parent: that is `BuiltBlocksFit` of `Ledger`.

`Ledger` has well-formed transactions only (valid signature, name and evidence; whether a
validator has signed two blocks is the constant `Equivocators`), and its `Refuse` also stands
for a certificate that is not good enough. `Mempool` leaves out a failing realloc and the
gossip of an accepted transaction; other leaders' pools are the constant `Candidates`.
`Storage` is the POSIX build, where rename replaces a file.

`Peers` leaves out a failing pthread_create, a descriptor number that the system hands out
again, and seeds given as host names (already_dialed compares the text of an address, so such a
peer may be dialled twice). `Gossip` knows links that are up or down; how they come and go is in
`Peers`.

## Runs

| Run | Instance | Checks |
|---|---|---|
| `consensus` | 2 nodes with weights 1 and 2, both lead slot 1, n1 leads slot 3, 3 slots, table of 1, n2 may stop in slot 2 and restart | `TypeOK`, `PendingExtendsTip`, `SignersGenuine`, `LockIsLowestVote`, `CommitsAnnounced`, `Accountability`, `ChainCertified`, `AppendOnly`, `FSpec` (refinement) |
| `consensus_sync` | 3 equal nodes, two leaders compete in slot 1, one leads slot 2, whose committee is smaller | `SealedInSlot`, `EventuallyFinal` |
| `consensus_fork` | 3 equal nodes, 2 slots | violates `Agreement` |
| `consensus_portable` | 3 nodes with weights 3, 2, 2, window 1 | violates `CertificatesPortable` |
| `storage` | 3 heights, two blocks of others and two of its own in slots 1 to 4, epochs of 2 slots, up to 4 failures | `ServesChain`, `DurableCommits`, `StateNotBehind`, `Intact`, `SeedCurrent`, `ImplementsLog` (refinement) |
| `storage_atomic` | the same | violates `AtomicCommit` |
| `ledger` | 2 users, 2 validators, the pool, 8 transactions of all kinds, 3 slots | `LTypeOK`, `AppliedOnce`, `BuiltBlocksFit`, `Conserved`, `NamesKept`, `ImplementsAtomic` (refinement) |
| `ledger_mint` | the same, with a validator that bonds its whole balance | violates `NoMint` |
| `mempool` | capacity 2, 5 transactions of 3 senders, 3 slots | `PoolOrdered`, `NothingCommitted`, `OneTxPerSender`, `DropsJustified` |
| `peers` | 2 slots, 2 connections, one node that dials us and is our seed, and one it names | `PTypeOK`, `OwnSlot`, `GivenUpJoined`, `LiveRouted`, `SlotRecovers`, `StopReturns` |
| `peers_stop` | the same with 3 connections | violates `StopJoinsAll` |
| `gossip` | a triangle of nodes, 2 messages, queues of 1, a ring of 4, one link that breaks | `GTypeOK`, `CallsBounded`, `HandledRemembered`, `Quiesces`, `Spreads` |

Bounds. `MaxSlot` ends a behaviour, so deadlock is not checked; two slots are enough for a
moved vote, a fork and a catch-up. In `consensus` the second slot has no leader and is the one
in which n2 may stop, so that n2 has lost its lock between two slots with proposals, and the
block of slot 3 may be a child of either forked block or their rival. `MaxSkew` 1 lets one
node be a slot ahead, which is what makes votes for future slots possible. `PendingMax` 1
(8 in the code) makes the table overflow with two proposals. With weights 1 and 2, n2 is a
quorum of its own: it seals blocks n1 has not heard of, and after it has lost its lock it can
seal another. `Window` 1 (16 in the code) makes validators leave the live set after one
block; with 16 the same happens to one that does not sign sixteen blocks in a row. `MayCrash`
is a set of pairs of a slot and a node that may stop in it once.

In `ledger` amounts, gas and fees are scaled down so that balances run out: a transfer that
creates an account, one that runs out of gas doing so, two that compete for a nonce, two for a
name, an expiry, a bond that leaves too little for the fee, an unbond of more than there is, a
slash. Blocks have at most two transactions and the gas limit is far away, as in the code, where
256 transactions of at most a few hundred gas meet a limit of 30,000,000 (`RoomAssumption`); at
the limit the two loops would differ (the gas for a new account is not in the leader's test).
`Conserved` excludes what `irregular` names: a fee cut to the balance, a price of gas that
wraps, a reward the pool cannot pay, a transfer to or a slash of oneself. In `mempool` a
capacity of 2 makes every kind of replacement and eviction happen within three slots. In
`storage` the bound on failures ends a behaviour; four allow a failed write, a stop, a failure
while the node is back and another stop.

In `peers` two connections are enough for a node that dials while it is dialled, a slot that is
used again, and the races `overtaken` and `late`; `died` needs a third. `peers_stop` has three
because with two the reader that dials during the stop is in slot 1, and the joining loop waits
for it before it comes to the slot it has taken. In `gossip` queues of one message overflow at
once, and the ring holds every message as often as the two readers of a node can store it; the
results are about a window of messages that fits the ring (256 in the code), since an older
message is handled again. `MaxBreaks` 1 is the number of links the triangle can lose for good
and stay connected.

Fairness. `SyncSpec` assumes weak fairness of its next-state relation only: some thread runs as
long as there is work. Each message can be handled with effect a bounded number of times and the
clock is bounded, so no thread can starve the others. The deadlines themselves (`OnTime`) are
the assumption the constants `AC_VOTE_DELAY_MS` and `AC_SEAL_GRACE_MS` are chosen for: proposals
reach everybody before the vote phase, votes before the seal phase. `PSpec` has weak fairness of
every thread of the node: one that is not waiting for another thread or for a remote node goes
on. Nothing is assumed of remote nodes, so a reader may wait in recv for ever; what makes
`SlotRecovers` and `StopReturns` hold is that a shut-down socket ends recv. `GSpec` has weak
fairness of every reader that has something to read; it stands for the reader and for the writer
at the other end, and nothing is assumed of reconnection.

### Disagreements between code and comments

* `consensus_fork`. The comments in vote_phase and validate_commit say at most one block is
  final per height. n1 and n2 vote for the block of slot 1 and n1 seals it. n2 has not sealed
  it (it waits for n1's vote or for the grace window) when a block of slot 2 with a lower
  priority value arrives; n2 moves its vote, and n2 and n3 seal that block. The floor of one
  half makes two quorums intersect, but a validator in the intersection may have moved. What
  does hold is `Accountability`: a fork always leaves a validator that signed both blocks.
* `consensus_portable`. The comment in try_commit_inner says that a block one node seals is
  not rejected by the others. Two nodes that seal the same block at different moments store
  different certificates, so their live sets differ, and the certificate of the next block
  may be enough for one and not for the other. The latter has to wait for further votes.
* `storage_atomic`. TECHNICAL-IMPLEMENTATION.md says that block, state and meta are persisted
  atomically. They are three renames; a stop between the second and the third reopens with
  the state of a block the chain does not have, and nothing compares the two.
* `ledger_mint`. SECURITY-AUDIT.md (I-5) says that nothing is minted outside the emission. The
  fee of a transaction whose body spent the balance is cut to what is left, but the proposer
  is credited with the whole tip.

* `peers_stop`. TECHNICAL-IMPLEMENTATION.md (line 199) and the comment in ac_node_stop say that
  ac_net_stop joins every reader and that no callback can fire afterwards. A reader whose
  neighbour's HELLO named another peer is inside dial_peer while ac_net_stop shuts the open
  connections down; it takes a slot the joining loop has passed, or finishes one the sweep found
  without a descriptor, and a new reader runs when ac_net_stop has returned. `OwnSlot`,
  `GivenUpJoined`, `LiveRouted` and `StopReturns` hold with this one case (`late`) excepted.

Met while modelling and not a run of their own:

* TECHNICAL-IMPLEMENTATION.md says the pool is pruned once per slot; slot_routine returns before
  it when the node does not lead the slot.
* net.c:759 says that both threads of a connection are always joined. The creator stores
  reader_started after pthread_create; when the reader has ended before that and the reaper
  comes by in between, the slot is released without joining the reader, and the flag is then
  stored in a slot that is free or somebody else's, where it makes a later join wait for a
  thread that does not exist (`overtaken`, `died`).
* The newest connection of a peer wins (net.c:543). Two nodes that have each other as seeds,
  and whose outbound connection the other's newer one replaces, each see fewer outbound
  connections than seeds and dial again; `LiveRouted` says what survives is used, not that it
  lasts.
* SECURITY-AUDIT.md (line 170) calls the dedup ring an LRU ring that records every broadcast
  payload. It is overwritten in order of arrival, a node's own broadcasts are not in it, and
  two readers may both miss one message: a node handles a message once for each neighbour at
  most (`CallsBounded`), not once.
* PROTOCOL.md (line 360) says the base fee moves by 12.5% per block at most. The step is at
  least one, so below a fee of 8 it is more (`BaseFeeMoves` has the exact bound). PROTOCOL.md
  (line 245) takes the epoch seed from the header of the slot before the epoch; the code takes
  the last block before the epoch, whatever its slot.
* TECHNICAL-IMPLEMENTATION.md (line 281) says to take the chain's mutex before the engine's. The
  code takes them the other way round, everywhere, which is as good.

## Proofs

All theorems hold for every finite set of nodes, all stakes, leaders, committees, priorities,
table sizes, windows and bounds that satisfy the named assumptions `WeightAssumption`,
`FinalityAssumption`, `ConsensusAssumption`, `StorageAssumption`, `SeedsAssumption`,
`LedgerAssumption`, `MempoolAssumption`, `PeersAssumption` and `GossipAssumption` (finiteness and
types; that of the ledger also says that nonces stay below 2^64 - 1). Two more are about the
ledger's numbers: `RoomAssumption` says that a block full of the dearest transactions stays below
the gas limit and is used for `BuiltBlocksFit` and `ImplementsAtomic`; `SupplyAssumption` says
that the genesis supply is below 2^64 and is used for `Conserved`. TLC evaluates all of them on
the instances.

A proof module may hold the theorems of several small models. The time tlapm needs for a step
grows with everything the module extends, so the larger models have modules of their own, and
`Mempool` and the proofs define the few operators and facts on sequences that they need instead
of extending the libraries.

* `ConsensusProofs`, first part (`Finality`). A sum of weights is the number of stake units, so
  two sets that pass the floor are two majorities of the units and share one: they have a common
  signer (`FS_MajoritiesIntersect`). With the invariant `FTypeOK /\ ChainCertified` this gives
  `ChainsCertified`, `ForksAreAccountable` and `ChainsAppendOnly`.
* `ConsensusProofs`, second part (`Consensus`). The inductive invariant `CInv` adds to the
  checked invariants that a pending or built block is never above the next height, and at that
  height is a child of the tip (`PendingSound`, `BuiltSound`: needed because vote_phase does not
  look at parents), and that the lock is never above the next height (`LockHeight`: needed
  because after a commit a vote at a greater height must not be compared with an old lock). One
  lemma per action shows that it is preserved. From it follow `EngineTypes`, `VotesExtendTip`,
  `VotesOnlyMoveDown`, `SignersAreGenuine`, `CommitsAreAnnounced`; and every step of the engine
  is a step of `Finality` (`EngineImplementsFinality`), so `EngineForksAccountable` and
  `EngineAppendOnly` come from the abstract theorems.
* `NodeProofs`, second part (`Storage`). The inductive invariant `SInv` says what the files and
  the memory may hold at every point of genesis and of accept_block: the block files up to the
  tip of `meta.bin` and of the memory are those tips' histories, and away from the named moments
  tip and state agree (`Agree`). It gives `ServesChainHolds`, `DurableCommitsHolds`,
  `StateNotBehindHolds` and `IntactHolds` for any number of failures. `StorageImplementsLog`:
  every step maps to a step of the log or leaves it alone; the files up to `meta.bin` are needed
  for the restart, which must come back with exactly what was durable.
* `NodeProofs`, last part (`Seeds`). `EInv` adds to `SInv` that while a block is accepted the
  cache is of that block's epoch (`CacheOfBlock`): it is why a failed write that has moved the
  height leaves a valid seed behind, since a block never comes before its own epoch. The main
  lemma is that the scan finds the last block before the epoch and that appending a block of that
  epoch or a later one does not change it. It gives `SeedCurrentHolds`; `SeedsRunStorage` says
  that the chain with its cache is a behaviour of `Storage`, so the theorems on `Storage` hold of
  it.
* `LedgerProofs`. One lemma per kind of transaction says that its body keeps every field in 64
  bits, moves no nonce and takes no name away; `ApplyTxOK` adds the nonce and the fee. The
  inductive invariant `LInv` says, of the speculative state and of the snapshot, that whatever
  was applied has a nonce below the sender's and was applied once, and that the speculative state
  has every name of the snapshot: needed because a commit makes the one the other. It gives
  `LedgerTypes`, `AppliedOnceHolds` and `NamesKeptHolds`. `BaseFeeMoves` is about
  ac_chain_next_base_fee alone, for every fee and gas use; a product that wraps only makes the
  step smaller.
* `LedgerBlocksProofs`. `Run` is the execution of a list of transactions as a function of how
  many have been applied; that this recursive function satisfies its equation (`RunEquation`) is
  proved by building it up one index at a time. The inductive invariant `BlockInv` says where
  each loop is on it: while a block is built, the state, gas and tips are those of `Run` on what
  the block has so far, and what is still to come cannot reach the gas limit (`Building`); while
  it is accepted, they are those of `Run` on the part already applied (`Accepting`); and what was
  proposed runs to its end with the gas and the root of its header (`Proposes`). The loops agree
  because `Run` on a list says nothing about what follows in it (`RunPrefix`). This gives
  `BuiltBlocksFitHolds`. `LedgerImplementsAtomic` uses it for the only step that moves the tip:
  at `Commit` the state is that of the whole block, and the transactions of the block are what
  the ledger records between the two tips.
* `SupplyProofs`. `Total` is a sum over the accounts. `TotalUpdate` says that changing one
  account changes the sum by the difference, by induction on the size of the set; every kind of
  transaction and the payment of the proposer is then one or two updates. The inductive invariant
  `SupplyInv` adds the tips that were taken from senders and not yet paid out (needed because
  they are nobody's while a block is under way). From it and `SupplyAssumption` the sum, and so
  every balance, stays below 2^64 until something irregular happens, which is why no addition
  wraps (`SupplyBound`). It gives `ConservedHolds`.
* `PoolProofs`: the pool as an array. Removing an entry, pruning and eviction keep the order
  because they thin the sequence out (`ThinsOrderly`), and inserting puts the newcomer behind all
  that precede it (`InsertOrderly`). `AddOutcome` says what a submission may do to the pool.
* `MempoolProofs`: the pool with the ledger. The inductive invariant `MInv` has four parts.
  `OnTip`: nonces of the speculative state are not behind those of the tip, and what a block has
  applied is in the ledger or in the block. `InPool`: the pool is ordered, and no entry, and
  nothing in a snapshot that was taken from it, has a nonce ahead of the ledger's; this is
  admission at the time of `Add`, and it stays true because nonces only grow. `Leaving`: an entry
  that is in the ledger is still to be removed. `OwnWork`: a sender that is in this validator's
  block has a nonce in the speculative state beyond every nonce left, so no second transaction of
  it can fit. It gives `PoolOrderedHolds`, `NothingCommittedHolds`, `OneTxPerSenderHolds` and
  `DropsJustifiedHolds`, for any capacity, clock, submissions and blocks of other leaders.
* `PeersProofs`. The inductive invariant `PInv` says who holds a slot: a running reader has its
  slot in use, under its own handle and descriptor; a running writer has it in use under its own
  handle; a slot that was allocated and has no threads yet belongs to one maker (`Held`).
  `Reaping` says that the slot the reaper has looked at is still the one it joins and releases
  after it dropped the lock: nobody else releases a slot, and the ended connection's reader does
  not touch it again. It gives `PeersTypes`, `OwnSlotHolds`, `GivenUpJoinedHolds`,
  `LiveRoutedHolds`.
* `NodeProofs`, first part (`Gossip`). `GInv` counts with sets: the ring of a node has no more
  entries than pairs of a neighbour and a message that this neighbour's reader has stored
  (`StoredOnce`), so with a ring that has a place for each pair nothing is ever overwritten, and
  a reader never stores a message twice; the calls with a message are no more than the neighbours
  whose reader has handled it (`HandledOnce`). It gives `CallsBoundedHolds` and
  `HandledRememberedHolds` for such rings (`RingLarge`) and `GossipTypes` for all.
* `ConsensusProofs`, last part (`Isqrt`). The iterate never goes below the root (the arithmetic
  mean is not below the geometric one, lemma `StaysAbove`) and no sum reaches the word, so the
  result is exact (`RootIsExact`), nothing wraps (`SumsDoNotWrap`) and the loops after the
  iteration have nothing to correct (`CorrectionsAreIdle`), for words of any width. TLC has
  explored it with words of 10 bits (`SqrtMax` = 31); it is not one of the runs.

Only model-checked: `EventuallyFinal`, `SlotRecovers`, `StopReturns`, `Quiesces`, `Spreads`
(liveness under fairness is outside what the prover does), and `SealedInSlot`, which is a safety
property of the instance: it holds when the pending table has room for all leaders of a slot and
the committee of a slot together passes both gates, and would have to be proved from such
assumptions on leaders and committees, which the VRF only makes likely.

Induction over data. The library's induction theorems take a predicate as a parameter and cannot
be used; `LeastNatural` and `CountsUp` in `LedgerProofs` state induction over the natural numbers
for sets instead, and the proofs above put the claim into a set. The models' recursive functions
(`Run`, `Unexpired`) and the library's fold in `Total` are shown to satisfy their equations this
way.

## Not modelled

* Byte layouts, framing and the text of HELLO; HTTP and JSON; key files; printing; the command
  line: conversions that no property here is about. What a hash and a signature cover is in
  `Finality`.
* The cryptographic library: assumed.
* Start and stop of the node (node.c) and the thread of the RPC server. Two hazards are listed
  with them: ac_node_stop frees the network before it stops the slot thread that sends through
  it, and ac_rpc_stop waits for a client that is connected and silent.
* The address and transaction indexes of the chain, which only RPC reads use.
* The Windows build's replacement of a file, which removes it first.
* The limit of 256 entries of the live map, which needs more validators than a run can hold.
* Liveness of the engine after a slot has missed its deadlines: seal_phase only forces blocks of
  its own slot, and when a later message comes is not bounded by the code.
