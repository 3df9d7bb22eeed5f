------------------------------- MODULE Mempool -------------------------------
(***************************************************************************)
(* The transaction pool of a validator (mempool.c) with the ledger it      *)
(* checks against: clients and peers submit transactions, the slot thread  *)
(* takes a snapshot, prunes and builds a block, the engine commits blocks  *)
(* of this and of other leaders and then removes their transactions.       *)
(*                                                                         *)
(* ac_mempool_add runs under the chain lock, so its view of the accounts   *)
(* is that of the tip; snapshot, prune and remove take the pool's own lock *)
(* only, one call each.                                                    *)
(***************************************************************************)
EXTENDS Ledger, Functions

CONSTANTS
  Me,          \* this validator
  Capacity,    \* AC_MEMPOOL_CAPACITY
  SnapshotMax  \* the 256 of slot_routine

ASSUME MempoolAssumption ==
  /\ Me \in Addr
  /\ Capacity \in Nat \ {0} /\ SnapshotMax \in Nat

VARIABLES
  pool,      \* mp->entries: transactions with their added_slot
  now,       \* the wall-clock slot
  stage,     \* where slot_routine is
  leadSlot,  \* the slot it is in or was in last
  taken,     \* its snapshot
  removing,  \* transactions of a committed block still to be removed
  own        \* the block being built or built last is this validator's own

pvars == <<pool, now, stage, leadSlot, taken, removing, own>>

Entry == [tx : Tx, slot : Nat]

MInit ==
  /\ LInit
  /\ pool = << >> /\ now = 1
  /\ stage = "wait" /\ leadSlot = 0 /\ taken = << >>
  /\ removing = << >>
  /\ own = FALSE

-----------------------------------------------------------------------------
(* The array of entries *)

\* The linear scans: the first of the indices that pass the test, or 0.
FirstMatch(hits) == IF hits # {} THEN Min(hits) ELSE 0

\* The entries from i on move down, those behind i move up.
InsertAt(s, i, e) == SubSeq(s, 1, i - 1) \o <<e>> \o SubSeq(s, i, Len(s))
RemoveAt(s, i) == SubSeq(s, 1, i - 1) \o SubSeq(s, i + 1, Len(s))

RemoveFirstMatch(s, hits) ==
  LET i == FirstMatch(hits)
  IN  IF i # 0 THEN RemoveAt(s, i) ELSE s

-----------------------------------------------------------------------------
(* ac_mempool_add *)

Rivals(e, tx) == e.tx.sender = tx.sender /\ e.tx.nonce = tx.nonce

\* Variant: a later nonce may wait in the pool.
AdmitsGap(tx) ==
  LET a == state.acct[tx.sender]
      value == IF tx.kind = "transfer" THEN tx.amount ELSE 0
  IN  /\ now < tx.until
      /\ tx.limit >= Gas[tx.kind]
      /\ tx.nonce >= a.nonce
      /\ a.balance >= (tx.limit * (MinBaseFee + tx.tip) + value) % Word

\* The checks against slot, gas and the sender's account.
Admits(tx) ==
  LET a == state.acct[tx.sender]
      value == IF tx.kind = "transfer" THEN tx.amount ELSE 0
  IN  /\ now < tx.until
      /\ tx.limit >= Gas[tx.kind]
      /\ tx.nonce = a.nonce
      /\ a.balance >= (tx.limit * (MinBaseFee + tx.tip) + value) % Word

\* Variant: in front of the entries with the same tip.
InsertFirst(s, e) ==
  LET lower == FirstMatch({i \in 1 .. Len(s) : s[i].tx.tip <= e.tx.tip})
  IN  InsertAt(s, IF lower = 0 THEN Len(s) + 1 ELSE lower, e)

\* mp_insert: in front of the first entry with a lower tip.
Insert(s, e) ==
  LET lower == FirstMatch({i \in 1 .. Len(s) : s[i].tx.tip < e.tx.tip})
  IN  InsertAt(s, IF lower = 0 THEN Len(s) + 1 ELSE lower, e)

\* An entry of the same sender and nonce gives way to a higher tip. In a full pool the
\* last entry does; the newcomer is dropped when it does not beat that one.
Add(tx) ==
  /\ task = "idle"
  /\ Admits(tx)
  /\ \A i \in 1 .. Len(pool) : Rivals(pool[i], tx) => tx.tip > pool[i].tx.tip
  /\ LET kept == RemoveFirstMatch(pool, {i \in 1 .. Len(pool) : Rivals(pool[i], tx)})
         full == Len(kept) >= Capacity
         room == IF full THEN SubSeq(kept, 1, Len(kept) - 1) ELSE kept
     IN  pool' = IF full /\ kept[Len(kept)].tx.tip >= tx.tip
                 THEN kept
                 ELSE Insert(room, [tx |-> tx, slot |-> now])
  /\ UNCHANGED <<lvars, now, stage, leadSlot, taken, removing, own>>

-----------------------------------------------------------------------------
(* slot_routine: snapshot, prune, build *)

Tick ==
  /\ now < MaxSlot
  /\ now' = now + 1
  /\ UNCHANGED <<lvars, pool, stage, leadSlot, taken, removing, own>>

\* This validator leads the slot and takes the first entries.
Snapshot ==
  /\ stage = "wait" /\ now > leadSlot
  /\ leadSlot' = now
  /\ taken' = [i \in 1 .. Min({Len(pool), SnapshotMax}) |-> pool[i].tx]
  /\ stage' = "prune"
  /\ UNCHANGED <<lvars, pool, now, removing, own>>

\* The loop of ac_mempool_prune_expired: the entries that are valid beyond the slot, in
\* their order.
Unexpired(s, slot) ==
  LET kept[r \in 0 .. Len(s)] ==
        IF r = 0 THEN << >>
        ELSE IF s[r].tx.until <= slot THEN kept[r - 1] ELSE Append(kept[r - 1], s[r])
  IN  kept[Len(s)]

\* Variant: entries of the next slot are pruned as well.
PruneEarly ==
  /\ stage = "prune"
  /\ pool' = Unexpired(pool, leadSlot + 1)
  /\ stage' = "build"
  /\ UNCHANGED <<lvars, now, leadSlot, taken, removing, own>>

PruneExpired ==
  /\ stage = "prune"
  /\ pool' = Unexpired(pool, leadSlot)
  /\ stage' = "build"
  /\ UNCHANGED <<lvars, now, leadSlot, taken, removing, own>>

\* ac_chain_build_block on the snapshot. (Bound, as in LNext: a block for a slot the tip
\* already has is not built.)
BuildOwn ==
  /\ stage = "build" /\ task = "idle"
  /\ stage' = "wait" /\ taken' = << >>
  /\ IF leadSlot > lastSlot /\ Validator(Me)
     THEN BeginBuild(Me, leadSlot, taken) /\ own' = TRUE
     ELSE UNCHANGED <<lvars, own>>
  /\ UNCHANGED <<pool, now, leadSlot, removing>>

\* A block another leader built on this tip from its own pool.
BuildOther ==
  /\ now > lastSlot
  /\ \E p \in Addr \ {Me}, txs \in Candidates : BeginBuild(p, now, txs)
  /\ own' = FALSE
  /\ UNCHANGED <<pool, now, stage, leadSlot, taken, removing>>

-----------------------------------------------------------------------------
(* try_commit_inner: accept the block, then remove its transactions *)

\* Variant: the pool is not told of a committed block.
CommitOnly ==
  /\ Commit
  /\ UNCHANGED pvars

CommitBlock ==
  /\ Commit
  /\ removing' = block.txs
  /\ UNCHANGED <<pool, now, stage, leadSlot, taken, own>>

\* ac_mempool_remove of the next transaction. The engine's lock is still held: no other
\* block can be accepted before the last one.
RemoveTx ==
  /\ removing # << >>
  /\ pool' = RemoveFirstMatch(pool, {i \in 1 .. Len(pool) : pool[i].tx = Head(removing)})
  /\ removing' = Tail(removing)
  /\ UNCHANGED <<lvars, now, stage, leadSlot, taken, own>>

\* The steps of the ledger under the chain lock.
LedgerStep ==
  /\ \/ BuildTx \/ SkipTx \/ EndBuild \/ AcceptTx \/ Refuse
     \/ removing = << >> /\ BeginAccept
  /\ UNCHANGED pvars

MNext ==
  \/ \E tx \in Tx : Add(tx)
  \/ Tick
  \/ Snapshot \/ PruneExpired \/ BuildOwn \/ BuildOther
  \/ LedgerStep \/ CommitBlock \/ RemoveTx

MSpec == MInit /\ [][MNext]_<<lvars, pvars>>

-----------------------------------------------------------------------------
\* The pool never exceeds its capacity, is sorted by tip and, within a tip, by arrival, and
\* holds one entry per sender and nonce, whatever was replaced, evicted, removed and pruned
\* in between (mp_insert and ac_mempool_add keep it so without ever sorting).
PoolOrdered ==
  /\ pool \in Seq(Entry) /\ Len(pool) <= Capacity
  /\ \A i, j \in 1 .. Len(pool) : i < j =>
       /\ pool[i].tx.tip >= pool[j].tx.tip
       /\ pool[i].tx.tip = pool[j].tx.tip => pool[i].slot <= pool[j].slot
       /\ ~Rivals(pool[i], pool[j].tx)

\* Once the engine is done with a block, nothing that is in the ledger is in the pool, and no
\* repeated submission brings it back (the nonce check of add against removal after commit).
NothingCommitted ==
  removing = << >> =>
    \A i \in 1 .. Len(pool), k \in 1 .. Len(snap.applied) : pool[i].tx # snap.applied[k]

\* A block this validator builds has at most one transaction of each sender: the pool admits
\* no nonce ahead of the account, and of two that are left only one is not used up.
OneTxPerSender ==
  own /\ task # "accept" =>
    \A b \in {block} \cup {proposal[i].block : i \in 1 .. Len(proposal)} :
      b # << >> => \A i, j \in 1 .. Len(b.txs) : b.txs[i].sender = b.txs[j].sender => i = j

\* An entry leaves the pool only for a reason: a strictly higher tip takes its place (of the
\* same sender and nonce, or in a full pool of which it is the last entry), it has expired,
\* or a committed block contains it. And at most one entry makes room for a newcomer.
DropsJustified ==
  [][LET Left == {i \in 1 .. Len(pool) : pool[i] \notin Range(pool')}
         New == Range(pool') \ Range(pool)
     IN  /\ New # {} => \A i, j \in Left : i = j
         /\ \A i \in Left :
              \/ \E e \in New : /\ e.tx.tip > pool[i].tx.tip
                                /\ Rivals(e, pool[i].tx) \/ (i = Len(pool) /\ i = Capacity)
              \/ pool[i].tx.until <= now
              \/ \E k \in 1 .. Len(snap.applied) : snap.applied[k] = pool[i].tx]_<<lvars, pvars>>
=============================================================================
