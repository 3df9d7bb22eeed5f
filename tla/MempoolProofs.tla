--------------------------- MODULE MempoolProofs ----------------------------
(***************************************************************************)
(* The pool for any capacity, transactions, clock and blocks of others:    *)
(* its order, what leaves it and why, and the blocks built from it.        *)
(***************************************************************************)
EXTENDS PoolProofs

\* Time limits for the provers, in seconds.
USE SMTT(30), ZenonT(30)

-----------------------------------------------------------------------------
(* The inductive invariant *)

\* No account of new is behind that of old.
NoncesGrow(old, new) == \A a \in Addr : old.acct[a].nonce <= new.acct[a].nonce

\* Between the tip and the end of a block: what has been applied comes from the ledger or
\* from the block, and what is in the block has been applied or is still to come.
Handled(old, new, b, left) ==
  /\ Range(new.applied) \subseteq Range(old.applied) \cup Range(b.txs)
  /\ Range(left) \subseteq Range(b.txs)
  /\ Range(b.txs) \subseteq Range(left) \cup Range(new.applied)

\* The tip and what is built or accepted on it.
OnTip ==
  /\ LInv
  /\ NoncesGrow(snap, state)
  /\ task = "idle" => state = snap /\ block = << >>
  /\ proposal = << >> \/ Len(proposal) = 1
  /\ task = "accept" => Handled(snap, state, block, todo)

\* What is in the ledger and in the pool is about to be removed.
Leaving ==
  /\ removing \in Seq(Tx)
  /\ Range(removing) \subseteq Range(snap.applied)
  /\ \A e \in Range(pool) : e.tx \in Range(snap.applied) => e.tx \in Range(removing)
  /\ task = "accept" => removing = << >>

OnePerSender(txs) ==
  \A i, j \in 1 .. Len(txs) : txs[i].sender = txs[j].sender => i = j

\* A block of this validator: a sender that is in it has left the nonces of the rest behind.
OwnBlock(old, new, b, left) ==
  /\ \A tx \in Range(left) : NotAhead(old, tx)
  /\ \A tx \in Range(b.txs) : old.acct[tx.sender].nonce < new.acct[tx.sender].nonce
  /\ OnePerSender(b.txs)

OwnWork ==
  /\ own \in BOOLEAN
  /\ own /\ task = "build" => OwnBlock(snap, state, block, todo)
  /\ own /\ proposal # << >> => OnePerSender(proposal[1].block.txs)

MInv == OnTip /\ InPool /\ Leaving /\ OwnWork

\* The committed transactions are a sequence of transactions.
LEMMA AppliedTypes ==
  ASSUME LInv
  PROVE  /\ snap.applied \in Seq(Tx)
         /\ DOMAIN snap.applied = 1 .. Len(snap.applied)
<1>1. snap \in LState
  BY InvTypes, Zenon
<1>2. snap.applied \in Seq(Tx)
  BY <1>1 DEF LState
<1> QED
  BY <1>2

\* Nonces are numbers.
LEMMA NonceTypes == \A st \in LState, a \in Addr : st.acct[a].nonce \in Int
<1>1. \A x \in U64 : x \in Int
  BY CostTypes DEF U64, Costs
<1> QED
  BY <1>1, AcctOf, AccountTypes

\* The order of nonces, from step to step.
LEMMA NoncesTrans ==
  ASSUME NEW r \in LState, NEW s \in LState, NEW t \in LState, NoncesGrow(r, s), NoncesGrow(s, t)
  PROVE  NoncesGrow(r, t)
<1> SUFFICES ASSUME NEW a \in Addr
             PROVE  r.acct[a].nonce <= t.acct[a].nonce
  BY DEF NoncesGrow
<1>1. r.acct[a].nonce \in Int /\ s.acct[a].nonce \in Int /\ t.acct[a].nonce \in Int
  BY NonceTypes
<1>2. r.acct[a].nonce <= s.acct[a].nonce /\ s.acct[a].nonce <= t.acct[a].nonce
  BY DEF NoncesGrow
<1> QED
  BY <1>1, <1>2

\* Nothing happened.
LEMMA NoncesSame ==
  ASSUME NEW r \in LState
  PROVE  NoncesGrow(r, r)
  BY NonceTypes DEF NoncesGrow

\* A transaction that has been reached stays so.
LEMMA ReachedStays ==
  ASSUME NEW r \in LState, NEW s \in LState, NoncesGrow(r, s), NEW tx \in Tx, NotAhead(r, tx)
  PROVE  NotAhead(s, tx)
<1>1. tx.sender \in Addr /\ tx.nonce \in Nat
  BY TxTypes DEF TxOK
<1>2. r.acct[tx.sender].nonce \in Int /\ s.acct[tx.sender].nonce \in Int
  BY <1>1, NonceTypes
<1>3. r.acct[tx.sender].nonce <= s.acct[tx.sender].nonce
  BY <1>1 DEF NoncesGrow
<1> QED
  BY <1>1, <1>2, <1>3 DEF NotAhead

\* What the payment of the proposer leaves alone.
LEMMA PaidFollows ==
  ASSUME LInv, task # "idle"
  PROVE  Follows(state, Paid)
<1>1. block.proposer \in Addr /\ block.height \in Nat
  BY DEF LInv, LBlock
<1>2. BlockReward(block.height) \in Nat /\ tips \in Nat /\ state \in LState
  BY <1>1, RewardType, InvTypes, Zenon
<1> QED
  BY <1>1, <1>2, PayProposerOK DEF Paid

\* The next transaction is applied: what changes.
LEMMA TakenTx ==
  ASSUME LInv, task # "idle", todo # << >>,
         Fits(state, Head(todo), block.slot, block.fee), TakeTx
  PROVE  /\ Head(todo) \in Tx /\ Head(todo).nonce = state.acct[Head(todo).sender].nonce
         /\ Advances(state, Head(todo), state') /\ NoncesGrow(state, state')
         /\ Range(state'.applied) = Range(state.applied) \cup {Head(todo)}
         /\ Range(todo) = {Head(todo)} \cup Range(todo')
<1> DEFINE tx == Head(todo)
<1>1. tx \in Tx /\ todo \in Seq(Tx) /\ state \in LState /\ state' \in LState
  <2>1. LTypeOK' /\ tx \in Tx
    BY TakeTxOK, Zenon
  <2>2. state' \in LState
    BY <2>1, Zenon DEF LTypeOK
  <2> QED
    BY <2>1, <2>2, InvTypes, Zenon
<1>2. block.slot \in Nat /\ block.fee \in Nat
  BY DEF LInv, LBlock
<1>3. state' = ApplyTx(state, tx, block.slot, block.fee).st /\ todo' = Tail(todo)
  BY DEF TakeTx
<1>4. Fits(state, tx, block.slot, block.fee)
  OBVIOUS
<1>5. Range(todo) = {tx} \cup Range(todo')
  BY <1>1, <1>3, SetHeadTail
<1> HIDE DEF tx
<1>6. Advances(state, tx, state') /\ tx.nonce = state.acct[tx.sender].nonce
  BY <1>1, <1>2, <1>3, <1>4, ApplyTxOK, FitsPays
<1>7. NoncesGrow(state, state')
  <2> SUFFICES ASSUME NEW a \in Addr
               PROVE  state.acct[a].nonce <= state'.acct[a].nonce
    BY DEF NoncesGrow
  <2>1. state.acct[a].nonce \in Int
    BY <1>1, NonceTypes
  <2>2. CASE a = tx.sender
    BY <1>6, <2>1, <2>2 DEF Advances
  <2>3. CASE a # tx.sender
    BY <1>6, <2>1, <2>3 DEF Advances
  <2> QED
    BY <2>2, <2>3
<1>8. Range(state'.applied) = Range(state.applied) \cup {tx}
  BY <1>1, <1>6, SetAppend DEF Advances, LState
<1> QED
  BY <1>1, <1>5, <1>6, <1>7, <1>8 DEF tx

\* A committed block: its transactions are in the ledger, and nothing else is new.
LEMMA CommittedSets ==
  ASSUME OnTip, Commit
  PROVE  /\ Range(snap'.applied) \subseteq Range(snap.applied) \cup Range(block.txs)
         /\ Range(block.txs) \subseteq Range(snap'.applied)
         /\ NoncesGrow(snap, snap') /\ snap' = state'
<1>1. task = "accept" /\ todo = << >> /\ snap' = Paid /\ state' = Paid
  BY DEF Commit, End
<1>2. Follows(state, Paid) /\ Handled(snap, state, block, todo)
  BY <1>1, PaidFollows DEF OnTip
<1>3. Range(todo) = {}
  BY <1>1 DEF Range
<1>4. Paid.applied = state.applied
  BY <1>2 DEF Follows
<1>5. NoncesGrow(snap, Paid)
  BY <1>2 DEF OnTip, NoncesGrow, Follows
<1> QED
  BY <1>1, <1>2, <1>3, <1>4, <1>5 DEF Handled

\* The end of a task that is rolled back.
LEMMA OnTipEnd ==
  ASSUME OnTip, LInv', End(snap), proposal' = << >> \/ Len(proposal') = 1
  PROVE  OnTip' /\ snap' = snap
<1>1. state' = snap /\ snap' = snap /\ task' = "idle" /\ block' = << >>
  BY DEF End
<1>2. snap' \in LState
  BY Zenon DEF LInv, LTypeOK
<1>3. NoncesGrow(snap', state')
  BY <1>1, <1>2, NoncesSame, Zenon
<1> QED
  BY <1>1, <1>3 DEF OnTip

\* The ledger's steps keep the tip and what is on it in line.
LEMMA OnTipStep ==
  ASSUME OnTip, [LStep]_lvars
  PROVE  /\ OnTip'
         /\ NoncesGrow(snap, snap')
         /\ snap' = snap \/ Commit
<1>0. LInv /\ LInv' /\ snap \in LState /\ state \in LState /\ snap' \in LState /\ state' \in LState
  <2>1. LInv /\ LInv'
    BY LStepOK, Zenon DEF OnTip
  <2> QED
    BY <2>1, Zenon DEF LInv, LTypeOK
<1>1. NoncesGrow(snap, snap) /\ NoncesGrow(snap, state)
  BY <1>0, NoncesSame DEF OnTip
<1>2. ASSUME NEW p \in Addr, NEW slot \in Nat, NEW txs \in Seq(Tx), BeginBuild(p, slot, txs)
      PROVE  OnTip' /\ snap' = snap
  <2>1. task' = "build" /\ proposal' = << >> /\ state' = state /\ snap' = snap
    BY <1>2 DEF BeginBuild, Begin
  <2> QED
    BY <1>0, <1>1, <2>1 DEF OnTip
<1>3. CASE BuildTx
  <2>1. /\ task = "build" /\ todo # << >> /\ Fits(state, Head(todo), block.slot, block.fee)
        /\ TakeTx /\ UNCHANGED <<snap, task, proposal>>
    BY <1>3 DEF BuildTx, Keeps, TakeTx
  <2>2. NoncesGrow(state, state')
    BY <1>0, <2>1, TakenTx
  <2>3. NoncesGrow(snap', state')
    BY <1>0, <1>1, <2>1, <2>2, NoncesTrans
  <2> QED
    BY <1>0, <1>1, <2>1, <2>3 DEF OnTip
<1>4. CASE SkipTx
  <2>1. task = "build" /\ UNCHANGED <<state, snap, task, proposal>>
    BY <1>4 DEF SkipTx
  <2> QED
    BY <1>0, <1>1, <2>1 DEF OnTip
<1>5. CASE EndBuild
  <2>1. End(snap) /\ Len(proposal') = 1
    BY <1>5 DEF EndBuild
  <2> QED
    BY <1>0, <1>1, <2>1, OnTipEnd
<1>6. CASE BeginAccept
  <2>1. /\ task = "idle" /\ task' = "accept" /\ block' = proposal[1].block
        /\ todo' = proposal[1].block.txs /\ UNCHANGED <<state, snap, proposal>>
    BY <1>6 DEF BeginAccept, Begin
  <2>2. state = snap /\ todo' = block'.txs
    BY <2>1 DEF OnTip
  <2>3. Handled(snap', state', block', todo')
    BY <2>1, <2>2 DEF Handled
  <2> QED
    BY <1>0, <1>1, <2>1, <2>3 DEF OnTip
<1>7. CASE AcceptTx
  <2>1. /\ task = "accept" /\ todo # << >> /\ Fits(state, Head(todo), block.slot, block.fee)
        /\ TakeTx /\ UNCHANGED <<snap, task, proposal, block>>
    BY <1>7, Zenon DEF AcceptTx, Valid, TakeTx
  <2>2. /\ NoncesGrow(state, state')
        /\ Range(state'.applied) = Range(state.applied) \cup {Head(todo)}
        /\ Range(todo) = {Head(todo)} \cup Range(todo')
    BY <1>0, <2>1, TakenTx
  <2>3. NoncesGrow(snap', state')
    BY <1>0, <1>1, <2>1, <2>2, NoncesTrans
  <2>4. Handled(snap, state, block, todo)
    BY <2>1 DEF OnTip
  <2>5. Handled(snap, state', block, todo')
    BY <2>2, <2>4 DEF Handled
  <2>6. Handled(snap', state', block', todo')
    BY <2>1, <2>5
  <2> QED
    BY <1>0, <1>1, <2>1, <2>3, <2>6 DEF OnTip
<1>8. CASE Commit
  <2>1. task' = "idle" /\ block' = << >> /\ proposal' = << >>
    BY <1>8 DEF Commit, End
  <2>2. NoncesGrow(snap, snap') /\ snap' = state'
    BY <1>8, CommittedSets
  <2>3. NoncesGrow(snap', state')
    BY <1>0, <2>2, NoncesSame
  <2> QED
    BY <1>0, <1>8, <2>1, <2>2, <2>3 DEF OnTip
<1>9. CASE Refuse
  <2>1. End(snap) /\ proposal' = proposal
    BY <1>9 DEF Refuse
  <2>2. proposal' = << >> \/ Len(proposal') = 1
    BY <2>1 DEF OnTip
  <2> QED
    BY <1>0, <1>1, <2>1, <2>2, OnTipEnd
<1>10. CASE UNCHANGED lvars
  <2>1. UNCHANGED <<state, snap, task, block, todo, proposal>>
    BY <1>10 DEF lvars
  <2> QED
    BY <1>0, <1>1, <2>1 DEF OnTip
<1> QED
  BY <1>0, <1>1, <1>2, <1>3, <1>4, <1>5, <1>6, <1>7, <1>8, <1>9, <1>10 DEF LStep

\* To the ledger, the pool is one more source of candidates.
LEMMA MNextIsLStep ==
  ASSUME MInv, [MNext]_<<lvars, pvars>>
  PROVE  [LStep]_lvars
<1>1. /\ Me \in Addr /\ leadSlot \in Nat /\ now \in Nat /\ taken \in Seq(Tx)
      /\ \A txs \in Candidates : txs \in Seq(Tx)
  BY MempoolAssumption, LedgerAssumption DEF MempoolAssumption, LedgerAssumption, MInv, InPool
<1>2. CASE BuildOwn
  BY <1>1, <1>2 DEF BuildOwn, LStep
<1>3. CASE BuildOther
  BY <1>1, <1>3 DEF BuildOther, LStep
<1>4. CASE LedgerStep
  BY <1>4 DEF LedgerStep, LStep
<1>5. CASE CommitBlock
  BY <1>5 DEF CommitBlock, LStep
<1>6. CASE UNCHANGED lvars
  BY <1>6
<1> QED
  BY <1>2, <1>3, <1>4, <1>5, <1>6, Zenon DEF MNext, Add, Tick, Snapshot, PruneExpired, RemoveTx

\* The ledger moves, the pool does not.
LEMMA InPoolKept ==
  ASSUME OnTip, OnTip', NoncesGrow(snap, snap'), InPool, UNCHANGED <<pool, now, leadSlot>>,
         taken' = taken \/ taken' = << >>
  PROVE  InPool'
<1>1. snap \in LState /\ snap' \in LState /\ pool \in Seq(Entry)
  BY Zenon DEF OnTip, LInv, LTypeOK, InPool
<1>2. \A e \in Range(pool) : NotAhead(snap', e.tx)
  BY <1>1, PoolEntries, ReachedStays DEF InPool
<1>3. \A tx \in Range(taken) : tx \in Tx
  <2>1. taken \in Seq(Tx)
    BY Zenon DEF InPool
  <2> QED
    BY <2>1 DEF Range
<1>4. \A tx \in Range(taken) : NotAhead(snap', tx)
  BY <1>1, <1>3, ReachedStays DEF InPool
<1>5. taken' \in Seq(Tx) /\ \A tx \in Range(taken') : NotAhead(snap', tx)
  <2>1. Range(<< >>) = {} /\ << >> \in Seq(Tx)
    BY DEF Range
  <2> QED
    BY <1>4, <2>1, Zenon DEF InPool
<1> QED
  BY <1>2, <1>5 DEF InPool

\* The pool stays in order whatever happens.
LEMMA InPoolStep ==
  ASSUME MInv, [MNext]_<<lvars, pvars>>, OnTip', NoncesGrow(snap, snap')
  PROVE  InPool'
<1> USE DEF MInv
<1>1. ASSUME NEW tx \in Tx, Add(tx)
      PROVE  InPool'
  <2>1. /\ UNCHANGED <<snap, now, leadSlot, taken>> /\ task = "idle"
        /\ tx.nonce = state.acct[tx.sender].nonce
    BY <1>1, Zenon DEF Add, Admits, lvars
  <2>2. CASE pool' = pool
    BY <2>1, <2>2, Zenon DEF InPool
  <2>3. ASSUME NEW r, Added(tx, r)
        PROVE  InPool'
    <3> DEFINE e == [tx |-> tx, slot |-> now]
    <3>1. e.slot <= now
      BY DEF InPool
    <3>2. NotAhead(snap, e.tx)
      <4>1. tx.nonce = snap.acct[tx.sender].nonce /\ tx.nonce \in Nat
        BY <2>1, TxTypes, Zenon DEF OnTip, TxOK
      <4> QED
        BY <4>1 DEF NotAhead
    <3>3. /\ pool' \in Seq(Entry) /\ Len(pool') <= Capacity /\ Orderly(pool')
          /\ Range(pool') \subseteq Range(pool) \cup {e}
      BY <2>3, Zenon DEF Added
    <3> HIDE DEF e
    <3>4. \A x \in Range(pool') : x.slot <= now /\ NotAhead(snap, x.tx)
      BY <3>1, <3>2, <3>3, Zenon DEF InPool
    <3> QED
      BY <2>1, <3>3, <3>4, Zenon DEF InPool
  <2> QED
    BY <1>1, <2>2, <2>3, AddOutcome
<1>2. CASE Tick
  <2>1. now' = now + 1 /\ UNCHANGED <<snap, pool, leadSlot, taken>>
    BY <1>2, Zenon DEF Tick, lvars
  <2>2. now \in Nat /\ leadSlot \in Nat /\ leadSlot <= now
    BY DEF InPool
  <2>3. \A e \in Range(pool) : e.slot \in Nat
    BY PoolEntries, Zenon DEF InPool, Entry
  <2>4. \A e \in Range(pool) : e.slot <= now + 1
    BY <2>2, <2>3 DEF InPool
  <2>5. leadSlot <= now + 1 /\ now + 1 \in Nat
    BY <2>2
  <2> QED
    BY <2>1, <2>4, <2>5 DEF InPool
<1>3. CASE Snapshot
  <2> DEFINE m == Min({Len(pool), SnapshotMax})
  <2>1. leadSlot' = now /\ UNCHANGED <<snap, pool, now>> /\ taken' = [i \in 1 .. m |-> pool[i].tx]
    BY <1>3 DEF Snapshot, lvars
  <2>2. pool \in Seq(Entry) /\ Len(pool) \in Nat /\ SnapshotMax \in Nat /\ now \in Nat
    BY MempoolAssumption DEF InPool, MempoolAssumption
  <2>3. m \in Nat /\ m <= Len(pool)
    <3> DEFINE I == {Len(pool), SnapshotMax}
    <3>1. I \subseteq Nat /\ I # {} /\ Len(pool) \in I
      BY <2>2
    <3> HIDE DEF I
    <3>2. Min(I) \in I /\ \A y \in I : Min(I) <= y
      BY <3>1, MinIs, Zenon
    <3>3. Min(I) \in Nat /\ Min(I) <= Len(pool)
      BY <3>1, <3>2, Zenon
    <3> QED
      BY <3>3 DEF I
  <2> HIDE DEF m
  <2>4. \A i \in 1 .. m : i \in 1 .. Len(pool)
    BY <2>2, <2>3
  <2>5. \A i \in 1 .. m : pool[i] \in Range(pool) /\ pool[i].tx \in Tx
    BY <2>2, <2>4, PoolEntries
  <2>6. taken' \in Seq(Tx) /\ DOMAIN taken' = 1 .. m
    BY <2>1, <2>3, <2>5
  <2>7. \A tx \in Range(taken') : NotAhead(snap, tx)
    BY <2>1, <2>5, <2>6, Zenon DEF InPool, Range
  <2>8. leadSlot' \in Nat /\ leadSlot' <= now'
    BY <2>1, <2>2
  <2> QED
    BY <2>1, <2>6, <2>7, <2>8, Zenon DEF InPool
<1>4. CASE PruneExpired
  <2>1. pool' = Unexpired(pool, leadSlot) /\ UNCHANGED <<snap, now, leadSlot, taken>>
    BY <1>4, ZenonT(40) DEF PruneExpired, lvars
  <2>2. pool' \in Seq(Entry) /\ Thins(pool, pool')
    BY <2>1, UnexpiredIs DEF InPool
  <2> QED
    BY <2>1, <2>2, InPoolThinned
<1>5. CASE RemoveTx
  <2>1. pool' = WithoutTx(pool, Head(removing)) /\ UNCHANGED <<snap, now, leadSlot, taken>>
    BY <1>5, ZenonT(40) DEF RemoveTx, lvars, WithoutTx
  <2>2. pool' \in Seq(Entry) /\ Thins(pool, pool')
    BY <2>1, TxOut DEF InPool
  <2> QED
    BY <2>1, <2>2, InPoolThinned
<1>6. CASE BuildOwn \/ BuildOther \/ LedgerStep \/ CommitBlock \/ UNCHANGED <<lvars, pvars>>
  <2>1. UNCHANGED <<pool, now, leadSlot>> /\ (taken' = taken \/ taken' = << >>)
    BY <1>6 DEF BuildOwn, BuildOther, LedgerStep, CommitBlock, pvars
  <2> QED
    BY <2>1, InPoolKept, ZenonT(40)
<1> QED
  BY <1>1, <1>2, <1>3, <1>4, <1>5, <1>6 DEF MNext

\* What is in the ledger leaves the pool, and no submission brings it back.
LEMMA LeavingStep ==
  ASSUME MInv, [MNext]_<<lvars, pvars>>, OnTip'
  PROVE  Leaving'
<1> USE DEF MInv
<1>1. ASSUME NEW tx \in Tx, Add(tx)
      PROVE  Leaving'
  <2>1. /\ UNCHANGED <<snap, task, removing>> /\ task = "idle"
        /\ tx.nonce = state.acct[tx.sender].nonce
    BY <1>1 DEF Add, Admits, lvars
  <2>2. CASE pool' = pool
    BY <2>1, <2>2 DEF Leaving
  <2>3. ASSUME NEW r, Added(tx, r)
        PROVE  Leaving'
    <3> DEFINE e == [tx |-> tx, slot |-> now]
    <3>1. Range(pool') \subseteq Range(pool) \cup {e} /\ e.tx = tx
      BY <2>3, Zenon DEF Added
    <3> HIDE DEF e
    <3>2. tx \notin Range(snap.applied)
      <4>1. tx.nonce = snap.acct[tx.sender].nonce /\ tx.nonce \in Nat
        BY <2>1, TxTypes DEF OnTip, TxOK
      <4>2. DOMAIN snap.applied = 1 .. Len(snap.applied)
        BY AppliedTypes, ZenonT(40) DEF OnTip
      <4>3. \A i \in 1 .. Len(snap.applied) :
              snap.applied[i].nonce < snap.acct[snap.applied[i].sender].nonce
        BY DEF OnTip, LInv, Spent
      <4>4. ~(tx.nonce < tx.nonce)
        BY <4>1
      <4> QED
        BY <4>1, <4>2, <4>3, <4>4, ZenonT(40) DEF Range
    <3> QED
      BY <2>1, <3>1, <3>2, Zenon DEF Leaving
  <2> QED
    BY <1>1, <2>2, <2>3, AddOutcome, Zenon
<1>2. CASE Tick \/ Snapshot \/ UNCHANGED <<lvars, pvars>>
  <2>1. UNCHANGED <<snap, task, pool, removing>>
    BY <1>2 DEF Tick, Snapshot, lvars, pvars
  <2> QED
    BY <2>1, Zenon DEF Leaving
<1>3. CASE PruneExpired
  <2>1. /\ pool' = Unexpired(pool, leadSlot)
        /\ UNCHANGED <<snap, task, removing, now, leadSlot, taken>>
    BY <1>3, ZenonT(40) DEF PruneExpired, lvars
  <2>2. Range(pool') \subseteq Range(pool)
    BY <2>1, UnexpiredIs, InPoolThinned DEF InPool
  <2> QED
    BY <2>1, <2>2 DEF Leaving
<1>4. CASE RemoveTx
  <2>1. /\ removing # << >> /\ pool' = WithoutTx(pool, Head(removing))
        /\ removing' = Tail(removing)
        /\ UNCHANGED <<snap, task, now, leadSlot, taken>>
    BY <1>4, Zenon DEF RemoveTx, lvars, WithoutTx
  <2>2. /\ pool' \in Seq(Entry) /\ Thins(pool, pool')
        /\ \A k \in 1 .. Len(pool') : pool'[k].tx # Head(removing)
    BY <2>1, TxOut DEF InPool
  <2>3. Range(pool') \subseteq Range(pool)
    BY <2>1, <2>2, InPoolThinned
  <2>4. \A e \in Range(pool') : e.tx # Head(removing)
    BY <2>2, PoolEntries
  <2>5. Range(removing) = {Head(removing)} \cup Range(removing') /\ removing' \in Seq(Tx)
    BY <2>1, SetHeadTail DEF Leaving
  <2>6. task' # "accept"
    BY <2>1 DEF Leaving
  <2> QED
    BY <2>1, <2>3, <2>4, <2>5, <2>6 DEF Leaving
<1>5. CASE BuildOwn \/ BuildOther \/ LedgerStep
  <2>1. UNCHANGED <<pool, removing>>
    BY <1>5 DEF BuildOwn, BuildOther, LedgerStep, pvars
  <2>2. snap' = snap
    BY <1>5, Zenon DEF BuildOwn, BuildOther, LedgerStep, BeginBuild, Begin, BuildTx, TakeTx, SkipTx,
                EndBuild, End, BeginAccept, AcceptTx, Refuse, lvars
  <2>3. task' = "accept" => task = "accept" \/ removing = << >>
    BY <1>5, Zenon DEF BuildOwn, BuildOther, LedgerStep, BeginBuild, Begin, BuildTx, TakeTx, SkipTx,
                EndBuild, End, BeginAccept, AcceptTx, Refuse, lvars
  <2> QED
    BY <2>1, <2>2, <2>3 DEF Leaving
<1>6. CASE CommitBlock
  <2>1. Commit /\ removing' = block.txs /\ pool' = pool /\ task = "accept" /\ task' = "idle"
    BY <1>6, Zenon DEF CommitBlock, Commit, End
  <2>2. /\ Range(snap'.applied) \subseteq Range(snap.applied) \cup Range(block.txs)
        /\ Range(block.txs) \subseteq Range(snap'.applied)
    BY <2>1, CommittedSets, ZenonT(40)
  <2>3. removing' \in Seq(Tx)
    BY <2>1, Zenon DEF OnTip, LInv, LBlock
  <2>4. Range(removing) = {}
    BY <2>1 DEF Leaving, Range
  <2> QED
    BY <2>1, <2>2, <2>3, <2>4 DEF Leaving
<1> QED
  BY <1>1, <1>2, <1>3, <1>4, <1>5, <1>6 DEF MNext

\* A candidate is taken into this validator's block: no other of its sender is there.
LEMMA OwnBlockNext ==
  ASSUME OnTip, BuildTx, OwnBlock(snap, state, block, todo)
  PROVE  OwnBlock(snap', state', block', todo')
<1> DEFINE tx == Head(todo)
           txs == block.txs
           more == Append(txs, tx)
           n == Len(txs)
<1>1. /\ task = "build" /\ todo # << >> /\ Fits(state, tx, block.slot, block.fee) /\ TakeTx
      /\ block' = [block EXCEPT !.txs = Append(@, tx)] /\ snap' = snap
  BY DEF BuildTx, Keeps, TakeTx
<1>2. /\ tx \in Tx /\ tx.nonce = state.acct[tx.sender].nonce
      /\ Advances(state, tx, state') /\ NoncesGrow(state, state')
      /\ Range(todo) = {tx} \cup Range(todo')
  BY <1>1, TakenTx, Zenon DEF OnTip
<1>3. /\ block \in LBlock /\ txs \in Seq(Tx) /\ snap \in LState /\ state \in LState
      /\ NoncesGrow(snap, state)
  <2>1. LInv /\ NoncesGrow(snap, state)
    BY Zenon DEF OnTip
  <2>2. block \in LBlock /\ snap \in LState /\ state \in LState
    BY <1>1, <2>1, InvTypes
  <2> QED
    BY <2>1, <2>2 DEF LBlock
<1>4. block'.txs = more /\ Range(more) = Range(txs) \cup {tx}
  BY <1>1, <1>2, <1>3, SetAppend, Zenon DEF LBlock
<1>5. \A x \in Range(todo') : NotAhead(snap, x)
  BY <1>2, Zenon DEF OwnBlock
<1>6. tx.sender \in Addr /\ tx.nonce \in Nat /\ snap.acct[tx.sender].nonce \in Int
      /\ tx.nonce <= snap.acct[tx.sender].nonce
  BY <1>2, <1>3, TxTypes, NonceTypes, Zenon DEF TxOK, OwnBlock, NotAhead
<1> HIDE DEF tx
<1>7. snap.acct[tx.sender].nonce < state'.acct[tx.sender].nonce
  <2>1. snap.acct[tx.sender].nonce <= tx.nonce
    BY <1>2, <1>3, <1>6, Zenon DEF NoncesGrow
  <2>2. state'.acct[tx.sender].nonce = tx.nonce + 1
    BY <1>2, Zenon DEF Advances
  <2> QED
    BY <1>6, <2>1, <2>2
<1>8. /\ n \in Nat /\ Len(more) = n + 1 /\ more[n + 1] = tx /\ \A i \in 1 .. n : more[i] = txs[i]
      /\ DOMAIN txs = 1 .. n /\ \A i \in 1 .. n : txs[i] \in Tx /\ txs[i] \in Range(txs)
  <2>1. txs \in Seq(Tx) /\ DOMAIN txs = 1 .. n
    BY <1>3
  <2>2. n \in Nat /\ Len(more) = n + 1 /\ more[n + 1] = tx /\ \A i \in 1 .. n : more[i] = txs[i]
    BY <1>2, <2>1
  <2> HIDE DEF txs
  <2>3. \A i \in 1 .. n : txs[i] \in Tx /\ txs[i] \in Range(txs)
    BY <2>1 DEF Range
  <2> QED
    BY <2>1, <2>2, <2>3, Zenon
<1>9. \A x \in Range(txs) : x \in Tx /\ x.sender \in Addr
                            /\ snap.acct[x.sender].nonce < state.acct[x.sender].nonce
  <2>1. \A x \in Range(txs) : x \in Tx
    BY <1>8, Zenon DEF Range
  <2> QED
    BY <2>1, TxTypes, Zenon DEF TxOK, OwnBlock
<1>10. \A x \in Range(txs) : snap.acct[x.sender].nonce < state'.acct[x.sender].nonce
  <2> SUFFICES ASSUME NEW x \in Range(txs)
               PROVE  snap.acct[x.sender].nonce < state'.acct[x.sender].nonce
    BY Zenon
  <2> DEFINE a == x.sender
  <2>1. a \in Addr /\ snap.acct[a].nonce < state.acct[a].nonce
    BY <1>9, Zenon
  <2>2. state.acct[a].nonce <= state'.acct[a].nonce
    BY <1>2, <2>1, Zenon DEF NoncesGrow
  <2>3. snap.acct[a].nonce \in Int /\ state.acct[a].nonce \in Int
    BY <1>3, <2>1, NonceTypes, Zenon
  <2>4. state'.acct[a].nonce \in Int
    <3>1. state' \in LState
      BY <1>1, TakeTxOK, Zenon DEF OnTip, LTypeOK, tx
    <3> QED
      BY <2>1, <3>1, NonceTypes
  <2> HIDE DEF a
  <2>5. snap.acct[a].nonce < state'.acct[a].nonce
    BY <2>1, <2>2, <2>3, <2>4
  <2> QED
    BY <2>5, Zenon DEF a
<1>11. \A x \in Range(txs) : x.sender # tx.sender
  <2> SUFFICES ASSUME NEW x \in Range(txs), x.sender = tx.sender
               PROVE  FALSE
    BY Zenon
  <2>1. snap.acct[tx.sender].nonce < tx.nonce
    BY <1>2, <1>9, Zenon
  <2> QED
    BY <1>6, <2>1
<1>12. OnePerSender(more)
  <2> SUFFICES ASSUME NEW i \in 1 .. n + 1, NEW j \in 1 .. n + 1,
                      more[i].sender = more[j].sender
               PROVE  i = j
    BY <1>8, ZenonT(40) DEF OnePerSender
  <2>1. (i \in 1 .. n \/ i = n + 1) /\ (j \in 1 .. n \/ j = n + 1)
    BY <1>8
  <2>2. CASE i \in 1 .. n /\ j \in 1 .. n
    <3>1. txs[i].sender = txs[j].sender
      BY <1>8, <2>2, Zenon
    <3> QED
      BY <2>2, <3>1, Zenon DEF OwnBlock, OnePerSender
  <2>3. CASE i \in 1 .. n /\ j = n + 1
    BY <1>8, <1>11, <2>3, Zenon
  <2>4. CASE i = n + 1 /\ j \in 1 .. n
    BY <1>8, <1>11, <2>4
  <2> QED
    BY <2>1, <2>2, <2>3, <2>4, Zenon
<1> QED
  BY <1>1, <1>4, <1>5, <1>7, <1>10, <1>12 DEF OwnBlock

\* What this validator builds and has built.
LEMMA OwnWorkStep ==
  ASSUME MInv, [MNext]_<<lvars, pvars>>
  PROVE  OwnWork'
<1> USE DEF MInv
<1>1. ASSUME UNCHANGED lvars, own' = own
      PROVE  OwnWork'
  <2>1. UNCHANGED <<state, snap, task, block, todo, proposal, own>>
    BY <1>1 DEF lvars
  <2> QED
    BY <2>1 DEF OwnWork
<1>2. CASE BuildOwn
  <2>1. CASE UNCHANGED <<lvars, own>>
    BY <1>1, <2>1, Zenon
  <2>2. CASE BeginBuild(Me, leadSlot, taken) /\ own' = TRUE
    <3>1. /\ task' = "build" /\ proposal' = << >> /\ todo' = taken /\ block'.txs = << >>
          /\ UNCHANGED <<state, snap>>
      BY <2>2 DEF BeginBuild, Begin
    <3>2. Range(<< >>) = {} /\ OnePerSender(<< >>)
      BY DEF Range, OnePerSender
    <3>3. OwnBlock(snap', state', block', todo')
      BY <3>1, <3>2 DEF OwnBlock, InPool
    <3> QED
      BY <2>2, <3>1, <3>3, Zenon DEF OwnWork
  <2> QED
    BY <1>2, <2>1, <2>2, Zenon DEF BuildOwn
<1>3. CASE BuildOther
  <2>1. own' = FALSE
    BY <1>3 DEF BuildOther
  <2> QED
    BY <2>1, Zenon DEF OwnWork
<1>4. CASE CommitBlock
  <2>1. own' = own /\ task' = "idle" /\ proposal' = << >>
    BY <1>4 DEF CommitBlock, Commit, End
  <2> QED
    BY <2>1, Zenon DEF OwnWork
<1>5. CASE LedgerStep
  <2>0. own' = own
    BY <1>5, Zenon DEF LedgerStep, pvars
  <2>1. CASE BuildTx
    <3>1. task = "build" /\ UNCHANGED <<task, proposal>>
      BY <2>1 DEF BuildTx, TakeTx
    <3>2. own => OwnBlock(snap', state', block', todo')
      BY <2>1, <3>1, OwnBlockNext, Zenon DEF OwnWork
    <3> QED
      BY <2>0, <3>1, <3>2 DEF OwnWork
  <2>2. CASE SkipTx
    <3>1. /\ task = "build" /\ todo # << >> /\ todo' = Tail(todo)
          /\ UNCHANGED <<state, snap, task, block, proposal>>
      BY <2>2, Zenon DEF SkipTx
    <3>2. Range(todo') \subseteq Range(todo)
      BY <3>1, SetHeadTail, InvTypes, ZenonT(40) DEF OnTip
    <3>3. own => OwnBlock(snap, state, block, todo')
      BY <3>1, <3>2, Zenon DEF OwnWork, OwnBlock
    <3> QED
      BY <2>0, <3>1, <3>3 DEF OwnWork
  <2>3. CASE EndBuild
    <3>1. task = "build" /\ task' = "idle" /\ proposal'[1].block = block
      BY <2>3, Zenon DEF EndBuild, End
    <3>2. own => OnePerSender(block.txs)
      BY <3>1 DEF OwnWork, OwnBlock
    <3> QED
      BY <2>0, <3>1, <3>2 DEF OwnWork
  <2>4. CASE AcceptTx \/ Refuse \/ BeginAccept
    <3>1. task' # "build" /\ proposal' = proposal
      BY <2>4 DEF AcceptTx, TakeTx, Refuse, End, BeginAccept, Begin
    <3> QED
      BY <2>0, <3>1, ZenonT(40) DEF OwnWork
  <2> QED
    BY <1>5, <2>1, <2>2, <2>3, <2>4 DEF LedgerStep
<1>6. CASE UNCHANGED <<lvars, pvars>>
  BY <1>1, <1>6 DEF pvars
<1> QED
  BY <1>1, <1>2, <1>3, <1>4, <1>5, <1>6, Zenon
  DEF MNext, Add, Tick, Snapshot, PruneExpired, RemoveTx

\* Every action keeps the invariant.
LEMMA MStep ==
  ASSUME MInv, [MNext]_<<lvars, pvars>>
  PROVE  MInv'
<1>1. OnTip' /\ NoncesGrow(snap, snap')
  BY MNextIsLStep, OnTipStep DEF MInv
<1> QED
  BY <1>1, InPoolStep, LeavingStep, OwnWorkStep DEF MInv

\* The pool, the clock, the ledger and the block that is built from the pool.
THEOREM MempoolInvariant == MSpec => []MInv
<1>1. MInit => MInv
  <2> SUFFICES ASSUME MInit
               PROVE  MInv
    BY Zenon
  <2>1. LInv /\ snap \in LState
    BY LInitOK, Zenon DEF MInit, LInv, LTypeOK
  <2>2. state = snap /\ task = "idle" /\ block = << >> /\ proposal = << >>
    BY DEF MInit, LInit
  <2>3. OnTip
    BY <2>1, <2>2, NoncesSame DEF OnTip
  <2>4. Range(<< >>) = {} /\ << >> \in Seq(Entry) /\ << >> \in Seq(Tx) /\ Len(<< >>) = 0
        /\ Orderly(<< >>)
    BY DEF Range, Orderly
  <2>5. InPool
    <3>1. Capacity \in Nat
      BY MempoolAssumption DEF MempoolAssumption
    <3>2. pool = << >> /\ now = 1 /\ leadSlot = 0 /\ taken = << >>
      BY DEF MInit
    <3>3. Len(pool) <= Capacity /\ now \in Nat /\ leadSlot \in Nat /\ leadSlot <= now
      BY <2>4, <3>1, <3>2
    <3> QED
      BY <2>4, <3>2, <3>3 DEF InPool
  <2>6. Leaving
    BY <2>2, <2>4 DEF Leaving, MInit
  <2>7. OwnWork
    BY <2>2, Zenon DEF OwnWork, MInit
  <2> QED
    BY <2>3, <2>5, <2>6, <2>7 DEF MInv
<1>2. MInv /\ [MNext]_<<lvars, pvars>> => MInv'
  BY MStep
<1> QED
  BY <1>1, <1>2, PTL DEF MSpec

\* The pool never exceeds its capacity and is always sorted, with one entry per sender and
\* nonce (mp_insert, ac_mempool_add, ac_mempool_remove and ac_mempool_prune_expired).
THEOREM PoolOrderedHolds == MSpec => []PoolOrdered
<1>1. MInv => PoolOrdered
  BY DEF MInv, InPool, Orderly, Precedes, PoolOrdered
<1> QED
  BY MempoolInvariant, <1>1, PTL

\* Once a committed block has been removed, nothing of the ledger is in the pool.
THEOREM NothingCommittedHolds == MSpec => []NothingCommitted
<1>1. MInv => NothingCommitted
  <2> SUFFICES ASSUME MInv, removing = << >>, NEW i \in 1 .. Len(pool),
                      NEW k \in 1 .. Len(snap.applied), pool[i].tx = snap.applied[k]
               PROVE  FALSE
    BY DEF NothingCommitted
  <2>1. pool \in Seq(Entry) /\ snap.applied \in Seq(Tx)
    BY AppliedTypes, Zenon DEF MInv, InPool, OnTip
  <2>2. pool[i] \in Range(pool) /\ snap.applied[k] \in Range(snap.applied)
    BY <2>1 DEF Range
  <2>3. Range(removing) = {}
    BY DEF Range
  <2> QED
    BY <2>2, <2>3, Zenon DEF MInv, Leaving
<1> QED
  BY MempoolInvariant, <1>1, PTL

\* A block built from the pool, however old the snapshot is, has no two transactions of one
\* sender.
THEOREM OneTxPerSenderHolds == MSpec => []OneTxPerSender
<1>1. MInv => OneTxPerSender
  <2> SUFFICES ASSUME MInv, own, task # "accept",
                      NEW b \in {block} \cup {proposal[i].block : i \in 1 .. Len(proposal)},
                      b # << >>
               PROVE  OnePerSender(b.txs)
    BY DEF OneTxPerSender, OnePerSender
  <2>1. CASE b = block
    <3>1. task = "build"
      BY <2>1, Zenon DEF MInv, OnTip, LInv, LTypeOK
    <3> QED
      BY <2>1, <3>1, Zenon DEF MInv, OwnWork, OwnBlock
  <2>2. CASE b \in {proposal[i].block : i \in 1 .. Len(proposal)}
    <3>1. PICK i \in 1 .. Len(proposal) : b = proposal[i].block
      BY <2>2, Zenon
    <3>2. proposal # << >> /\ i = 1
      BY <3>1 DEF MInv, OnTip
    <3> QED
      BY <3>1, <3>2, Zenon DEF MInv, OwnWork
  <2> QED
    BY <2>1, <2>2, Zenon
<1> QED
  BY MempoolInvariant, <1>1, PTL

\* The indices of the entries that leave, and the entries that are new.
Gone == {i \in 1 .. Len(pool) : pool[i] \notin Range(pool')}
Came == Range(pool') \ Range(pool)

\* Why entry i may leave.
Reason(i) ==
  \/ \E e \in Came : /\ e.tx.tip > pool[i].tx.tip
                     /\ Rivals(e, pool[i].tx) \/ (i = Len(pool) /\ i = Capacity)
  \/ pool[i].tx.until <= now
  \/ \E k \in 1 .. Len(snap.applied) : snap.applied[k] = pool[i].tx

\* No entry leaves the pool without a reason.
LEMMA LeftForReason ==
  ASSUME MInv, [MNext]_<<lvars, pvars>>
  PROVE  /\ Came # {} => \A i, j \in Gone : i = j
         /\ \A i \in Gone : Reason(i)
<1> USE DEF MInv
<1>1. pool \in Seq(Entry) /\ Orderly(pool)
  BY Zenon DEF InPool
<1>2. ASSUME pool' = pool
      PROVE  Gone = {} /\ Came = {}
  BY <1>1, <1>2, PoolEntries, Zenon DEF Gone, Came
<1>3. ASSUME NEW tx \in Tx, Add(tx)
      PROVE  /\ Came # {} => \A i, j \in Gone : i = j
             /\ \A i \in Gone : Reason(i)
  <2>1. CASE pool' = pool
    BY <1>2, <2>1
  <2>2. ASSUME NEW r, Added(tx, r)
        PROVE  (\A i, j \in Gone : i = j) /\ \A i \in Gone : Reason(i)
    <3> DEFINE e == [tx |-> tx, slot |-> now]
    <3>1. e \in Came /\ e.tx = tx
      BY <2>2, ZenonT(40) DEF Added, Came
    <3>2. \A i \in Gone : /\ i = r /\ tx.tip > pool[i].tx.tip
                          /\ Rivals(e, pool[i].tx) \/ (i = Len(pool) /\ i = Capacity)
      BY <2>2 DEF Added, Gone
    <3> HIDE DEF e
    <3>3. \A i, j \in Gone : i = j
      BY <3>2, ZenonT(40)
    <3>4. \A i \in Gone : Reason(i)
      BY <3>1, <3>2 DEF Reason
    <3> QED
      BY <3>3, <3>4, Zenon
  <2> QED
    BY <1>3, <2>1, <2>2, AddOutcome
<1>4. ASSUME InPool', Range(pool') \subseteq Range(pool), \A i \in Gone : Reason(i)
      PROVE  /\ Came # {} => \A i, j \in Gone : i = j
             /\ \A i \in Gone : Reason(i)
  BY <1>4 DEF Came
<1>5. CASE PruneExpired
  <2>1. pool' = Unexpired(pool, leadSlot) /\ UNCHANGED <<snap, now, leadSlot, taken>>
    BY <1>5, Zenon DEF PruneExpired, lvars
  <2>2. now \in Nat /\ leadSlot \in Nat /\ leadSlot <= now
    BY DEF InPool
  <2>3. /\ pool' \in Seq(Entry) /\ Thins(pool, pool')
        /\ \A k \in 1 .. Len(pool) : pool[k].tx.until > leadSlot => pool[k] \in Range(pool')
    BY <1>1, <2>1, <2>2, UnexpiredIs, Zenon
  <2>4. InPool' /\ Range(pool') \subseteq Range(pool)
    BY <2>1, <2>3, InPoolThinned, Zenon
  <2>5. \A i \in Gone : Reason(i)
    <3> SUFFICES ASSUME NEW i \in Gone
                 PROVE  pool[i].tx.until <= now
      BY DEF Reason
    <3>1. i \in 1 .. Len(pool) /\ ~(pool[i].tx.until > leadSlot)
      BY <2>3, Zenon DEF Gone
    <3>2. pool[i].tx.until \in Nat
      <4>1. pool[i].tx \in Tx
        BY <1>1, <3>1, PoolEntries, Zenon
      <4> QED
        BY <4>1, LedgerAssumption, Zenon DEF LedgerAssumption
    <3> QED
      BY <2>2, <3>1, <3>2
  <2> QED
    BY <1>4, <2>4, <2>5, Zenon
<1>6. CASE RemoveTx
  <2>1. /\ removing # << >> /\ pool' = WithoutTx(pool, Head(removing))
        /\ UNCHANGED <<snap, now, leadSlot, taken>>
    BY <1>6, ZenonT(40) DEF RemoveTx, lvars, WithoutTx
  <2>2. /\ pool' \in Seq(Entry) /\ Thins(pool, pool')
        /\ \A k \in 1 .. Len(pool) : pool[k].tx = Head(removing) \/ pool[k] \in Range(pool')
    BY <1>1, <2>1, TxOut, Zenon
  <2>3. InPool' /\ Range(pool') \subseteq Range(pool)
    BY <2>1, <2>2, InPoolThinned
  <2>4. Head(removing) \in Range(snap.applied)
    BY <2>1, SetHeadTail DEF Leaving
  <2>5. DOMAIN snap.applied = 1 .. Len(snap.applied)
    BY AppliedTypes, Zenon DEF OnTip
  <2>6. \E k \in 1 .. Len(snap.applied) : snap.applied[k] = Head(removing)
    BY <2>4, <2>5 DEF Range
  <2>7. \A i \in Gone : pool[i].tx = Head(removing)
    BY <2>2, Zenon DEF Gone
  <2>8. \A i \in Gone : Reason(i)
    BY <2>6, <2>7 DEF Reason
  <2> QED
    BY <1>4, <2>3, <2>8
<1>7. CASE Tick \/ Snapshot \/ BuildOwn \/ BuildOther \/ LedgerStep \/ CommitBlock
           \/ UNCHANGED <<lvars, pvars>>
  <2>1. pool' = pool
    BY <1>7 DEF Tick, Snapshot, BuildOwn, BuildOther, LedgerStep, CommitBlock, pvars
  <2> QED
    BY <1>2, <2>1, ZenonT(40)
<1> QED
  BY <1>3, <1>5, <1>6, <1>7, Zenon DEF MNext

\* An entry leaves the pool only to a higher tip, when it has expired, or in a committed block,
\* and at most one makes room for a newcomer.
THEOREM DropsJustifiedHolds == MSpec => DropsJustified
<1>1. MInv /\ [MNext]_<<lvars, pvars>> =>
        [LET Left == {i \in 1 .. Len(pool) : pool[i] \notin Range(pool')}
             New == Range(pool') \ Range(pool)
         IN  /\ New # {} => \A i, j \in Left : i = j
             /\ \A i \in Left :
                  \/ \E e \in New : /\ e.tx.tip > pool[i].tx.tip
                                    /\ Rivals(e, pool[i].tx) \/ (i = Len(pool) /\ i = Capacity)
                  \/ pool[i].tx.until <= now
                  \/ \E k \in 1 .. Len(snap.applied) : snap.applied[k] = pool[i].tx
        ]_<<lvars, pvars>>
  BY LeftForReason DEF Gone, Came, Reason
<1> QED
  BY MempoolInvariant, <1>1, PTL DEF MSpec, DropsJustified
=============================================================================
