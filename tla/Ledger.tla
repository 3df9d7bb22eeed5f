------------------------------- MODULE Ledger -------------------------------
(***************************************************************************)
(* The accounts and names of one node (state.c) and the two loops of       *)
(* chain.c that apply transactions to them: ac_chain_build_block, which    *)
(* tries candidates and rolls the state back, and ac_chain_accept_block,   *)
(* which applies a block and rolls back only when it refuses it. One       *)
(* transaction is one step; the chain lock keeps others out meanwhile.     *)
(*                                                                         *)
(* A state root is the accounts and names it commits to.                   *)
(***************************************************************************)
EXTENDS Integers, Sequences, FiniteSetsExt

CONSTANTS
  Addr,          \* addresses, SYS_REWARD_POOL among them
  Pool,          \* SYS_REWARD_POOL
  Name,          \* names that can be registered
  Tx,            \* the transactions that are ever signed
  Equivocators,  \* validators that have signed two blocks of one height
  Genesis,       \* the accounts of the genesis block
  Candidates,    \* what ac_mempool_snapshot may return
  Gas,           \* ac_tx_intrinsic_gas and the memo, by kind
  NewAccountGas, NameFee, MinStake, MinBaseFee, GasLimit,
  UnbondDelay, YearSlots, EarlyEmission, LateEmission,
  Word,          \* 2^64
  MaxSlot        \* bound: the last slot of a behaviour

Kind == {"transfer", "bond", "unbond", "name", "slash"}
NoOwner == "no owner"
U64 == 0 .. Word - 1
Account == [balance : U64, nonce : U64, stake : U64, unbondAt : Nat]
NoAccount == [balance |-> 0, nonce |-> 0, stake |-> 0, unbondAt |-> 0]

ASSUME LedgerAssumption ==
  /\ IsFiniteSet(Addr) /\ Pool \in Addr /\ NoOwner \notin Addr
  /\ Equivocators \subseteq Addr
  /\ Genesis \in [Addr -> Account]
  /\ Candidates \subseteq Seq(Tx)
  /\ Gas \in [Kind -> Nat]
  /\ Tx \subseteq [kind : Kind, sender : Addr, nonce : Nat, limit : Nat, tip : Nat,
                   until : Nat, to : Addr, amount : Nat, name : Name]
  /\ {NewAccountGas, NameFee, MinStake, MinBaseFee, UnbondDelay, EarlyEmission,
      LateEmission, MaxSlot} \subseteq Nat
  /\ {GasLimit \div 2, YearSlots, Word} \subseteq Nat \ {0}
  /\ GasLimit \in Nat
  /\ \A tx \in Tx : tx.nonce + 1 < Word   \* no account ever sends 2^64 - 1 transactions

\* A block cannot run out of gas: 256 candidates of at most 521 gas, 512 for the memo and 50
\* for a new account, against 30,000,000.
ASSUME RoomAssumption ==
  \E g \in 0 .. GasLimit :
    /\ \A k \in Kind : Gas[k] + NewAccountGas <= g
    /\ \A txs \in Candidates : Len(txs) * g <= GasLimit

VARIABLES
  state,     \* c->state, with what has happened to it: burned, irregular, applied
  snap,      \* the snapshot a roll-back restores: the state of the tip
  height, lastSlot, tipFee, tipGas,   \* height and header of the tip
  task,      \* what holds the chain lock
  block,     \* the block being built or accepted
  todo,      \* its transactions not yet looked at
  gas, tips, \* total_gas, total_tips
  proposal,  \* the last block built on the tip, if any
  refused    \* a block built on the tip was refused for its contents

lvars == <<state, snap, height, lastSlot, tipFee, tipGas, task, block, todo, gas, tips,
           proposal, refused>>

LState == [acct : [Addr -> Account], names : [Name -> Addr \cup {NoOwner}],
           burned : Nat, irregular : BOOLEAN, applied : Seq(Tx)]

\* Balances and stakes never leave 64 bits: no subtraction of apply_tx goes below zero.
LTypeOK ==
  /\ state \in LState /\ snap \in LState
  /\ task \in {"idle", "build", "accept"}
  /\ todo \in Seq(Tx)
  /\ gas \in Nat /\ tips \in Nat
  /\ {height, lastSlot, tipFee, tipGas} \subseteq Nat

-----------------------------------------------------------------------------
(* ac_state_apply_tx. s is the sender's account, copied from the state before any    *)
(* change and written back last; an outcome is the copy, the state with the other    *)
(* accounts written, the gas charged and what was burned.                            *)

Outcome(st, s, g, burnt) == [st |-> st, s |-> s, gas |-> g, burnt |-> burnt]
Unchanged(st, tx, s) == Outcome(st, s, Gas[tx.kind], 0)

Transfer(st, tx, s) ==
  LET g == Gas[tx.kind] + IF st.acct[tx.to] = NoAccount THEN NewAccountGas ELSE 0
  IN  IF g > tx.limit
      THEN Outcome(st, s, g, 0)
      ELSE Outcome([st EXCEPT !.acct[tx.to].balance = (@ + tx.amount) % Word],
                   [s EXCEPT !.balance = @ - tx.amount], g, 0)

Bond(st, tx, s) ==
  IF s.balance < tx.amount
  THEN Unchanged(st, tx, s)
  ELSE Unchanged(st, tx, [s EXCEPT !.balance = @ - tx.amount,
                                   !.stake = (@ + tx.amount) % Word])

\* Variant: the stake is not compared with the amount.
UnbondAny(st, tx, s, slot) ==
  Unchanged(st, tx, [s EXCEPT !.stake = @ - tx.amount,
                              !.balance = (@ + tx.amount) % Word,
                              !.unbondAt = IF @ = 0 THEN slot + UnbondDelay ELSE @])

Unbond(st, tx, s, slot) ==
  IF s.stake < tx.amount
  THEN Unchanged(st, tx, s)
  ELSE Unchanged(st, tx, [s EXCEPT !.stake = @ - tx.amount,
                                   !.balance = (@ + tx.amount) % Word,
                                   !.unbondAt = IF @ = 0 THEN slot + UnbondDelay ELSE @])

\* Variant: the name is written without looking for an owner.
RegisterTaken(st, tx, s) ==
  IF s.balance < NameFee
  THEN Unchanged(st, tx, s)
  ELSE Outcome([st EXCEPT !.names[tx.name] = tx.sender],
               [s EXCEPT !.balance = @ - NameFee], Gas[tx.kind], NameFee)

RegisterName(st, tx, s) ==
  IF s.balance < NameFee \/ st.names[tx.name] # NoOwner
  THEN Unchanged(st, tx, s)
  ELSE Outcome([st EXCEPT !.names[tx.name] = tx.sender],
               [s EXCEPT !.balance = @ - NameFee], Gas[tx.kind], NameFee)

\* Variant: the reporter gets the whole stake.
SlashAll(st, tx, s) ==
  LET stake == st.acct[tx.to].stake
  IN  IF tx.to \notin Equivocators \/ stake = 0
      THEN Unchanged(st, tx, s)
      ELSE Outcome([st EXCEPT !.acct[tx.to].stake = 0],
                   [s EXCEPT !.balance = (@ + stake) % Word],
                   Gas[tx.kind], stake - stake \div 2)

Slash(st, tx, s) ==
  LET stake == st.acct[tx.to].stake
  IN  IF tx.to \notin Equivocators \/ stake = 0
      THEN Unchanged(st, tx, s)
      ELSE Outcome([st EXCEPT !.acct[tx.to].stake = 0],
                   [s EXCEPT !.balance = (@ + stake \div 2) % Word],
                   Gas[tx.kind], stake - stake \div 2)

Body(st, tx, s, slot) ==
  CASE tx.kind = "transfer" -> Transfer(st, tx, s)
    [] tx.kind = "bond"     -> Bond(st, tx, s)
    [] tx.kind = "unbond"   -> Unbond(st, tx, s, slot)
    [] tx.kind = "name"     -> RegisterName(st, tx, s)
    [] tx.kind = "slash"    -> Slash(st, tx, s)

\* Variant: an old nonce is good enough.
FitsOldNonce(st, tx, slot, fee) ==
  LET s == st.acct[tx.sender]
      perGas == (fee + tx.tip) % Word
  IN  /\ slot < tx.until
      /\ tx.nonce <= s.nonce
      /\ tx.limit >= Gas[tx.kind]
      /\ perGas # 0 => tx.limit <= (Word - 1) \div perGas
      /\ s.balance >= tx.limit * perGas + IF tx.kind = "transfer" THEN tx.amount ELSE 0

\* The checks before anything is changed.
Fits(st, tx, slot, fee) ==
  LET s == st.acct[tx.sender]
      perGas == (fee + tx.tip) % Word
  IN  /\ slot < tx.until
      /\ tx.nonce = s.nonce
      /\ tx.limit >= Gas[tx.kind]
      /\ perGas # 0 => tx.limit <= (Word - 1) \div perGas
      /\ s.balance >= tx.limit * perGas + IF tx.kind = "transfer" THEN tx.amount ELSE 0

Charged(g, tx) == IF g > tx.limit THEN tx.limit ELSE g

\* What a transaction that fits does: the new state, gas_used and fee_tip. A fee that
\* exceeds what the body has left is cut to it; the tip reported is not.
ApplyTx(st, tx, slot, fee) ==
  LET s     == [st.acct[tx.sender] EXCEPT !.nonce = (@ + 1) % Word]
      o     == Body(st, tx, s, slot)
      g     == Charged(o.gas, tx)
      burnt == (g * fee) % Word
      tip   == (g * tx.tip) % Word
      total == (burnt + tip) % Word
      paid  == IF o.s.balance < total THEN o.s.balance ELSE total
  IN  [gas |-> g, tip |-> tip,
       st |-> [o.st EXCEPT
                 !.acct[tx.sender] = [o.s EXCEPT !.balance = @ - paid],
                 !.burned = @ + o.burnt + burnt,
                 !.irregular = @ \/ paid < total \/ fee + tx.tip >= Word
                                 \/ (tx.kind \in {"transfer", "slash"} /\ tx.to = tx.sender),
                 !.applied = Append(@, tx)]]

-----------------------------------------------------------------------------
(* ac_chain_block_reward, ac_chain_next_base_fee and the payment of the proposer *)

BlockReward(h) ==
  (IF h \div YearSlots < 10 THEN EarlyEmission ELSE LateEmission) \div YearSlots

\* One eighth of the relative distance from half of the limit, at least 1.
NextBaseFee(fee, used) ==
  LET target == GasLimit \div 2
      Step(d) == LET q == (((fee * d) % Word) \div target) \div 8 IN IF q = 0 THEN 1 ELSE q
      next == IF used > target THEN fee + Step(used - target) ELSE fee - Step(target - used)
  IN  IF used = target THEN fee ELSE IF next < MinBaseFee THEN MinBaseFee ELSE next

BaseFee == IF height = 0 THEN MinBaseFee ELSE NextBaseFee(tipFee, tipGas)

\* ac_state_credit of the proposer and ac_state_debit of the pool, which stops at zero.
PayProposer(st, p, reward, tip) ==
  LET credited == [st EXCEPT !.acct[p].balance = (@ + reward + tip) % Word]
      left == credited.acct[Pool].balance
  IN  [credited EXCEPT !.acct[Pool].balance = IF reward > @ THEN 0 ELSE @ - reward,
                       !.irregular = @ \/ reward > left]

Root(st) == <<st.acct, st.names>>
Validator(a) == state.acct[a].stake >= MinStake

-----------------------------------------------------------------------------
LInit ==
  /\ state = [acct |-> Genesis, names |-> [n \in Name |-> NoOwner],
              burned |-> 0, irregular |-> FALSE, applied |-> << >>]
  /\ snap = state
  /\ height = 0 /\ lastSlot = 0 /\ tipFee = MinBaseFee /\ tipGas = 0
  /\ task = "idle"
  /\ block = << >> /\ todo = << >> /\ gas = 0 /\ tips = 0
  /\ proposal = << >>
  /\ refused = FALSE

\* A task begins with the transactions txs; the lock is free.
Begin(t, b, txs) ==
  /\ task = "idle"
  /\ task' = t
  /\ block' = b
  /\ todo' = txs
  /\ gas' = 0 /\ tips' = 0
  /\ UNCHANGED <<state, snap, height, lastSlot, tipFee, tipGas, refused>>

\* A task ends with state st, which is the state of the tip.
End(st) ==
  /\ state' = st /\ snap' = st
  /\ task' = "idle"
  /\ block' = << >> /\ todo' = << >> /\ gas' = 0 /\ tips' = 0

\* ac_chain_build_block: the proposer must be a validator; the slot is not compared with
\* the tip's. (The proposal before it may be forgotten here: nothing can accept it while
\* the lock is held.)
BeginBuild(p, slot, txs) ==
  /\ Validator(p)
  /\ proposal' = << >>
  /\ Begin("build", [height |-> height + 1, slot |-> slot, proposer |-> p, fee |-> BaseFee,
                     txs |-> << >>], txs)

\* The next candidate is taken when there is room for its least gas and it applies.
Keeps(tx) == gas + Gas[tx.kind] <= GasLimit /\ Fits(state, tx, block.slot, block.fee)

\* The next transaction is applied.
TakeTx ==
  LET r == ApplyTx(state, Head(todo), block.slot, block.fee)
  IN  /\ state' = r.st
      /\ gas' = gas + r.gas
      /\ tips' = tips + r.tip
      /\ todo' = Tail(todo)
      /\ UNCHANGED <<snap, height, lastSlot, tipFee, tipGas, task, proposal, refused>>

BuildTx ==
  /\ task = "build" /\ todo # << >>
  /\ Keeps(Head(todo))
  /\ TakeTx
  /\ block' = [block EXCEPT !.txs = Append(@, Head(todo))]

SkipTx ==
  /\ task = "build" /\ todo # << >>
  /\ ~Keeps(Head(todo))
  /\ todo' = Tail(todo)
  /\ UNCHANGED <<state, snap, height, lastSlot, tipFee, tipGas, task, block, gas, tips,
                 proposal, refused>>

Paid == PayProposer(state, block.proposer, BlockReward(block.height), tips)

\* Variant: the speculative state is kept.
EndBuildKept ==
  /\ task = "build" /\ todo = << >>
  /\ proposal' = <<[block |-> block, gas |-> gas, root |-> Root(Paid)]>>
  /\ End(state)
  /\ UNCHANGED <<height, lastSlot, tipFee, tipGas, refused>>

\* The header is filled in from the speculative state, which is rolled back.
EndBuild ==
  /\ task = "build" /\ todo = << >>
  /\ proposal' = <<[block |-> block, gas |-> gas, root |-> Root(Paid)]>>
  /\ End(snap)
  /\ UNCHANGED <<height, lastSlot, tipFee, tipGas, refused>>

\* The checks of ac_chain_accept_block before it touches the state.
HeaderFits(b) ==
  /\ b.height = height + 1
  /\ b.slot > lastSlot
  /\ Validator(b.proposer)
  /\ b.fee >= MinBaseFee
  /\ b.fee + 1 >= BaseFee /\ b.fee <= BaseFee + 1

BeginAccept ==
  /\ proposal # << >>
  /\ HeaderFits(proposal[1].block)
  /\ Begin("accept", proposal[1].block, proposal[1].block.txs)
  /\ UNCHANGED proposal

\* The transaction is valid and the block's gas stays within the limit.
Valid(tx) ==
  /\ Fits(state, tx, block.slot, block.fee)
  /\ gas + ApplyTx(state, tx, block.slot, block.fee).gas <= GasLimit

AcceptTx ==
  /\ task = "accept" /\ todo # << >>
  /\ Valid(Head(todo))
  /\ TakeTx
  /\ UNCHANGED block

Matches == gas = proposal[1].gas /\ Root(Paid) = proposal[1].root

\* gas_used, the state root and the certificate are right: the block is the tip.
Commit ==
  /\ task = "accept" /\ todo = << >>
  /\ Matches
  /\ End(Paid)
  /\ height' = height + 1
  /\ lastSlot' = block.slot
  /\ tipFee' = block.fee /\ tipGas' = gas
  /\ proposal' = << >>
  /\ UNCHANGED refused

\* Variant: the snapshot is not restored.
RefuseKept ==
  /\ task = "accept"
  /\ todo # << >> => ~Valid(Head(todo))
  /\ End(state)
  /\ refused' = (refused \/ todo # << >> \/ ~Matches)
  /\ UNCHANGED <<height, lastSlot, tipFee, tipGas, proposal>>

\* A transaction, gas_used, the state root or, at the end, the certificate is refused,
\* and the snapshot restored. Certificates are not modelled here: any may be refused.
Refuse ==
  /\ task = "accept"
  /\ todo # << >> => ~Valid(Head(todo))
  /\ End(snap)
  /\ refused' = (refused \/ todo # << >> \/ ~Matches)
  /\ UNCHANGED <<height, lastSlot, tipFee, tipGas, proposal>>

\* Bound: slots after the tip's. A leader whose clock is behind builds as well, but every
\* node refuses that block for its slot (Consensus has it) and the roll-back undoes the rest.
LNext ==
  \/ \E p \in Addr, slot \in lastSlot + 1 .. MaxSlot, txs \in Candidates :
       BeginBuild(p, slot, txs)
  \/ BuildTx \/ SkipTx \/ EndBuild
  \/ BeginAccept \/ AcceptTx \/ Commit \/ Refuse

LSpec == LInit /\ [][LNext]_lvars

-----------------------------------------------------------------------------
\* No transaction is applied twice, in one block or in two, whether its body succeeded or
\* failed and whatever was rolled back in between (the nonce check of apply_tx).
AppliedOnce ==
  \A i, j \in 1 .. Len(state.applied) : state.applied[i] = state.applied[j] => i = j

\* A name in the ledger keeps its owner for ever (ac_state_name_register).
NamesKept ==
  [][\A n \in Name : snap.names[n] # NoOwner => snap'.names[n] = snap.names[n]]_lvars

\* What build_block produces for a slot after the tip's passes accept_block on the same tip:
\* the two loops agree on gas, fees and state root, although one skips what does not fit
\* and the other refuses.
BuiltBlocksFit ==
  /\ ~refused
  /\ task = "idle" /\ proposal # << >> => HeaderFits(proposal[1].block)

Total(acct) == MapThenSumSet(LAMBDA a : acct[a].balance + acct[a].stake, Addr)

\* 100,000,000 CRD of 10^6 units are far less than 2^64.
ASSUME SupplyAssumption == Total(Genesis) < Word

\* The accounts hold what genesis gave them less what was burned: fees, name fees and half
\* of a slashed stake. Not included: a fee cut to the balance, a price of gas beyond 64 bits,
\* a reward the pool cannot pay, and a transfer to or a slash of oneself, where one of two
\* copies is lost.
Conserved == ~snap.irregular => Total(snap.acct) + snap.burned = Total(Genesis)

\* "No mint outside the documented emission" (SECURITY-AUDIT.md, I-5). The emission is paid
\* from the pool, so the accounts together never hold more than genesis gave them.
NoMint == Total(snap.acct) <= Total(Genesis)
=============================================================================
