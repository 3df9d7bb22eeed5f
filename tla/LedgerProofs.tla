---------------------------- MODULE LedgerProofs ----------------------------
(***************************************************************************)
(* The ledger for any accounts, transactions, gas costs and blocks: types, *)
(* replay protection, name ownership and the base fee.                     *)
(***************************************************************************)
EXTENDS Ledger, WellFoundedInduction, TLAPS

\* Time limits for the provers, in seconds.
USE SMTT(30), ZenonT(30)

\* The constants as the steps below use them.
Costs ==
  /\ NewAccountGas \in Nat /\ NameFee \in Nat /\ MinBaseFee \in Nat /\ UnbondDelay \in Nat
  /\ EarlyEmission \in Nat /\ LateEmission \in Nat /\ MaxSlot \in Nat /\ GasLimit \in Nat
  /\ YearSlots \in Nat \ {0} /\ Word \in Nat \ {0} /\ GasLimit \div 2 \in Nat \ {0}

\* They are numbers.
LEMMA CostTypes == Costs
  BY LedgerAssumption DEF LedgerAssumption, Costs

TxOK(tx) ==
  /\ tx.kind \in Kind /\ tx.sender \in Addr /\ tx.nonce \in Nat /\ tx.limit \in Nat
  /\ tx.tip \in Nat /\ tx.to \in Addr /\ tx.amount \in Nat /\ tx.name \in Name
  /\ tx.nonce + 1 < Word /\ Gas[tx.kind] \in Nat

\* The fields of a signed transaction.
LEMMA TxTypes == \A tx \in Tx : TxOK(tx)
  BY SMTT(20), LedgerAssumption DEF LedgerAssumption, TxOK

\* What every sum in a 64-bit field comes to.
LEMMA Wraps == \A n \in Int : n % Word \in U64
  BY CostTypes DEF Costs, U64

\* The fields of an account.
LEMMA AccountTypes ==
  ASSUME NEW a \in Account
  PROVE  /\ a.balance \in U64 /\ a.nonce \in U64 /\ a.stake \in U64 /\ a.unbondAt \in Nat
         /\ a.balance \in Int /\ a.stake \in Int
  BY CostTypes DEF Account, U64, Costs

\* Subtracting no more than there is stays in range.
LEMMA Takes == \A n \in U64, k \in Nat : k <= n => n - k \in U64
  BY CostTypes DEF U64, Costs

\* The account of an address.
LEMMA AcctOf == \A st \in LState, a \in Addr : st.acct[a] \in Account
  BY DEF LState

\* Nothing but the sender's nonce moves, and names only find owners.
Follows(st, new) ==
  /\ \A a \in Addr : new.acct[a].nonce = st.acct[a].nonce
  /\ \A n \in Name : st.names[n] # NoOwner => new.names[n] = st.names[n]
  /\ new.applied = st.applied

OutcomeOK(st, s, o) ==
  /\ o.st \in LState /\ o.s \in Account /\ o.gas \in Nat /\ o.burnt \in Nat
  /\ o.s.nonce = s.nonce
  /\ Follows(st, o.st)

-----------------------------------------------------------------------------
(* The bodies of the five kinds *)

\* A body that fails leaves everything as it was.
LEMMA UnchangedOK ==
  ASSUME NEW st \in LState, NEW tx \in Tx, NEW s \in Account, NEW t \in Account,
         t.nonce = s.nonce
  PROVE  OutcomeOK(st, s, Unchanged(st, tx, t))
  BY TxTypes DEF OutcomeOK, Unchanged, Outcome, Follows, TxOK

\* A transfer.
LEMMA TransferOK ==
  ASSUME NEW st \in LState, NEW tx \in Tx, NEW s \in Account, tx.amount <= s.balance
  PROVE  OutcomeOK(st, s, Transfer(st, tx, s))
<1> DEFINE g == Gas[tx.kind] + IF st.acct[tx.to] = NoAccount THEN NewAccountGas ELSE 0
           credited == [st EXCEPT !.acct[tx.to].balance = (@ + tx.amount) % Word]
           debited == [s EXCEPT !.balance = @ - tx.amount]
<1>1. g \in Nat
  BY TxTypes, CostTypes DEF TxOK, Costs
<1>2. (st.acct[tx.to].balance + tx.amount) % Word \in U64
  <2>1. st.acct[tx.to].balance \in Int /\ tx.amount \in Int
    BY TxTypes, AcctOf, AccountTypes DEF TxOK
  <2>2. st.acct[tx.to].balance + tx.amount \in Int
    BY <2>1
  <2> QED
    BY <2>2, Wraps
<1>3. credited \in LState /\ Follows(st, credited)
  BY <1>2, TxTypes, Zenon DEF TxOK, LState, Account, Follows
<1>4. debited \in Account /\ debited.nonce = s.nonce
  <2>1. s.balance - tx.amount \in U64
    BY TxTypes, Takes, AccountTypes DEF TxOK
  <2> QED
    BY <2>1 DEF Account
<1>5. OutcomeOK(st, s, Outcome(st, s, g, 0))
  BY <1>1 DEF OutcomeOK, Outcome, Follows
<1>6. OutcomeOK(st, s, Outcome(credited, debited, g, 0))
  BY <1>1, <1>3, <1>4, Zenon DEF OutcomeOK, Outcome
<1>7. Transfer(st, tx, s) \in {Outcome(st, s, g, 0), Outcome(credited, debited, g, 0)}
  BY DEF Transfer
<1> QED
  BY <1>5, <1>6, <1>7

\* Bonding.
LEMMA BondOK ==
  ASSUME NEW st \in LState, NEW tx \in Tx, NEW s \in Account
  PROVE  OutcomeOK(st, s, Bond(st, tx, s))
<1> DEFINE t == [s EXCEPT !.balance = @ - tx.amount, !.stake = (@ + tx.amount) % Word]
<1>1. (s.stake + tx.amount) % Word \in U64
  BY TxTypes, Wraps DEF TxOK, Account, U64
<1>3. CASE s.balance < tx.amount
  BY <1>3, UnchangedOK DEF Bond
<1>4. CASE ~(s.balance < tx.amount)
  <2>0. s.balance - tx.amount \in U64
    <3>1. tx.amount <= s.balance /\ tx.amount \in Nat
      BY <1>4, TxTypes, AccountTypes DEF TxOK
    <3> QED
      BY <3>1, Takes, AccountTypes
  <2>1. t \in Account /\ t.nonce = s.nonce
    BY <1>1, <2>0, Zenon DEF Account
  <2>2. Bond(st, tx, s) = Unchanged(st, tx, t)
    BY <1>4 DEF Bond
  <2> HIDE DEF t
  <2> QED
    BY <2>1, <2>2, UnchangedOK
<1> QED
  BY <1>3, <1>4

\* Unbonding.
LEMMA UnbondOK ==
  ASSUME NEW st \in LState, NEW tx \in Tx, NEW s \in Account, NEW slot \in Nat
  PROVE  OutcomeOK(st, s, Unbond(st, tx, s, slot))
<1> DEFINE t == [s EXCEPT !.stake = @ - tx.amount,
                          !.balance = (@ + tx.amount) % Word,
                          !.unbondAt = IF @ = 0 THEN slot + UnbondDelay ELSE @]
<1>1. (s.balance + tx.amount) % Word \in U64
  BY TxTypes, Wraps DEF TxOK, Account, U64
<1>2. CASE s.stake < tx.amount
  BY <1>2, UnchangedOK DEF Unbond
<1>3. CASE ~(s.stake < tx.amount)
  <2>0. s.stake - tx.amount \in U64
    <3>1. tx.amount <= s.stake /\ tx.amount \in Nat
      BY <1>3, TxTypes, AccountTypes DEF TxOK
    <3> QED
      BY <3>1, Takes, AccountTypes
  <2>1. t \in Account /\ t.nonce = s.nonce
    <3>1. (IF s.unbondAt = 0 THEN slot + UnbondDelay ELSE s.unbondAt) \in Nat
      BY AccountTypes, CostTypes DEF Costs
    <3> QED
      BY <1>1, <2>0, <3>1, Zenon DEF Account
  <2>2. Unbond(st, tx, s, slot) = Unchanged(st, tx, t)
    BY <1>3 DEF Unbond
  <2> HIDE DEF t
  <2> QED
    BY <2>1, <2>2, UnchangedOK
<1> QED
  BY <1>2, <1>3

\* Registering a name, which must be free.
LEMMA RegisterNameOK ==
  ASSUME NEW st \in LState, NEW tx \in Tx, NEW s \in Account
  PROVE  OutcomeOK(st, s, RegisterName(st, tx, s))
<1> DEFINE named == [st EXCEPT !.names[tx.name] = tx.sender]
           t == [s EXCEPT !.balance = @ - NameFee]
<1>1. CASE s.balance < NameFee \/ st.names[tx.name] # NoOwner
  BY <1>1, UnchangedOK DEF RegisterName
<1>2. CASE ~(s.balance < NameFee \/ st.names[tx.name] # NoOwner)
  <2>1. t \in Account /\ t.nonce = s.nonce
    BY <1>2, CostTypes DEF Account, U64, Costs
  <2>2. named \in LState /\ Follows(st, named)
    BY <1>2, TxTypes, Zenon DEF TxOK, LState, Follows
  <2>3. RegisterName(st, tx, s) = Outcome(named, t, Gas[tx.kind], NameFee)
    BY <1>2 DEF RegisterName
  <2> HIDE DEF named, t
  <2> QED
    BY <2>1, <2>2, <2>3, TxTypes, CostTypes DEF OutcomeOK, Outcome, TxOK, Costs
<1> QED
  BY <1>1, <1>2

\* Slashing.
LEMMA SlashOK ==
  ASSUME NEW st \in LState, NEW tx \in Tx, NEW s \in Account
  PROVE  OutcomeOK(st, s, Slash(st, tx, s))
<1> DEFINE stake == st.acct[tx.to].stake
           slashed == [st EXCEPT !.acct[tx.to].stake = 0]
           t == [s EXCEPT !.balance = (@ + stake \div 2) % Word]
<1>1. stake \in Nat /\ stake \div 2 \in Nat /\ stake - stake \div 2 \in Nat
  <2>1. stake \in U64
    BY TxTypes, AcctOf, AccountTypes DEF TxOK
  <2>2. stake \in Nat
    BY <2>1, CostTypes DEF U64, Costs
  <2> HIDE DEF stake
  <2> QED
    BY <2>2
<1>2. t \in Account /\ t.nonce = s.nonce
  <2>1. (s.balance + stake \div 2) % Word \in U64
    BY <1>1, Wraps DEF Account, U64
  <2> QED
    BY <2>1 DEF Account
<1>3. slashed \in LState /\ Follows(st, slashed)
  <2>1. 0 \in U64
    BY CostTypes DEF U64, Costs
  <2> QED
    BY <2>1, TxTypes, Zenon DEF TxOK, LState, Account, Follows
<1>4. \/ Slash(st, tx, s) = Unchanged(st, tx, s)
      \/ Slash(st, tx, s) = Outcome(slashed, t, Gas[tx.kind], stake - stake \div 2)
  BY DEF Slash
<1>5. OutcomeOK(st, s, Unchanged(st, tx, s))
  BY UnchangedOK
<1>6. OutcomeOK(st, s, Outcome(slashed, t, Gas[tx.kind], stake - stake \div 2))
  <2> HIDE DEF slashed, t, stake
  <2> QED
    BY <1>1, <1>2, <1>3, TxTypes DEF OutcomeOK, Outcome, TxOK
<1> QED
  BY <1>4, <1>5, <1>6

\* Every kind of body.
LEMMA BodyOK ==
  ASSUME NEW st \in LState, NEW tx \in Tx, NEW s \in Account, NEW slot \in Nat,
         tx.kind = "transfer" => tx.amount <= s.balance
  PROVE  OutcomeOK(st, s, Body(st, tx, s, slot))
<1>1. tx.kind \in Kind
  BY TxTypes DEF TxOK
<1>2. CASE tx.kind = "transfer"
  BY <1>2, TransferOK DEF Body
<1>3. CASE tx.kind = "bond"
  BY <1>3, BondOK DEF Body
<1>4. CASE tx.kind = "unbond"
  BY <1>4, UnbondOK DEF Body
<1>5. CASE tx.kind = "name"
  BY <1>5, RegisterNameOK DEF Body
<1>6. CASE tx.kind = "slash"
  BY <1>6, SlashOK DEF Body
<1> QED
  BY <1>1, <1>2, <1>3, <1>4, <1>5, <1>6 DEF Kind

-----------------------------------------------------------------------------
(* One transaction *)

\* The nonce of the sender goes up by one, no other does, and the transaction is recorded.
Advances(st, tx, new) ==
  /\ new.acct[tx.sender].nonce = tx.nonce + 1
  /\ \A a \in Addr \ {tx.sender} : new.acct[a].nonce = st.acct[a].nonce
  /\ \A n \in Name : st.names[n] # NoOwner => new.names[n] = st.names[n]
  /\ new.applied = Append(st.applied, tx)

\* A transaction that fits can pay what it transfers.
LEMMA FitsPays ==
  ASSUME NEW st \in LState, NEW tx \in Tx, NEW slot \in Nat, NEW fee \in Nat,
         Fits(st, tx, slot, fee)
  PROVE  /\ tx.nonce = st.acct[tx.sender].nonce
         /\ tx.kind = "transfer" => tx.amount <= st.acct[tx.sender].balance
<1> DEFINE perGas == (fee + tx.tip) % Word
<1>1. perGas \in Nat /\ tx.limit \in Nat /\ tx.amount \in Nat
  BY TxTypes, CostTypes DEF TxOK, Costs
<1> HIDE DEF perGas
<1>2. tx.limit * perGas \in Nat
  BY <1>1
<1>3. st.acct[tx.sender].balance \in Int
  BY TxTypes, AcctOf, AccountTypes DEF TxOK
<1>4. tx.kind = "transfer" => st.acct[tx.sender].balance >= tx.limit * perGas + tx.amount
  BY DEF Fits, perGas
<1>5. tx.nonce = st.acct[tx.sender].nonce
  BY DEF Fits
<1> QED
  BY <1>1, <1>2, <1>3, <1>4, <1>5

\* ac_state_apply_tx after its checks.
LEMMA ApplyTxOK ==
  ASSUME NEW st \in LState, NEW tx \in Tx, NEW slot \in Nat, NEW fee \in Nat,
         Fits(st, tx, slot, fee)
  PROVE  /\ ApplyTx(st, tx, slot, fee).st \in LState
         /\ ApplyTx(st, tx, slot, fee).gas \in Nat
         /\ ApplyTx(st, tx, slot, fee).tip \in Nat
         /\ Advances(st, tx, ApplyTx(st, tx, slot, fee).st)
<1> DEFINE s     == [st.acct[tx.sender] EXCEPT !.nonce = (@ + 1) % Word]
           o     == Body(st, tx, s, slot)
           g     == Charged(o.gas, tx)
           burnt == (g * fee) % Word
           tip   == (g * tx.tip) % Word
           total == (burnt + tip) % Word
           paid  == IF o.s.balance < total THEN o.s.balance ELSE total
           last  == [o.s EXCEPT !.balance = @ - paid]
           new   == [o.st EXCEPT
                       !.acct[tx.sender] = last,
                       !.burned = @ + o.burnt + burnt,
                       !.irregular = @ \/ paid < total \/ fee + tx.tip >= Word
                                       \/ (tx.kind \in {"transfer", "slash"} /\ tx.to = tx.sender),
                       !.applied = Append(@, tx)]
<1>1. tx.sender \in Addr /\ st.acct[tx.sender] \in Account /\ TxOK(tx)
  BY TxTypes, AcctOf DEF TxOK
<1>2. s \in Account /\ s.nonce = tx.nonce + 1 /\ s.balance = st.acct[tx.sender].balance
  <2>1. (st.acct[tx.sender].nonce + 1) % Word = tx.nonce + 1 /\ tx.nonce + 1 \in U64
    BY <1>1, FitsPays, CostTypes DEF TxOK, U64, Costs
  <2> QED
    BY <1>1, <2>1 DEF Account
<1>3. OutcomeOK(st, s, o)
  <2>1. tx.kind = "transfer" => tx.amount <= s.balance
    BY <1>2, FitsPays
  <2> HIDE DEF s
  <2> QED
    BY <1>2, <2>1, BodyOK
<1> HIDE DEF s, o
<1>4. /\ o.st \in LState /\ o.s \in Account /\ o.gas \in Nat /\ o.burnt \in Nat
      /\ o.s.nonce = s.nonce /\ Follows(st, o.st)
  BY <1>3 DEF OutcomeOK
<1>5. g \in Nat
  BY <1>1, <1>4 DEF Charged, TxOK
<1> HIDE DEF g
<1>6. burnt \in Nat /\ tip \in Nat
  <2>1. g * fee \in Int /\ g * tx.tip \in Int
    BY <1>1, <1>5 DEF TxOK
  <2>2. \A n \in U64 : n \in Nat
    BY CostTypes DEF U64, Costs
  <2>3. burnt \in U64
    BY <2>1, Wraps
  <2>4. tip \in U64
    BY <2>1, Wraps
  <2> QED
    BY <2>2, <2>3, <2>4
<1> HIDE DEF burnt, tip
<1>7. total \in Nat
  BY <1>6, CostTypes DEF Costs
<1> HIDE DEF total
<1>8. paid \in Nat /\ paid <= o.s.balance
  BY <1>4, <1>7, AccountTypes DEF U64
<1> HIDE DEF paid
<1>9. last \in Account /\ last.nonce = tx.nonce + 1
  <2>1. o.s.balance - paid \in U64
    BY <1>4, <1>8, AccountTypes, Takes
  <2> QED
    BY <1>2, <1>4, <2>1 DEF Account
<1> HIDE DEF last
<1>10. new \in LState /\ Advances(st, tx, new)
  <2> DEFINE f == [o.st.acct EXCEPT ![tx.sender] = last]
  <2>1. /\ f \in [Addr -> Account]
        /\ f[tx.sender].nonce = tx.nonce + 1
        /\ \A a \in Addr \ {tx.sender} : f[a].nonce = st.acct[a].nonce
    BY <1>1, <1>4, <1>9 DEF LState, Follows
  <2>2. o.st.burned + o.burnt + burnt \in Nat
    BY SMTT(20), <1>4, <1>6 DEF LState
  <2>3. Append(o.st.applied, tx) \in Seq(Tx) /\ o.st.applied = st.applied
    BY <1>4 DEF LState, Follows
  <2>4. /\ o.st.names \in [Name -> Addr \cup {NoOwner}]
        /\ \A n \in Name : st.names[n] # NoOwner => o.st.names[n] = st.names[n]
    BY <1>4 DEF LState, Follows
  <2>5. /\ new.acct = f /\ new.names = o.st.names
        /\ new.applied = Append(o.st.applied, tx)
    BY <1>4 DEF LState
  <2>6. new \in LState
    <3> HIDE DEF f
    <3> QED
      BY <1>4, <2>1, <2>2, <2>3, <2>4, Zenon DEF LState, f
  <2> HIDE DEF new, f
  <2> QED
    BY <2>1, <2>3, <2>4, <2>5, <2>6 DEF Advances
<1>11. ApplyTx(st, tx, slot, fee) = [gas |-> g, tip |-> tip, st |-> new]
  BY DEF ApplyTx, s, o, g, burnt, tip, total, paid, last
<1> HIDE DEF new
<1> QED
  BY <1>5, <1>6, <1>10, <1>11

-----------------------------------------------------------------------------
(* The block reward, the base fee and the payment of the proposer *)

\* ac_chain_block_reward.
LEMMA RewardType == \A h \in Nat : BlockReward(h) \in Nat
  BY CostTypes DEF BlockReward, Costs

\* ac_chain_next_base_fee is a number, whatever wraps in its product.
LEMMA NextBaseFeeType ==
  ASSUME NEW fee \in Nat, NEW used \in Nat
  PROVE  NextBaseFee(fee, used) \in Nat
<1> DEFINE target == GasLimit \div 2
           Step(d) == LET q == (((fee * d) % Word) \div target) \div 8
                      IN  IF q = 0 THEN 1 ELSE q
           next == IF used > target THEN fee + Step(used - target) ELSE fee - Step(target - used)
<1>1. target \in Nat \ {0}
  BY CostTypes DEF Costs
<1>2. \A d \in Nat : Step(d) \in Nat
  <2> SUFFICES ASSUME NEW d \in Nat
               PROVE  Step(d) \in Nat
    OBVIOUS
  <2> DEFINE w == (fee * d) % Word
  <2>1. w \in Nat
    <3>1. fee * d \in Nat
      OBVIOUS
    <3> QED
      BY <3>1, CostTypes DEF Costs
  <2> HIDE DEF w, target
  <2>2. w \div target \in Nat
    BY <1>1, <2>1
  <2>3. (w \div target) \div 8 \in Nat
    BY <2>2
  <2> QED
    BY <2>3 DEF w
<1>3. NextBaseFee(fee, used) =
        IF used = target THEN fee ELSE IF next < MinBaseFee THEN MinBaseFee ELSE next
  BY DEF NextBaseFee
<1> HIDE DEF target, Step
<1>4. next \in Int
  <2>1. CASE used > target
    <3>1. used - target \in Nat
      BY <1>1, <2>1
    <3> QED
      BY <1>2, <2>1, <3>1
  <2>2. CASE ~(used > target)
    <3>1. target - used \in Nat
      BY <1>1, <2>2
    <3> QED
      BY <1>2, <2>2, <3>1
  <2> QED
    BY <2>1, <2>2
<1> HIDE DEF next
<1> QED
  BY <1>3, <1>4, CostTypes DEF Costs

\* Paying the proposer moves balances only.
LEMMA PayProposerOK ==
  ASSUME NEW st \in LState, NEW p \in Addr, NEW reward \in Nat, NEW tip \in Nat
  PROVE  /\ PayProposer(st, p, reward, tip) \in LState
         /\ Follows(st, PayProposer(st, p, reward, tip))
         /\ PayProposer(st, p, reward, tip).names = st.names
<1> DEFINE credited == [st EXCEPT !.acct[p].balance = (@ + reward + tip) % Word]
           c == credited.acct[Pool].balance
           left == IF reward > c THEN 0 ELSE c - reward
<1>1. (st.acct[p].balance + reward + tip) % Word \in U64
  <2>1. st.acct[p].balance \in Int
    BY AcctOf, AccountTypes
  <2>2. st.acct[p].balance + reward + tip \in Int
    BY <2>1
  <2> QED
    BY <2>2, Wraps
<1>2. credited \in LState /\ Follows(st, credited) /\ credited.names = st.names
  BY <1>1, ZenonT(40) DEF LState, Account, Follows
<1> HIDE DEF credited
<1>3. Pool \in Addr
  BY LedgerAssumption DEF LedgerAssumption
<1>4. left \in U64
  <2>1. c \in U64
    BY <1>2, <1>3, AcctOf, AccountTypes
  <2>2. 0 \in U64
    BY CostTypes DEF U64, Costs
  <2>3. reward \in Nat /\ c \in Int
    BY <2>1, CostTypes DEF U64, Costs
  <2> HIDE DEF c
  <2>4. CASE reward > c
    BY <2>2, <2>4
  <2>5. CASE ~(reward > c)
    <3>1. reward <= c
      BY <2>3, <2>5
    <3>2. c - reward \in U64
      BY <2>1, <3>1, Takes
    <3> QED
      BY <2>5, <3>2
  <2> QED
    BY <2>4, <2>5
<1> DEFINE new == [credited EXCEPT !.acct[Pool].balance = left,
                                   !.irregular = @ \/ reward > c]
<1>5. PayProposer(st, p, reward, tip) = new
  BY DEF PayProposer, credited
<1> HIDE DEF left
<1>6. new \in LState /\ Follows(credited, new) /\ new.names = credited.names
  <2> HIDE DEF c
  <2>1. (credited.irregular \/ reward > c) \in BOOLEAN
    OBVIOUS
  <2> DEFINE f == [credited.acct EXCEPT ![Pool].balance = left]
  <2>2. f \in [Addr -> Account] /\ \A a \in Addr : f[a].nonce = credited.acct[a].nonce
    BY <1>2, <1>3, <1>4, ZenonT(40) DEF LState, Account
  <2>3. new = [credited EXCEPT !.acct = f, !.irregular = @ \/ reward > c]
    BY <1>2 DEF LState
  <2> HIDE DEF f, new
  <2>4. /\ new.acct = f /\ new.names = credited.names /\ new.applied = credited.applied
    BY <1>2, <2>3 DEF LState
  <2>5. new \in LState
    BY <1>2, <2>1, <2>2, <2>3, Zenon DEF LState
  <2> QED
    BY <2>2, <2>4, <2>5 DEF Follows
<1> HIDE DEF new
<1> QED
  BY <1>2, <1>5, <1>6 DEF Follows

-----------------------------------------------------------------------------
(* The inductive invariant *)

LBlock == [height : Nat, slot : Nat, proposer : Addr, fee : Nat, txs : Seq(Tx)]

\* Other transactions make another block.
LEMMA BlockTxs == \A b \in LBlock, txs \in Seq(Tx) : [b EXCEPT !.txs = txs] \in LBlock
  BY DEF LBlock

\* Whatever was applied has a nonce the account has left behind, and was applied once.
Spent(st) ==
  /\ \A i \in 1 .. Len(st.applied) :
       st.applied[i].nonce < st.acct[st.applied[i].sender].nonce
  /\ \A i, j \in 1 .. Len(st.applied) : st.applied[i] = st.applied[j] => i = j

\* The speculative state has the names of the ledger, and maybe more.
NamesFollow == \A n \in Name : snap.names[n] # NoOwner => state.names[n] = snap.names[n]

LInv ==
  /\ LTypeOK
  /\ task # "idle" => block \in LBlock
  /\ proposal # << >> => proposal[1].block \in LBlock
  /\ Spent(state) /\ Spent(snap)
  /\ NamesFollow

\* Payments keep it.
LEMMA FollowsSpent ==
  ASSUME NEW st, NEW new, st \in LState, Spent(st), Follows(st, new)
  PROVE  Spent(new)
<1>1. new.applied = st.applied
  BY DEF Follows
<1>2. \A i \in 1 .. Len(st.applied) : st.applied[i].sender \in Addr
  BY TxTypes DEF LState, TxOK
<1> QED
  BY <1>1, <1>2 DEF Spent, Follows

\* A transaction with the nonce of its sender keeps it.
LEMMA AdvancesSpent ==
  ASSUME NEW st, NEW new, NEW tx \in Tx, st \in LState, Spent(st),
         tx.nonce = st.acct[tx.sender].nonce, Advances(st, tx, new)
  PROVE  Spent(new)
<1> DEFINE old == st.applied
           k   == Len(old)
<1>1. old \in Seq(Tx) /\ k \in Nat /\ tx.sender \in Addr /\ tx.nonce \in Nat
  BY TxTypes DEF LState, TxOK
<1>2. /\ Len(new.applied) = k + 1
      /\ new.applied[k + 1] = tx
      /\ \A i \in 1 .. k : new.applied[i] = old[i]
  BY <1>1 DEF Advances
<1>3. \A i \in 1 .. k : old[i] \in Tx /\ old[i].sender \in Addr /\ old[i].nonce \in Nat
  BY <1>1, TxTypes DEF TxOK
<1>4. \A i \in 1 .. k : old[i].nonce < st.acct[old[i].sender].nonce
  BY DEF Spent
<1>5. new.acct[tx.sender].nonce = tx.nonce + 1
  BY DEF Advances
<1>6. \A i \in 1 .. k : old[i].nonce < new.acct[old[i].sender].nonce
  <2> SUFFICES ASSUME NEW i \in 1 .. k
               PROVE  old[i].nonce < new.acct[old[i].sender].nonce
    OBVIOUS
  <2> HIDE DEF k, old
  <2>1. CASE old[i].sender = tx.sender
    <3>1. old[i].nonce < tx.nonce
      BY <1>4, <2>1
    <3>2. new.acct[old[i].sender].nonce = tx.nonce + 1
      BY <1>5, <2>1, Zenon
    <3> QED
      BY <1>1, <1>3, <3>1, <3>2
  <2>2. CASE old[i].sender # tx.sender
    <3>1. new.acct[old[i].sender].nonce = st.acct[old[i].sender].nonce
      BY <1>3, <2>2, Zenon DEF Advances
    <3> QED
      BY <1>4, <3>1, Zenon
  <2> QED
    BY <2>1, <2>2
<1>7. \A i \in 1 .. k : old[i] # tx
  BY <1>1, <1>4
<1>8. \A i, j \in 1 .. k : old[i] = old[j] => i = j
  BY DEF Spent
<1>9. \A i \in 1 .. k + 1 : i \in 1 .. k \/ i = k + 1
  BY <1>1
<1> HIDE DEF k, old
<1>10. \A i \in 1 .. k + 1 : new.applied[i].nonce < new.acct[new.applied[i].sender].nonce
  <2>1. tx.nonce < new.acct[tx.sender].nonce
    BY <1>1, <1>5
  <2>2. \A i \in 1 .. k : new.applied[i].nonce < new.acct[new.applied[i].sender].nonce
    BY <1>2, <1>6
  <2> QED
    BY <1>2, <1>9, <2>1, <2>2
<1>11. \A i, j \in 1 .. k + 1 : new.applied[i] = new.applied[j] => i = j
  BY SMTT(20), <1>2, <1>7, <1>8, <1>9
<1> QED
  BY <1>2, <1>10, <1>11 DEF Spent

\* The empty ledger of the genesis block.
LEMMA LInitOK == LInit => LInv
<1> SUFFICES ASSUME LInit
             PROVE  LInv
  OBVIOUS
<1>1. state \in LState
  <2>1. Genesis \in [Addr -> Account]
    BY LedgerAssumption DEF LedgerAssumption
  <2>2. << >> \in Seq(Tx)
    OBVIOUS
  <2> QED
    BY <2>1, <2>2 DEF LInit, LState
<1>2. LTypeOK
  BY <1>1, CostTypes DEF LInit, LTypeOK, Costs
<1>3. Spent(state)
  <2>1. state.applied = << >> /\ Len(<< >>) = 0
    BY DEF LInit
  <2> QED
    BY <2>1 DEF Spent
<1>4. Spent(snap) /\ NamesFollow
  BY <1>3 DEF LInit, NamesFollow
<1> QED
  BY <1>2, <1>3, <1>4 DEF LInit, LInv

\* The payment at the end of a block.
LEMMA PaidOK ==
  ASSUME LInv, task # "idle"
  PROVE  Paid \in LState /\ Spent(Paid) /\ Paid.names = state.names
<1>1. block.proposer \in Addr /\ block.height \in Nat
  BY DEF LInv, LBlock
<1>2. BlockReward(block.height) \in Nat /\ tips \in Nat /\ state \in LState
  BY <1>1, RewardType, Zenon DEF LInv, LTypeOK
<1>3. Paid \in LState /\ Follows(state, Paid) /\ Paid.names = state.names
  BY <1>1, <1>2, PayProposerOK, Zenon DEF Paid
<1> QED
  BY <1>2, <1>3, FollowsSpent DEF LInv

\* One transaction, built or accepted.
LEMMA TakeTxOK ==
  ASSUME LInv, task # "idle", todo # << >>,
         Fits(state, Head(todo), block.slot, block.fee), TakeTx
  PROVE  LTypeOK' /\ Spent(state)' /\ Spent(snap)' /\ NamesFollow' /\ Head(todo) \in Tx
<1> DEFINE tx == Head(todo)
           r == ApplyTx(state, tx, block.slot, block.fee)
<1>1. tx \in Tx /\ Tail(todo) \in Seq(Tx)
  BY DEF LInv, LTypeOK
<1>2. block.slot \in Nat /\ block.fee \in Nat /\ state \in LState
  BY DEF LInv, LBlock, LTypeOK
<1>3. /\ state' = r.st /\ gas' = gas + r.gas /\ tips' = tips + r.tip /\ todo' = Tail(todo)
      /\ UNCHANGED <<snap, height, lastSlot, tipFee, tipGas, task>>
  BY DEF TakeTx
<1>4. Fits(state, tx, block.slot, block.fee)
  OBVIOUS
<1> HIDE DEF tx
<1>5. /\ r.st \in LState /\ r.gas \in Nat /\ r.tip \in Nat
      /\ Advances(state, tx, r.st) /\ tx.nonce = state.acct[tx.sender].nonce
  BY <1>1, <1>2, <1>4, ApplyTxOK, FitsPays
<1> HIDE DEF r
<1>6. LTypeOK'
  <2>1. gas + r.gas \in Nat /\ tips + r.tip \in Nat
    <3>1. gas \in Nat /\ tips \in Nat
      BY DEF LInv, LTypeOK
    <3> QED
      BY <1>5, <3>1
  <2>2. state' \in LState /\ todo' \in Seq(Tx)
    BY <1>1, <1>3, <1>5
  <2>3. snap' \in LState /\ task' \in {"idle", "build", "accept"}
        /\ {height', lastSlot', tipFee', tipGas'} \subseteq Nat
    BY SMTT(20), <1>3 DEF LInv, LTypeOK
  <2> QED
    BY <1>3, <2>1, <2>2, <2>3 DEF LTypeOK
<1>7. Spent(state)'
  <2>1. Spent(r.st)
    BY <1>1, <1>2, <1>5, AdvancesSpent DEF LInv
  <2> QED
    BY <1>3, <2>1 DEF Spent
<1>8. Spent(snap)'
  BY <1>3 DEF LInv, Spent
<1>9. NamesFollow'
  BY <1>3, <1>5 DEF LInv, NamesFollow, Advances
<1> QED
  BY <1>1, <1>6, <1>7, <1>8, <1>9 DEF tx

\* The steps of the ledger, with any candidates and slots.
LStep ==
  \/ \E p \in Addr, slot \in Nat, txs \in Seq(Tx) : BeginBuild(p, slot, txs)
  \/ BuildTx \/ SkipTx \/ EndBuild
  \/ BeginAccept \/ AcceptTx \/ Commit \/ Refuse

\* The pool and the clock only choose among them.
LEMMA LNextIsLStep == LTypeOK /\ [LNext]_lvars => [LStep]_lvars
<1> SUFFICES ASSUME LTypeOK, NEW p \in Addr, NEW slot \in lastSlot + 1 .. MaxSlot,
                    NEW txs \in Candidates, BeginBuild(p, slot, txs)
             PROVE  LStep
  BY DEF LNext, LStep
<1>1. lastSlot \in Nat /\ MaxSlot \in Nat
  BY CostTypes DEF LTypeOK, Costs
<1>2. slot \in Nat
  BY <1>1
<1>3. txs \in Seq(Tx)
  BY LedgerAssumption, Zenon DEF LedgerAssumption
<1> QED
  BY <1>2, <1>3 DEF LStep

\* Every action keeps the invariant, and a commit keeps the names of the ledger.
LEMMA LStepOK ==
  ASSUME LInv, [LStep]_lvars
  PROVE  /\ LInv'
         /\ \A n \in Name : snap.names[n] # NoOwner => snap'.names[n] = snap.names[n]
<1> DEFINE Kept == \A n \in Name : snap.names[n] # NoOwner => snap'.names[n] = snap.names[n]
<1> USE DEF LInv
<1>1. ASSUME NEW p \in Addr, NEW slot \in Nat, NEW txs \in Seq(Tx), BeginBuild(p, slot, txs)
      PROVE  LInv' /\ Kept
  <2>1. BaseFee \in Nat
    BY NextBaseFeeType, CostTypes DEF BaseFee, LTypeOK, Costs
  <2>2. << >> \in Seq(Tx)
    OBVIOUS
  <2>3. /\ block' = [height |-> height + 1, slot |-> slot, proposer |-> p, fee |-> BaseFee,
                     txs |-> << >>]
        /\ todo' = txs /\ task' = "build" /\ gas' = 0 /\ tips' = 0 /\ proposal' = << >>
        /\ UNCHANGED <<state, snap, height, lastSlot, tipFee, tipGas>>
    BY <1>1 DEF BeginBuild, Begin
  <2>4. block' \in LBlock
    BY <2>1, <2>2, <2>3 DEF LBlock, LTypeOK
  <2>5. LTypeOK'
    BY SMTT(20), <2>2, <2>3 DEF LTypeOK
  <2>6. Spent(state)' /\ Spent(snap)' /\ NamesFollow' /\ Kept
    BY <2>3 DEF Spent, NamesFollow
  <2> QED
    BY <2>3, <2>4, <2>5, <2>6
<1>2. CASE BuildTx
  <2>1. LTypeOK' /\ Spent(state)' /\ Spent(snap)' /\ NamesFollow' /\ Head(todo) \in Tx
    BY <1>2, TakeTxOK DEF BuildTx, Keeps
  <2>2. block' \in LBlock
    <3>1. block \in LBlock /\ block' = [block EXCEPT !.txs = Append(@, Head(todo))]
      BY <1>2 DEF BuildTx
    <3>2. Append(block.txs, Head(todo)) \in Seq(Tx)
      BY <2>1, <3>1 DEF LBlock
    <3> QED
      BY <3>1, <3>2, BlockTxs, Zenon
  <2> QED
    BY <1>2, <2>1, <2>2 DEF BuildTx, TakeTx
<1>3. CASE SkipTx
  <2>1. LTypeOK'
    BY <1>3 DEF SkipTx, LTypeOK
  <2>2. Spent(state)' /\ Spent(snap)' /\ NamesFollow' /\ Kept
    BY <1>3 DEF SkipTx, Spent, NamesFollow
  <2> QED
    BY <1>3, <2>1, <2>2 DEF SkipTx
<1>4. ASSUME NEW st \in LState, End(st), Spent(st),
             \A n \in Name : snap.names[n] # NoOwner => st.names[n] = snap.names[n],
             {height', lastSlot', tipFee', tipGas'} \subseteq Nat,
             proposal' # << >> => proposal'[1].block \in LBlock
      PROVE  LInv' /\ Kept
  <2>1. /\ state' = st /\ snap' = st /\ task' = "idle"
        /\ todo' = << >> /\ gas' = 0 /\ tips' = 0
    BY <1>4 DEF End
  <2>2. LTypeOK'
    BY SMTT(20), <1>4, <2>1 DEF LTypeOK
  <2>3. Spent(state)' /\ Spent(snap)'
    BY <1>4, <2>1 DEF Spent
  <2>4. NamesFollow' /\ Kept
    BY <1>4, <2>1 DEF NamesFollow
  <2> QED
    BY <1>4, <2>1, <2>2, <2>3, <2>4
<1>5. CASE EndBuild
  <2>1. End(snap) /\ snap \in LState /\ {height', lastSlot', tipFee', tipGas'} \subseteq Nat
    BY <1>5 DEF EndBuild, LTypeOK
  <2>2. proposal'[1].block \in LBlock
    BY <1>5 DEF EndBuild
  <2> QED
    BY <1>4, <2>1, <2>2
<1>6. CASE BeginAccept
  <2>1. /\ block' = proposal[1].block /\ todo' = proposal[1].block.txs /\ task' = "accept"
        /\ gas' = 0 /\ tips' = 0 /\ proposal # << >>
        /\ UNCHANGED <<state, snap, height, lastSlot, tipFee, tipGas, proposal>>
    BY <1>6 DEF BeginAccept, Begin
  <2>2. LTypeOK'
    BY <2>1, Zenon DEF LTypeOK, LBlock
  <2>3. Spent(state)' /\ Spent(snap)' /\ NamesFollow' /\ Kept
    BY <2>1 DEF Spent, NamesFollow
  <2> QED
    BY <2>1, <2>2, <2>3
<1>7. CASE AcceptTx
  <2>1. LTypeOK' /\ Spent(state)' /\ Spent(snap)' /\ NamesFollow'
    BY <1>7, TakeTxOK DEF AcceptTx, Valid
  <2> QED
    BY <1>7, <2>1 DEF AcceptTx, TakeTx
<1>8. CASE Commit
  <2>1. task # "idle" /\ End(Paid)
    BY <1>8 DEF Commit
  <2>2. Paid \in LState /\ Spent(Paid) /\ Paid.names = state.names
    BY <2>1, PaidOK
  <2>3. {height', lastSlot', tipFee', tipGas'} \subseteq Nat
    BY <1>8 DEF Commit, LTypeOK, LBlock
  <2>4. proposal' = << >>
    BY <1>8 DEF Commit
  <2> QED
    BY <1>4, <2>1, <2>2, <2>3, <2>4 DEF NamesFollow
<1>9. CASE Refuse
  <2>1. End(snap) /\ snap \in LState /\ {height', lastSlot', tipFee', tipGas'} \subseteq Nat
    BY <1>9 DEF Refuse, LTypeOK
  <2>2. proposal' # << >> => proposal'[1].block \in LBlock
    BY <1>9 DEF Refuse
  <2> QED
    BY <1>4, <2>1, <2>2
<1>10. CASE UNCHANGED lvars
  <2>1. LTypeOK'
    BY SMTT(20), <1>10 DEF lvars, LTypeOK
  <2>2. Spent(state)' /\ Spent(snap)' /\ NamesFollow' /\ Kept
    BY <1>10 DEF lvars, Spent, NamesFollow
  <2> QED
    BY <1>10, <2>1, <2>2 DEF lvars
<1> QED
  BY <1>1, <1>2, <1>3, <1>5, <1>6, <1>7, <1>8, <1>9, <1>10, Zenon DEF LStep

\* The invariant of build_block, accept_block and apply_tx.
THEOREM LedgerInvariant == LSpec => []LInv
<1>1. LInv /\ [LNext]_lvars => LInv'
  BY LNextIsLStep, LStepOK DEF LInv
<1> QED
  BY LInitOK, <1>1, PTL DEF LSpec

\* No balance, stake or nonce leaves its 64 bits, for any amounts, fees and tips: the checks
\* of apply_tx come before every subtraction, and what exceeds a balance is cut.
THEOREM LedgerTypes == LSpec => []LTypeOK
<1>1. LInv => LTypeOK
  BY DEF LInv
<1> QED
  BY LedgerInvariant, <1>1, PTL

\* No transaction is ever applied twice, in speculation or in the ledger (the nonce check).
THEOREM AppliedOnceHolds == LSpec => []AppliedOnce
<1>1. LInv => AppliedOnce
  BY DEF LInv, Spent, AppliedOnce
<1> QED
  BY LedgerInvariant, <1>1, PTL

\* A registered name keeps its owner (ac_state_name_register, and the roll-backs).
THEOREM NamesKeptHolds == LSpec => NamesKept
<1>1. LInv /\ [LNext]_lvars =>
        [\A n \in Name : snap.names[n] # NoOwner => snap'.names[n] = snap.names[n]]_lvars
  BY LNextIsLStep, LStepOK DEF LInv
<1> QED
  BY LedgerInvariant, <1>1, PTL DEF LSpec, NamesKept

-----------------------------------------------------------------------------
(* How far the base fee moves *)

\* One step of ac_chain_next_base_fee.
FeeStep(fee) == IF fee \div 8 = 0 THEN 1 ELSE fee \div 8

\* A quotient by 8 grows with the dividend.
LEMMA EighthGrows == \A m, n \in Nat : m <= n => m \div 8 <= n \div 8
  OBVIOUS

\* A quotient is at most k when the dividend is at most k times the divisor.
LEMMA QuotientAtMost ==
  ASSUME NEW a \in Nat, NEW b \in Nat \ {0}, NEW k \in Nat, a <= k * b
  PROVE  a \div b \in Nat /\ a \div b <= k
<1>1. PICK q \in Nat : q = a \div b /\ q * b <= a
  OBVIOUS
<1>2. ASSUME q >= k + 1 PROVE FALSE
  <2>1. (k + 1) * b <= q * b
    BY <1>2
  <2>2. (k + 1) * b = k * b + b
    OBVIOUS
  <2> QED
    BY <1>1, <2>1, <2>2
<1> QED
  BY <1>1, <1>2

\* From one block to the next the base fee (ac_chain_next_base_fee) rises after a block above
\* the gas target, does not rise after one below it, never falls under the minimum, and moves
\* by at most an eighth of itself or by one, even where the product wraps at 64 bits.
THEOREM BaseFeeMoves ==
  ASSUME GasLimit % 2 = 0, NEW fee \in Nat, fee >= MinBaseFee, NEW used \in 0 .. GasLimit
  PROVE  /\ NextBaseFee(fee, used) >= MinBaseFee
         /\ used > GasLimit \div 2 =>
              NextBaseFee(fee, used) \in fee + 1 .. fee + FeeStep(fee)
         /\ used < GasLimit \div 2 =>
              /\ NextBaseFee(fee, used) <= fee
              /\ NextBaseFee(fee, used) >= fee - FeeStep(fee)
              /\ NextBaseFee(fee, used) = fee => fee = MinBaseFee
         /\ used = GasLimit \div 2 => NextBaseFee(fee, used) = fee
<1> DEFINE target == GasLimit \div 2
           Step(d) == LET q == (((fee * d) % Word) \div target) \div 8
                      IN  IF q = 0 THEN 1 ELSE q
           next == IF used > target THEN fee + Step(used - target) ELSE fee - Step(target - used)
<1>1. target \in Nat \ {0} /\ GasLimit = 2 * target /\ Word \in Nat \ {0} /\ MinBaseFee \in Nat
      /\ used \in Nat
  BY CostTypes DEF Costs
<1>2. FeeStep(fee) \in Nat \ {0}
  BY DEF FeeStep
<1> HIDE DEF target
<1>3. ASSUME NEW d \in 0 .. target
      PROVE  Step(d) \in 1 .. FeeStep(fee)
  <2> DEFINE w == (fee * d) % Word
  <2>1. w \in Nat /\ w <= fee * d
    <3>1. fee * d \in Nat
      BY <1>1
    <3> QED
      BY <1>1, <3>1
  <2>2. fee * d <= fee * target
    BY <1>1
  <2>3. w <= fee * target
    BY <1>1, <2>1, <2>2
  <2> HIDE DEF w
  <2>4. w \div target \in Nat /\ w \div target <= fee
    BY <1>1, <2>1, <2>3, QuotientAtMost
  <2>5. (w \div target) \div 8 \in Nat /\ (w \div target) \div 8 <= fee \div 8
    BY <2>4, EighthGrows
  <2>6. Step(d) = IF (w \div target) \div 8 = 0 THEN 1 ELSE (w \div target) \div 8
    BY DEF w
  <2> HIDE DEF Step
  <2> QED
    BY <1>2, <2>5, <2>6 DEF FeeStep
<1>4. NextBaseFee(fee, used) =
        IF used = target THEN fee ELSE IF next < MinBaseFee THEN MinBaseFee ELSE next
  BY DEF NextBaseFee, target
<1> HIDE DEF Step
<1>5. CASE used = target
  BY <1>1, <1>4, <1>5 DEF target
<1>6. CASE used > target
  <2>1. used - target \in 0 .. target
    BY <1>1, <1>6
  <2>2. PICK s \in 1 .. FeeStep(fee) : s = Step(used - target)
    BY <1>3, <2>1
  <2>3. next = fee + s
    BY <1>6, <2>2
  <2> HIDE DEF next
  <2> QED
    BY <1>1, <1>2, <1>4, <1>6, <2>2, <2>3 DEF target
<1>7. CASE used < target
  <2>1. target - used \in 0 .. target
    BY <1>1, <1>7
  <2>2. PICK s \in 1 .. FeeStep(fee) : s = Step(target - used)
    BY <1>3, <2>1
  <2>3. next = fee - s
    BY <1>1, <1>7, <2>2
  <2> HIDE DEF next
  <2> QED
    BY <1>1, <1>2, <1>4, <1>7, <2>2, <2>3 DEF target
<1> QED
  BY <1>1, <1>5, <1>6, <1>7

-----------------------------------------------------------------------------
(* Counting *)

\* Every set of numbers has a least one.
LEMMA LeastNatural ==
  ASSUME NEW T, T \subseteq Nat, T # {}
  PROVE  \E x \in T : \A y \in T : x <= y
<1> DEFINE R == OpToRel(<, Nat)
<1>1. IsWellFoundedOn(R, Nat)
  BY NatLessThanWellFounded, Zenon
<1>2. R = {p \in Nat \X Nat : p[1] < p[2]}
  BY DEF OpToRel
<1> HIDE DEF R
<1>3. PICK x \in T : \A y \in T : ~(<<y, x>> \in R)
  BY <1>1, WFMin, Zenon
<1>4. ASSUME NEW y \in T
      PROVE  x <= y
  <2>1. x \in Nat /\ y \in Nat
    OBVIOUS
  <2>2. y < x => <<y, x>> \in R
    BY <1>2, <2>1
  <2> QED
    BY <1>3, <2>1, <2>2
<1> QED
  BY <1>4

\* A set that has 0 and, with every number, the next one has all numbers.
LEMMA CountsUp ==
  ASSUME NEW G, 0 \in G, \A n \in Nat : n \in G => n + 1 \in G
  PROVE  Nat \subseteq G
<1> SUFFICES ASSUME Nat \ G # {}
             PROVE  FALSE
  OBVIOUS
<1>1. PICK x \in Nat \ G : \A y \in Nat \ G : x <= y
  <2> DEFINE B == Nat \ G
  <2>1. B \subseteq Nat /\ B # {}
    OBVIOUS
  <2> HIDE DEF B
  <2>2. \E x \in B : \A y \in B : x <= y
    BY <2>1, LeastNatural, Zenon
  <2> QED
    BY <2>2 DEF B
<1>2. x - 1 \in Nat /\ x - 1 < x
  BY <1>1
<1>3. x - 1 \in G
  BY <1>1, <1>2
<1>4. (x - 1) + 1 \in G
  BY <1>2, <1>3
<1> QED
  BY <1>1, <1>4

\* The types that the invariant gives the steps.
LEMMA InvTypes ==
  ASSUME LInv
  PROVE  /\ state \in LState /\ snap \in LState /\ todo \in Seq(Tx)
         /\ gas \in Nat /\ tips \in Nat /\ height \in Nat /\ lastSlot \in Nat
         /\ task # "idle" => block \in LBlock
         /\ proposal # << >> => proposal[1].block \in LBlock
<1>1. {height, lastSlot, tipFee, tipGas} \subseteq Nat
  BY Zenon DEF LInv, LTypeOK
<1>2. height \in Nat /\ lastSlot \in Nat
  BY <1>1, Zenon
<1> QED
  BY <1>2, Zenon DEF LInv, LTypeOK

\* A block.
LEMMA BlockTypes ==
  ASSUME NEW b \in LBlock
  PROVE  /\ b.slot \in Nat /\ b.fee \in Nat /\ b.height \in Nat
         /\ b.txs \in Seq(Tx) /\ Len(b.txs) \in Nat
  BY DEF LBlock

=============================================================================
