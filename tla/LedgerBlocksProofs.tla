------------------------- MODULE LedgerBlocksProofs -------------------------
(***************************************************************************)
(* The ledger as a sequence of whole blocks, for any accounts, gas costs   *)
(* and histories: the loops that build and that accept a block agree, and  *)
(* every commit is one step of the atomic ledger.                          *)
(***************************************************************************)
EXTENDS LedgerProofs, LedgerBlocks

\* Time limits for the provers, in seconds.
USE SMTT(30), ZenonT(30)

-----------------------------------------------------------------------------
(* The execution of a block *)

RunStart(l) == [ok |-> TRUE, st |-> l.st, gas |-> 0, tips |-> 0]

RunStep(l, slot, tx, before) ==
  LET r == ApplyTx(before.st, tx, slot, FeeAfter(l))
  IN  IF before.ok /\ Fits(before.st, tx, slot, FeeAfter(l))
      THEN [ok |-> before.gas + r.gas <= GasLimit, st |-> r.st,
            gas |-> before.gas + r.gas, tips |-> before.tips + r.tip]
      ELSE [before EXCEPT !.ok = FALSE]

RunAt(l, slot, txs, f, k) == IF k = 0 THEN RunStart(l) ELSE RunStep(l, slot, txs[k], f[k - 1])

\* The recursion has a solution.
LEMMA RunExists ==
  ASSUME NEW l, NEW slot, NEW txs, Len(txs) \in Nat
  PROVE  \E f : f = [i \in 0 .. Len(txs) |-> RunAt(l, slot, txs, f, i)]
<1> DEFINE D == 0 .. Len(txs)
           Good(f, n) == f = [k \in D |-> f[k]]
                         /\ \A k \in D : k <= n => f[k] = RunAt(l, slot, txs, f, k)
           H == {n \in Nat : \E f : Good(f, n)}
<1>1. 0 \in H
  <2> DEFINE f == [k \in D |-> RunStart(l)]
  <2>1. \A k \in D : k <= 0 => k = 0
    OBVIOUS
  <2>2. f = [k \in D |-> f[k]]
    OBVIOUS
  <2>3. \A k \in D : k = 0 => f[k] = RunAt(l, slot, txs, f, k)
    BY DEF RunAt
  <2>4. Good(f, 0)
    BY <2>1, <2>2, <2>3
  <2> HIDE DEF Good, f
  <2> QED
    BY <2>4
<1>2. ASSUME NEW n \in Nat, n \in H
      PROVE  n + 1 \in H
  <2>1. PICK f : Good(f, n)
    BY <1>2
  <2> DEFINE g == [k \in D |-> IF k <= n THEN f[k] ELSE RunAt(l, slot, txs, f, k)]
  <2>2. ASSUME NEW k \in D, k <= n + 1
        PROVE  g[k] = RunAt(l, slot, txs, g, k)
    <3>1. g[k] = RunAt(l, slot, txs, f, k)
      BY <2>1
    <3>2. k # 0 => k - 1 \in D /\ k - 1 <= n
      BY <2>2
    <3>3. k # 0 => g[k - 1] = f[k - 1]
      BY <3>2
    <3> QED
      BY <3>1, <3>3 DEF RunAt
  <2>3. g = [k \in D |-> g[k]]
    OBVIOUS
  <2> HIDE DEF g
  <2>4. Good(g, n + 1)
    BY <2>2, <2>3, Zenon
  <2>5. n + 1 \in Nat
    OBVIOUS
  <2> HIDE DEF Good
  <2> QED
    BY <2>4, <2>5, Zenon
<1> HIDE DEF H
<1>3. Len(txs) \in H
  BY <1>1, <1>2, CountsUp
<1> HIDE DEF Good
<1>4. PICK f : Good(f, Len(txs))
  BY <1>3 DEF H
<1>5. \A k \in D : f[k] = RunAt(l, slot, txs, f, k)
  <2>1. \A k \in D : k <= Len(txs)
    OBVIOUS
  <2> QED
    BY <1>4, <2>1 DEF Good
<1>6. f = [k \in D |-> f[k]]
  BY <1>4, Zenon DEF Good
<1>7. f = [k \in D |-> RunAt(l, slot, txs, f, k)]
  BY <1>5, <1>6
<1> QED
  BY <1>7

\* The state after one transaction more.
LEMMA RunEquation ==
  ASSUME NEW l, NEW slot, NEW txs, Len(txs) \in Nat, NEW k \in 0 .. Len(txs)
  PROVE  Run(l, slot, txs)[k] = RunAt(l, slot, txs, Run(l, slot, txs), k)
<1> DEFINE Fix(f) == f = [i \in 0 .. Len(txs) |-> RunAt(l, slot, txs, f, i)]
           F == CHOOSE f : Fix(f)
<1>1. Run(l, slot, txs) = F
  BY DEF Run, RunAt, RunStart, RunStep
<1>2. Fix(F)
  <2>1. \E f : Fix(f)
    BY RunExists, ZenonT(40)
  <2> HIDE DEF Fix
  <2> QED
    BY <2>1, Zenon
<1> HIDE DEF F
<1>3. F[k] = RunAt(l, slot, txs, F, k)
  BY <1>2
<1> QED
  BY <1>1, <1>3

\* Transactions that follow do not change what came before.
LEMMA RunPrefix ==
  ASSUME NEW l, NEW slot, NEW txs \in Seq(Tx), NEW tx \in Tx, NEW k \in 0 .. Len(txs)
  PROVE  Run(l, slot, Append(txs, tx))[k] = Run(l, slot, txs)[k]
<1> DEFINE more == Append(txs, tx)
           A == Run(l, slot, txs)
           B == Run(l, slot, more)
           H == {n \in Nat : n <= Len(txs) => B[n] = A[n]}
<1>1. /\ Len(more) = Len(txs) + 1 /\ Len(txs) \in Nat
      /\ \A i \in 1 .. Len(txs) : more[i] = txs[i]
  OBVIOUS
<1> HIDE DEF more
<1>2. /\ \A n \in 0 .. Len(txs) : A[n] = RunAt(l, slot, txs, A, n)
      /\ \A n \in 0 .. Len(more) : B[n] = RunAt(l, slot, more, B, n)
  <2>1. \A n \in 0 .. Len(txs) : A[n] = RunAt(l, slot, txs, A, n)
    BY <1>1, RunEquation
  <2>2. Len(more) \in Nat
    BY <1>1
  <2>3. \A n \in 0 .. Len(more) : B[n] = RunAt(l, slot, more, B, n)
    BY <2>2, RunEquation
  <2> QED
    BY <2>1, <2>3
<1> HIDE DEF A, B
<1>3. 0 \in H
  BY <1>1, <1>2 DEF RunAt
<1>4. ASSUME NEW n \in Nat, n \in H
      PROVE  n + 1 \in H
  <2> SUFFICES ASSUME n + 1 <= Len(txs)
               PROVE  B[n + 1] = A[n + 1]
    OBVIOUS
  <2>1. B[n] = A[n] /\ more[n + 1] = txs[n + 1]
    BY <1>1, <1>4
  <2>2. n + 1 \in 0 .. Len(txs) /\ n + 1 \in 0 .. Len(more) /\ n + 1 # 0 /\ (n + 1) - 1 = n
    BY <1>1
  <2> QED
    BY <1>2, <2>1, <2>2 DEF RunAt
<1> HIDE DEF H
<1>5. k \in H
  BY <1>3, <1>4, CountsUp
<1> QED
  BY <1>5 DEF H, A, B, more

-----------------------------------------------------------------------------
(* What is built and accepted, as the execution of a block *)

\* The ledger a block is built on.
Tip == LedgerOf(snap, height, lastSlot, tipFee, tipGas)

\* A bound on the gas of a transaction that leaves room for all candidates.
MostGas ==
  CHOOSE g \in 0 .. GasLimit :
    /\ \A k \in Kind : Gas[k] + NewAccountGas <= g
    /\ \A txs \in Candidates : Len(txs) * g <= GasLimit

\* The execution of b on ledger l after k transactions, and the state of a loop that got there.
At(l, b, k) == Run(l, b.slot, b.txs)[k]
Reached(st, g, t) == [ok |-> TRUE, st |-> st, gas |-> g, tips |-> t]

\* b can follow l and all its transactions fit.
Sound(l, b) ==
  /\ b.height = l.height + 1 /\ b.slot > l.slot
  /\ l.st.acct[b.proposer].stake >= MinStake
  /\ b.fee = FeeAfter(l)
  /\ \A k \in 0 .. Len(b.txs) : At(l, b, k).ok

\* The first k of txs are what st has and old lacks.
Recorded(old, st, txs, k) ==
  /\ Len(st.applied) = Len(old.applied) + k
  /\ \A i \in 1 .. k : st.applied[Len(old.applied) + i] = txs[i]

\* p is a sound block on l with the gas and the root that its execution has.
Proposes(l, p) ==
  LET e == At(l, p.block, Len(p.block.txs))
  IN  /\ Sound(l, p.block)
      /\ p.gas = e.gas
      /\ p.root = Root(PayProposer(e.st, p.block.proposer, BlockReward(p.block.height), e.tips))

Building ==
  /\ Sound(Tip, block)
  /\ At(Tip, block, Len(block.txs)) = Reached(state, gas, tips)
  /\ gas + Len(todo) * MostGas <= GasLimit

Accepting ==
  LET k == Len(block.txs) - Len(todo)
  IN  /\ proposal # << >> /\ block = proposal[1].block
      /\ k \in 0 .. Len(block.txs)
      /\ \A i \in 1 .. Len(todo) : todo[i] = block.txs[k + i]
      /\ At(Tip, block, k) = Reached(state, gas, tips)
      /\ Recorded(snap, state, block.txs, k)

BlockInv ==
  /\ LInv
  /\ ~refused
  /\ tipFee >= MinBaseFee
  /\ task = "idle" => state = snap
  /\ task = "build" => Building
  /\ task = "accept" => Accepting
  /\ proposal # << >> => Proposes(Tip, proposal[1])

\* The next transaction of a queue, and the rest.
LEMMA QueueIs ==
  ASSUME NEW q \in Seq(Tx), q # << >>
  PROVE  /\ Head(q) \in Tx /\ Head(q) = q[1] /\ Len(q) \in Nat \ {0}
         /\ Len(Tail(q)) = Len(q) - 1
         /\ \A i \in 1 .. Len(Tail(q)) : Tail(q)[i] = q[i + 1]
  OBVIOUS

\* There is such a bound.
LEMMA MostGasIs ==
  /\ MostGas \in Nat
  /\ \A k \in Kind : Gas[k] + NewAccountGas <= MostGas
  /\ \A txs \in Candidates : Len(txs) * MostGas <= GasLimit
<1>1. MostGas \in 0 .. GasLimit
      /\ (\A k \in Kind : Gas[k] + NewAccountGas <= MostGas)
      /\ \A txs \in Candidates : Len(txs) * MostGas <= GasLimit
  BY RoomAssumption DEF RoomAssumption, MostGas
<1> QED
  BY <1>1, CostTypes DEF Costs

\* No transaction is charged more.
LEMMA GasBound ==
  ASSUME NEW st \in LState, NEW tx \in Tx, NEW slot \in Nat, NEW fee \in Nat,
         Fits(st, tx, slot, fee)
  PROVE  ApplyTx(st, tx, slot, fee).gas \in Nat /\ ApplyTx(st, tx, slot, fee).gas <= MostGas
<1> DEFINE s == [st.acct[tx.sender] EXCEPT !.nonce = (@ + 1) % Word]
           o == Body(st, tx, s, slot)
<1>1. /\ TxOK(tx) /\ NewAccountGas \in Nat /\ MostGas \in Nat
      /\ Gas[tx.kind] + NewAccountGas <= MostGas
  BY TxTypes, CostTypes, MostGasIs DEF TxOK, Costs
<1>2. o.gas \in {Gas[tx.kind], Gas[tx.kind] + NewAccountGas}
  <2> HIDE DEF s
  <2>1. Gas[tx.kind] + 0 = Gas[tx.kind]
    BY <1>1 DEF TxOK
  <2>2. Transfer(st, tx, s).gas \in {Gas[tx.kind], Gas[tx.kind] + NewAccountGas}
    BY <2>1 DEF Transfer, Outcome
  <2>3. Bond(st, tx, s).gas = Gas[tx.kind] /\ Unbond(st, tx, s, slot).gas = Gas[tx.kind]
    BY DEF Bond, Unbond, Unchanged, Outcome
  <2>4. RegisterName(st, tx, s).gas = Gas[tx.kind] /\ Slash(st, tx, s).gas = Gas[tx.kind]
    BY DEF RegisterName, Slash, Unchanged, Outcome
  <2>5. tx.kind \in Kind
    BY <1>1 DEF TxOK
  <2> QED
    BY <2>2, <2>3, <2>4, <2>5 DEF Body, Kind
<1>3. ApplyTx(st, tx, slot, fee).gas = Charged(o.gas, tx)
  BY DEF ApplyTx
<1> HIDE DEF o
<1>4. o.gas \in Nat /\ o.gas <= MostGas /\ tx.limit \in Nat
  BY <1>1, <1>2 DEF TxOK
<1> QED
  BY <1>1, <1>3, <1>4 DEF Charged

\* The base fee of the next block.
LEMMA TipFee == FeeAfter(Tip) = BaseFee /\ Tip.st = snap
  BY DEF FeeAfter, Tip, LedgerOf, BaseFee

\* It is never below the minimum.
LEMMA BaseFeeLeast ==
  ASSUME LTypeOK, tipFee >= MinBaseFee
  PROVE  BaseFee \in Nat /\ BaseFee >= MinBaseFee
<1>1. tipFee \in Nat /\ tipGas \in Nat /\ MinBaseFee \in Nat
  BY CostTypes DEF LTypeOK, Costs
<1>2. NextBaseFee(tipFee, tipGas) \in Nat
  BY <1>1, NextBaseFeeType
<1>3. \/ NextBaseFee(tipFee, tipGas) = tipFee
      \/ NextBaseFee(tipFee, tipGas) = MinBaseFee
      \/ ~(NextBaseFee(tipFee, tipGas) < MinBaseFee)
  BY DEF NextBaseFee
<1> QED
  BY <1>1, <1>2, <1>3 DEF BaseFee

\* A sound block up to transaction k: the next one fits and stays within the gas limit.
LEMMA SoundNext ==
  ASSUME NEW b \in LBlock, Sound(Tip, b), NEW k \in Nat, k < Len(b.txs),
         At(Tip, b, k) = Reached(state, gas, tips)
  PROVE  /\ Fits(state, b.txs[k + 1], b.slot, b.fee)
         /\ LET r == ApplyTx(state, b.txs[k + 1], b.slot, b.fee)
            IN  /\ gas + r.gas <= GasLimit
                /\ At(Tip, b, k + 1) = [ok |-> TRUE, st |-> r.st, gas |-> gas + r.gas,
                                        tips |-> tips + r.tip]
<1> DEFINE tx == b.txs[k + 1]
           r == ApplyTx(state, tx, b.slot, b.fee)
<1>1. b.txs \in Seq(Tx) /\ Len(b.txs) \in Nat
  BY DEF LBlock
<1>2. k + 1 \in 0 .. Len(b.txs) /\ k + 1 # 0 /\ (k + 1) - 1 = k
  BY <1>1
<1>3. At(Tip, b, k + 1) = RunStep(Tip, b.slot, tx, At(Tip, b, k))
  BY <1>1, <1>2, RunEquation DEF At, RunAt
<1>4. FeeAfter(Tip) = b.fee
  BY TipFee DEF Sound
<1>5. At(Tip, b, k + 1).ok
  BY <1>2 DEF Sound
<1>6. /\ Reached(state, gas, tips).ok = TRUE /\ Reached(state, gas, tips).st = state
      /\ Reached(state, gas, tips).gas = gas /\ Reached(state, gas, tips).tips = tips
  BY DEF Reached
<1> HIDE DEF tx
<1>7. At(Tip, b, k + 1) = IF Fits(state, tx, b.slot, b.fee)
                          THEN [ok |-> gas + r.gas <= GasLimit, st |-> r.st,
                                gas |-> gas + r.gas, tips |-> tips + r.tip]
                          ELSE [Reached(state, gas, tips) EXCEPT !.ok = FALSE]
  <2> DEFINE R == Reached(state, gas, tips)
  <2>1. At(Tip, b, k + 1) = RunStep(Tip, b.slot, tx, R)
    BY <1>3
  <2>2. R.ok /\ R.st = state /\ R.gas = gas /\ R.tips = tips
    BY <1>6
  <2> HIDE DEF R
  <2>3. RunStep(Tip, b.slot, tx, R) =
          IF R.ok /\ Fits(R.st, tx, b.slot, FeeAfter(Tip))
          THEN [ok |-> R.gas + ApplyTx(R.st, tx, b.slot, FeeAfter(Tip)).gas <= GasLimit,
                st |-> ApplyTx(R.st, tx, b.slot, FeeAfter(Tip)).st,
                gas |-> R.gas + ApplyTx(R.st, tx, b.slot, FeeAfter(Tip)).gas,
                tips |-> R.tips + ApplyTx(R.st, tx, b.slot, FeeAfter(Tip)).tip]
          ELSE [R EXCEPT !.ok = FALSE]
    BY Zenon DEF RunStep
  <2>4. RunStep(Tip, b.slot, tx, R) =
          IF R.ok /\ Fits(state, tx, b.slot, b.fee)
          THEN [ok |-> gas + r.gas <= GasLimit, st |-> r.st,
                gas |-> gas + r.gas, tips |-> tips + r.tip]
          ELSE [R EXCEPT !.ok = FALSE]
    BY <1>4, <2>2, <2>3, Zenon
  <2>5. At(Tip, b, k + 1) = IF Fits(state, tx, b.slot, b.fee)
                            THEN [ok |-> gas + r.gas <= GasLimit, st |-> r.st,
                                  gas |-> gas + r.gas, tips |-> tips + r.tip]
                            ELSE [R EXCEPT !.ok = FALSE]
    BY <2>1, <2>2, <2>4, Zenon
  <2> QED
    BY <2>5, Zenon DEF R
<1> HIDE DEF r
<1>8. Fits(state, tx, b.slot, b.fee)
  <2> SUFFICES ASSUME ~Fits(state, tx, b.slot, b.fee)
               PROVE  FALSE
    OBVIOUS
  <2>1. At(Tip, b, k + 1) = [Reached(state, gas, tips) EXCEPT !.ok = FALSE]
    BY <1>7
  <2> QED
    BY <1>5, <2>1 DEF Reached
<1> DEFINE fine == gas + r.gas <= GasLimit
           n == gas + r.gas
           m == tips + r.tip
<1>9. At(Tip, b, k + 1) = [ok |-> fine, st |-> r.st, gas |-> n, tips |-> m]
  BY <1>7, <1>8
<1>10. fine
  <2> HIDE DEF fine, n, m
  <2>1. [ok |-> fine, st |-> r.st, gas |-> n, tips |-> m].ok = fine
    OBVIOUS
  <2> QED
    BY <1>5, <1>9, <2>1
<1>11. (gas + r.gas <= GasLimit) = TRUE
  BY <1>10
<1> QED
  BY <1>8, <1>9, <1>10, <1>11, Zenon DEF tx, r

\* When all transactions of the proposal have been accepted, its header is right.
LEMMA AllAccepted ==
  ASSUME BlockInv, task = "accept", todo = << >>
  PROVE  /\ At(Tip, block, Len(block.txs)) = Reached(state, gas, tips)
         /\ Recorded(snap, state, block.txs, Len(block.txs))
         /\ Matches
<1>1. /\ proposal # << >> /\ block = proposal[1].block /\ block \in LBlock
      /\ Accepting /\ Proposes(Tip, proposal[1])
  BY DEF BlockInv, LInv, Accepting
<1>2. Len(todo) = 0 /\ Len(block.txs) \in Nat
  BY <1>1 DEF LBlock
<1>3. Len(block.txs) - Len(todo) = Len(block.txs)
  BY <1>2
<1>4. /\ At(Tip, block, Len(block.txs)) = Reached(state, gas, tips)
      /\ Recorded(snap, state, block.txs, Len(block.txs))
  BY <1>1, <1>3 DEF Accepting
<1>5. /\ Reached(state, gas, tips).st = state /\ Reached(state, gas, tips).gas = gas
      /\ Reached(state, gas, tips).tips = tips
  BY DEF Reached
<1>6. /\ proposal[1].gas = gas
      /\ proposal[1].root =
           Root(PayProposer(state, block.proposer, BlockReward(block.height), tips))
  BY <1>1, <1>4, <1>5 DEF Proposes
<1> QED
  BY <1>4, <1>6 DEF Matches, Paid

\* The next transaction of a proposal is accepted.
LEMMA NextAccepted ==
  ASSUME BlockInv, task = "accept", todo # << >>
  PROVE  /\ Valid(Head(todo))
         /\ LET k == Len(block.txs) - Len(todo)
                r == ApplyTx(state, Head(todo), block.slot, block.fee)
            IN  /\ k + 1 \in 1 .. Len(block.txs) /\ Head(todo) = block.txs[k + 1]
                /\ At(Tip, block, k + 1) = [ok |-> TRUE, st |-> r.st, gas |-> gas + r.gas,
                                            tips |-> tips + r.tip]
<1> DEFINE k == Len(block.txs) - Len(todo)
<1>1. /\ proposal # << >> /\ block = proposal[1].block /\ block \in LBlock
      /\ Accepting /\ Sound(Tip, block)
  BY DEF BlockInv, LInv, Accepting, Proposes
<1>2. /\ Len(todo) \in Nat \ {0} /\ Len(block.txs) \in Nat /\ Head(todo) = todo[1]
  <2>1. todo \in Seq(Tx)
    BY InvTypes, Zenon DEF BlockInv
  <2> QED
    BY <1>1, <2>1, QueueIs, BlockTypes, Zenon
<1>3. /\ k \in 0 .. Len(block.txs) /\ At(Tip, block, k) = Reached(state, gas, tips)
      /\ \A i \in 1 .. Len(todo) : todo[i] = block.txs[k + i]
  BY <1>1 DEF Accepting
<1>4. k \in Nat /\ k < Len(block.txs) /\ k + 1 \in 1 .. Len(block.txs)
  BY <1>2, <1>3
<1> HIDE DEF k
<1>5. Head(todo) = block.txs[k + 1]
  BY <1>2, <1>3
<1>6. /\ Fits(state, block.txs[k + 1], block.slot, block.fee)
      /\ LET r == ApplyTx(state, block.txs[k + 1], block.slot, block.fee)
         IN  /\ gas + r.gas <= GasLimit
             /\ At(Tip, block, k + 1) = [ok |-> TRUE, st |-> r.st, gas |-> gas + r.gas,
                                         tips |-> tips + r.tip]
  BY <1>1, <1>3, <1>4, SoundNext, Zenon
<1>7. Valid(Head(todo))
  BY <1>5, <1>6, Zenon DEF Valid
<1> QED
  BY <1>4, <1>5, <1>6, <1>7, Zenon DEF k

\* A block of no transactions.
LEMMA RunEmpty ==
  ASSUME NEW l, NEW b, b.txs = << >>
  PROVE  At(l, b, 0) = Reached(l.st, 0, 0) /\ Len(b.txs) = 0
<1>1. Len(b.txs) \in Nat /\ Len(b.txs) = 0 /\ 0 \in 0 .. Len(b.txs)
  OBVIOUS
<1> QED
  BY <1>1, RunEquation DEF At, RunAt, RunStart, Reached

\* The lock is taken to build.
LEMMA BeginBuildFits ==
  ASSUME BlockInv, NEW p \in Addr, NEW slot \in lastSlot + 1 .. MaxSlot, NEW txs \in Candidates,
         BeginBuild(p, slot, txs), LInv'
  PROVE  BlockInv'
<1>1. /\ block' = [height |-> height + 1, slot |-> slot, proposer |-> p, fee |-> BaseFee,
                   txs |-> << >>]
      /\ todo' = txs /\ task = "idle" /\ task' = "build" /\ gas' = 0 /\ tips' = 0
      /\ proposal' = << >> /\ state.acct[p].stake >= MinStake
      /\ UNCHANGED <<state, snap, height, lastSlot, tipFee, tipGas, refused>>
  BY DEF BeginBuild, Begin, Validator
<1>2. Tip' = Tip /\ Tip.st = snap /\ Tip.height = height /\ Tip.slot = lastSlot
  BY <1>1, Zenon DEF Tip, LedgerOf
<1>3. /\ block'.height = height + 1 /\ block'.slot = slot /\ block'.proposer = p
      /\ block'.fee = BaseFee /\ block'.txs = << >>
  BY <1>1, Zenon
<1>4. At(Tip, block', 0) = Reached(snap, 0, 0) /\ Len(block'.txs) = 0
  BY <1>2, <1>3, RunEmpty
<1>5. slot > lastSlot
  <2>1. lastSlot \in Nat
    BY InvTypes, ZenonT(40) DEF BlockInv
  <2> QED
    BY <2>1
<1>6. state = snap
  BY <1>1, Zenon DEF BlockInv
<1>7. Sound(Tip, block')
  <2>1. At(Tip, block', 0).ok
    BY <1>4 DEF Reached
  <2>2. \A k \in 0 .. Len(block'.txs) : k = 0
    BY <1>4
  <2> QED
    BY <1>1, <1>2, <1>3, <1>5, <1>6, <2>1, <2>2, TipFee DEF Sound
<1>8. gas' + Len(todo') * MostGas <= GasLimit
  <2>1. Len(txs) * MostGas <= GasLimit /\ Len(txs) \in Nat /\ MostGas \in Nat
    BY MostGasIs, LedgerAssumption DEF LedgerAssumption
  <2>2. Len(txs) * MostGas \in Nat
    BY <2>1
  <2> QED
    BY <1>1, <2>1, <2>2
<1>9. Building'
  BY <1>1, <1>2, <1>4, <1>6, <1>7, <1>8 DEF Building
<1> QED
  BY <1>1, <1>9 DEF BlockInv

\* A candidate is taken into the block.
LEMMA BuildTxFits ==
  ASSUME BlockInv, BuildTx, LInv'
  PROVE  BlockInv'
<1> DEFINE tx == Head(todo)
           n == Len(block.txs)
           r == ApplyTx(state, tx, block.slot, block.fee)
<1>1. /\ task = "build" /\ todo # << >> /\ Fits(state, tx, block.slot, block.fee)
      /\ state' = r.st /\ gas' = gas + r.gas /\ tips' = tips + r.tip /\ todo' = Tail(todo)
      /\ block' = [block EXCEPT !.txs = Append(@, tx)]
      /\ UNCHANGED <<snap, height, lastSlot, tipFee, tipGas, task, proposal, refused>>
  BY DEF BuildTx, TakeTx, Keeps
<1>2. /\ block \in LBlock /\ state \in LState /\ todo \in Seq(Tx) /\ gas \in Nat /\ tx \in Tx
      /\ Building
  <2>1. LInv /\ Building
    BY <1>1, Zenon DEF BlockInv
  <2>2. block \in LBlock /\ state \in LState /\ todo \in Seq(Tx) /\ gas \in Nat
    BY <1>1, <2>1, InvTypes
  <2> QED
    BY <1>1, <2>1, <2>2, QueueIs
<1>3. /\ block.txs \in Seq(Tx) /\ n \in Nat /\ block.slot \in Nat /\ block.fee \in Nat
  BY <1>2 DEF LBlock
<1>4. /\ block'.height = block.height /\ block'.slot = block.slot /\ block'.fee = block.fee
      /\ block'.proposer = block.proposer /\ block'.txs = Append(block.txs, tx)
  BY <1>1, <1>2 DEF LBlock
<1>5. Tip' = Tip
  BY <1>1 DEF Tip
<1> HIDE DEF tx
<1>6. r.gas \in Nat /\ r.gas <= MostGas
  BY <1>1, <1>2, <1>3, GasBound
<1>7. gas + r.gas + Len(Tail(todo)) * MostGas <= GasLimit /\ gas + r.gas <= GasLimit
  <2>1. Len(todo) \in Nat \ {0} /\ Len(Tail(todo)) = Len(todo) - 1
    BY <1>1, <1>2, QueueIs
  <2>2. gas + Len(todo) * MostGas <= GasLimit /\ MostGas \in Nat /\ GasLimit \in Nat
    BY <1>2, MostGasIs, CostTypes DEF Building, Costs
  <2> DEFINE m == Len(Tail(todo))
  <2>3. m \in Nat /\ Len(todo) = m + 1
    BY <2>1
  <2> HIDE DEF m, r
  <2>4. (m + 1) * MostGas = m * MostGas + MostGas /\ m * MostGas \in Nat
    BY <2>2, <2>3
  <2>5. gas + r.gas + m * MostGas <= GasLimit /\ gas + r.gas <= GasLimit
    BY <1>2, <1>6, <2>2, <2>3, <2>4
  <2> QED
    BY <2>5 DEF m
<1>8. \A k \in 0 .. n : At(Tip, block', k) = At(Tip, block, k)
  BY <1>2, <1>3, <1>4, RunPrefix DEF At
<1>9. At(Tip, block', n + 1) = Reached(r.st, gas + r.gas, tips + r.tip)
  <2> DEFINE R == Reached(state, gas, tips)
  <2>1. Len(block'.txs) = n + 1 /\ block'.txs[n + 1] = tx
    BY <1>2, <1>3, <1>4
  <2>2. n + 1 \in 0 .. Len(block'.txs) /\ Len(block'.txs) \in Nat /\ n + 1 # 0 /\ (n + 1) - 1 = n
    BY <1>3, <2>1
  <2>3. At(Tip, block', n + 1) = RunStep(Tip, block.slot, tx, At(Tip, block', n))
    <3> DEFINE all == block'.txs
               j == n + 1
               Q == Run(Tip, block.slot, all)
    <3>1. Q[j] = RunAt(Tip, block.slot, all, Q, j)
      BY <2>2, RunEquation
    <3>2. At(Tip, block', j) = Q[j] /\ At(Tip, block', n) = Q[j - 1] /\ all[j] = tx /\ j # 0
      BY <1>4, <2>1, <2>2 DEF At
    <3> HIDE DEF all, j, Q
    <3>3. At(Tip, block', j) = RunStep(Tip, block.slot, tx, At(Tip, block', n))
      BY <3>1, <3>2 DEF RunAt
    <3> QED
      BY <3>3 DEF j
  <2>4. At(Tip, block', n) = R
    BY <1>2, <1>3, <1>8 DEF Building
  <2>5. FeeAfter(Tip) = block.fee
    BY <1>2 DEF Building, Sound
  <2>6. R.ok /\ R.st = state /\ R.gas = gas /\ R.tips = tips
    BY DEF Reached
  <2> HIDE DEF R
  <2>7. RunStep(Tip, block.slot, tx, R) =
          IF R.ok /\ Fits(R.st, tx, block.slot, FeeAfter(Tip))
          THEN [ok |-> R.gas + ApplyTx(R.st, tx, block.slot, FeeAfter(Tip)).gas <= GasLimit,
                st |-> ApplyTx(R.st, tx, block.slot, FeeAfter(Tip)).st,
                gas |-> R.gas + ApplyTx(R.st, tx, block.slot, FeeAfter(Tip)).gas,
                tips |-> R.tips + ApplyTx(R.st, tx, block.slot, FeeAfter(Tip)).tip]
          ELSE [R EXCEPT !.ok = FALSE]
    BY Zenon DEF RunStep
  <2>8. RunStep(Tip, block.slot, tx, R) =
          [ok |-> gas + r.gas <= GasLimit, st |-> r.st, gas |-> gas + r.gas, tips |-> tips + r.tip]
    BY <1>1, <2>5, <2>6, <2>7, Zenon
  <2> HIDE DEF r
  <2>9. (gas + r.gas <= GasLimit) = TRUE
    BY <1>7, Zenon
  <2> QED
    BY <2>3, <2>4, <2>8, <2>9, Zenon DEF Reached
<1> HIDE DEF r
<1>10. Sound(Tip, block')
  <2>1. Len(block'.txs) = n + 1
    BY <1>2, <1>3, <1>4
  <2>2. \A k \in 0 .. Len(block'.txs) : k \in 0 .. n \/ k = n + 1
    BY <1>3, <2>1
  <2>3. \A k \in 0 .. n : At(Tip, block, k).ok
    BY <1>2 DEF Building, Sound
  <2>4. At(Tip, block', n + 1).ok
    BY <1>9 DEF Reached
  <2>5. \A k \in 0 .. Len(block'.txs) : At(Tip, block', k).ok
    BY <1>8, <2>2, <2>3, <2>4
  <2> QED
    BY <1>2, <1>4, <2>5 DEF Building, Sound
<1>11. At(Tip, block', Len(block'.txs)) = Reached(state', gas', tips')
  <2>1. Len(block'.txs) = n + 1
    BY <1>2, <1>3, <1>4
  <2> QED
    BY <1>1, <1>9, <2>1
<1>12. Building'
  BY <1>1, <1>5, <1>7, <1>10, <1>11 DEF Building
<1> QED
  BY <1>1, <1>5, <1>12 DEF BlockInv

\* A transaction of the proposal is accepted.
LEMMA AcceptTxFits ==
  ASSUME BlockInv, AcceptTx, LInv'
  PROVE  BlockInv'
<1> DEFINE tx == Head(todo)
           k == Len(block.txs) - Len(todo)
           r == ApplyTx(state, tx, block.slot, block.fee)
<1>1. /\ task = "accept" /\ todo # << >> /\ Fits(state, tx, block.slot, block.fee)
      /\ state' = r.st /\ gas' = gas + r.gas /\ tips' = tips + r.tip /\ todo' = Tail(todo)
      /\ UNCHANGED <<snap, height, lastSlot, tipFee, tipGas, task, proposal, refused, block>>
  BY DEF AcceptTx, TakeTx, Valid
<1>2. Tip' = Tip
  BY <1>1 DEF Tip
<1>3. /\ block \in LBlock /\ state \in LState /\ snap \in LState /\ todo \in Seq(Tx) /\ tx \in Tx
      /\ Accepting
  <2>1. LInv /\ Accepting
    BY <1>1, Zenon DEF BlockInv
  <2>2. block \in LBlock /\ state \in LState /\ snap \in LState /\ todo \in Seq(Tx)
    BY <1>1, <2>1, InvTypes
  <2> QED
    BY <1>1, <2>1, <2>2, QueueIs
<1>4. block.slot \in Nat /\ block.fee \in Nat /\ Len(block.txs) \in Nat /\ Len(todo) \in Nat \ {0}
  BY <1>1, <1>3, QueueIs, BlockTypes, ZenonT(40)
<1>5. /\ k + 1 \in 1 .. Len(block.txs) /\ tx = block.txs[k + 1]
      /\ At(Tip, block, k + 1) = Reached(r.st, gas + r.gas, tips + r.tip)
  BY <1>1, NextAccepted DEF Reached
<1>6. Len(todo') = Len(todo) - 1 /\ Len(block'.txs) - Len(todo') = k + 1
  <2>1. Len(todo') = Len(todo) - 1 /\ block' = block
    BY <1>1, <1>3, QueueIs
  <2> QED
    BY <1>4, <2>1
<1>7. \A i \in 1 .. Len(todo') : todo'[i] = block.txs[(k + 1) + i]
  <2> SUFFICES ASSUME NEW i \in 1 .. Len(todo')
               PROVE  todo'[i] = block.txs[(k + 1) + i]
    OBVIOUS
  <2>1. i + 1 \in 1 .. Len(todo) /\ todo'[i] = todo[i + 1]
    <3>1. todo'[i] = todo[i + 1]
      BY <1>1, <1>3, QueueIs, Zenon
    <3> QED
      BY <1>4, <1>6, <3>1
  <2>2. todo[i + 1] = block.txs[k + (i + 1)]
    BY <1>3, <2>1 DEF Accepting
  <2>3. k + (i + 1) = (k + 1) + i
    <3>1. k \in Int /\ i \in Int
      BY <1>4
    <3> HIDE DEF k
    <3> QED
      BY <3>1
  <2> QED
    BY <2>1, <2>2, <2>3
<1>8. Recorded(snap, state', block.txs, k + 1)
  <2>1. Advances(state, tx, r.st)
    <3> HIDE DEF tx
    <3> QED
      BY <1>1, <1>3, <1>4, ApplyTxOK
  <2>2. state'.applied = Append(state.applied, tx) /\ state.applied \in Seq(Tx)
        /\ snap.applied \in Seq(Tx)
    <3>1. state'.applied = Append(state.applied, tx)
      BY <1>1, <2>1, Zenon DEF Advances
    <3> QED
      BY <1>3, <3>1 DEF LState
  <2>3. Recorded(snap, state, block.txs, k)
    BY <1>3, Zenon DEF Accepting
  <2> DEFINE a == Len(snap.applied)
  <2>4. a \in Nat /\ k \in Nat /\ Len(state.applied) = a + k
    BY <1>4, <1>5, <2>2, <2>3 DEF Recorded
  <2>5. /\ Len(state'.applied) = a + (k + 1) /\ state'.applied[a + (k + 1)] = tx
        /\ \A i \in 1 .. a + k : state'.applied[i] = state.applied[i]
    <3>0. tx \in Tx
      BY <1>3
    <3> DEFINE old == state.applied
               new == state'.applied
    <3>1. new = Append(old, tx) /\ old \in Seq(Tx) /\ Len(old) = a + k /\ a \in Nat /\ k \in Nat
      BY <2>2, <2>4
    <3> HIDE DEF a, k, tx, old, new
    <3>2. /\ Len(new) = a + (k + 1) /\ new[a + (k + 1)] = tx
          /\ \A i \in 1 .. a + k : new[i] = old[i]
      BY <3>0, <3>1
    <3> QED
      BY <3>2 DEF old, new
  <2>6. \A i \in 1 .. k : state'.applied[a + i] = block.txs[i]
    <3> HIDE DEF k
    <3>1. \A i \in 1 .. k : a + i \in 1 .. a + k /\ state.applied[a + i] = block.txs[i]
      BY <2>3, <2>4 DEF Recorded
    <3> HIDE DEF a
    <3> QED
      BY <2>5, <3>1
  <2>7. \A i \in 1 .. k + 1 : i \in 1 .. k \/ i = k + 1
    BY <2>4
  <2> HIDE DEF k
  <2> QED
    BY <1>5, <2>5, <2>6, <2>7, Zenon DEF Recorded
<1>9. Accepting'
  <2>1. proposal' # << >> /\ block' = proposal'[1].block
    BY <1>1, <1>3 DEF Accepting
  <2>2. k + 1 \in 0 .. Len(block'.txs)
    <3>1. k + 1 \in 1 .. Len(block.txs) /\ block' = block
      BY <1>1, <1>5, Zenon
    <3> DEFINE j == k + 1
    <3> HIDE DEF j
    <3>2. j \in 0 .. Len(block'.txs)
      BY <1>4, <3>1 DEF j
    <3> QED
      BY <3>2 DEF j
  <2> HIDE DEF k
  <2>3. At(Tip', block', k + 1) = Reached(state', gas', tips')
    BY <1>1, <1>2, <1>5
  <2> QED
    BY <1>1, <1>6, <1>7, <1>8, <2>1, <2>2, <2>3, ZenonT(40) DEF Accepting
<1> QED
  BY <1>1, <1>2, <1>9 DEF BlockInv

\* The end of a task on the same tip.
LEMMA RolledBack ==
  ASSUME BlockInv, LInv', End(snap), ~refused',
         UNCHANGED <<height, lastSlot, tipFee, tipGas>>,
         proposal' # << >> => Proposes(Tip, proposal'[1])
  PROVE  BlockInv'
<1>1. state' = snap /\ snap' = snap /\ task' = "idle"
  BY DEF End
<1>2. Tip' = Tip
  BY <1>1 DEF Tip
<1>3. tipFee' >= MinBaseFee
  BY DEF BlockInv
<1> QED
  BY <1>1, <1>2, <1>3 DEF BlockInv

\* What is committed is the execution of the block.
LEMMA CommitExecutes ==
  ASSUME BlockInv, Commit
  PROVE  /\ block \in LBlock /\ Sound(Tip, block) /\ block.fee = BaseFee
         /\ At(Tip, block, Len(block.txs)) = Reached(state, gas, tips)
         /\ Recorded(snap, state, block.txs, Len(block.txs))
<1>1. task = "accept" /\ todo = << >>
  BY DEF Commit
<1>2. block \in LBlock /\ Accepting
  BY <1>1, ZenonT(40) DEF BlockInv, LInv
<1>3. Sound(Tip, block)
  BY <1>2, Zenon DEF Accepting, BlockInv, Proposes
<1>4. block.fee = BaseFee
  BY <1>3, TipFee DEF Sound
<1> QED
  BY <1>1, <1>2, <1>3, <1>4, AllAccepted

\* Every action keeps the invariant.
LEMMA BlockStep ==
  ASSUME BlockInv, [LNext]_lvars
  PROVE  BlockInv'
<1>0. LInv /\ LInv'
  BY LNextIsLStep, LStepOK DEF BlockInv, LInv
<1>1. ASSUME NEW p \in Addr, NEW slot \in lastSlot + 1 .. MaxSlot, NEW txs \in Candidates,
             BeginBuild(p, slot, txs)
      PROVE  BlockInv'
  BY <1>0, <1>1, BeginBuildFits
<1>2. CASE BuildTx
  BY <1>0, <1>2, BuildTxFits
<1>3. CASE SkipTx
  <2>1. /\ task = "build" /\ todo # << >> /\ todo' = Tail(todo)
        /\ UNCHANGED <<state, snap, height, lastSlot, tipFee, tipGas, task, block, gas, tips,
                       proposal, refused>>
    BY <1>3 DEF SkipTx
  <2>2. Tip' = Tip
    BY <2>1 DEF Tip
  <2>3. gas + Len(todo') * MostGas <= GasLimit
    <3> DEFINE m == Len(todo')
    <3>1. m \in Nat /\ Len(todo) = m + 1 /\ gas \in Nat
      <4>1. todo \in Seq(Tx) /\ gas \in Nat
        BY <1>0, InvTypes
      <4> QED
        BY <2>1, <4>1, QueueIs
    <3>2. gas + Len(todo) * MostGas <= GasLimit /\ MostGas \in Nat /\ GasLimit \in Nat
      BY <2>1, MostGasIs, CostTypes DEF BlockInv, Building, Costs
    <3> HIDE DEF m
    <3>3. (m + 1) * MostGas = m * MostGas + MostGas /\ m * MostGas \in Nat
      BY <3>1, <3>2
    <3>4. gas + m * MostGas <= GasLimit
      BY <3>1, <3>2, <3>3
    <3> QED
      BY <3>4 DEF m
  <2>4. Building'
    BY <2>1, <2>2, <2>3 DEF BlockInv, Building
  <2> QED
    BY <1>0, <2>1, <2>2, <2>4 DEF BlockInv
<1>4. CASE EndBuild
  <2>1. /\ task = "build" /\ End(snap) /\ UNCHANGED <<height, lastSlot, tipFee, tipGas, refused>>
        /\ proposal' = <<[block |-> block, gas |-> gas, root |-> Root(Paid)]>>
    BY <1>4 DEF EndBuild
  <2>2. Building
    BY <2>1 DEF BlockInv
  <2>3. /\ proposal'[1].block = block /\ proposal'[1].gas = gas
        /\ proposal'[1].root =
             Root(PayProposer(state, block.proposer, BlockReward(block.height), tips))
    BY <2>1 DEF Paid
  <2>4. Reached(state, gas, tips).st = state /\ Reached(state, gas, tips).gas = gas
        /\ Reached(state, gas, tips).tips = tips
    BY ZenonT(40) DEF Reached
  <2>5. Proposes(Tip, proposal'[1])
    BY <2>2, <2>3, <2>4 DEF Proposes, Building
  <2>6. ~refused'
    BY <2>1 DEF BlockInv
  <2> QED
    BY <1>0, <2>1, <2>5, <2>6, RolledBack
<1>5. CASE BeginAccept
  <2>1. /\ block' = proposal[1].block /\ todo' = proposal[1].block.txs /\ task' = "accept"
        /\ task = "idle" /\ gas' = 0 /\ tips' = 0 /\ proposal # << >>
        /\ UNCHANGED <<state, snap, height, lastSlot, tipFee, tipGas, proposal, refused>>
    BY <1>5 DEF BeginAccept, Begin
  <2>2. Tip' = Tip /\ Tip.st = snap
    BY <2>1, TipFee, Zenon DEF Tip
  <2>3. block' \in LBlock /\ state = snap
    BY <1>0, <2>1 DEF BlockInv, LInv
  <2>4. Len(block'.txs) \in Nat /\ todo' = block'.txs
    BY <2>1, <2>3 DEF LBlock
  <2>5. Len(block'.txs) - Len(todo') = 0
    BY <2>4
  <2>6. At(Tip, block', 0) = Reached(snap, 0, 0)
    <3>1. 0 \in 0 .. Len(block'.txs)
      BY <2>4
    <3> QED
      BY <2>2, <2>4, <3>1, RunEquation DEF At, RunAt, RunStart, Reached
  <2>7. Recorded(snap, state', block'.txs, 0)
    <3>1. Len(snap.applied) \in Nat
      <4>1. snap \in LState
        BY <1>0, InvTypes
      <4> QED
        BY <4>1 DEF LState
    <3> QED
      BY <2>1, <2>3, <3>1 DEF Recorded
  <2>8. \A i \in 1 .. Len(todo') : todo'[i] = block'.txs[0 + i]
    BY <2>4
  <2>9. Accepting'
    <3>1. 0 \in 0 .. Len(block'.txs)
      BY <2>4
    <3> QED
      BY <2>1, <2>2, <2>3, <2>5, <2>6, <2>7, <2>8, <3>1 DEF Accepting
  <2> QED
    BY <1>0, <2>1, <2>2, <2>9 DEF BlockInv
<1>6. CASE AcceptTx
  BY <1>0, <1>6, AcceptTxFits
<1>7. CASE Commit
  <2>1. End(Paid) /\ tipFee' = block.fee /\ proposal' = << >> /\ refused' = refused
    BY <1>7 DEF Commit
  <2>2. state' = snap' /\ task' = "idle"
    BY <2>1, ZenonT(40) DEF End
  <2>3. tipFee' >= MinBaseFee
    BY <1>0, <1>7, <2>1, CommitExecutes, BaseFeeLeast DEF BlockInv, LInv
  <2> QED
    BY <1>0, <2>1, <2>2, <2>3 DEF BlockInv
<1>8. CASE Refuse
  <2>1. /\ task = "accept" /\ End(snap) /\ UNCHANGED <<height, lastSlot, tipFee, tipGas, proposal>>
        /\ todo # << >> => ~Valid(Head(todo))
        /\ refused' = (refused \/ todo # << >> \/ ~Matches)
    BY <1>8, ZenonT(40) DEF Refuse
  <2>2. todo = << >> /\ Matches
    BY <2>1, NextAccepted, AllAccepted
  <2>3. ~refused'
    BY <2>1, <2>2, Zenon DEF BlockInv
  <2>4. proposal' # << >> => Proposes(Tip, proposal'[1])
    BY <2>1 DEF BlockInv
  <2> QED
    BY <1>0, <2>1, <2>3, <2>4, RolledBack
<1>9. CASE UNCHANGED lvars
  <2>1. /\ UNCHANGED <<state, snap, height, lastSlot, tipFee, tipGas>>
        /\ UNCHANGED <<task, block, todo, gas, tips, proposal, refused>>
    BY <1>9 DEF lvars
  <2>2. Tip' = Tip
    BY <2>1 DEF Tip
  <2>3. (task = "build" => Building)'
    BY <2>1, <2>2, Zenon DEF BlockInv, Building
  <2>4. (task = "accept" => Accepting)'
    BY <2>1, <2>2 DEF BlockInv, Accepting
  <2>5. (proposal # << >> => Proposes(Tip, proposal[1]))'
    BY <2>1, <2>2 DEF BlockInv
  <2> QED
    BY <1>0, <2>1, <2>3, <2>4, <2>5 DEF BlockInv
<1> QED
  BY <1>1, <1>2, <1>3, <1>4, <1>5, <1>6, <1>7, <1>8, <1>9 DEF LNext

\* The tip, what is being built on it and what was built on it.
THEOREM BlockInvariant == LSpec => []BlockInv
<1>1. LInit => BlockInv
  <2> SUFFICES ASSUME LInit
               PROVE  BlockInv
    OBVIOUS
  <2>1. LInv
    BY LInitOK
  <2>2. MinBaseFee \in Nat
    BY CostTypes DEF Costs
  <2> QED
    BY <2>1, <2>2 DEF LInit, BlockInv
<1>2. BlockInv /\ [LNext]_lvars => BlockInv'
  BY BlockStep
<1> QED
  BY <1>1, <1>2, PTL DEF LSpec

\* A node never refuses for its contents a block that was built on the same tip.
THEOREM BuiltBlocksFitHolds == LSpec => []BuiltBlocksFit
<1>1. BlockInv => BuiltBlocksFit
  <2> SUFFICES ASSUME BlockInv, task = "idle", proposal # << >>
               PROVE  HeaderFits(proposal[1].block)
    BY DEF BlockInv, BuiltBlocksFit
  <2> DEFINE b == proposal[1].block
  <2>1. Sound(Tip, b) /\ state = snap /\ b \in LBlock
    BY ZenonT(40) DEF BlockInv, Proposes, LInv
  <2>2. b.height = height + 1 /\ b.slot > lastSlot /\ snap.acct[b.proposer].stake >= MinStake
        /\ b.fee = BaseFee
    BY <2>1, TipFee DEF Sound, Tip, LedgerOf
  <2>3. BaseFee \in Nat /\ BaseFee >= MinBaseFee
    BY BaseFeeLeast DEF BlockInv, LInv
  <2>4. BaseFee + 1 >= BaseFee /\ BaseFee <= BaseFee + 1
    BY <2>3
  <2> HIDE DEF b
  <2>5. HeaderFits(b)
    BY <2>1, <2>2, <2>3, <2>4 DEF HeaderFits, Validator
  <2> QED
    BY <2>5 DEF b
<1> QED
  BY BlockInvariant, <1>1, PTL

\* The ledger of a node moves by whole blocks.
THEOREM LedgerImplementsAtomic == LSpec => ImplementsAtomic
<1>1. LInit => Atomic!AtomicInit
  BY DEF LInit, Atomic!AtomicInit
<1>2. BlockInv /\ [LNext]_lvars => [Atomic!AtomicNext]_Tip
  <2> SUFFICES ASSUME BlockInv, [LNext]_lvars, Tip' # Tip
               PROVE  Atomic!AtomicNext
    BY Zenon
  <2>1. Commit
    <3>1. ASSUME UNCHANGED <<snap, height, lastSlot, tipFee, tipGas>>
          PROVE  FALSE
      BY <3>1 DEF Tip
    <3> QED
      BY <3>1 DEF LNext, lvars, BeginBuild, Begin, BuildTx, TakeTx, SkipTx, EndBuild, End,
                  BeginAccept, AcceptTx, Refuse
  <2> DEFINE b == [proposer |-> block.proposer, slot |-> block.slot, txs |-> block.txs]
  <2>2. /\ block \in LBlock /\ Sound(Tip, block) /\ block.fee = BaseFee
        /\ At(Tip, block, Len(block.txs)) = Reached(state, gas, tips)
        /\ Recorded(snap, state, block.txs, Len(block.txs))
    BY <2>1, CommitExecutes, Zenon
  <2>3. Execution(Tip, b) = Reached(state, gas, tips)
    BY <2>2 DEF Execution, At
  <2>4. /\ snap' = Paid /\ height' = height + 1 /\ lastSlot' = block.slot
        /\ tipFee' = block.fee /\ tipGas' = gas
    BY <2>1 DEF Commit, End
  <2>5. Executes(Tip, b)
    <3>1. Execution(Tip, b).ok
      BY <2>3 DEF Reached
    <3>2. Tip.st.acct[block.proposer].stake >= MinStake /\ block.slot > Tip.slot
      BY <2>2, Zenon DEF Sound
    <3>3. b.proposer = block.proposer /\ b.slot = block.slot
      OBVIOUS
    <3> QED
      BY <3>1, <3>2, <3>3, Zenon DEF Executes
  <2>6. Tip' = After(Tip, b)
    <3>1. Tip.height = height
      BY ZenonT(40) DEF Tip, LedgerOf
    <3>2. block.height = height + 1 /\ FeeAfter(Tip) = block.fee
      BY <2>2, <3>1, Zenon DEF Sound
    <3>3. /\ Execution(Tip, b).st = state /\ Execution(Tip, b).gas = gas
          /\ Execution(Tip, b).tips = tips /\ b.proposer = block.proposer /\ b.slot = block.slot
      BY <2>3 DEF Reached
    <3>4. After(Tip, b) = LedgerOf(Paid, height + 1, block.slot, block.fee, gas)
      BY <3>1, <3>2, <3>3, Zenon DEF After, Paid
    <3> QED
      BY <2>4, <3>4, Zenon DEF Tip
  <2>7. b \in Between(Tip, Tip')
    <3>1. Tip'.slot = block.slot /\ Tip'.st = Paid /\ Tip.st = snap /\ block.proposer \in Addr
      BY <2>2, <2>4, Zenon DEF Tip, LedgerOf, LBlock
    <3>2. Paid.applied = state.applied
      <4>1. state \in LState /\ tips \in Nat
        BY InvTypes, Zenon DEF BlockInv
      <4>2. BlockReward(block.height) \in Nat
        BY <2>2, BlockTypes, RewardType, Zenon
      <4>3. Follows(state, Paid)
        BY <3>1, <4>1, <4>2, PayProposerOK DEF Paid
      <4> QED
        BY <4>3 DEF Follows
    <3>3. SubSeq(state.applied, Len(snap.applied) + 1, Len(state.applied)) = block.txs
      <4> DEFINE s == state.applied
                 a == Len(snap.applied)
                 n == Len(block.txs)
                 t == SubSeq(s, a + 1, Len(s))
      <4>1. s \in Seq(Tx) /\ a \in Nat /\ n \in Nat /\ block.txs \in Seq(Tx)
        <5>1. state \in LState /\ snap \in LState
          BY InvTypes, Zenon DEF BlockInv
        <5>2. block.txs \in Seq(Tx) /\ n \in Nat
          BY <2>2, BlockTypes, Zenon
        <5> QED
          BY <5>1, <5>2 DEF LState
      <4>2. Len(s) = a + n /\ \A i \in 1 .. n : s[a + i] = block.txs[i]
        BY <2>2 DEF Recorded
      <4> HIDE DEF s, a, n
      <4>3. t = [i \in 1 .. n |-> s[(a + 1) + i - 1]]
        BY <4>1, <4>2
      <4>4. \A i \in 1 .. n : (a + 1) + i - 1 = a + i
        BY <4>1
      <4>5. t = [i \in 1 .. n |-> block.txs[i]]
        BY <4>2, <4>3, <4>4
      <4>6. block.txs = [i \in 1 .. n |-> block.txs[i]]
        BY <4>1 DEF n
      <4> QED
        BY <4>5, <4>6, Zenon DEF s, a
    <3> QED
      BY <3>1, <3>2, <3>3, Zenon DEF Between
  <2> HIDE DEF b
  <2> QED
    BY <2>5, <2>6, <2>7 DEF Atomic!AtomicNext, Tip
<1>3. Tip = LedgerOf(snap, height, lastSlot, tipFee, tipGas)
  BY DEF Tip
<1> QED
  BY BlockInvariant, <1>1, <1>2, <1>3, PTL DEF LSpec, ImplementsAtomic, Atomic!AtomicSpec, Tip
=============================================================================
