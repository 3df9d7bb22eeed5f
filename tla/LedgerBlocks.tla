---------------------------- MODULE LedgerBlocks ----------------------------
(***************************************************************************)
(* The execution of a block as one function of the ledger before it, and   *)
(* the ledger of module Ledger, which runs one transaction at a time with  *)
(* snapshots and roll-backs, as an implementation of it.                   *)
(***************************************************************************)
EXTENDS Ledger

LedgerOf(st, h, slot, fee, used) ==
  [st |-> st, height |-> h, slot |-> slot, fee |-> fee, gas |-> used]

FeeAfter(l) == IF l.height = 0 THEN MinBaseFee ELSE NextBaseFee(l.fee, l.gas)

\* The state, gas and tips after the first k of txs, one after the other.
Run(l, slot, txs) ==
  LET run[k \in 0 .. Len(txs)] ==
        IF k = 0
        THEN [ok |-> TRUE, st |-> l.st, gas |-> 0, tips |-> 0]
        ELSE LET before == run[k - 1]
                 r == ApplyTx(before.st, txs[k], slot, FeeAfter(l))
             IN  IF before.ok /\ Fits(before.st, txs[k], slot, FeeAfter(l))
                 THEN [ok |-> before.gas + r.gas <= GasLimit, st |-> r.st,
                       gas |-> before.gas + r.gas, tips |-> before.tips + r.tip]
                 ELSE [before EXCEPT !.ok = FALSE]
  IN  run

Execution(l, b) == Run(l, b.slot, b.txs)[Len(b.txs)]

Executes(l, b) ==
  /\ l.st.acct[b.proposer].stake >= MinStake
  /\ b.slot > l.slot
  /\ Execution(l, b).ok

After(l, b) ==
  LET e == Execution(l, b)
  IN  LedgerOf(PayProposer(e.st, b.proposer, BlockReward(l.height + 1), e.tips),
               l.height + 1, b.slot, FeeAfter(l), e.gas)

\* A block leaves its slot and its transactions in the ledger.
Between(l, m) ==
  [proposer : Addr, slot : {m.slot},
   txs : {SubSeq(m.st.applied, Len(l.st.applied) + 1, Len(m.st.applied))}]

Atomic == INSTANCE AtomicLedger WITH
            Start <- LedgerOf([acct |-> Genesis, names |-> [n \in Name |-> NoOwner],
                               burned |-> 0, irregular |-> FALSE, applied |-> << >>],
                              0, 0, MinBaseFee, 0),
            ledger <- LedgerOf(snap, height, lastSlot, tipFee, tipGas)

\* Building, accepting and refusing blocks, transaction by transaction with roll-backs, has
\* the effect of executing whole blocks one after the other: what build_block tries and what
\* accept_block refuses half-way leaves nothing behind, and a block accept_block commits has
\* the effect of its transactions in order followed by the payment of the proposer, once.
ImplementsAtomic == Atomic!AtomicSpec
=============================================================================
