---------------------------- MODULE AtomicLedger ----------------------------
(***************************************************************************)
(* What the ledger promises: it moves from the state after one block to    *)
(* the state after the next, and is never seen in between.                 *)
(***************************************************************************)
CONSTANTS
  Start,           \* the ledger after the genesis block
  Between(_, _),   \* Between(l, m): the blocks that ledger m may have and ledger l lacks
  Executes(_, _),  \* Executes(l, b): block b can follow ledger l
  After(_, _)      \* After(l, b): the ledger after it

VARIABLE ledger

AtomicInit == ledger = Start

AtomicNext ==
  \E b \in Between(ledger, ledger') : Executes(ledger, b) /\ ledger' = After(ledger, b)

AtomicSpec == AtomicInit /\ [][AtomicNext]_ledger
=============================================================================
