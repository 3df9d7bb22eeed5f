------------------------------ MODULE MCMempool ------------------------------
(***************************************************************************)
(* A pool of two entries, three senders. Another leader may have any one   *)
(* of the transactions or none in its pool.                                *)
(***************************************************************************)
EXTENDS Mempool

CONSTANTS u1, u2, v1, v2, pool1, name1

MCAddr == {u1, u2, v1, v2, pool1}
MCGas == [k \in Kind |-> 1]
Has(balance, stake) == [NoAccount EXCEPT !.balance = balance, !.stake = stake]

MCGenesis ==
  [a \in MCAddr |-> CASE a \in {u1, u2} -> Has(7, 0)
                      [] a \in {v1, v2} -> Has(0, 4)
                      [] a = pool1 -> Has(5, 0)]

T(sender, nonce, tip, until, amount) ==
  [kind |-> "transfer", sender |-> sender, nonce |-> nonce, limit |-> 1, tip |-> tip,
   until |-> until, to |-> v2, amount |-> amount, name |-> name1]

MCTx ==
  {T(u1, 0, 0, 9, 1),
   T(u1, 0, 1, 9, 3),   \* replaces the first
   T(u1, 1, 0, 9, 3),   \* not affordable after the second
   T(u2, 0, 0, 2, 1),   \* expires in slot 2
   T(v2, 0, 2, 9, 0)}   \* affordable once v2 has been paid

MCCandidates == {<< >>} \cup {<<t>> : t \in MCTx}
=============================================================================
