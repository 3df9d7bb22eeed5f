------------------------------ MODULE MCLedger ------------------------------
(***************************************************************************)
(* Two users and two validators. Fees and balances are scaled down; a      *)
(* block has at most two transactions, so that its gas stays far below the *)
(* limit, as it does in the code (256 transactions against 30,000,000).    *)
(***************************************************************************)
EXTENDS LedgerBlocks

CONSTANTS u1, u2, v1, v2, pool, name1

MCAddr == {u1, u2, v1, v2, pool}

MCGas == [k \in Kind |-> CASE k = "transfer" -> 1 [] k \in {"bond", "unbond"} -> 2
                           [] k = "name" -> 3 [] k = "slash" -> 4]

Has(balance, stake) == [NoAccount EXCEPT !.balance = balance, !.stake = stake]

MCGenesis ==
  [a \in MCAddr |-> CASE a = u1 -> Has(14, 0) [] a = u2 -> NoAccount
                      [] a = v1 -> Has(8, 5) [] a = v2 -> Has(9, 4)
                      [] a = pool -> Has(5, 0)]

\* v1 has just what it bonds.
AllBonded == [MCGenesis EXCEPT ![v1] = Has(6, 5)]

T(kind, sender, nonce, limit, tip, until, to, amount) ==
  [kind |-> kind, sender |-> sender, nonce |-> nonce, limit |-> limit, tip |-> tip,
   until |-> until, to |-> to, amount |-> amount, name |-> name1]

MCTx ==
  {T("transfer", u1, 0, 2, 1, 9, u2, 5),   \* creates u2
   T("transfer", u1, 0, 1, 2, 9, u2, 5),   \* runs out of gas if u2 is new
   T("name", u1, 1, 3, 0, 9, u1, 0),
   T("name", u2, 0, 3, 0, 3, u2, 0),       \* expires in slot 3
   T("transfer", u1, 1, 1, 0, 9, u1, 1),   \* to oneself
   T("bond", v1, 0, 2, 1, 9, v1, 6),       \* leaves too little for the fee before v1 earns
   T("unbond", v1, 1, 2, 0, 9, v1, 7),     \* more than the stake once v1 is slashed
   T("slash", v2, 0, 4, 1, 9, v1, 0)}

\* Entries of the pool are sorted by tip and have different senders or nonces.
MCCandidates ==
  {<< >>} \cup {<<t>> : t \in MCTx} \cup
  {c \in MCTx \X MCTx : /\ c[1].tip >= c[2].tip
                        /\ <<c[1].sender, c[1].nonce>> # <<c[2].sender, c[2].nonce>>}
=============================================================================
