---------------------------- MODULE SupplyProofs ----------------------------
(***************************************************************************)
(* Conservation, for any accounts, gas costs and histories: what is not    *)
(* burnt stays in balances, stakes and tips on their way to a proposer.    *)
(***************************************************************************)
EXTENDS LedgerProofs, FiniteSetTheorems

\* Time limits for the provers, in seconds.
USE SMTT(30), ZenonT(30)

-----------------------------------------------------------------------------
(* Sums over the accounts *)

\* There are finitely many accounts.
LEMMA Fin == IsFiniteSet(Addr)
  BY LedgerAssumption DEF LedgerAssumption

\* The accounts are added up one by one.
Pick(s) == CHOOSE x \in s : TRUE
Worth(a) == a.balance + a.stake
Adds(acct, f, s) == IF s = {} THEN 0 ELSE Worth(acct[Pick(s)]) + f[s \ {Pick(s)}]
SumOf(acct) == CHOOSE f : f = [s \in SUBSET Addr |-> Adds(acct, f, s)]

\* Total adds up the accounts in some order.
LEMMA TotalIs ==
  ASSUME NEW acct
  PROVE  Total(acct) = SumOf(acct)[Addr]
  BY DEF Total, MapThenSumSet, MapThenFoldSet, Pick, SumOf, Adds, Worth

\* One account less to add up.
LEMMA Removed ==
  \A s \in SUBSET Addr : s # {} =>
         /\ Pick(s) \in s /\ s \ {Pick(s)} \in SUBSET Addr
         /\ IsFiniteSet(s)
         /\ Cardinality(s) \in Nat /\ Cardinality(s \ {Pick(s)}) \in Nat
         /\ Cardinality(s) = Cardinality(s \ {Pick(s)}) + 1
<1> TAKE s \in SUBSET Addr
<1> HAVE s # {}
<1>1. Pick(s) \in s
  BY DEF Pick
<1>2. IsFiniteSet(s)
  BY Fin, FS_Subset
<1>3. /\ IsFiniteSet(s \ {Pick(s)}) 
      /\ Cardinality(s \ {Pick(s)}) = Cardinality(s) - 1
  BY <1>1, <1>2, FS_RemoveElement
<1>4. Cardinality(s) \in Nat /\ Cardinality(s \ {Pick(s)}) \in Nat
  BY <1>2, <1>3, FS_CardinalityType
<1> QED
  BY <1>1, <1>2, <1>3, <1>4

\* No accounts are left when their number is 0.
LEMMA Empty ==
  ASSUME NEW s \in SUBSET Addr, Cardinality(s) = 0
  PROVE  s = {}
<1> SUFFICES ASSUME s # {}
             PROVE  FALSE
  OBVIOUS
<1> DEFINE n == Cardinality(s \ {Pick(s)})
<1>1. n \in Nat /\ Cardinality(s) = n + 1
  BY Removed
<1> HIDE DEF n
<1> QED
  BY <1>1

\* What holds of no accounts, and of any set if it holds without one of them, holds of all.
LEMMA SubsetInduction ==
  ASSUME NEW G, {} \in G,
         \A s \in SUBSET Addr : s # {} /\ s \ {Pick(s)} \in G => s \in G
  PROVE  SUBSET Addr \subseteq G
<1> DEFINE H == {n \in Nat : \A s \in SUBSET Addr : Cardinality(s) = n => s \in G}
<1>1. 0 \in H
  <2> SUFFICES ASSUME NEW s \in SUBSET Addr, Cardinality(s) = 0
               PROVE  s \in G
    OBVIOUS
  <2>1. s = {}
    BY Empty
  <2> QED
    BY <2>1
<1>2. ASSUME NEW n \in Nat, n \in H
      PROVE  n + 1 \in H
  <2> SUFFICES ASSUME NEW s \in SUBSET Addr, Cardinality(s) = n + 1
               PROVE  s \in G
    OBVIOUS
  <2>1. s # {}
    BY FS_EmptySet
  <2>2. s \ {Pick(s)} \in SUBSET Addr /\ Cardinality(s \ {Pick(s)}) = n
    BY <2>1, Removed
  <2>3. s \ {Pick(s)} \in G
    BY <1>2, <2>2
  <2> QED
    BY <2>1, <2>3
<1> HIDE DEF H
<1>3. Nat \subseteq H
  BY <1>1, <1>2, CountsUp
<1>4. ASSUME NEW s \in SUBSET Addr
      PROVE  s \in G
  <2>1. Cardinality(s) \in Nat
    BY Fin, FS_Subset, FS_CardinalityType
  <2> QED
    BY <1>3, <2>1 DEF H
<1> QED
  BY <1>4

\* The recursion has a solution.
LEMMA SumExists ==
  ASSUME NEW acct
  PROVE  \E f : f = [s \in SUBSET Addr |-> Adds(acct, f, s)]
<1> DEFINE Upto(n) == {s \in SUBSET Addr : Cardinality(s) <= n}
           H == {n \in Nat : \E f : /\ f = [s \in SUBSET Addr |-> f[s]]
                                    /\ \A s \in Upto(n) : f[s] = Adds(acct, f, s)}
<1>0. \A s \in SUBSET Addr : Cardinality(s) \in Nat
  BY Fin, FS_Subset, FS_CardinalityType
<1>1. 0 \in H
  <2> DEFINE f == [s \in SUBSET Addr |-> 0]
  <2>1. ASSUME NEW s \in Upto(0)
        PROVE  s = {}
    <3>1. Cardinality(s) = 0
      BY <1>0
    <3> QED
      BY <3>1, Empty
  <2>2. \A s \in Upto(0) : f[s] = Adds(acct, f, s)
    BY <2>1 DEF Adds
  <2> QED
    BY <2>2, Zenon
<1>2. ASSUME NEW n \in Nat, n \in H
      PROVE  n + 1 \in H
  <2>1. PICK f : f = [s \in SUBSET Addr |-> f[s]] /\ \A s \in Upto(n) : f[s] = Adds(acct, f, s)
    BY <1>2, Zenon
  <2> DEFINE g == [s \in SUBSET Addr |-> IF s \in Upto(n) THEN f[s] ELSE Adds(acct, f, s)]
  <2>2. ASSUME NEW s \in Upto(n + 1)
        PROVE  g[s] = Adds(acct, g, s)
    <3>1. g[s] = Adds(acct, f, s)
      BY <2>1, Zenon
    <3>2. s # {} => s \ {Pick(s)} \in Upto(n)
      BY <1>0, Removed
    <3>3. s # {} => g[s \ {Pick(s)}] = f[s \ {Pick(s)}]
      BY <3>2
    <3> QED
      BY <3>1, <3>3 DEF Adds
  <2>3. g = [s \in SUBSET Addr |-> g[s]]
    OBVIOUS
  <2> HIDE DEF g
  <2>4. \E f1 : /\ f1 = [s \in SUBSET Addr |-> f1[s]]
                /\ \A s \in Upto(n + 1) : f1[s] = Adds(acct, f1, s)
    <3> HIDE DEF Upto
    <3> QED
      BY <2>2, <2>3, Zenon
  <2>5. n + 1 \in Nat
    OBVIOUS
  <2> HIDE DEF Upto
  <2> QED
    BY <2>4, <2>5, Zenon
<1> HIDE DEF H
<1>3. Cardinality(Addr) \in H
  BY <1>0, <1>1, <1>2, CountsUp
<1>4. PICK f : /\ f = [s \in SUBSET Addr |-> f[s]]
               /\ \A s \in Upto(Cardinality(Addr)) : f[s] = Adds(acct, f, s)
  BY <1>3, Zenon DEF H
<1>5. \A s \in SUBSET Addr : s \in Upto(Cardinality(Addr))
  BY Fin, FS_Subset
<1>6. \A s \in SUBSET Addr : f[s] = Adds(acct, f, s)
  BY <1>4, <1>5, Zenon
<1>7. f = [s \in SUBSET Addr |-> Adds(acct, f, s)]
  BY <1>4, <1>6, Zenon
<1> QED
  BY <1>7

\* The sum is that solution.
LEMMA SumEquation ==
  ASSUME NEW acct, NEW s \in SUBSET Addr
  PROVE  SumOf(acct)[s] = Adds(acct, SumOf(acct), s)
<1>1. SumOf(acct) = [t \in SUBSET Addr |-> Adds(acct, SumOf(acct), t)]
  BY SumExists DEF SumOf
<1> QED
  BY <1>1

\* An account is worth a number of units.
LEMMA WorthType == \A a \in Account : Worth(a) \in Nat
  BY CostTypes DEF Account, U64, Costs, Worth

\* So are any accounts together.
LEMMA SumType ==
  ASSUME NEW acct \in [Addr -> Account], NEW s \in SUBSET Addr
  PROVE  SumOf(acct)[s] \in Nat
<1> DEFINE F == SumOf(acct)
           G == {t \in SUBSET Addr : F[t] \in Nat}
<1>0. \A t \in SUBSET Addr : F[t] = Adds(acct, F, t)
  BY SumEquation
<1> HIDE DEF F
<1>1. {} \in G
  <2>1. F[{}] = 0
    BY <1>0 DEF Adds
  <2> QED
    BY <2>1
<1>2. ASSUME NEW t \in SUBSET Addr, t # {}, t \ {Pick(t)} \in G
      PROVE  t \in G
  <2>1. F[t] = Worth(acct[Pick(t)]) + F[t \ {Pick(t)}]
    BY <1>0, <1>2 DEF Adds
  <2>2. Worth(acct[Pick(t)]) \in Nat
    BY <1>2, Removed, WorthType, Zenon
  <2>3. F[t \ {Pick(t)}] \in Nat
    BY <1>2
  <2> QED
    BY <2>1, <2>2, <2>3
<1> HIDE DEF G
<1>3. SUBSET Addr \subseteq G
  BY <1>1, <1>2, SubsetInduction
<1> QED
  BY <1>3 DEF G, F

\* Writing one account changes the sum by the difference.
LEMMA SumUpdate ==
  ASSUME NEW acct \in [Addr -> Account], NEW a \in Addr, NEW x \in Account,
         NEW s \in SUBSET Addr
  PROVE  SumOf([acct EXCEPT ![a] = x])[s] =
           SumOf(acct)[s] + IF a \in s THEN Worth(x) - Worth(acct[a]) ELSE 0
<1> DEFINE new == [acct EXCEPT ![a] = x]
           d == Worth(x) - Worth(acct[a])
           F == SumOf(acct)
           H == SumOf(new)
           G == {t \in SUBSET Addr : H[t] = F[t] + IF a \in t THEN d ELSE 0}
<1>1. Worth(acct[a]) \in Nat /\ Worth(x) \in Nat /\ new \in [Addr -> Account]
  BY WorthType
<1>2. d \in Int
  BY <1>1
<1>3. /\ \A t \in SUBSET Addr : F[t] = Adds(acct, F, t) /\ F[t] \in Nat
      /\ \A t \in SUBSET Addr : H[t] = Adds(new, H, t) /\ H[t] \in Nat
  BY <1>1, SumEquation, SumType, Zenon
<1>4. \A p \in Addr : Worth(new[p]) = IF p = a THEN Worth(acct[a]) + d ELSE Worth(acct[p])
  BY <1>1
<1> HIDE DEF F, H, new, d
<1>5. {} \in G
  <2>1. F[{}] = 0 /\ H[{}] = 0
    BY <1>3, Zenon DEF Adds
  <2> QED
    BY <2>1
<1>6. ASSUME NEW t \in SUBSET Addr, t # {}, t \ {Pick(t)} \in G
      PROVE  t \in G
  <2> DEFINE p == Pick(t)
             u == t \ {p}
             w == Worth(acct[p])
             fu == F[u]
             hu == H[u]
  <2>1. p \in t /\ p \in Addr /\ u \in SUBSET Addr /\ p \notin u
    BY <1>6, Removed, Zenon
  <2>2. F[t] = w + fu /\ H[t] = Worth(new[p]) + hu
    BY <1>3, <1>6, Zenon DEF Adds
  <2>3. hu = fu + IF a \in u THEN d ELSE 0
    BY <1>6
  <2>4. w \in Nat
    <3>1. acct[p] \in Account
      BY <2>1
    <3> QED
      BY <3>1, WorthType
  <2>5. fu \in Nat /\ hu \in Nat
    BY <1>3, <2>1
  <2>6. a \in u <=> a \in t /\ a # p
    OBVIOUS
  <2>7. Worth(new[p]) = IF p = a THEN w + d ELSE w
    BY <1>4, <2>1
  <2> HIDE DEF p, u, w, fu, hu
  <2>8. H[t] = F[t] + IF a \in t THEN d ELSE 0
    <3>1. CASE a = p
      <4>1. hu = fu + 0 /\ Worth(new[p]) = w + d /\ a \in t
        BY <2>1, <2>3, <2>6, <2>7, <3>1
      <4> QED
        BY <1>2, <2>2, <2>4, <2>5, <4>1
    <3>2. CASE a # p /\ a \in t
      <4>1. hu = fu + d /\ Worth(new[p]) = w
        BY <2>1, <2>3, <2>6, <2>7, <3>2
      <4> QED
        BY <1>2, <2>2, <2>4, <2>5, <3>2, <4>1
    <3>3. CASE a # p /\ a \notin t
      <4>1. hu = fu + 0 /\ Worth(new[p]) = w
        BY <2>1, <2>3, <2>6, <2>7, <3>3
      <4> QED
        BY <1>2, <2>2, <2>4, <2>5, <3>3, <4>1
    <3> QED
      BY <3>1, <3>2, <3>3
  <2> QED
    BY <2>8
<1> HIDE DEF G
<1>7. SUBSET Addr \subseteq G
  BY <1>5, <1>6, SubsetInduction
<1> QED
  BY <1>7, Zenon DEF G, F, H, new, d

\* So are all of them.
LEMMA TotalType == \A acct \in [Addr -> Account] : Total(acct) \in Nat
  BY SumType, TotalIs

\* Writing one account changes the total by the difference.
LEMMA TotalUpdate ==
  ASSUME NEW acct \in [Addr -> Account], NEW a \in Addr, NEW x \in Account
  PROVE  Total([acct EXCEPT ![a] = x]) = Total(acct) + Worth(x) - Worth(acct[a])
<1>1. Total([acct EXCEPT ![a] = x]) = Total(acct) + (Worth(x) - Worth(acct[a]))
  BY SumUpdate, TotalIs, Zenon
<1>2. Total(acct) \in Nat /\ Worth(x) \in Nat /\ Worth(acct[a]) \in Nat
  BY TotalType, WorthType
<1> QED
  BY <1>1, <1>2

\* No account holds more than all of them.
LEMMA TotalCleared ==
  ASSUME NEW acct \in [Addr -> Account], NEW a \in Addr
  PROVE  /\ [acct EXCEPT ![a] = NoAccount] \in [Addr -> Account]
         /\ Total([acct EXCEPT ![a] = NoAccount]) + Worth(acct[a]) = Total(acct)
         /\ Worth(acct[a]) <= Total(acct)
<1> DEFINE new == [acct EXCEPT ![a] = NoAccount]
           t == Total(acct)
           n == Total(new)
           w == Worth(acct[a])
<1>1. NoAccount \in Account /\ Worth(NoAccount) = 0
  BY CostTypes DEF NoAccount, Account, U64, Costs, Worth
<1>2. new \in [Addr -> Account] /\ w \in Nat
  BY <1>1, WorthType
<1>3. n = t + 0 - w
  BY <1>1, TotalUpdate, Zenon
<1>4. n \in Nat /\ t \in Nat
  BY <1>2, TotalType, Zenon
<1> HIDE DEF t, n, w
<1>5. n + w = t /\ w <= t
  BY <1>2, <1>3, <1>4
<1> QED
  BY <1>2, <1>5 DEF t, n, w

\* Nor do two.
LEMMA TotalOfTwo ==
  ASSUME NEW acct \in [Addr -> Account], NEW a \in Addr, NEW b \in Addr, a # b
  PROVE  Worth(acct[a]) + Worth(acct[b]) <= Total(acct)
<1> DEFINE new == [acct EXCEPT ![a] = NoAccount]
           t == Total(acct)
           n == Total(new)
           w == Worth(acct[a])
           v == Worth(acct[b])
<1>1. new \in [Addr -> Account] /\ n + w = t /\ new[b] = acct[b]
  BY TotalCleared, Zenon
<1> HIDE DEF new
<1>2. v <= n
  BY <1>1, TotalCleared, Zenon
<1>3. n \in Nat /\ w \in Nat /\ v \in Nat
  BY <1>1, TotalType, WorthType
<1> HIDE DEF t, n, w, v
<1>4. w + v <= t
  BY <1>1, <1>2, <1>3
<1> QED
  BY <1>4 DEF t, w, v

\* Who holds what does not change what there is: a body moves units between the accounts, the
\* sender's copy and what is burned.
Settles(st, tx, s, o) ==
  /\ o.st.burned = st.burned /\ o.st.irregular = st.irregular
  /\ o.st.acct[tx.sender] = st.acct[tx.sender]
  /\ Total(o.st.acct) + Worth(o.s) + o.burnt = Total(st.acct) + Worth(s)

\* The sum of a balance and of a stake that fits in a word does not wrap.
LEMMA NoWrap == \A n \in Nat : n < Word => n % Word = n
  BY CostTypes DEF Costs

\* The fields of an account are numbers.
LEMMA WorthFields ==
  ASSUME NEW a \in Account
  PROVE  a.balance \in Nat /\ a.stake \in Nat /\ Worth(a) = a.balance + a.stake
  BY CostTypes DEF Account, U64, Costs, Worth

\* A body that touches no other account.
LEMMA OwnSettles ==
  ASSUME NEW st \in LState, NEW tx \in Tx, NEW s \in Account, NEW t \in Account,
         Worth(t) = Worth(s)
  PROVE  Settles(st, tx, s, Unchanged(st, tx, t))
<1>1. Total(st.acct) \in Nat /\ Worth(s) \in Nat
  BY TotalType, WorthType DEF LState
<1> QED
  BY <1>1 DEF Settles, Unchanged, Outcome

\* Bonding moves units from the balance to the stake.
LEMMA BondSettles ==
  ASSUME NEW st \in LState, NEW tx \in Tx, NEW s \in Account, Worth(s) < Word
  PROVE  Settles(st, tx, s, Bond(st, tx, s))
<1> DEFINE t == [s EXCEPT !.balance = @ - tx.amount, !.stake = (@ + tx.amount) % Word]
<1>1. CASE s.balance < tx.amount
  BY <1>1, OwnSettles DEF Bond
<1>2. CASE ~(s.balance < tx.amount)
  <2>1. s.balance \in Nat /\ s.stake \in Nat /\ Worth(s) = s.balance + s.stake /\ tx.amount \in Nat
    BY WorthFields, TxTypes DEF TxOK
  <2>2. (s.stake + tx.amount) % Word = s.stake + tx.amount
    <3>1. s.stake + tx.amount \in Nat /\ s.stake + tx.amount <= Worth(s)
      BY <1>2, <2>1
    <3>2. s.stake + tx.amount < Word
      BY <2>1, <3>1, CostTypes DEF Costs
    <3> QED
      BY <3>1, <3>2, NoWrap
  <2>3. s.balance - tx.amount \in U64 /\ s.stake + tx.amount \in U64
    BY <1>2, <2>1, CostTypes DEF U64, Costs
  <2>4. t.balance = s.balance - tx.amount /\ t.stake = s.stake + tx.amount /\ t \in Account
    BY <2>2, <2>3, Zenon DEF Account
  <2>5. Worth(t) = Worth(s)
    BY <2>1, <2>4 DEF Worth
  <2>6. Bond(st, tx, s) = Unchanged(st, tx, t)
    BY <1>2 DEF Bond
  <2> HIDE DEF t
  <2> QED
    BY <2>4, <2>5, <2>6, OwnSettles
<1> QED
  BY <1>1, <1>2

\* Unbonding moves them back.
LEMMA UnbondSettles ==
  ASSUME NEW st \in LState, NEW tx \in Tx, NEW s \in Account, NEW slot \in Nat, Worth(s) < Word
  PROVE  Settles(st, tx, s, Unbond(st, tx, s, slot))
<1> DEFINE t == [s EXCEPT !.stake = @ - tx.amount,
                          !.balance = (@ + tx.amount) % Word,
                          !.unbondAt = IF @ = 0 THEN slot + UnbondDelay ELSE @]
<1>1. CASE s.stake < tx.amount
  BY <1>1, OwnSettles DEF Unbond
<1>2. CASE ~(s.stake < tx.amount)
  <2>1. s.balance \in Nat /\ s.stake \in Nat /\ Worth(s) = s.balance + s.stake /\ tx.amount \in Nat
    BY WorthFields, TxTypes DEF TxOK
  <2>2. (s.balance + tx.amount) % Word = s.balance + tx.amount
    <3>1. s.balance + tx.amount \in Nat /\ s.balance + tx.amount <= Worth(s)
      BY <1>2, <2>1
    <3>2. s.balance + tx.amount < Word
      BY <2>1, <3>1, CostTypes DEF Costs
    <3> QED
      BY <3>1, <3>2, NoWrap
  <2>3. s.balance + tx.amount \in U64 /\ s.stake - tx.amount \in U64
    BY <1>2, <2>1, CostTypes DEF U64, Costs
  <2>4. (IF s.unbondAt = 0 THEN slot + UnbondDelay ELSE s.unbondAt) \in Nat
    BY AccountTypes, CostTypes DEF Costs
  <2>5. t.balance = s.balance + tx.amount /\ t.stake = s.stake - tx.amount /\ t \in Account
    BY <2>2, <2>3, <2>4, Zenon DEF Account
  <2>6. Worth(t) = Worth(s)
    BY <2>1, <2>5 DEF Worth
  <2>7. Unbond(st, tx, s, slot) = Unchanged(st, tx, t)
    BY <1>2, Zenon DEF Unbond
  <2> HIDE DEF t
  <2> QED
    BY <2>5, <2>6, <2>7, OwnSettles
<1> QED
  BY <1>1, <1>2

\* A name is paid for.
LEMMA RegisterNameSettles ==
  ASSUME NEW st \in LState, NEW tx \in Tx, NEW s \in Account
  PROVE  Settles(st, tx, s, RegisterName(st, tx, s))
<1> DEFINE named == [st EXCEPT !.names[tx.name] = tx.sender]
           t == [s EXCEPT !.balance = @ - NameFee]
           o == RegisterName(st, tx, s)
<1>1. CASE s.balance < NameFee \/ st.names[tx.name] # NoOwner
  BY <1>1, OwnSettles, Zenon DEF RegisterName
<1>2. CASE ~(s.balance < NameFee \/ st.names[tx.name] # NoOwner)
  <2>1. s.balance \in Nat /\ s.stake \in Nat /\ Worth(s) = s.balance + s.stake /\ NameFee \in Nat
    BY WorthFields, CostTypes DEF Costs
  <2>2. Worth(t) = Worth(s) - NameFee
    BY <1>2, <2>1 DEF Worth, Account
  <2>3. o.st = named /\ o.s = t /\ o.burnt = NameFee
    BY <1>2 DEF RegisterName, Outcome
  <2>4. named.acct = st.acct /\ named.burned = st.burned /\ named.irregular = st.irregular
    BY DEF LState
  <2>5. Total(st.acct) \in Nat /\ Worth(s) \in Nat
    BY TotalType, WorthType DEF LState
  <2>6. Total(st.acct) + Worth(t) + NameFee = Total(st.acct) + Worth(s)
    BY <2>1, <2>2, <2>5
  <2> HIDE DEF named, t, o
  <2> QED
    BY <2>3, <2>4, <2>6 DEF Settles, o
<1> QED
  BY <1>1, <1>2

\* A transfer to another account.
LEMMA TransferSettles ==
  ASSUME NEW st \in LState, NEW tx \in Tx, NEW s \in Account, tx.amount <= s.balance,
         tx.to # tx.sender, Worth(s) = Worth(st.acct[tx.sender]), Total(st.acct) < Word
  PROVE  Settles(st, tx, s, Transfer(st, tx, s))
<1> DEFINE g == Gas[tx.kind] + IF st.acct[tx.to] = NoAccount THEN NewAccountGas ELSE 0
           a == st.acct[tx.to]
           b == [a EXCEPT !.balance = (@ + tx.amount) % Word]
           t == [s EXCEPT !.balance = @ - tx.amount]
           credited == [st EXCEPT !.acct[tx.to].balance = (@ + tx.amount) % Word]
           acct == [st.acct EXCEPT ![tx.to] = b]
           o == Transfer(st, tx, s)
           T0 == Total(st.acct)
<1>1. /\ tx.to \in Addr /\ tx.sender \in Addr /\ tx.amount \in Nat
      /\ st.acct \in [Addr -> Account] /\ a \in Account
  BY TxTypes, Zenon DEF TxOK, LState
<1>2. /\ a.balance \in Nat /\ a.stake \in Nat /\ Worth(a) = a.balance + a.stake
      /\ s.balance \in Nat /\ s.stake \in Nat /\ Worth(s) = s.balance + s.stake
  BY <1>1, WorthFields, Zenon
<1>3. T0 \in Nat /\ Worth(s) + Worth(a) <= T0 /\ T0 < Word
  BY <1>1, TotalOfTwo, TotalType, Zenon
<1> HIDE DEF T0
<1>4. (a.balance + tx.amount) % Word = a.balance + tx.amount /\ a.balance + tx.amount \in U64
  <2>1. a.balance + tx.amount \in Nat /\ a.balance + tx.amount < Word
    <3> HIDE DEF a
    <3> QED
      BY <1>1, <1>2, <1>3, CostTypes DEF Costs
  <2>2. a.balance + tx.amount \in U64
    BY <2>1, CostTypes DEF U64, Costs
  <2> QED
    BY <2>1, <2>2, NoWrap
<1>5. b \in Account /\ Worth(b) = Worth(a) + tx.amount
  <2>1. b \in Account /\ b.balance = a.balance + tx.amount /\ b.stake = a.stake
    BY <1>1, <1>4 DEF Account
  <2> HIDE DEF a, b
  <2> QED
    BY <1>1, <1>2, <2>1 DEF Worth
<1>6. Worth(t) = Worth(s) - tx.amount
  BY <1>1, <1>2 DEF Worth, Account
<1>7. Total(acct) = T0 + Worth(b) - Worth(a) /\ acct[tx.sender] = st.acct[tx.sender]
  BY <1>1, <1>5, TotalUpdate DEF T0
<1>8. credited.acct = acct /\ credited.burned = st.burned /\ credited.irregular = st.irregular
  BY <1>1, Zenon DEF LState
<1> HIDE DEF a, b, t, acct, credited
<1>9. Total(acct) + Worth(t) + 0 = T0 + Worth(s)
  BY <1>1, <1>2, <1>3, <1>5, <1>6, <1>7
<1>10. \/ o.st = st /\ o.s = s /\ o.burnt = 0
       \/ o.st = credited /\ o.s = t /\ o.burnt = 0
  BY Zenon DEF Transfer, Outcome, credited, t
<1> HIDE DEF o
<1>11. CASE o.st = st /\ o.s = s /\ o.burnt = 0
  <2>1. T0 + Worth(s) + 0 = T0 + Worth(s)
    BY <1>2, <1>3
  <2> QED
    BY <1>11, <2>1 DEF Settles, o, T0
<1>12. CASE o.st = credited /\ o.s = t /\ o.burnt = 0
  BY <1>7, <1>8, <1>9, <1>12, Zenon DEF Settles, o, T0
<1> QED
  BY <1>10, <1>11, <1>12, Zenon

\* A slash of another account: half of the stake to the reporter, half burned.
LEMMA SlashSettles ==
  ASSUME NEW st \in LState, NEW tx \in Tx, NEW s \in Account,
         tx.to # tx.sender, Worth(s) = Worth(st.acct[tx.sender]), Total(st.acct) < Word
  PROVE  Settles(st, tx, s, Slash(st, tx, s))
<1> DEFINE a == st.acct[tx.to]
           half == a.stake \div 2
           b == [a EXCEPT !.stake = 0]
           t == [s EXCEPT !.balance = (@ + half) % Word]
           slashed == [st EXCEPT !.acct[tx.to].stake = 0]
           acct == [st.acct EXCEPT ![tx.to] = b]
           o == Slash(st, tx, s)
           T0 == Total(st.acct)
<1>1. /\ tx.to \in Addr /\ tx.sender \in Addr
      /\ st.acct \in [Addr -> Account] /\ a \in Account
  BY TxTypes, Zenon DEF TxOK, LState
<1>2. /\ a.balance \in Nat /\ a.stake \in Nat /\ Worth(a) = a.balance + a.stake
      /\ s.balance \in Nat /\ s.stake \in Nat /\ Worth(s) = s.balance + s.stake
  BY <1>1, WorthFields, Zenon
<1>3. T0 \in Nat /\ Worth(s) + Worth(a) <= T0 /\ T0 < Word
  BY <1>1, TotalOfTwo, TotalType, Zenon
<1>4. half \in Nat /\ half <= a.stake
  <2> DEFINE n == a.stake
  <2>1. n \in Nat
    BY <1>2
  <2> HIDE DEF n
  <2>2. n \div 2 \in Nat /\ n \div 2 <= n
    BY <2>1
  <2> QED
    BY <2>2 DEF n
<1>5. b \in Account /\ Worth(b) = a.balance
  <2>1. 0 \in U64
    BY CostTypes DEF U64, Costs
  <2>2. b \in Account /\ b.balance = a.balance /\ b.stake = 0
    BY <1>1, <2>1 DEF Account
  <2> HIDE DEF a, b
  <2> QED
    BY <1>2, <2>2 DEF Worth
<1>6. Total(acct) = T0 + Worth(b) - Worth(a) /\ acct[tx.sender] = st.acct[tx.sender]
  BY <1>1, <1>5, TotalUpdate
<1>7. slashed.acct = acct /\ slashed.burned = st.burned /\ slashed.irregular = st.irregular
  BY <1>1, Zenon DEF LState
<1>8. \/ o = Unchanged(st, tx, s)
      \/ o.st = slashed /\ o.s = t /\ o.burnt = a.stake - half
  BY DEF Slash, Outcome
<1> HIDE DEF T0, a, b, half, acct, slashed
<1>9. (s.balance + half) % Word = s.balance + half
  <2>1. s.balance + half \in Nat /\ s.balance + half < Word
    BY <1>2, <1>3, <1>4, CostTypes DEF Costs
  <2> QED
    BY <2>1, NoWrap
<1>10. Worth(t) = Worth(s) + half
  <2>1. t.balance = s.balance + half /\ t.stake = s.stake
    BY <1>9, Zenon DEF Account
  <2> HIDE DEF t
  <2> QED
    BY <1>2, <1>4, <2>1 DEF Worth
<1> HIDE DEF t, o
<1>11. Total(acct) + Worth(t) + (a.stake - half) = T0 + Worth(s)
  BY <1>2, <1>3, <1>4, <1>5, <1>6, <1>10
<1>12. CASE o = Unchanged(st, tx, s)
  BY <1>12, OwnSettles, Zenon DEF o
<1>13. CASE o.st = slashed /\ o.s = t /\ o.burnt = a.stake - half
  BY <1>6, <1>7, <1>11, <1>13, Zenon DEF Settles, o, T0
<1> QED
  BY <1>8, <1>12, <1>13, Zenon

\* Every kind of body.
LEMMA BodySettles ==
  ASSUME NEW st \in LState, NEW tx \in Tx, NEW s \in Account, NEW slot \in Nat,
         tx.kind = "transfer" => tx.amount <= s.balance,
         ~(tx.kind \in {"transfer", "slash"} /\ tx.to = tx.sender),
         Worth(s) = Worth(st.acct[tx.sender]), Total(st.acct) < Word
  PROVE  Settles(st, tx, s, Body(st, tx, s, slot))
<1>1. tx.kind \in Kind /\ tx.sender \in Addr
  BY TxTypes, Zenon DEF TxOK
<1>2. Worth(s) < Word
  <2>1. Worth(s) <= Total(st.acct) /\ Worth(s) \in Nat /\ Total(st.acct) \in Nat
    BY <1>1, TotalCleared, TotalType, WorthType, Zenon DEF LState
  <2> QED
    BY <2>1, CostTypes DEF Costs
<1>3. CASE tx.kind = "transfer"
  BY <1>3, TransferSettles DEF Body
<1>4. CASE tx.kind = "bond"
  BY <1>2, <1>4, BondSettles DEF Body
<1>5. CASE tx.kind = "unbond"
  BY <1>2, <1>5, UnbondSettles DEF Body
<1>6. CASE tx.kind = "name"
  BY <1>6, RegisterNameSettles DEF Body
<1>7. CASE tx.kind = "slash"
  BY <1>7, SlashSettles DEF Body
<1> QED
  BY <1>1, <1>3, <1>4, <1>5, <1>6, <1>7, Zenon DEF Kind

\* What a price of gas within 64 bits comes to, when the limit has passed the overflow check.
LEMMA FeesExact ==
  ASSUME NEW g \in Nat, NEW limit \in Nat, g <= limit, NEW fee \in Nat, NEW tip \in Nat,
         fee + tip < Word,
         LET perGas == (fee + tip) % Word IN perGas # 0 => limit <= (Word - 1) \div perGas
  PROVE  /\ (g * fee) % Word = g * fee /\ (g * tip) % Word = g * tip
         /\ (g * fee + g * tip) % Word = g * fee + g * tip
         /\ g * fee \in Nat /\ g * tip \in Nat
<1> DEFINE p == fee + tip
<1>1. p \in Nat /\ p % Word = p /\ Word \in Nat \ {0}
  BY NoWrap, CostTypes DEF Costs
<1>2. p # 0 => limit <= (Word - 1) \div p
  BY <1>1
<1>3. g * fee \in Nat /\ g * tip \in Nat /\ g * p = g * fee + g * tip
  OBVIOUS
<1> HIDE DEF p
<1>4. g * p < Word
  <2>1. CASE p = 0
    BY <1>1, <2>1
  <2>2. CASE p # 0
    <3> DEFINE q == (Word - 1) \div p
    <3>1. q \in Nat /\ q * p <= Word - 1
      BY <1>1, <2>2
    <3>2. g <= q
      <4>1. limit <= q
        BY <1>2, <2>2
      <4> HIDE DEF q
      <4> QED
        BY <3>1, <4>1
    <3> HIDE DEF q
    <3>3. g * p <= q * p
      BY <1>1, <3>1, <3>2
    <3>4. g * p \in Nat /\ q * p \in Nat
      BY <1>1, <3>1
    <3> QED
      BY <1>1, <3>1, <3>3, <3>4
  <2> QED
    BY <2>1, <2>2
<1> DEFINE u == g * fee
           v == g * tip
<1> HIDE DEF u, v
<1>5. u \in Nat /\ v \in Nat /\ u + v < Word
  BY <1>3, <1>4 DEF u, v
<1>6. u % Word = u /\ v % Word = v /\ (u + v) % Word = u + v
  <2>1. u < Word /\ v < Word /\ u + v \in Nat
    BY <1>1, <1>5
  <2> QED
    BY <1>5, <2>1, NoWrap
<1> QED
  BY <1>5, <1>6 DEF u, v

\* No body of its own account makes the ledger irregular.
LEMMA BodyRegular ==
  ASSUME NEW st \in LState, NEW tx \in Tx, NEW s, NEW slot
  PROVE  Body(st, tx, s, slot).st.irregular = st.irregular
<1>1. tx.kind \in Kind
  BY TxTypes DEF TxOK
<1>2. Transfer(st, tx, s).st.irregular = st.irregular
  BY DEF Transfer, Outcome, LState
<1>3. Bond(st, tx, s).st = st /\ Unbond(st, tx, s, slot).st = st
  BY DEF Bond, Unbond, Unchanged, Outcome
<1>4. RegisterName(st, tx, s).st.irregular = st.irregular
  BY DEF RegisterName, Unchanged, Outcome, LState
<1>5. Slash(st, tx, s).st.irregular = st.irregular
  BY Zenon DEF Slash, Unchanged, Outcome, LState
<1> QED
  BY <1>1, <1>2, <1>3, <1>4, <1>5 DEF Body, Kind

\* A transaction keeps what there is, its tip included, unless it is one of the irregular ones.
LEMMA ApplyTxConserves ==
  ASSUME NEW st \in LState, NEW tx \in Tx, NEW slot \in Nat, NEW fee \in Nat,
         Fits(st, tx, slot, fee), ~st.irregular => Total(st.acct) < Word,
         ~ApplyTx(st, tx, slot, fee).st.irregular
  PROVE  /\ ~st.irregular
         /\ LET r == ApplyTx(st, tx, slot, fee)
            IN  Total(r.st.acct) + r.st.burned + r.tip = Total(st.acct) + st.burned
<1> DEFINE s     == [st.acct[tx.sender] EXCEPT !.nonce = (@ + 1) % Word]
           o     == Body(st, tx, s, slot)
           g     == Charged(o.gas, tx)
           burnt == (g * fee) % Word
           tip   == (g * tx.tip) % Word
           total == (burnt + tip) % Word
           paid  == IF o.s.balance < total THEN o.s.balance ELSE total
           last  == [o.s EXCEPT !.balance = @ - paid]
           odd   == (paid < total \/ fee + tx.tip >= Word)
                    \/ (tx.kind \in {"transfer", "slash"} /\ tx.to = tx.sender)
           new   == [o.st EXCEPT
                       !.acct[tx.sender] = last,
                       !.burned = @ + o.burnt + burnt,
                       !.irregular = @ \/ paid < total \/ fee + tx.tip >= Word
                                       \/ (tx.kind \in {"transfer", "slash"} /\ tx.to = tx.sender),
                       !.applied = Append(@, tx)]
<1>1. tx.sender \in Addr /\ st.acct[tx.sender] \in Account /\ TxOK(tx)
  BY TxTypes, AcctOf DEF TxOK
<1>2. /\ s \in Account /\ s.balance = st.acct[tx.sender].balance
      /\ Worth(s) = Worth(st.acct[tx.sender])
  <2>1. (st.acct[tx.sender].nonce + 1) % Word \in U64
    BY <1>1, AccountTypes, Wraps DEF U64
  <2> QED
    BY <1>1, <2>1, Zenon DEF Account, Worth
<1>3. tx.kind = "transfer" => tx.amount <= s.balance
  BY <1>2, FitsPays
<1>4. ApplyTx(st, tx, slot, fee) = [gas |-> g, tip |-> tip, st |-> new]
  BY Zenon DEF ApplyTx
<1> HIDE DEF s
<1>5. OutcomeOK(st, s, o)
  BY <1>2, <1>3, BodyOK, Zenon
<1>51. o.st.irregular = st.irregular
  BY BodyRegular
<1> HIDE DEF o
<1>6. o.st \in LState /\ o.s \in Account /\ o.gas \in Nat /\ o.burnt \in Nat
  BY <1>5 DEF OutcomeOK
<1>7. /\ new.acct = [o.st.acct EXCEPT ![tx.sender] = last]
      /\ new.burned = o.st.burned + o.burnt + burnt
      /\ ~new.irregular => ~o.st.irregular /\ ~odd
  <2> HIDE DEF last, burnt, paid, total
  <2>1. new.acct = [o.st.acct EXCEPT ![tx.sender] = last]
    BY <1>6 DEF LState
  <2>2. new.burned = o.st.burned + o.burnt + burnt
    BY <1>6 DEF LState
  <2>3. new.irregular = (o.st.irregular \/ paid < total \/ fee + tx.tip >= Word
                           \/ (tx.kind \in {"transfer", "slash"} /\ tx.to = tx.sender))
    BY <1>6 DEF LState
  <2> QED
    BY <2>1, <2>2, <2>3, Zenon
<1> HIDE DEF new
<1>8. ~o.st.irregular /\ ~odd
  BY <1>4, <1>7
<1>9. /\ paid = total /\ fee + tx.tip < Word
      /\ ~(tx.kind \in {"transfer", "slash"} /\ tx.to = tx.sender)
  <2>1. ~(o.s.balance < total) => paid = total
    BY Zenon
  <2>2. o.s.balance < total => paid = o.s.balance
    BY Zenon
  <2>3. ~(paid < total) /\ ~(fee + tx.tip >= Word)
        /\ ~(tx.kind \in {"transfer", "slash"} /\ tx.to = tx.sender)
    BY <1>8, Zenon
  <2> HIDE DEF paid, total, odd
  <2>4. paid = total
    BY <2>1, <2>2, <2>3, Zenon
  <2>5. tx.tip \in Nat /\ Word \in Nat
    BY <1>1, CostTypes, Zenon DEF TxOK, Costs
  <2>6. fee + tx.tip < Word
    BY <2>3, <2>5
  <2> QED
    BY <2>3, <2>4, <2>6, Zenon
<1> HIDE DEF odd
<1>10. Settles(st, tx, s, o)
  BY <1>2, <1>3, <1>51, <1>8, <1>9, BodySettles, Zenon DEF o
<1>11. g \in Nat /\ g <= tx.limit
  <2> HIDE DEF burnt, tip, total, paid, last
  <2>1. o.gas \in Nat /\ tx.limit \in Nat
    BY <1>1, <1>6, Zenon DEF TxOK
  <2> QED
    BY <2>1 DEF Charged
<1> HIDE DEF g
<1>12. /\ burnt = g * fee /\ tip = g * tx.tip /\ total = g * fee + g * tx.tip
       /\ burnt \in Nat /\ tip \in Nat /\ total = burnt + tip
  <2>1. tx.tip \in Nat /\ tx.limit \in Nat
    BY <1>1, Zenon DEF TxOK
  <2>2. LET perGas == (fee + tx.tip) % Word IN perGas # 0 => tx.limit <= (Word - 1) \div perGas
    BY Zenon DEF Fits
  <2>3. fee + tx.tip < Word
    BY <1>9
  <2>4. /\ (g * fee) % Word = g * fee /\ (g * tx.tip) % Word = g * tx.tip
        /\ (g * fee + g * tx.tip) % Word = g * fee + g * tx.tip
        /\ g * fee \in Nat /\ g * tx.tip \in Nat
    BY <1>11, <2>1, <2>2, <2>3, FeesExact, Zenon
  <2> QED
    BY <2>4, Zenon
<1> DEFINE bal == o.s.balance
           stk == o.s.stake
<1>13. bal \in Nat /\ stk \in Nat /\ Worth(o.s) = bal + stk
  BY <1>6, WorthFields
<1>14. paid <= bal
  <2>1. paid = IF bal < total THEN bal ELSE total
    BY Zenon
  <2> HIDE DEF paid, total, burnt, tip, last, bal, stk
  <2>2. total \in Nat
    <3>1. burnt \in Nat /\ tip \in Nat /\ total = burnt + tip
      BY <1>12, Zenon
    <3> QED
      BY <3>1
  <2> QED
    BY <1>13, <2>1, <2>2
<1> HIDE DEF total, burnt, tip, paid
<1>15. last \in Account /\ Worth(last) = Worth(o.s) - paid
  <2>1. paid \in Nat
    BY <1>9, <1>12
  <2>2. bal - paid \in U64
    BY <1>6, <1>14, <2>1, AccountTypes, Takes
  <2>3. last \in Account /\ last.balance = bal - paid /\ last.stake = stk
    BY <1>6, <2>2, ZenonT(40) DEF Account
  <2> HIDE DEF last, bal, stk
  <2> QED
    BY <1>13, <2>1, <2>3 DEF Worth
<1>16. Total(new.acct) = Total(o.st.acct) + Worth(last) - Worth(st.acct[tx.sender])
  <2>1. o.st.acct \in [Addr -> Account] /\ o.st.acct[tx.sender] = st.acct[tx.sender]
    BY <1>6, <1>10, Zenon DEF LState, Settles
  <2> HIDE DEF last
  <2> QED
    BY <1>1, <1>7, <1>15, <2>1, TotalUpdate
<1> DEFINE T0 == Total(st.acct)
           T1 == Total(o.st.acct)
           T2 == Total(new.acct)
           ws == Worth(s)
           wo == Worth(o.s)
           B == st.burned
<1>17. T0 \in Nat /\ T1 \in Nat /\ ws \in Nat /\ wo \in Nat /\ B \in Nat
  BY <1>2, <1>6, TotalType, WorthType, Zenon DEF LState
<1>18. T1 + wo + o.burnt = T0 + ws /\ o.st.burned = B /\ o.st.irregular = st.irregular
  BY <1>10 DEF Settles
<1>19. T2 = T1 + (wo - paid) - ws
  BY <1>2, <1>15, <1>16, Zenon
<1> HIDE DEF T0, T1, T2, ws, wo, B
<1>20. T2 + (B + o.burnt + burnt) + tip = T0 + B
  <2>1. paid = burnt + tip
    BY <1>9, <1>12
  <2> QED
    BY <1>6, <1>12, <1>17, <1>18, <1>19, <2>1
<1>21. new.burned = B + o.burnt + burnt
  BY <1>7, <1>18
<1>22. T2 + new.burned + tip = T0 + B
  BY <1>20, <1>21
<1>23. Total(new.acct) + new.burned + tip = Total(st.acct) + st.burned
  BY <1>22, Zenon DEF T0, T2, B
<1>24. ~st.irregular
  BY <1>8, <1>18, Zenon
<1> HIDE DEF last, bal, stk
<1> QED
  BY <1>4, <1>23, <1>24

\* Paying the proposer hands out the tips, and moves the reward out of the pool.
LEMMA PayConserves ==
  ASSUME NEW st \in LState, NEW p \in Addr, NEW reward \in Nat, NEW tip \in Nat,
         ~st.irregular => Total(st.acct) + tip < Word, ~PayProposer(st, p, reward, tip).irregular
  PROVE  /\ ~st.irregular
         /\ PayProposer(st, p, reward, tip).burned = st.burned
         /\ Total(PayProposer(st, p, reward, tip).acct) = Total(st.acct) + tip
<1> DEFINE a == st.acct[p]
           b == [a EXCEPT !.balance = (@ + reward + tip) % Word]
           mid == [st.acct EXCEPT ![p] = b]
           credited == [st EXCEPT !.acct[p].balance = (@ + reward + tip) % Word]
           c == mid[Pool]
           left == IF reward > c.balance THEN 0 ELSE c.balance - reward
           d == [c EXCEPT !.balance = left]
           new == PayProposer(st, p, reward, tip)
           T0 == Total(st.acct)
<1>1. Pool \in Addr /\ st.acct \in [Addr -> Account] /\ a \in Account
  BY LedgerAssumption, Zenon DEF LedgerAssumption, LState
<1>2. a.balance \in Nat /\ a.stake \in Nat /\ Worth(a) = a.balance + a.stake
  BY <1>1, WorthFields
<1>3. b \in Account /\ b.balance = (a.balance + reward + tip) % Word /\ b.stake = a.stake
  <2>1. (a.balance + reward + tip) % Word \in U64
    <3>1. a.balance + reward + tip \in Int
      BY <1>2
    <3> QED
      BY <3>1, Wraps, Zenon
  <2> QED
    BY <1>1, <2>1 DEF Account
<1>4. credited = [st EXCEPT !.acct = mid] /\ credited.acct = mid
      /\ credited.burned = st.burned /\ credited.irregular = st.irregular
  BY <1>1 DEF LState
<1>5. mid \in [Addr -> Account] /\ c \in Account
  BY <1>1, <1>3
<1>6. /\ new.acct = [mid EXCEPT ![Pool] = d]
      /\ new.burned = st.burned
      /\ new.irregular = (st.irregular \/ reward > c.balance)
  <2>1. new = [credited EXCEPT !.acct[Pool].balance = IF reward > @ THEN 0 ELSE @ - reward,
                               !.irregular = @ \/ reward > credited.acct[Pool].balance]
    BY DEF PayProposer
  <2> HIDE DEF credited, mid, new, c
  <2>2. credited \in [acct : [Addr -> Account], names : [Name -> Addr \cup {NoOwner}],
                      burned : Nat, irregular : BOOLEAN, applied : Seq(Tx)]
    BY <1>4, <1>5 DEF LState
  <2>3. c = credited.acct[Pool]
    BY <1>4 DEF c
  <2>4. new.acct = [mid EXCEPT ![Pool] =
                      [mid[Pool] EXCEPT !.balance = IF reward > @ THEN 0 ELSE @ - reward]]
    BY <1>1, <1>4, <1>5, <2>1, <2>2
  <2>5. new.burned = credited.burned
    BY <2>1, <2>2
  <2>6. new.irregular = (credited.irregular \/ reward > credited.acct[Pool].balance)
    BY <2>1, <2>2
  <2> QED
    BY <1>4, <2>3, <2>4, <2>5, <2>6 DEF c
<1>7. ~st.irregular /\ ~(reward > c.balance)
  <2>1. ~new.irregular
    OBVIOUS
  <2> HIDE DEF new, c
  <2> QED
    BY <1>6, <2>1, Zenon
<1> HIDE DEF new
<1>8. c.balance \in Nat /\ c.stake \in Nat /\ Worth(c) = c.balance + c.stake
  BY <1>5, WorthFields, Zenon
<1>9. d \in Account /\ Worth(d) = Worth(c) - reward
  <2>1. left = c.balance - reward /\ reward <= c.balance
    <3> HIDE DEF c
    <3> QED
      BY <1>7, <1>8
  <2>2. c.balance - reward \in U64
    BY <1>5, <2>1, AccountTypes, Takes, ZenonT(40)
  <2>3. d \in Account /\ d.balance = c.balance - reward /\ d.stake = c.stake
    BY <1>5, <2>1, <2>2 DEF Account
  <2> HIDE DEF d, c
  <2> QED
    BY <1>8, <2>3 DEF Worth
<1>10. Total(mid) = T0 + Worth(b) - Worth(a)
  BY <1>1, <1>3, TotalUpdate, Zenon
<1>11. Total(new.acct) = Total(mid) + Worth(d) - Worth(c)
  <2>1. mid \in [Addr -> Account] /\ d \in Account /\ new.acct = [mid EXCEPT ![Pool] = d]
    BY <1>5, <1>6, <1>9
  <2> HIDE DEF mid, d
  <2>2. Total(new.acct) = Total(mid) + Worth(d) - Worth(mid[Pool])
    BY <1>1, <2>1, TotalUpdate, Zenon
  <2> QED
    BY <2>2, ZenonT(40)
<1>12. T0 \in Nat /\ T0 + tip < Word /\ Worth(a) <= T0
  BY <1>1, <1>7, TotalType, TotalCleared, Zenon
<1>13. p # Pool => c = st.acct[Pool] /\ Worth(a) + Worth(c) <= T0
  BY <1>1, TotalOfTwo
<1>14. p = Pool => c = b
  BY <1>1
<1> HIDE DEF a, b, mid, c, d, T0
<1>15. b.balance = a.balance + reward + tip
  <2>1. a.balance + reward + tip \in Nat
    BY <1>2
  <2>2. a.balance + reward + tip < Word
    <3>1. CASE p # Pool
      BY <1>2, <1>7, <1>8, <1>12, <1>13, <3>1, CostTypes DEF Costs
    <3>2. CASE p = Pool
      <4> DEFINE n == a.balance + tip
      <4>1. n \in Nat /\ n < Word
        BY <1>2, <1>12, CostTypes DEF Costs
      <4>2. b.balance = (n + reward) % Word /\ reward <= b.balance
        <5>1. a.balance + reward + tip = n + reward
          BY <1>2
        <5> QED
          BY <1>3, <1>7, <1>8, <1>14, <3>2, <5>1
      <4> HIDE DEF n
      <4>3. reward < Word
        BY <1>8, <1>14, <3>2, <4>1, <4>2, CostTypes DEF Costs
      <4>4. n + reward >= Word => (n + reward) % Word = n + reward - Word
        BY <4>1, <4>3, CostTypes DEF Costs
      <4>5. n + reward < Word
        BY <4>1, <4>2, <4>3, <4>4, CostTypes DEF Costs
      <4> QED
        BY <1>2, <4>5 DEF n
    <3> QED
      BY <3>1, <3>2, Zenon
  <2> QED
    BY <1>3, <2>1, <2>2, NoWrap
<1>16. Worth(b) = Worth(a) + reward + tip
  BY <1>2, <1>3, <1>15 DEF Worth
<1>17. Total(new.acct) = T0 + tip
  <2>1. Worth(c) \in Nat /\ Worth(a) \in Nat
    BY <1>2, <1>8
  <2> QED
    BY <1>9, <1>10, <1>11, <1>12, <1>16, <2>1
<1> QED
  BY <1>6, <1>7, <1>17, Zenon DEF T0, new

-----------------------------------------------------------------------------
(* Conservation *)

\* The speculative state, with the tips the proposer is still to get.
SupplyInv ==
  /\ LInv
  /\ ~state.irregular => Total(state.acct) + state.burned + tips = Total(Genesis)
  /\ Conserved
  /\ task = "idle" => tips = 0

\* What the accounts hold is below 2^64 as long as nothing irregular has happened.
LEMMA SupplyBound ==
  ASSUME SupplyInv, ~state.irregular
  PROVE  /\ Total(state.acct) \in Nat /\ state.burned \in Nat /\ tips \in Nat
         /\ Total(Genesis) \in Nat
         /\ Total(state.acct) < Word /\ Total(state.acct) + tips < Word
<1>1. /\ Total(state.acct) \in Nat /\ state.burned \in Nat /\ tips \in Nat
      /\ Total(Genesis) \in Nat
  BY TotalType, LedgerAssumption, Zenon DEF SupplyInv, LInv, LTypeOK, LState, LedgerAssumption
<1>2. Total(state.acct) + state.burned + tips < Word
  BY SupplyAssumption, Zenon DEF SupplyInv, SupplyAssumption
<1> QED
  BY <1>1, <1>2, CostTypes DEF Costs

\* One transaction, built or accepted.
LEMMA TakeTxSupply ==
  ASSUME SupplyInv, task # "idle", todo # << >>,
         Fits(state, Head(todo), block.slot, block.fee), TakeTx
  PROVE  /\ ~state'.irregular => Total(state'.acct) + state'.burned + tips' = Total(Genesis)
         /\ Conserved' /\ task' = task
<1> DEFINE tx == Head(todo)
           r == ApplyTx(state, tx, block.slot, block.fee)
<1>1. tx \in Tx
  BY DEF SupplyInv, LInv, LTypeOK
<1>2. block.slot \in Nat /\ block.fee \in Nat /\ state \in LState
  BY DEF SupplyInv, LInv, LBlock, LTypeOK
<1>3. state' = r.st /\ tips' = tips + r.tip /\ snap' = snap /\ task' = task
  BY DEF TakeTx
<1>4. Fits(state, tx, block.slot, block.fee)
  OBVIOUS
<1> HIDE DEF tx
<1>5. ASSUME ~r.st.irregular
      PROVE  Total(r.st.acct) + r.st.burned + (tips + r.tip) = Total(Genesis)
  <2>1. ~state.irregular
        /\ Total(r.st.acct) + r.st.burned + r.tip = Total(state.acct) + state.burned
    BY <1>1, <1>2, <1>4, <1>5, SupplyBound, ApplyTxConserves, Zenon
  <2>2. r.st \in LState /\ r.tip \in Nat
    BY <1>1, <1>2, <1>4, ApplyTxOK, Zenon
  <2>3. Total(r.st.acct) \in Nat /\ r.st.burned \in Nat
    BY <2>2, TotalType, Zenon DEF LState
  <2>4. /\ Total(state.acct) \in Nat /\ state.burned \in Nat /\ tips \in Nat
        /\ Total(Genesis) \in Nat
        /\ Total(state.acct) + state.burned + tips = Total(Genesis)
    BY <2>1, SupplyBound, Zenon DEF SupplyInv
  <2> DEFINE A == Total(r.st.acct)
             B == r.st.burned
             C == Total(state.acct)
             D == state.burned
             G == Total(Genesis)
             x == r.tip
  <2> HIDE DEF r
  <2>5. A \in Nat /\ B \in Nat /\ C \in Nat /\ D \in Nat /\ G \in Nat /\ x \in Nat /\ tips \in Nat
        /\ A + B + x = C + D /\ C + D + tips = G
    BY <2>1, <2>2, <2>3, <2>4
  <2> HIDE DEF A, B, C, D, G, x
  <2>6. A + B + (tips + x) = G
    BY <2>5
  <2> QED
    BY <2>6 DEF A, B, G, x
<1> HIDE DEF r
<1> QED
  BY <1>3, <1>5, Zenon DEF SupplyInv, Conserved

\* Every step of the ledger.
LEMMA SupplyStep ==
  ASSUME SupplyInv, [LStep]_lvars
  PROVE  SupplyInv'
<1> DEFINE S == ~state.irregular => Total(state.acct) + state.burned + tips = Total(Genesis)
<1>1. LInv'
  BY LStepOK DEF SupplyInv
<1>2. LInv /\ S /\ Conserved /\ (task = "idle" => tips = 0)
  BY Zenon DEF SupplyInv
<1>3. ASSUME UNCHANGED <<state, snap>>, tips' = tips, task' = task
      PROVE  S' /\ Conserved' /\ (task = "idle" => tips = 0)'
  BY <1>2, <1>3, Zenon DEF Conserved
<1>4. ASSUME NEW t, NEW b, NEW txs, Begin(t, b, txs)
      PROVE  S' /\ Conserved' /\ (task = "idle" => tips = 0)'
  BY <1>2, <1>4 DEF Begin, Conserved
<1>5. ASSUME NEW st \in LState, End(st),
             ~st.irregular => Total(st.acct) + st.burned = Total(Genesis)
      PROVE  S' /\ Conserved' /\ (task = "idle" => tips = 0)'
  <2>1. Total(st.acct) \in Nat /\ st.burned \in Nat
    BY TotalType DEF LState
  <2>2. Total(st.acct) + st.burned + 0 = Total(st.acct) + st.burned
    BY <2>1
  <2> QED
    BY <1>5, <2>2 DEF End, Conserved
<1>6. ASSUME End(snap)
      PROVE  S' /\ Conserved' /\ (task = "idle" => tips = 0)'
  <2>1. snap \in LState /\ (~snap.irregular => Total(snap.acct) + snap.burned = Total(Genesis))
    BY <1>2, Zenon DEF LInv, LTypeOK, Conserved
  <2> QED
    BY <1>5, <1>6, <2>1, Zenon
<1>7. CASE BuildTx \/ AcceptTx
  <2>1. task # "idle" /\ todo # << >> /\ TakeTx
        /\ Fits(state, Head(todo), block.slot, block.fee)
    BY <1>7, Zenon DEF BuildTx, AcceptTx, Keeps, Valid
  <2> QED
    BY <1>1, <2>1, TakeTxSupply DEF SupplyInv
<1>8. CASE Commit
  <2>1. task = "accept" /\ End(Paid)
    BY <1>8 DEF Commit
  <2>2. Paid \in LState
    BY <1>2, <2>1, PaidOK
  <2>3. ASSUME ~Paid.irregular
        PROVE  Total(Paid.acct) + Paid.burned = Total(Genesis)
    <3>1. state \in LState /\ block.proposer \in Addr /\ block.height \in Nat /\ tips \in Nat
      BY <1>2, <2>1 DEF LInv, LBlock, LTypeOK
    <3>2. BlockReward(block.height) \in Nat
      BY <3>1, RewardType, Zenon
    <3>3. /\ ~state.irregular /\ Paid.burned = state.burned
          /\ Total(Paid.acct) = Total(state.acct) + tips
      BY <2>3, <3>1, <3>2, SupplyBound, PayConserves DEF Paid
    <3>4. /\ Total(state.acct) \in Nat /\ state.burned \in Nat
          /\ Total(state.acct) + state.burned + tips = Total(Genesis)
      BY <3>3, SupplyBound DEF SupplyInv
    <3>5. (Total(state.acct) + tips) + state.burned = Total(state.acct) + state.burned + tips
      BY <3>1, <3>4
    <3> QED
      BY <3>3, <3>4, <3>5, Zenon
  <2> QED
    BY <1>1, <1>5, <2>1, <2>2, <2>3 DEF SupplyInv
<1>9. CASE EndBuild \/ Refuse
  BY <1>1, <1>6, <1>9, Zenon DEF EndBuild, Refuse, SupplyInv
<1>10. CASE SkipTx \/ UNCHANGED lvars
  BY <1>1, <1>3, <1>10, Zenon DEF SkipTx, lvars, SupplyInv
<1>11. ASSUME NEW p \in Addr, NEW slot \in Nat, NEW txs \in Seq(Tx), BeginBuild(p, slot, txs)
       PROVE  SupplyInv'
  BY <1>1, <1>4, <1>11, Zenon DEF BeginBuild, SupplyInv
<1>12. CASE BeginAccept
  BY <1>1, <1>4, <1>12 DEF BeginAccept, SupplyInv
<1> QED
  BY <1>7, <1>8, <1>9, <1>10, <1>11, <1>12, Zenon DEF LStep

\* The accounts hold what genesis gave them less what was burned, whatever was built, accepted,
\* refused and rolled back, for any amounts, fees, tips and rewards.
THEOREM ConservedHolds == LSpec => []Conserved
<1>1. LInit => SupplyInv
  <2> SUFFICES ASSUME LInit
               PROVE  SupplyInv
    BY Zenon
  <2>1. Total(Genesis) \in Nat
    BY TotalType, LedgerAssumption DEF LedgerAssumption
  <2>2. LInv
    BY LInitOK, Zenon
  <2>3. state.acct = Genesis /\ state.burned = 0 /\ tips = 0 /\ snap = state
    BY DEF LInit
  <2>4. Total(Genesis) + 0 + 0 = Total(Genesis) /\ Total(Genesis) + 0 = Total(Genesis)
    BY <2>1
  <2> QED
    BY <2>2, <2>3, <2>4 DEF SupplyInv, Conserved
<1>2. SupplyInv /\ [LNext]_lvars => SupplyInv'
  BY LNextIsLStep, SupplyStep DEF SupplyInv, LInv
<1>3. SupplyInv => Conserved
  BY DEF SupplyInv
<1> QED
  BY <1>1, <1>2, <1>3, PTL DEF LSpec
=============================================================================
