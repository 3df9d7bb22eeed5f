----------------------------- MODULE PoolProofs -----------------------------
(***************************************************************************)
(* The array of the pool's entries: what the scans and the moves of        *)
(* mempool.c do to it, for arrays of any length, and what ac_mempool_add   *)
(* makes of them.                                                          *)
(***************************************************************************)
EXTENDS Mempool, LedgerProofs

\* Time limits for the provers, in seconds.
USE SMTT(30), ZenonT(30)

-----------------------------------------------------------------------------
(* The pool as a sequence *)

\* What the order of the pool asks of two entries.
Precedes(d, e) ==
  /\ d.tx.tip >= e.tx.tip
  /\ d.tx.tip = e.tx.tip => d.slot <= e.slot
  /\ ~Rivals(d, e.tx)

Orderly(s) == \A i, j \in 1 .. Len(s) : i < j => Precedes(s[i], s[j])

\* t is s without some entries, in the same order.
Thins(s, t) ==
  /\ Len(t) <= Len(s)
  /\ \A i \in 1 .. Len(t) : \E k \in 1 .. Len(s) : t[i] = s[k]
  /\ \A i, j \in 1 .. Len(t) : i < j =>
       \E k, l \in 1 .. Len(s) : k < l /\ t[i] = s[k] /\ t[j] = s[l]

\* Dropping entries keeps the order.
LEMMA ThinsOrderly ==
  ASSUME NEW s, NEW t, Thins(s, t), Orderly(s)
  PROVE  Orderly(t)
  BY DEF Thins, Orderly

\* Nothing is dropped.
LEMMA ThinsItself ==
  ASSUME NEW s \in Seq(Entry)
  PROVE  Thins(s, s)
<1>1. Len(s) \in Nat
  OBVIOUS
<1> QED
  BY <1>1 DEF Thins

\* The least of a set of numbers.
LEMMA MinIs ==
  ASSUME NEW I, I \subseteq Nat, I # {}
  PROVE  Min(I) \in I /\ \A y \in I : Min(I) <= y
<1>1. \E x \in I : \A y \in I : x <= y
  BY LeastNatural, Zenon
<1> QED
  BY <1>1, Zenon DEF Min

\* Two parts of the array, one behind the other.
LEMMA Joined ==
  ASSUME NEW a \in Seq(Entry), NEW b \in Seq(Entry)
  PROVE  /\ a \o b \in Seq(Entry) /\ Len(a \o b) = Len(a) + Len(b)
         /\ \A i \in 1 .. Len(a) + Len(b) :
              (a \o b)[i] = IF i <= Len(a) THEN a[i] ELSE b[i - Len(a)]
  OBVIOUS

\* One entry is taken out and those behind it move up.
LEMMA RemoveAtIs ==
  ASSUME NEW s \in Seq(Entry), NEW i \in 1 .. Len(s)
  PROVE  /\ RemoveAt(s, i) \in Seq(Entry)
         /\ Len(RemoveAt(s, i)) = Len(s) - 1
         /\ \A j \in 1 .. Len(s) - 1 : RemoveAt(s, i)[j] = IF j < i THEN s[j] ELSE s[j + 1]
<1> DEFINE a == SubSeq(s, 1, i - 1)
           b == SubSeq(s, i + 1, Len(s))
<1>1. Len(s) \in Nat /\ i \in Nat
  OBVIOUS
<1>2. a \in Seq(Entry) /\ Len(a) = i - 1 /\ \A j \in 1 .. i - 1 : a[j] = s[j]
  BY <1>1
<1>3. b \in Seq(Entry) /\ Len(b) = Len(s) - i /\ \A j \in 1 .. Len(s) - i : b[j] = s[i + j]
  BY <1>1
<1>4. RemoveAt(s, i) = a \o b
  BY DEF RemoveAt
<1> HIDE DEF a, b
<1>5. a \o b \in Seq(Entry) /\ Len(a \o b) = Len(s) - 1
  <2>1. a \o b \in Seq(Entry) /\ Len(a \o b) = Len(a) + Len(b)
    BY <1>2, <1>3, Joined, Zenon
  <2> QED
    BY <1>1, <1>2, <1>3, <2>1
<1>6. \A j \in 1 .. Len(s) - 1 : (a \o b)[j] = IF j < i THEN s[j] ELSE s[j + 1]
  <2> SUFFICES ASSUME NEW j \in 1 .. Len(s) - 1
               PROVE  (a \o b)[j] = IF j < i THEN s[j] ELSE s[j + 1]
    BY Zenon
  <2>1. CASE j < i
    BY <1>1, <1>2, <1>3, <2>1
  <2>2. CASE ~(j < i)
    <3>1. j - Len(a) \in 1 .. Len(s) - i /\ j > Len(a) /\ i + (j - Len(a)) = j + 1
      BY <1>1, <1>2, <2>2
    <3>2. (a \o b)[j] = b[j - Len(a)]
      BY <1>1, <1>2, <1>3, <3>1
    <3> QED
      BY <1>3, <2>2, <3>1, <3>2, Zenon
  <2> QED
    BY <2>1, <2>2, Zenon
<1> QED
  BY <1>4, <1>5, <1>6

\* All other entries stay.
LEMMA RemoveAtThins ==
  ASSUME NEW s \in Seq(Entry), NEW i \in 1 .. Len(s)
  PROVE  /\ Thins(s, RemoveAt(s, i))
         /\ \A k \in 1 .. Len(s) : k # i => s[k] \in Range(RemoveAt(s, i))
         /\ Orderly(s) => s[i] \notin Range(RemoveAt(s, i))
<1> DEFINE t == RemoveAt(s, i)
           Source(j) == IF j < i THEN j ELSE j + 1
<1>1. /\ Len(s) \in Nat /\ i \in Nat /\ t \in Seq(Entry) /\ Len(t) = Len(s) - 1
      /\ \A j \in 1 .. Len(s) - 1 : t[j] = IF j < i THEN s[j] ELSE s[j + 1]
  <2>1. Len(s) \in Nat /\ i \in Nat
    OBVIOUS
  <2> QED
    BY <2>1, RemoveAtIs, Zenon
<1> HIDE DEF t
<1>2. \A j \in 1 .. Len(t) : t[j] = s[Source(j)] /\ Source(j) \in 1 .. Len(s) /\ Source(j) # i
  <2> SUFFICES ASSUME NEW j \in 1 .. Len(t)
               PROVE  t[j] = s[Source(j)] /\ Source(j) \in 1 .. Len(s) /\ Source(j) # i
    OBVIOUS
  <2>1. CASE j < i
    BY <1>1, <2>1
  <2>2. CASE ~(j < i)
    BY <1>1, <2>2
  <2> QED
    BY <2>1, <2>2
<1>3. \A j, k \in 1 .. Len(t) : j < k => Source(j) < Source(k)
  BY <1>1
<1>4. Thins(s, t)
  <2>1. Len(t) <= Len(s)
    BY <1>1
  <2> HIDE DEF Source
  <2> QED
    BY <1>2, <1>3, <2>1, Zenon DEF Thins
<1>5. ASSUME NEW k \in 1 .. Len(s), k # i
      PROVE  s[k] \in Range(t)
  <2> DEFINE j == IF k < i THEN k ELSE k - 1
  <2>1. j \in 1 .. Len(t) /\ t[j] = s[k]
    BY <1>1, <1>5
  <2> HIDE DEF j
  <2>2. DOMAIN t = 1 .. Len(t)
    BY <1>1
  <2> QED
    BY <2>1, <2>2 DEF Range
<1>6. ASSUME Orderly(s), s[i] \in Range(t)
      PROVE  FALSE
  <2>1. DOMAIN t = 1 .. Len(t)
    BY <1>1
  <2>2. PICK j \in 1 .. Len(t) : t[j] = s[i]
    BY <1>6, <2>1 DEF Range
  <2>3. Source(j) \in 1 .. Len(s) /\ Source(j) # i /\ s[Source(j)] = s[i]
    BY <1>2, <2>2
  <2>4. Source(j) < i \/ i < Source(j)
    BY <1>1, <2>3
  <2> HIDE DEF Source
  <2>5. Precedes(s[i], s[i])
    BY <1>6, <2>3, <2>4 DEF Orderly
  <2> QED
    BY <2>5 DEF Precedes, Rivals
<1> QED
  BY <1>4, <1>5, <1>6 DEF t

\* The pool without the entry of the same sender and nonce, and without that of a
\* transaction.
WithoutRival(s, tx) == RemoveFirstMatch(s, {i \in 1 .. Len(s) : Rivals(s[i], tx)})
WithoutTx(s, tx) == RemoveFirstMatch(s, {i \in 1 .. Len(s) : s[i].tx = tx})

\* The entry of the same sender and nonce is taken out, if there is one.
LEMMA RivalOut ==
  ASSUME NEW s \in Seq(Entry), NEW tx, Orderly(s)
  PROVE  LET t == WithoutRival(s, tx)
         IN  /\ t \in Seq(Entry) /\ Thins(s, t)
             /\ \A k \in 1 .. Len(s) : Rivals(s[k], tx) \/ s[k] \in Range(t)
             /\ \A k \in 1 .. Len(t) : ~Rivals(t[k], tx)
             /\ t = s \/ Len(t) = Len(s) - 1
<1> DEFINE I == {i \in 1 .. Len(s) : Rivals(s[i], tx)}
           t == WithoutRival(s, tx)
<1>1. Len(s) \in Nat /\ I \subseteq Nat \ {0}
  OBVIOUS
<1>2. t = IF I # {} THEN RemoveAt(s, Min(I)) ELSE s
  <2>1. I # {} => Min(I) # 0
    BY <1>1, MinIs, Zenon
  <2>2. t = LET i == IF I # {} THEN Min(I) ELSE 0 IN IF i # 0 THEN RemoveAt(s, i) ELSE s
    BY Zenon DEF WithoutRival, RemoveFirstMatch, FirstMatch
  <2> HIDE DEF I, t
  <2> QED
    BY <2>1, <2>2
<1> HIDE DEF t
<1>3. CASE I = {}
  <2>1. t = s
    BY <1>2, <1>3
  <2>2. \A k \in 1 .. Len(s) : ~Rivals(s[k], tx) /\ s[k] \in Range(s)
    BY <1>3 DEF Range
  <2> QED
    BY <2>1, <2>2, ThinsItself DEF t
<1>4. CASE I # {}
  <2> DEFINE m == Min(I)
  <2>1. m \in I
    BY <1>1, <1>4, MinIs, Zenon
  <2>2. m \in 1 .. Len(s) /\ Rivals(s[m], tx) /\ t = RemoveAt(s, m)
    BY <1>2, <1>4, <2>1
  <2> HIDE DEF m
  <2>3. t \in Seq(Entry) /\ Thins(s, t) /\ Len(t) = Len(s) - 1
    BY <2>2, RemoveAtIs, RemoveAtThins
  <2>4. \A k \in 1 .. Len(s) : k # m => s[k] \in Range(t)
    BY <2>2, RemoveAtThins
  <2>5. s[m] \notin Range(t)
    BY <2>2, RemoveAtThins
  <2>6. ASSUME NEW k \in 1 .. Len(t), Rivals(t[k], tx)
        PROVE  FALSE
    <3>1. PICK j \in 1 .. Len(s) : t[k] = s[j]
      BY <2>3, Zenon DEF Thins
    <3>2. t[k] \in Range(t)
      BY <2>3 DEF Range
    <3>3. j # m
      BY <2>5, <3>1, <3>2
    <3>4. j < m \/ m < j
      BY <1>1, <2>2, <3>3
    <3>5. Precedes(s[j], s[m]) \/ Precedes(s[m], s[j])
      BY <2>2, <3>4 DEF Orderly
    <3> QED
      BY <2>2, <2>6, <3>1, <3>5 DEF Precedes, Rivals
  <2> QED
    BY <2>2, <2>3, <2>4, <2>6 DEF t
<1> QED
  BY <1>3, <1>4

\* The entry of a committed transaction is taken out, if it is there.
LEMMA TxOut ==
  ASSUME NEW s \in Seq(Entry), NEW tx, Orderly(s)
  PROVE  LET t == WithoutTx(s, tx)
         IN  /\ t \in Seq(Entry) /\ Thins(s, t)
             /\ \A k \in 1 .. Len(s) : s[k].tx = tx \/ s[k] \in Range(t)
             /\ \A k \in 1 .. Len(t) : t[k].tx # tx
<1> DEFINE I == {i \in 1 .. Len(s) : s[i].tx = tx}
           t == WithoutTx(s, tx)
<1>1. Len(s) \in Nat /\ I \subseteq Nat \ {0}
  OBVIOUS
<1>2. t = IF I # {} THEN RemoveAt(s, Min(I)) ELSE s
  <2>1. I # {} => Min(I) # 0
    BY <1>1, MinIs, Zenon
  <2>2. t = LET i == IF I # {} THEN Min(I) ELSE 0 IN IF i # 0 THEN RemoveAt(s, i) ELSE s
    BY Zenon DEF WithoutTx, RemoveFirstMatch, FirstMatch
  <2> HIDE DEF I, t
  <2> QED
    BY <2>1, <2>2
<1> HIDE DEF t
<1>3. CASE I = {}
  <2>1. t = s
    BY <1>2, <1>3
  <2>2. \A k \in 1 .. Len(s) : s[k].tx # tx /\ s[k] \in Range(s)
    BY <1>3 DEF Range
  <2> QED
    BY <2>1, <2>2, ThinsItself DEF t
<1>4. CASE I # {}
  <2> DEFINE m == Min(I)
  <2>1. m \in I
    BY <1>1, <1>4, MinIs, Zenon
  <2>2. m \in 1 .. Len(s) /\ s[m].tx = tx /\ t = RemoveAt(s, m)
    BY <1>2, <1>4, <2>1
  <2> HIDE DEF m
  <2>3. t \in Seq(Entry) /\ Thins(s, t)
    BY <2>2, RemoveAtIs, RemoveAtThins
  <2>4. \A k \in 1 .. Len(s) : k # m => s[k] \in Range(t)
    BY <2>2, RemoveAtThins
  <2>5. s[m] \notin Range(t)
    BY <2>2, RemoveAtThins, Zenon
  <2>6. ASSUME NEW k \in 1 .. Len(t), t[k].tx = tx
        PROVE  FALSE
    <3>1. PICK j \in 1 .. Len(s) : t[k] = s[j]
      BY <2>3, Zenon DEF Thins
    <3>2. t[k] \in Range(t)
      BY <2>3 DEF Range
    <3>3. j # m
      BY <2>5, <3>1, <3>2
    <3>4. j < m \/ m < j
      BY <1>1, <2>2, <3>3
    <3>5. Precedes(s[j], s[m]) \/ Precedes(s[m], s[j])
      BY <2>2, <3>4 DEF Orderly
    <3> QED
      BY <2>2, <2>6, <3>1, <3>5 DEF Precedes, Rivals
  <2> QED
    BY <2>2, <2>3, <2>4, <2>6 DEF t
<1> QED
  BY <1>3, <1>4

Front(s) == SubSeq(s, 1, Len(s) - 1)

\* The last entry is taken out.
LEMMA LastOut ==
  ASSUME NEW s \in Seq(Entry), s # << >>
  PROVE  /\ Front(s) \in Seq(Entry) /\ Thins(s, Front(s)) /\ Len(Front(s)) = Len(s) - 1
         /\ \A k \in 1 .. Len(s) : k = Len(s) \/ s[k] \in Range(Front(s))
<1> DEFINE t == Front(s)
<1>1. Len(s) \in Nat \ {0}
  OBVIOUS
<1>2. t \in Seq(Entry) /\ Len(t) = Len(s) - 1 /\ \A k \in 1 .. Len(s) - 1 : t[k] = s[k]
  <2>1. Len(s) \in Int /\ Len(s) - 1 \in Int /\ \A i \in 1 .. Len(s) - 1 : s[i] \in Entry
    BY <1>1
  <2>2. t = SubSeq(s, 1, Len(s) - 1)
    BY DEF Front
  <2> DEFINE m == Len(s) - 1
  <2>3. m \in Int /\ m >= 0 /\ \A i \in 1 .. m : s[i] \in Entry
    BY <1>1, <2>1
  <2> HIDE DEF m
  <2>4. /\ SubSeq(s, 1, m) \in Seq(Entry) /\ Len(SubSeq(s, 1, m)) = m
        /\ \A k \in 1 .. m : SubSeq(s, 1, m)[k] = s[k]
    BY <2>3
  <2> HIDE DEF t
  <2> QED
    BY <2>2, <2>4 DEF m
<1> HIDE DEF t
<1>3. \A k \in 1 .. Len(t) : k \in 1 .. Len(s) /\ t[k] = s[k]
  BY <1>1, <1>2
<1>4. Len(t) <= Len(s)
  BY <1>1, <1>2
<1>5. Thins(s, t)
  <2>1. \A i \in 1 .. Len(t) : \E k \in 1 .. Len(s) : t[i] = s[k]
    BY <1>3
  <2>2. \A i, j \in 1 .. Len(t) : i < j =>
          \E k, l \in 1 .. Len(s) : k < l /\ t[i] = s[k] /\ t[j] = s[l]
    BY <1>3
  <2> QED
    BY <1>4, <2>1, <2>2 DEF Thins
<1>6. ASSUME NEW k \in 1 .. Len(s), k # Len(s)
      PROVE  s[k] \in Range(t)
  <2>1. k \in 1 .. Len(t) /\ s[k] = t[k] /\ DOMAIN t = 1 .. Len(t)
    BY <1>1, <1>2, <1>6
  <2> QED
    BY <2>1 DEF Range
<1> QED
  BY <1>2, <1>5, <1>6 DEF t

\* Where mp_insert puts an entry.
LEMMA InsertIs ==
  ASSUME NEW s \in Seq(Entry), NEW e \in Entry
  PROVE  \E p \in 1 .. Len(s) + 1 :
           /\ \A i \in 1 .. Len(s) : i < p => ~(s[i].tx.tip < e.tx.tip)
           /\ p \in 1 .. Len(s) => s[p].tx.tip < e.tx.tip
           /\ Insert(s, e) \in Seq(Entry) /\ Len(Insert(s, e)) = Len(s) + 1
           /\ \A j \in 1 .. Len(s) + 1 :
                Insert(s, e)[j] = IF j < p THEN s[j] ELSE IF j = p THEN e ELSE s[j - 1]
<1> DEFINE I == {i \in 1 .. Len(s) : s[i].tx.tip < e.tx.tip}
           p == IF I # {} THEN Min(I) ELSE Len(s) + 1
           a == SubSeq(s, 1, p - 1)
           b == SubSeq(s, p, Len(s))
           n == Len(s)
<1>1. n \in Nat /\ I \subseteq 1 .. n /\ I \subseteq Nat
  OBVIOUS
<1>3. /\ p \in 1 .. n + 1 /\ \A i \in 1 .. n : i < p => ~(s[i].tx.tip < e.tx.tip)
      /\ p \in 1 .. n => s[p].tx.tip < e.tx.tip
  <2>1. CASE I = {}
    BY <1>1, <2>1
  <2>2. CASE I # {}
    <3>1. Min(I) \in I /\ \A y \in I : Min(I) <= y
      BY <1>1, <2>2, MinIs, Zenon
    <3>2. p = Min(I)
      BY <2>2, Zenon
    <3> DEFINE m == Min(I)
    <3>3. m \in 1 .. n /\ s[m].tx.tip < e.tx.tip
      BY <3>1, Zenon
    <3>4. \A i \in 1 .. n : s[i].tx.tip < e.tx.tip => m <= i
      BY <3>1
    <3> HIDE DEF m
    <3>5. \A i \in 1 .. n : i < m => ~(s[i].tx.tip < e.tx.tip)
      BY <1>1, <3>3, <3>4
    <3>6. m \in 1 .. n + 1
      BY <1>1, <3>3
    <3> QED
      BY <3>2, <3>3, <3>5, <3>6, Zenon DEF m
  <2> QED
    BY <2>1, <2>2, Zenon
<1>4. Insert(s, e) = (a \o <<e>>) \o b
  <2>1. FirstMatch(I) = IF I # {} THEN Min(I) ELSE 0
    BY DEF FirstMatch
  <2>2. I # {} => Min(I) # 0
    <3>1. I # {} => Min(I) \in I
      BY <1>1, MinIs, Zenon
    <3>2. 0 \notin I
      BY <1>1
    <3> HIDE DEF I
    <3> QED
      BY <3>1, <3>2
  <2> QED
    BY <2>1, <2>2, Zenon DEF Insert, InsertAt
<1> HIDE DEF p
<1>5. p \in Nat /\ p \in 1 .. n + 1
  BY <1>1, <1>3
<1>6. a \in Seq(Entry) /\ Len(a) = p - 1 /\ \A j \in 1 .. p - 1 : a[j] = s[j]
  BY <1>1, <1>5
<1>7. b \in Seq(Entry) /\ Len(b) = n + 1 - p /\ \A j \in 1 .. n + 1 - p : b[j] = s[p + j - 1]
  BY <1>1, <1>5
<1> HIDE DEF a, b, I
<1>8. <<e>> \in Seq(Entry) /\ Len(<<e>>) = 1 /\ <<e>>[1] = e
  OBVIOUS
<1> DEFINE c == a \o <<e>>
<1>9. c \in Seq(Entry) /\ Len(c) = p /\ c[p] = e /\ \A j \in 1 .. p - 1 : c[j] = s[j]
  <2> DEFINE o == <<e>>
  <2>1. o \in Seq(Entry) /\ Len(o) = 1 /\ o[1] = e /\ c = a \o o
    BY <1>8
  <2> HIDE DEF o, c
  <2>2. c \in Seq(Entry) /\ Len(c) = Len(a) + Len(o)
        /\ \A i \in 1 .. Len(a) + Len(o) : c[i] = IF i <= Len(a) THEN a[i] ELSE o[i - Len(a)]
    BY <1>6, <2>1, Joined, Zenon
  <2>3. Len(c) = p /\ p \in 1 .. Len(a) + Len(o) /\ ~(p <= Len(a)) /\ p - Len(a) = 1
    BY <1>5, <1>6, <2>1, <2>2
  <2>4. \A j \in 1 .. p - 1 : j \in 1 .. Len(a) + Len(o) /\ j <= Len(a)
    BY <1>5, <1>6, <2>1
  <2> QED
    BY <1>6, <2>1, <2>2, <2>3, <2>4
<1> HIDE DEF c
<1> DEFINE d == c \o b
<1>10. /\ d \in Seq(Entry) /\ Len(d) = p + Len(b)
       /\ \A i \in 1 .. p + Len(b) : d[i] = IF i <= p THEN c[i] ELSE b[i - p]
  BY <1>7, <1>9, Joined, Zenon
<1> HIDE DEF d
<1>11. Len(d) = n + 1
  BY <1>1, <1>5, <1>7, <1>10
<1>12. \A j \in 1 .. n + 1 : d[j] = IF j < p THEN s[j] ELSE IF j = p THEN e ELSE s[j - 1]
  <2> SUFFICES ASSUME NEW j \in 1 .. n + 1
               PROVE  d[j] = IF j < p THEN s[j] ELSE IF j = p THEN e ELSE s[j - 1]
    OBVIOUS
  <2>0. j \in 1 .. p + Len(b)
    BY <1>1, <1>5, <1>7
  <2>1. CASE j < p
    <3>1. j <= p /\ j \in 1 .. p - 1
      BY <1>5, <2>1
    <3> QED
      BY <1>9, <1>10, <2>0, <2>1, <3>1
  <2>2. CASE j = p
    <3>1. j <= p /\ ~(j < p)
      BY <1>5, <2>2
    <3> QED
      BY <1>9, <1>10, <2>0, <2>2, <3>1
  <2>3. CASE j > p
    <3>1. ~(j <= p) /\ ~(j < p) /\ j # p /\ j - p \in 1 .. n + 1 - p /\ p + (j - p) - 1 = j - 1
      BY <1>1, <1>5, <2>3
    <3> QED
      BY <1>7, <1>10, <2>0, <3>1
  <2> QED
    BY <1>5, <2>1, <2>2, <2>3
<1> QED
  BY <1>3, <1>4, <1>10, <1>11, <1>12, ZenonT(40) DEF c, d

\* A newcomer in its place keeps the order.
LEMMA InsertOrderly ==
  ASSUME NEW s \in Seq(Entry), NEW e \in Entry, Orderly(s),
         \A i \in 1 .. Len(s) : s[i].slot <= e.slot /\ ~Rivals(s[i], e.tx)
  PROVE  /\ Insert(s, e) \in Seq(Entry) /\ Len(Insert(s, e)) = Len(s) + 1
         /\ Orderly(Insert(s, e))
         /\ Range(Insert(s, e)) = Range(s) \cup {e}
<1> DEFINE n == Len(s)
           t == Insert(s, e)
<1>1. PICK p \in 1 .. n + 1 :
        /\ \A i \in 1 .. n : i < p => ~(s[i].tx.tip < e.tx.tip)
        /\ p \in 1 .. n => s[p].tx.tip < e.tx.tip
        /\ t \in Seq(Entry) /\ Len(t) = n + 1
        /\ \A j \in 1 .. n + 1 : t[j] = IF j < p THEN s[j] ELSE IF j = p THEN e ELSE s[j - 1]
  BY InsertIs, Zenon
<1> HIDE DEF t
<1>2. n \in Nat /\ p \in Nat /\ e.tx.tip \in Nat /\ e.slot \in Nat
      /\ \A i \in 1 .. n : s[i].tx.tip \in Nat /\ s[i].slot \in Nat /\ s[i] \in Entry
  <2>1. \A x \in Entry : x.tx.tip \in Nat /\ x.slot \in Nat
    BY TxTypes DEF Entry, TxOK
  <2>2. \A i \in 1 .. n : s[i] \in Entry
    OBVIOUS
  <2> QED
    BY <2>1, <2>2
<1>3. ASSUME NEW i \in 1 .. n, i < p
      PROVE  Precedes(s[i], e)
  BY <1>1, <1>2, <1>3 DEF Precedes
<1>4. ASSUME NEW i \in 1 .. n, ~(i < p)
      PROVE  Precedes(e, s[i])
  <2>1. p \in 1 .. n /\ (p < i \/ p = i)
    BY <1>1, <1>2, <1>4
  <2>2. s[p].tx.tip < e.tx.tip
    BY <1>1, <2>1
  <2>3. s[p].tx.tip >= s[i].tx.tip
    <3>1. CASE p = i
      BY <1>2, <2>1, <3>1
    <3>2. CASE p < i
      BY <2>1, <3>2 DEF Orderly, Precedes
    <3> QED
      BY <2>1, <3>1, <3>2
  <2>4. e.tx.tip > s[i].tx.tip
    BY <1>2, <2>1, <2>2, <2>3
  <2>5. ~Rivals(e, s[i].tx)
    BY DEF Rivals
  <2> QED
    BY <1>2, <2>4, <2>5 DEF Precedes
<1>5. Orderly(t)
  <2> SUFFICES ASSUME NEW i \in 1 .. n + 1, NEW j \in 1 .. n + 1, i < j
               PROVE  Precedes(t[i], t[j])
    BY <1>1 DEF Orderly
  <2>1. CASE i = p
    <3>1. j - 1 \in 1 .. n /\ ~(j - 1 < p) /\ ~(j < p) /\ j # p /\ ~(i < p)
      BY <1>2, <2>1
    <3>2. t[i] = e /\ t[j] = s[j - 1]
      BY <1>1, <2>1, <3>1
    <3> QED
      BY <1>4, <3>1, <3>2
  <2>2. CASE j = p
    <3>1. i \in 1 .. n /\ i < p /\ ~(j < p)
      BY <1>2, <2>2
    <3>2. t[j] = e /\ t[i] = s[i]
      BY <1>1, <2>2, <3>1, Zenon
    <3> QED
      BY <1>3, <3>1, <3>2
  <2>3. CASE i # p /\ j # p
    <3> DEFINE k == IF i < p THEN i ELSE i - 1
               l == IF j < p THEN j ELSE j - 1
    <3>1. t[i] = s[k] /\ t[j] = s[l]
      BY <1>1, <2>3
    <3>2. k \in 1 .. n /\ l \in 1 .. n /\ k < l
      BY <1>2, <2>3
    <3> HIDE DEF k, l
    <3> QED
      BY <3>1, <3>2, Zenon DEF Orderly
  <2> QED
    BY <2>1, <2>2, <2>3
<1>6. Range(t) = Range(s) \cup {e}
  <2>1. DOMAIN t = 1 .. n + 1 /\ DOMAIN s = 1 .. n
    BY <1>1
  <2>2. ASSUME NEW x \in Range(t)
        PROVE  x \in Range(s) \cup {e}
    <3>1. PICK j \in 1 .. n + 1 : x = t[j]
      BY <2>1 DEF Range
    <3>2. j < p => j \in 1 .. n
      BY <1>2
    <3>3. ~(j < p) /\ j # p => j - 1 \in 1 .. n
      BY <1>2
    <3> QED
      BY <1>1, <2>1, <3>1, <3>2, <3>3, Zenon DEF Range
  <2>3. ASSUME NEW x \in Range(s)
        PROVE  x \in Range(t)
    <3>1. PICK i \in 1 .. n : x = s[i]
      BY <2>1 DEF Range
    <3> DEFINE j == IF i < p THEN i ELSE i + 1
    <3>2. j \in 1 .. n + 1 /\ t[j] = s[i]
      <4>1. CASE i < p
        BY <1>1, <1>2, <4>1
      <4>2. CASE ~(i < p)
        <5>1. i + 1 \in 1 .. n + 1 /\ ~(i + 1 < p) /\ i + 1 # p /\ (i + 1) - 1 = i /\ j = i + 1
          BY <1>2, <4>2
        <5> QED
          BY <1>1, <5>1, Zenon
      <4> QED
        BY <4>1, <4>2, Zenon
    <3> HIDE DEF j
    <3> QED
      BY <2>1, <3>1, <3>2 DEF Range
  <2>4. e \in Range(t)
    <3>1. t[p] = e
      BY <1>1, <1>2
    <3> QED
      BY <2>1, <3>1 DEF Range
  <2> QED
    BY <2>2, <2>3, <2>4
<1> QED
  BY <1>1, <1>5, <1>6 DEF t

\* The entries that are kept of the first r.
KeptAt(s, slot, f, r) ==
  IF r = 0 THEN << >>
  ELSE IF s[r].tx.until <= slot THEN f[r - 1] ELSE Append(f[r - 1], s[r])

\* The recursion has a solution.
LEMMA KeptExists ==
  ASSUME NEW s, NEW slot, Len(s) \in Nat
  PROVE  \E f : f = [r \in 0 .. Len(s) |-> KeptAt(s, slot, f, r)]
<1> DEFINE D == 0 .. Len(s)
           Good(f, n) == f = [r \in D |-> f[r]]
                         /\ \A r \in D : r <= n => f[r] = KeptAt(s, slot, f, r)
           H == {n \in Nat : \E f : Good(f, n)}
<1>1. 0 \in H
  <2> DEFINE f == [r \in D |-> << >>]
  <2>1. \A r \in D : r <= 0 => r = 0
    OBVIOUS
  <2>2. f = [r \in D |-> f[r]]
    OBVIOUS
  <2>3. \A r \in D : r = 0 => f[r] = KeptAt(s, slot, f, r)
    BY DEF KeptAt
  <2>4. Good(f, 0)
    BY <2>1, <2>2, <2>3
  <2> HIDE DEF Good, f
  <2> QED
    BY <2>4
<1>2. ASSUME NEW n \in Nat, n \in H
      PROVE  n + 1 \in H
  <2>1. PICK f : Good(f, n)
    BY <1>2, Zenon
  <2> DEFINE g == [r \in D |-> IF r <= n THEN f[r] ELSE KeptAt(s, slot, f, r)]
  <2>2. ASSUME NEW r \in D, r <= n + 1
        PROVE  g[r] = KeptAt(s, slot, g, r)
    <3>1. g[r] = KeptAt(s, slot, f, r)
      BY <2>1
    <3>2. r # 0 => r - 1 \in D /\ r - 1 <= n
      BY <2>2
    <3>3. r # 0 => g[r - 1] = f[r - 1]
      BY <3>2
    <3> QED
      BY <3>1, <3>3 DEF KeptAt
  <2>3. g = [r \in D |-> g[r]]
    OBVIOUS
  <2> HIDE DEF g
  <2>4. Good(g, n + 1)
    BY <2>2, <2>3, Zenon
  <2>5. n + 1 \in Nat
    OBVIOUS
  <2> HIDE DEF Good
  <2> QED
    BY <2>4, <2>5, Zenon
<1> HIDE DEF H
<1>3. Len(s) \in H
  BY <1>1, <1>2, CountsUp
<1> HIDE DEF Good
<1>4. PICK f : Good(f, Len(s))
  BY <1>3 DEF H
<1>5. \A r \in D : f[r] = KeptAt(s, slot, f, r)
  <2>1. \A r \in D : r <= Len(s)
    OBVIOUS
  <2> QED
    BY <1>4, <2>1 DEF Good
<1>6. f = [r \in D |-> f[r]]
  BY <1>4, Zenon DEF Good
<1>7. f = [r \in D |-> KeptAt(s, slot, f, r)]
  BY <1>5, <1>6
<1> QED
  BY <1>7

\* t holds entries of the first n of s, in order and all that are valid beyond the slot.
Sifted(s, slot, n, t) ==
  /\ t \in Seq(Entry) /\ Len(t) <= n
  /\ \A i \in 1 .. Len(t) : \E k \in 1 .. n : t[i] = s[k]
  /\ \A i, j \in 1 .. Len(t) : i < j => \E k, l \in 1 .. n : k < l /\ t[i] = s[k] /\ t[j] = s[l]
  /\ \A k \in 1 .. n : s[k].tx.until > slot => \E i \in 1 .. Len(t) : t[i] = s[k]

\* One entry more, dropped or kept.
LEMMA SiftedNext ==
  ASSUME NEW s \in Seq(Entry), NEW slot \in Nat, NEW n \in Nat, n + 1 \in 1 .. Len(s), NEW t,
         Sifted(s, slot, n, t)
  PROVE  Sifted(s, slot, n + 1,
                IF s[n + 1].tx.until <= slot THEN t ELSE Append(t, s[n + 1]))
<1> DEFINE e == s[n + 1]
           u == Append(t, e)
<1>1. e \in Entry /\ e.tx.until \in Nat /\ t \in Seq(Entry) /\ Len(t) \in Nat /\ Len(t) <= n
  <2>1. e \in Entry
    OBVIOUS
  <2>2. e.tx \in Tx
    BY <2>1 DEF Entry
  <2>3. e.tx.until \in Nat
    BY <2>2, LedgerAssumption DEF LedgerAssumption
  <2> QED
    BY <2>1, <2>3 DEF Sifted
<1>2. /\ \A k \in 1 .. n : k \in 1 .. n + 1 /\ k < n + 1
      /\ \A k \in 1 .. n + 1 : k \in 1 .. n \/ k = n + 1
      /\ n + 1 \in 1 .. n + 1
  OBVIOUS
<1>3. CASE e.tx.until <= slot
  <2>1. ~(e.tx.until > slot)
    BY <1>1, <1>3
  <2>2. Len(t) <= n + 1
    BY <1>1
  <2>3. \A i, j \in 1 .. Len(t) : i < j =>
          \E k, l \in 1 .. n + 1 : k < l /\ t[i] = s[k] /\ t[j] = s[l]
    BY <1>2 DEF Sifted
  <2>4. \A i \in 1 .. Len(t) : \E k \in 1 .. n + 1 : t[i] = s[k]
    BY <1>2 DEF Sifted
  <2>5. \A k \in 1 .. n + 1 : s[k].tx.until > slot => \E i \in 1 .. Len(t) : t[i] = s[k]
    BY <1>2, <2>1, Zenon DEF Sifted
  <2>6. Sifted(s, slot, n + 1, t)
    BY <1>1, <2>2, <2>3, <2>4, <2>5 DEF Sifted
  <2> QED
    BY <1>3, <2>6
<1>4. CASE ~(e.tx.until <= slot)
  <2>1. u \in Seq(Entry) /\ Len(u) = Len(t) + 1 /\ u[Len(t) + 1] = e
        /\ \A i \in 1 .. Len(t) : u[i] = t[i]
    BY <1>1
  <2>2. \A i \in 1 .. Len(u) : i \in 1 .. Len(t) \/ i = Len(t) + 1
    BY <1>1, <2>1
  <2>3. \A i, j \in 1 .. Len(u) : i < j => i \in 1 .. Len(t)
    BY <1>1, <2>1
  <2> HIDE DEF u, e
  <2>4. Len(u) <= n + 1
    BY <1>1, <2>1
  <2>5. \A i \in 1 .. Len(u) : \E k \in 1 .. n + 1 : u[i] = s[k]
    <3>1. \A i \in 1 .. Len(t) : \E k \in 1 .. n + 1 : u[i] = s[k]
      BY <1>2, <2>1 DEF Sifted
    <3>2. u[Len(t) + 1] = s[n + 1]
      BY <2>1 DEF e
    <3> QED
      BY <1>2, <2>2, <3>1, <3>2
  <2>6. ASSUME NEW i \in 1 .. Len(u), NEW j \in 1 .. Len(u), i < j
        PROVE  \E k, l \in 1 .. n + 1 : k < l /\ u[i] = s[k] /\ u[j] = s[l]
    <3>1. i \in 1 .. Len(t)
      BY <2>3, <2>6
    <3>2. CASE j \in 1 .. Len(t)
      <4>1. PICK k \in 1 .. n, l \in 1 .. n : k < l /\ t[i] = s[k] /\ t[j] = s[l]
        BY <2>6, <3>1, <3>2, Zenon DEF Sifted
      <4>2. k \in 1 .. n + 1 /\ l \in 1 .. n + 1 /\ u[i] = t[i] /\ u[j] = t[j]
        BY <1>2, <2>1, <3>1, <3>2, Zenon
      <4> QED
        BY <4>1, <4>2
    <3>3. CASE j = Len(t) + 1
      <4>1. PICK k \in 1 .. n : t[i] = s[k]
        BY <3>1, Zenon DEF Sifted
      <4> QED
        BY <1>2, <2>1, <3>1, <3>3, <4>1, Zenon DEF e
    <3> QED
      BY <2>2, <3>2, <3>3
  <2>7. ASSUME NEW k \in 1 .. n + 1, s[k].tx.until > slot
        PROVE  \E i \in 1 .. Len(u) : u[i] = s[k]
    <3>1. \A i \in 1 .. Len(t) : i \in 1 .. Len(u)
      BY <1>1, <2>1
    <3>2. Len(t) + 1 \in 1 .. Len(u)
      BY <1>1, <2>1
    <3>3. CASE k \in 1 .. n
      BY <2>1, <2>7, <3>1, <3>3 DEF Sifted
    <3>4. CASE k = n + 1
      BY <2>1, <3>2, <3>4, Zenon DEF e
    <3> QED
      BY <1>2, <3>3, <3>4, Zenon
  <2>8. Sifted(s, slot, n + 1, u)
    BY <2>1, <2>4, <2>5, <2>6, <2>7, Zenon DEF Sifted
  <2> QED
    BY <1>4, <2>8 DEF u, e
<1> QED
  BY <1>3, <1>4

\* What ac_mempool_prune_expired leaves.
LEMMA UnexpiredIs ==
  ASSUME NEW s \in Seq(Entry), NEW slot \in Nat
  PROVE  /\ Unexpired(s, slot) \in Seq(Entry) /\ Thins(s, Unexpired(s, slot))
         /\ \A k \in 1 .. Len(s) : s[k].tx.until > slot => s[k] \in Range(Unexpired(s, slot))
<1> DEFINE F == CHOOSE f : f = [r \in 0 .. Len(s) |-> KeptAt(s, slot, f, r)]
           H == {n \in Nat : n <= Len(s) => Sifted(s, slot, n, F[n])}
<1>1. Unexpired(s, slot) = F[Len(s)]
  BY DEF Unexpired, KeptAt
<1>2. Len(s) \in Nat
  OBVIOUS
<1>3. F = [r \in 0 .. Len(s) |-> KeptAt(s, slot, F, r)]
  BY <1>2, KeptExists
<1> HIDE DEF F
<1>4. \A r \in 0 .. Len(s) : F[r] = KeptAt(s, slot, F, r)
  BY <1>3
<1>5. 0 \in H
  <2>1. F[0] = << >>
    BY <1>2, <1>4 DEF KeptAt
  <2>2. << >> \in Seq(Entry) /\ Len(<< >>) = 0
    OBVIOUS
  <2>3. Sifted(s, slot, 0, F[0])
    BY <2>1, <2>2 DEF Sifted
  <2> QED
    BY <2>3
<1>6. ASSUME NEW n \in Nat, n \in H
      PROVE  n + 1 \in H
  <2> SUFFICES ASSUME n + 1 <= Len(s)
               PROVE  Sifted(s, slot, n + 1, F[n + 1])
    OBVIOUS
  <2>1. n + 1 \in 1 .. Len(s) /\ n + 1 \in 0 .. Len(s) /\ n + 1 # 0 /\ (n + 1) - 1 = n
    BY <1>2
  <2>2. Sifted(s, slot, n, F[n])
    BY <1>2, <1>6
  <2>3. F[n + 1] = IF s[n + 1].tx.until <= slot THEN F[n] ELSE Append(F[n], s[n + 1])
    BY <1>4, <2>1 DEF KeptAt
  <2> QED
    BY <2>1, <2>2, <2>3, SiftedNext
<1> HIDE DEF H
<1>7. Len(s) \in H
  BY <1>2, <1>5, <1>6, CountsUp
<1> DEFINE t == F[Len(s)]
<1>8. Sifted(s, slot, Len(s), t)
  BY <1>2, <1>7 DEF H
<1> HIDE DEF t
<1>9. DOMAIN t = 1 .. Len(t)
  BY <1>8 DEF Sifted
<1>10. t \in Seq(Entry) /\ Thins(s, t)
  BY <1>8 DEF Sifted, Thins
<1>11. \A k \in 1 .. Len(s) : s[k].tx.until > slot => s[k] \in Range(t)
  BY <1>8, <1>9, Zenon DEF Sifted, Range
<1> QED
  BY <1>1, <1>10, <1>11 DEF t

-----------------------------------------------------------------------------
(* The entries of the pool *)

\* The account of the sender has reached the nonce.
NotAhead(st, tx) == tx.nonce <= st.acct[tx.sender].nonce

\* The entries, with the clock and the tip.
InPool ==
  /\ pool \in Seq(Entry) /\ Len(pool) <= Capacity /\ Orderly(pool)
  /\ now \in Nat /\ leadSlot \in Nat /\ leadSlot <= now
  /\ \A e \in Range(pool) : e.slot <= now /\ NotAhead(snap, e.tx)
  /\ taken \in Seq(Tx) /\ \A tx \in Range(taken) : NotAhead(snap, tx)

\* The members of a longer sequence.
LEMMA SetAppend ==
  ASSUME NEW s \in Seq(Tx), NEW x \in Tx
  PROVE  Range(Append(s, x)) = Range(s) \cup {x}
<1> DEFINE t == Append(s, x)
<1>1. /\ Len(s) \in Nat /\ DOMAIN s = 1 .. Len(s) /\ DOMAIN t = 1 .. Len(s) + 1
      /\ t[Len(s) + 1] = x /\ \A i \in 1 .. Len(s) : t[i] = s[i]
  OBVIOUS
<1> HIDE DEF t
<1>2. /\ \A i \in 1 .. Len(s) + 1 : i \in 1 .. Len(s) \/ i = Len(s) + 1
      /\ \A i \in 1 .. Len(s) : i \in 1 .. Len(s) + 1
      /\ Len(s) + 1 \in 1 .. Len(s) + 1
  BY <1>1
<1>3. Range(t) = {t[i] : i \in 1 .. Len(s) + 1} /\ Range(s) = {s[i] : i \in 1 .. Len(s)}
  BY <1>1 DEF Range
<1> QED
  BY <1>1, <1>2, <1>3 DEF t

\* The members of a sequence, the first and the rest.
LEMMA SetHeadTail ==
  ASSUME NEW s \in Seq(Tx), s # << >>
  PROVE  Range(s) = {Head(s)} \cup Range(Tail(s))
<1> DEFINE t == Tail(s)
           n == Len(s)
<1>1. /\ n \in Nat \ {0} /\ DOMAIN s = 1 .. n /\ DOMAIN t = 1 .. n - 1
      /\ Head(s) = s[1] /\ \A i \in 1 .. n - 1 : t[i] = s[i + 1]
  OBVIOUS
<1> HIDE DEF t, n
<1>2. /\ \A i \in 1 .. n : i = 1 \/ (i - 1 \in 1 .. n - 1 /\ (i - 1) + 1 = i)
      /\ \A i \in 1 .. n - 1 : i + 1 \in 1 .. n
      /\ 1 \in 1 .. n
  BY <1>1
<1>3. Range(t) = {t[i] : i \in 1 .. n - 1} /\ Range(s) = {s[i] : i \in 1 .. n}
  BY <1>1 DEF Range
<1>4. ASSUME NEW i \in 1 .. n
      PROVE  s[i] = Head(s) \/ s[i] \in Range(t)
  <2>1. CASE i = 1
    BY <1>1, <2>1
  <2>2. CASE i # 1
    <3>1. i - 1 \in 1 .. n - 1 /\ t[i - 1] = s[i]
      BY <1>1, <1>2, <2>2, Zenon
    <3> QED
      BY <1>3, <3>1
  <2> QED
    BY <2>1, <2>2
<1>5. ASSUME NEW i \in 1 .. n - 1
      PROVE  t[i] \in Range(s)
  BY <1>1, <1>2, <1>3
<1>6. Head(s) \in Range(s)
  BY <1>1, <1>2, <1>3, Zenon
<1> QED
  BY <1>3, <1>4, <1>5, <1>6, Zenon DEF t

\* What is left was there before.
LEMMA ThinsSet ==
  ASSUME NEW s \in Seq(Entry), NEW t \in Seq(Entry), Thins(s, t)
  PROVE  Range(t) \subseteq Range(s)
<1>1. DOMAIN s = 1 .. Len(s) /\ DOMAIN t = 1 .. Len(t)
  OBVIOUS
<1> QED
  BY <1>1 DEF Thins, Range

\* The members of the pool are entries.
LEMMA PoolEntries ==
  ASSUME NEW s \in Seq(Entry)
  PROVE  /\ \A e \in Range(s) : e \in Entry /\ e.tx \in Tx
         /\ \A i \in 1 .. Len(s) : s[i] \in Range(s)
         /\ \A e \in Range(s) : \E i \in 1 .. Len(s) : e = s[i]
<1>1. DOMAIN s = 1 .. Len(s) /\ \A i \in 1 .. Len(s) : s[i] \in Entry
  OBVIOUS
<1> QED
  BY <1>1 DEF Range, Entry

\* The pool loses entries.
LEMMA InPoolThinned ==
  ASSUME InPool, snap' = snap, pool' \in Seq(Entry), Thins(pool, pool'),
         UNCHANGED <<now, leadSlot, taken>>
  PROVE  InPool' /\ Range(pool') \subseteq Range(pool)
<1>1. pool \in Seq(Entry) /\ Orderly(pool) /\ Len(pool) <= Capacity /\ Capacity \in Nat
  BY MempoolAssumption DEF InPool, MempoolAssumption
<1>2. Orderly(pool') /\ Range(pool') \subseteq Range(pool)
  BY <1>1, ThinsOrderly, ThinsSet
<1>3. Len(pool') <= Capacity
  <2>1. Len(pool') <= Len(pool) /\ Len(pool') \in Nat /\ Len(pool) \in Nat
    BY <1>1 DEF Thins
  <2> QED
    BY <1>1, <2>1
<1> QED
  BY <1>2, <1>3, Zenon DEF InPool

\* A newcomer with its entry in the pool, and at most entry r out of it.
Added(tx, r) ==
  LET e == [tx |-> tx, slot |-> now]
  IN  /\ pool' \in Seq(Entry) /\ Len(pool') <= Capacity /\ Orderly(pool')
      /\ e \notin Range(pool) /\ e \in Range(pool') /\ Range(pool') \subseteq Range(pool) \cup {e}
      /\ \A k \in 1 .. Len(pool) : pool[k] \notin Range(pool') =>
           /\ k = r
           /\ tx.tip > pool[k].tx.tip
           /\ Rivals(e, pool[k].tx) \/ (k = Len(pool) /\ k = Capacity)

\* The newcomer is put among what is left.
LEMMA NewcomerPlaced ==
  ASSUME InPool, NEW tx \in Tx, NEW room \in Seq(Entry), Thins(pool, room), Len(room) < Capacity,
         \A i \in 1 .. Len(room) : ~Rivals(room[i], tx)
  PROVE  LET e == [tx |-> tx, slot |-> now]
             t == Insert(room, e)
         IN  /\ t \in Seq(Entry) /\ Len(t) <= Capacity /\ Orderly(t)
             /\ Range(t) = Range(room) \cup {e} /\ Range(room) \subseteq Range(pool)
<1> DEFINE e == [tx |-> tx, slot |-> now]
           t == Insert(room, e)
<1>1. e \in Entry /\ e.tx = tx /\ e.slot = now
  BY Zenon DEF InPool, Entry
<1>2. pool \in Seq(Entry) /\ Orderly(pool) /\ Capacity \in Nat
  BY MempoolAssumption DEF InPool, MempoolAssumption
<1>3. Orderly(room) /\ Range(room) \subseteq Range(pool)
  BY <1>2, ThinsOrderly, ThinsSet, Zenon
<1>4. \A i \in 1 .. Len(room) : room[i].slot <= e.slot /\ ~Rivals(room[i], e.tx)
  BY <1>1, <1>3, PoolEntries, Zenon DEF InPool
<1> HIDE DEF e
<1>5. t \in Seq(Entry) /\ Len(t) = Len(room) + 1 /\ Orderly(t) /\ Range(t) = Range(room) \cup {e}
  BY <1>1, <1>3, <1>4, InsertOrderly
<1> HIDE DEF t
<1>6. Len(t) <= Capacity
  <2>1. Len(room) \in Nat
    OBVIOUS
  <2> QED
    BY <1>2, <1>5, <2>1
<1> QED
  BY <1>3, <1>5, <1>6, Zenon DEF e, t

\* In a full pool the last entry gives way to a higher tip.
LEMMA AddEvicts ==
  ASSUME InPool, NEW tx \in Tx, Len(pool) = Capacity, tx.tip > pool[Len(pool)].tx.tip,
         \A k \in 1 .. Len(pool) : ~Rivals(pool[k], tx),
         [tx |-> tx, slot |-> now] \notin Range(pool),
         pool' = Insert(Front(pool), [tx |-> tx, slot |-> now])
  PROVE  Added(tx, Len(pool))
<1> DEFINE e == [tx |-> tx, slot |-> now]
           f == Front(pool)
           n == Len(pool)
<1>1. pool \in Seq(Entry) /\ n \in Nat /\ n = Capacity /\ Capacity \in Nat \ {0} /\ pool # << >>
  BY MempoolAssumption DEF InPool, MempoolAssumption
<1>2. /\ f \in Seq(Entry) /\ Thins(pool, f) /\ Len(f) = n - 1
      /\ \A k \in 1 .. n : k = n \/ pool[k] \in Range(f)
  BY <1>1, LastOut, Zenon
<1>3. pool' = Insert(f, e)
  BY Zenon
<1> HIDE DEF f
<1>4. \A k \in 1 .. Len(f) : ~Rivals(f[k], tx)
  BY <1>2, Zenon DEF Thins
<1>5. Len(f) < Capacity
  BY <1>1, <1>2
<1>6. /\ pool' \in Seq(Entry) /\ Len(pool') <= Capacity /\ Orderly(pool')
      /\ Range(pool') = Range(f) \cup {e} /\ Range(f) \subseteq Range(pool)
  BY <1>2, <1>3, <1>4, <1>5, NewcomerPlaced, ZenonT(40)
<1> HIDE DEF e
<1>7. \A k \in 1 .. n : pool[k] \notin Range(pool') =>
        k = n /\ tx.tip > pool[k].tx.tip /\ k = Capacity
  BY <1>1, <1>2, <1>6, Zenon
<1> QED
  BY <1>6, <1>7, ZenonT(40) DEF Added, e

\* Otherwise an entry of the same sender and nonce gives way, if there is one.
LEMMA AddReplaces ==
  ASSUME InPool, NEW tx \in Tx, NEW kept \in Seq(Entry), Thins(pool, kept), Len(kept) < Capacity,
         \A k \in 1 .. Len(pool) : Rivals(pool[k], tx) => tx.tip > pool[k].tx.tip,
         \A k \in 1 .. Len(pool) : Rivals(pool[k], tx) \/ pool[k] \in Range(kept),
         \A k \in 1 .. Len(kept) : ~Rivals(kept[k], tx),
         [tx |-> tx, slot |-> now] \notin Range(pool),
         pool' = Insert(kept, [tx |-> tx, slot |-> now])
  PROVE  \E r : Added(tx, r)
<1> DEFINE e == [tx |-> tx, slot |-> now]
           n == Len(pool)
<1>1. /\ pool' \in Seq(Entry) /\ Len(pool') <= Capacity /\ Orderly(pool')
      /\ Range(pool') = Range(kept) \cup {e} /\ Range(kept) \subseteq Range(pool)
  BY NewcomerPlaced, Zenon
<1>2. \A k \in 1 .. n : Rivals(pool[k], tx) => Rivals(e, pool[k].tx)
  BY Zenon DEF Rivals
<1> HIDE DEF e
<1>3. \A j, k \in 1 .. n : Rivals(pool[j], tx) /\ Rivals(pool[k], tx) => j = k
  <2> SUFFICES ASSUME NEW j \in 1 .. n, NEW k \in 1 .. n, j < k, Rivals(pool[j], tx),
                      Rivals(pool[k], tx)
               PROVE  FALSE
    <3>1. n \in Nat
      BY DEF InPool
    <3> QED
      BY <3>1
  <2>1. ~Rivals(pool[j], pool[k].tx)
    BY Zenon DEF InPool, Orderly, Precedes
  <2> QED
    BY <2>1, Zenon DEF Rivals
<1> DEFINE r == CHOOSE k \in 1 .. n : Rivals(pool[k], tx)
<1>4. \A k \in 1 .. n : Rivals(pool[k], tx) => k = r
  BY <1>3, Zenon
<1> HIDE DEF r
<1>5. \A k \in 1 .. n : pool[k] \notin Range(pool') =>
        k = r /\ tx.tip > pool[k].tx.tip /\ Rivals(e, pool[k].tx)
  BY <1>1, <1>2, <1>4, Zenon
<1>6. Added(tx, r)
  BY <1>1, <1>5, Zenon DEF Added, e
<1> QED
  BY <1>6, Zenon

\* ac_mempool_add.
LEMMA AddOutcome ==
  ASSUME InPool, NEW tx \in Tx, Add(tx)
  PROVE  pool' = pool \/ \E r : Added(tx, r)
<1> DEFINE e == [tx |-> tx, slot |-> now]
           kept == WithoutRival(pool, tx)
           beaten == kept[Len(kept)].tx.tip >= tx.tip
           n == Len(pool)
<1>1. /\ pool \in Seq(Entry) /\ n <= Capacity /\ Capacity \in Nat \ {0} /\ n \in Nat
  BY MempoolAssumption DEF InPool, MempoolAssumption
<1>2. \A k \in 1 .. n : Rivals(pool[k], tx) => tx.tip > pool[k].tx.tip
  BY DEF Add
<1>3. /\ Len(kept) >= Capacity /\ beaten => pool' = kept
      /\ Len(kept) >= Capacity /\ ~beaten => pool' = Insert(Front(kept), e)
      /\ ~(Len(kept) >= Capacity) => pool' = Insert(kept, e)
  BY ZenonT(40) DEF Add, WithoutRival, Front
<1>4. /\ kept \in Seq(Entry) /\ Thins(pool, kept)
      /\ \A k \in 1 .. n : Rivals(pool[k], tx) \/ pool[k] \in Range(kept)
      /\ \A k \in 1 .. Len(kept) : ~Rivals(kept[k], tx)
      /\ kept = pool \/ Len(kept) = n - 1
  BY <1>1, RivalOut DEF InPool
<1> HIDE DEF kept
<1>5. Len(kept) \in Nat /\ (Len(kept) >= Capacity => kept = pool /\ n = Capacity)
  <2>1. Len(kept) \in Nat
    BY <1>4
  <2> QED
    BY <1>1, <1>4, <2>1
<1>6. \A k \in 1 .. n : pool[k].tx.tip \in Nat /\ tx.tip \in Nat
  BY <1>1, PoolEntries, TxTypes, Zenon DEF TxOK
<1>7. e \notin Range(pool)
  <2> SUFFICES ASSUME e \in Range(pool)
               PROVE  FALSE
    OBVIOUS
  <2>1. PICK k \in 1 .. n : e = pool[k]
    BY <1>1, PoolEntries, Zenon
  <2>2. pool[k].tx = tx
    BY <2>1
  <2>3. Rivals(pool[k], tx)
    BY <2>2, Zenon DEF Rivals
  <2> QED
    BY <1>2, <1>6, <2>2, <2>3
<1>8. CASE Len(kept) >= Capacity /\ beaten
  BY <1>3, <1>5, <1>8, ZenonT(40)
<1>9. CASE Len(kept) >= Capacity /\ ~beaten
  <2>1. kept = pool /\ n = Capacity /\ pool' = Insert(Front(pool), e)
    BY <1>3, <1>5, <1>9, Zenon
  <2>2. tx.tip > pool[n].tx.tip
    BY <1>1, <1>6, <1>9, <2>1
  <2> QED
    BY <1>4, <1>7, <2>1, <2>2, AddEvicts
<1>10. CASE ~(Len(kept) >= Capacity)
  <2>1. pool' = Insert(kept, e)
    BY <1>3, <1>10
  <2>2. Len(kept) < Capacity
    BY <1>1, <1>5, <1>10
  <2> QED
    BY <1>2, <1>4, <1>7, <2>1, <2>2, AddReplaces, Zenon
<1> QED
  BY <1>8, <1>9, <1>10
=============================================================================
