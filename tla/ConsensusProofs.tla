-------------------------- MODULE ConsensusProofs --------------------------
(***************************************************************************)
(* For every number of nodes, stake distribution, leader and committee     *)
(* schedule, table size and clock skew: the engine keeps its tables        *)
(* consistent with its chain, its votes only move down in priority, and it *)
(* implements Finality, in which every fork is provable equivocation.      *)
(***************************************************************************)
EXTENDS Consensus, Isqrt, SequenceTheorems, FiniteSetTheorems, TLAPS

\* Time limits for the provers, in seconds.
USE SMTT(30), ZenonT(30)

\* Heights and priorities are compared as naturals.
LEMMA AtMost ==
  \A i, j, k \in Nat : /\ i <= i
                       /\ i <= j /\ j <= k => i <= k
                       /\ i <= j /\ ~(j >= k) => i <= k
  OBVIOUS

-----------------------------------------------------------------------------
(* The weight of signer sets *)

\* There are finitely many units of square-root stake, so every signer set has a
\* weight.
LEMMA UnitsFinite == IsFiniteSet(Units)
<1> DEFINE Ranges == {1 .. SqrtStake[v] : v \in Node}
           f == [v \in Node |-> 1 .. SqrtStake[v]]
<1>1. f \in Surjection(Node, Ranges)
  BY DEF Surjection
<1>2. IsFiniteSet(Ranges)
  BY <1>1, FS_Surjection, WeightAssumption
<1>3. \A R \in Ranges : IsFiniteSet(R)
  BY FS_Interval, WeightAssumption
<1>4. IsFiniteSet(UNION Ranges)
  BY <1>2, <1>3, FS_UNION, Zenon
<1>5. IsFiniteSet(Node \X UNION Ranges)
  BY <1>4, FS_Product, WeightAssumption
<1>6. Units \subseteq Node \X UNION Ranges
  BY DEF Units
<1> QED
  BY <1>5, <1>6, FS_Subset

\* Two signer sets above the safety floor of validate_commit share a signer.
LEMMA QuorumsIntersect ==
  ASSUME NEW S \in SUBSET Node, NEW T \in SUBSET Node, FloorGate(S), FloorGate(T)
  PROVE  \E v \in Node : v \in S /\ v \in T
<1>1. /\ UnitsOf(S) \subseteq Units
      /\ UnitsOf(T) \subseteq Units
      /\ UnitsOf(Node) = Units
  BY DEF UnitsOf, Units
<1>2. /\ Cardinality(Units) \in Nat
      /\ Cardinality(UnitsOf(S)) \in Nat
      /\ Cardinality(UnitsOf(T)) \in Nat
  BY <1>1, UnitsFinite, FS_Subset, FS_CardinalityType
<1>3. /\ SqrtSum[S] = Cardinality(UnitsOf(S))
      /\ SqrtSum[T] = Cardinality(UnitsOf(T))
      /\ SqrtSum[Node] = Cardinality(Units)
  BY <1>1 DEF SqrtSum
<1>4. Cardinality(UnitsOf(S)) + Cardinality(UnitsOf(T)) > Cardinality(Units)
  BY <1>2, <1>3 DEF FloorGate
<1>5. UnitsOf(S) \cap UnitsOf(T) # {}
  BY <1>1, <1>4, UnitsFinite, FS_MajoritiesIntersect
<1> QED
  BY <1>5 DEF UnitsOf, Units

-----------------------------------------------------------------------------
(* Blocks as sequences *)

\* A block is its parent's path and one more proposal.
LEMMA ChildBlock ==
  ASSUME NEW b \in Block, NEW p \in Leaders
  PROVE  /\ Append(b, p) \in Block
         /\ Len(Append(b, p)) = Len(b) + 1
         /\ \A h \in 1 .. Len(b) : Ancestor(Append(b, p), h) = Ancestor(b, h)
         /\ Ancestor(Append(b, p), Len(b) + 1) = Append(b, p)
         /\ Parent(Append(b, p)) = b
<1> DEFINE c == Append(b, p)
<1>1. /\ c \in Block
      /\ Len(c) = Len(b) + 1
      /\ \A i \in 1 .. Len(b) : c[i] = b[i]
      /\ Len(b) \in Nat
      /\ \A i \in 1 .. Len(b) : b[i] \in Leaders
  BY AppendProperties, LenProperties, ElementOfSeq DEF Block
<1>2. ASSUME NEW h \in 0 .. Len(b)
      PROVE  SubSeq(c, 1, h) = SubSeq(b, 1, h)
  <2>1. /\ \A i \in 1 .. h : b[i] \in Leaders /\ c[i] \in Leaders
        /\ 1 \in Int /\ h \in Int
    BY <1>1
  <2>2. /\ SubSeq(b, 1, h) \in Seq(Leaders)
        /\ Len(SubSeq(b, 1, h)) = IF 1 <= h THEN h - 1 + 1 ELSE 0
        /\ \A i \in 1 .. h - 1 + 1 : SubSeq(b, 1, h)[i] = b[1 + i - 1]
    BY <2>1, SubSeqProperties
  <2>3. /\ SubSeq(c, 1, h) \in Seq(Leaders)
        /\ Len(SubSeq(c, 1, h)) = IF 1 <= h THEN h - 1 + 1 ELSE 0
        /\ \A i \in 1 .. h - 1 + 1 : SubSeq(c, 1, h)[i] = c[1 + i - 1]
    BY <2>1, SubSeqProperties
  <2>4. /\ Len(SubSeq(b, 1, h)) = h
        /\ Len(SubSeq(c, 1, h)) = h
        /\ \A i \in 1 .. h : SubSeq(b, 1, h)[i] = SubSeq(c, 1, h)[i]
    BY <1>1, <2>2, <2>3
  <2> QED
    BY <2>2, <2>3, <2>4, SeqEqual
<1>3. SubSeq(b, 1, Len(b)) = b /\ SubSeq(c, 1, Len(c)) = c
  BY <1>1, SubSeqFull DEF Block
<1> QED
  BY <1>1, <1>2, <1>3 DEF Ancestor, Parent

-----------------------------------------------------------------------------
(* The inductive invariant *)

FInv == FTypeOK /\ ChainCertified

\* The fresh chains of genesis are certified.
LEMMA FInitInv == FInit => FInv
<1> SUFFICES ASSUME FInit PROVE FInv
  OBVIOUS
<1>1. << >> \in Block /\ << >> \in Seq(SUBSET Node) /\ Len(<< >>) = 0
  BY EmptySeq DEF Block
<1>2. FTypeOK
  BY <1>1 DEF FInit, FTypeOK
<1>3. ChainCertified
  BY <1>1 DEF FInit, ChainCertified
<1> QED
  BY <1>2, <1>3 DEF FInv

\* Signing a block (and forgetting the genesis entries of the live map) leaves every
\* stored certificate as good as it was: signatures are never unmade.
LEMMA MoreVotes ==
  ASSUME FInv, votes \subseteq votes', votes' \subseteq Vote,
         genesisLive' \in [Node -> BOOLEAN], UNCHANGED <<chain, certs>>
  PROVE  FInv'
<1>1. FTypeOK'
  BY DEF FInv, FTypeOK
<1>2. ChainCertified'
  <2> SUFFICES ASSUME NEW n \in Node
               PROVE  /\ Len(certs[n]) = Len(chain[n])
                      /\ \A h \in 1 .. Len(chain[n]) :
                           /\ \A v \in certs[n][h] :
                                SignedBy(v, Ancestor(chain[n], h)) \in votes'
                           /\ FloorGate(certs[n][h])
    BY DEF ChainCertified
  <2> QED
    BY DEF FInv, ChainCertified
<1> QED
  BY <1>1, <1>2 DEF FInv

\* The block a node accepts is stored with the certificate that was checked, and the
\* blocks below it keep theirs.
LEMMA ExtendCertified ==
  ASSUME FInv, NEW n \in Node, NEW p \in Leaders, NEW S \in SUBSET Node,
         votes \subseteq votes', votes' \subseteq Vote, UNCHANGED genesisLive,
         ValidBlock(n, Append(chain[n], p), S),
         Extend(n, Append(chain[n], p), S)
  PROVE  FInv'
<1> DEFINE b == Append(chain[n], p)
<1>1. chain[n] \in Block /\ certs[n] \in Seq(SUBSET Node) /\ Len(certs[n]) = Len(chain[n])
  BY DEF FInv, FTypeOK, ChainCertified
<1>2. /\ b \in Block
      /\ Len(b) = Len(chain[n]) + 1
      /\ \A h \in 1 .. Len(chain[n]) : Ancestor(b, h) = Ancestor(chain[n], h)
      /\ Ancestor(b, Len(chain[n]) + 1) = b
  BY <1>1, ChildBlock, Zenon
<1>3. /\ Append(certs[n], S) \in Seq(SUBSET Node)
      /\ Len(Append(certs[n], S)) = Len(certs[n]) + 1
      /\ \A h \in 1 .. Len(certs[n]) : Append(certs[n], S)[h] = certs[n][h]
      /\ Append(certs[n], S)[Len(certs[n]) + 1] = S
  BY <1>1, AppendProperties
<1>4. /\ chain' = [chain EXCEPT ![n] = b]
      /\ certs' = [certs EXCEPT ![n] = Append(certs[n], S)]
  BY DEF Extend
<1>5. FTypeOK'
  BY <1>2, <1>3, <1>4 DEF FInv, FTypeOK
<1>6. ChainCertified'
  <2> SUFFICES ASSUME NEW m \in Node
               PROVE  /\ Len(certs'[m]) = Len(chain'[m])
                      /\ \A h \in 1 .. Len(chain'[m]) :
                           /\ \A v \in certs'[m][h] :
                                SignedBy(v, Ancestor(chain'[m], h)) \in votes'
                           /\ FloorGate(certs'[m][h])
    BY DEF ChainCertified
  <2>1. CASE m # n
    <3>1. chain'[m] = chain[m] /\ certs'[m] = certs[m]
      BY <1>4, <2>1 DEF FInv, FTypeOK
    <3> QED
      BY <3>1 DEF FInv, ChainCertified
  <2>2. CASE m = n
    <3>1. chain'[m] = b /\ certs'[m] = Append(certs[n], S)
      BY <1>4, <2>2 DEF FInv, FTypeOK
    <3>2. Len(certs'[m]) = Len(chain'[m])
      BY <3>1, <1>1, <1>2, <1>3
    <3>3. ASSUME NEW h \in 1 .. Len(b)
          PROVE  /\ \A v \in certs'[m][h] : SignedBy(v, Ancestor(b, h)) \in votes'
                 /\ FloorGate(certs'[m][h])
      <4>0. Len(chain[n]) \in Nat
        BY <1>1, LenProperties DEF Block
      <4>1. CASE h = Len(chain[n]) + 1
        BY <4>1, <1>1, <1>2, <1>3, <3>1, Zenon DEF ValidBlock, ValidCommit, CommitThreshold
      <4>2. CASE h \in 1 .. Len(chain[n])
        <5>1. certs'[m][h] = certs[n][h] /\ Ancestor(b, h) = Ancestor(chain[n], h)
          BY <4>2, <1>1, <1>2, <1>3, <3>1
        <5> QED
          BY <5>1, <4>2, Zenon DEF FInv, ChainCertified
      <4> QED
        BY <4>0, <4>1, <4>2, <1>2
    <3> QED
      BY <3>1, <3>2, <3>3
  <2> QED
    BY <2>1, <2>2
<1> QED
  BY <1>5, <1>6 DEF FInv

\* A committee member's signature is a well-formed vote.
LEMMA SignatureIsVote ==
  ASSUME NEW v \in Node, NEW b \in Block
  PROVE  SignedBy(v, b) \in Vote
BY DEF SignedBy, Vote

\* Every step of the chains preserves the invariant.
LEMMA FNextInv == FInv /\ [FNext]_fvars => FInv'
<1> SUFFICES ASSUME FInv, [FNext]_fvars PROVE FInv'
  OBVIOUS
<1>0. votes \subseteq Vote /\ chain \in [Node -> Block] /\ genesisLive \in [Node -> BOOLEAN]
  BY DEF FInv, FTypeOK
<1>1. ASSUME NEW n \in Node, NEW p \in Leaders, Sign(n, Append(chain[n], p))
      PROVE  FInv'
  <2>1. Append(chain[n], p) \in Block
    BY <1>0, ChildBlock
  <2>2. votes' = votes \cup {SignedBy(n, Append(chain[n], p))}
    BY <1>1 DEF Sign
  <2> QED
    BY <1>0, <1>1, <2>1, <2>2, SignatureIsVote, MoreVotes DEF Sign
<1>2. ASSUME NEW n \in Node, NEW p \in Leaders, NEW S \in SUBSET Node,
             Finalise(n, Append(chain[n], p), S)
      PROVE  FInv'
  <2>1. Append(chain[n], p) \in Block
    BY <1>0, ChildBlock
  <2>2. votes \subseteq votes' /\ votes' \subseteq Vote
    BY <1>0, <1>2, <2>1, SignatureIsVote DEF Finalise
  <2> QED
    BY <1>2, <2>2, ExtendCertified DEF Finalise
<1>3. ASSUME NEW n \in Node, Reopen(n)
      PROVE  FInv'
  <2>1. genesisLive' \in [Node -> BOOLEAN]
    BY <1>0, <1>3 DEF Reopen
  <2> QED
    BY <1>0, <1>3, <2>1, MoreVotes DEF Reopen
<1>4. CASE UNCHANGED fvars
  BY <1>0, <1>4, MoreVotes DEF fvars
<1> QED
  BY <1>1, <1>2, <1>3, <1>4 DEF FNext

-----------------------------------------------------------------------------
(* Theorems *)

\* The state of the chains keeps its type and every chain stays certified: whatever
\* the engine does, a block that ac_chain_accept_block stores comes with genuine
\* signatures worth more than half of the bonded square-root stake.
THEOREM ChainsCertified == FSpec => [](FTypeOK /\ ChainCertified)
<1>1. FInit => FInv
  BY FInitInv
<1>2. FInv /\ [FNext]_fvars => FInv'
  BY FNextInv
<1> QED
  BY <1>1, <1>2, PTL DEF FSpec, FInv

\* Two certified blocks at one height have a common signer.
LEMMA CertifiedImpliesAccountable == FInv => Accountability
<1> SUFFICES ASSUME FInv,
                    NEW n \in Node, NEW m \in Node, NEW h \in 1 .. Len(chain[n]),
                    h <= Len(chain[m])
             PROVE  \E v \in Node : /\ SignedBy(v, Ancestor(chain[n], h)) \in votes
                                    /\ SignedBy(v, Ancestor(chain[m], h)) \in votes
  BY DEF Accountability
<1>1. /\ certs[n] \in Seq(SUBSET Node) /\ Len(certs[n]) = Len(chain[n])
      /\ certs[m] \in Seq(SUBSET Node) /\ Len(certs[m]) = Len(chain[m])
      /\ Len(chain[m]) \in Nat /\ Len(chain[n]) \in Nat
  BY LenProperties DEF FInv, FTypeOK, ChainCertified
<1>2. h \in 1 .. Len(chain[m])
  BY <1>1
<1>3. certs[n][h] \in SUBSET Node /\ certs[m][h] \in SUBSET Node
  BY <1>1, <1>2, ElementOfSeq
<1>4. FloorGate(certs[n][h]) /\ FloorGate(certs[m][h])
  BY <1>2 DEF FInv, ChainCertified
<1>5. PICK v \in Node : v \in certs[n][h] /\ v \in certs[m][h]
  BY <1>3, <1>4, QuorumsIntersect
<1> QED
  BY <1>2, <1>5 DEF FInv, ChainCertified

\* A fork is always provable equivocation: if two nodes have finalised different
\* blocks at a height, some validator signed both (the safety floor in
\* validate_commit, PROTOCOL.md section 6.5).
THEOREM ForksAreAccountable == FSpec => []Accountability
<1>1. FSpec => []FInv
  BY ChainsCertified, PTL DEF FInv
<1> QED
  BY <1>1, CertifiedImpliesAccountable, PTL

\* Nothing committed is ever rolled back, and slots increase along a chain
\* (ac_chain_accept_block).
THEOREM ChainsAppendOnly == FSpec => AppendOnly
<1> DEFINE Grows == \A n \in Node :
              chain'[n] # chain[n] =>
                /\ Parent(chain'[n]) = chain[n]
                /\ LastSlot(chain'[n]) > LastSlot(chain[n])
<1>1. ASSUME FTypeOK, [FNext]_fvars PROVE [Grows]_fvars
  <2>1. ASSUME NEW n \in Node, NEW p \in Leaders, Sign(n, Append(chain[n], p))
        PROVE  Grows
    BY <2>1 DEF Sign
  <2>2. ASSUME NEW n \in Node, NEW p \in Leaders, NEW S \in SUBSET Node,
               Finalise(n, Append(chain[n], p), S)
        PROVE  Grows
    BY <1>1, <2>2 DEF Finalise, Extend, ValidBlock, FTypeOK
  <2>3. ASSUME NEW n \in Node, Reopen(n)
        PROVE  Grows
    BY <2>3 DEF Reopen
  <2> QED
    BY <1>1, <2>1, <2>2, <2>3, Zenon DEF FNext
<1>2. FSpec => []FTypeOK
  BY ChainsCertified, PTL
<1> QED
  BY <1>1, <1>2, PTL DEF FSpec, AppendOnly


-----------------------------------------------------------------------------
(* The inductive invariant *)

\* Block b is below the next height of chain c, or is a child of its tip.
EntrySound(c, b) ==
  /\ b # << >>
  /\ Len(b) <= Len(c) + 1
  /\ Len(b) = Len(c) + 1 => Parent(b) = c

TableSound(c, table) == \A i \in 1 .. Len(table) : EntrySound(c, table[i].block)

PendingSound == \A n \in Node : TableSound(chain[n], pending[n])

\* The block slot_routine carries from the chain lock to cs->mu.
BuiltSound == \A n \in Node : pc[n] = "stash" => EntrySound(chain[n], built[n])

LockHeight == \A n \in Node : Len(lock[n]) <= Len(chain[n]) + 1

CInv ==
  /\ TypeOK
  /\ ChainCertified
  /\ PendingSound
  /\ BuiltSound
  /\ LockHeight
  /\ LockIsLowestVote
  /\ SignersGenuine
  /\ CommitsAnnounced

-----------------------------------------------------------------------------
(* Blocks and tables *)

\* The last proposal of a block other than genesis has a slot and a priority.
LEMMA LastProposal ==
  ASSUME NEW b \in Block, b # << >>
  PROVE  /\ Len(b) \in Nat \ {0}
         /\ b[Len(b)] \in Leaders
         /\ LastSlot(b) \in Slot
         /\ Prio(b) \in Nat
<1>1. Len(b) \in Nat \ {0}
  BY EmptySeq DEF Block
<1>2. b[Len(b)] \in Leaders
  BY <1>1, ElementOfSeq DEF Block
<1>3. LastSlot(b) \in Slot
  BY <1>2, FinalityAssumption DEF LastSlot
<1>4. Prio(b) \in Nat
  BY <1>2, ConsensusAssumption DEF Prio
<1> QED
  BY <1>1, <1>2, <1>3, <1>4

\* A block whose parent is c is c and one more proposal.
LEMMA ChildIsAppend ==
  ASSUME NEW b \in Block, NEW c \in Block, Len(b) = Len(c) + 1, Parent(b) = c
  PROVE  \E p \in Leaders : b = Append(c, p)
<1> DEFINE p == b[Len(b)]
<1>1. Len(c) \in Nat /\ Len(b) \in Nat \ {0}
  BY LenProperties DEF Block
<1>2. p \in Leaders /\ \A i \in 1 .. Len(b) : b[i] \in Leaders
  BY <1>1, ElementOfSeq DEF Block
<1>3. /\ Append(c, p) \in Block
      /\ Len(Append(c, p)) = Len(c) + 1
      /\ \A i \in 1 .. Len(c) : Append(c, p)[i] = c[i]
      /\ Append(c, p)[Len(c) + 1] = p
  BY <1>2, AppendProperties DEF Block
<1>4. \A i \in 1 .. Len(c) : c[i] = b[i]
  <2>1. \A i \in 1 .. Len(b) - 1 : b[i] \in Leaders
    BY <1>1, <1>2
  <2>2. \A i \in 1 .. (Len(b) - 1) - 1 + 1 :
          SubSeq(b, 1, Len(b) - 1)[i] = b[1 + i - 1]
    BY <1>1, <2>1, SubSeqProperties
  <2> QED
    BY <1>1, <2>2 DEF Parent
<1>5. \A i \in 1 .. Len(b) : b[i] = Append(c, p)[i]
  BY <1>1, <1>3, <1>4
<1>6. b = Append(c, p)
  BY <1>3, <1>5, SeqEqual DEF Block
<1> QED
  BY <1>2, <1>6

\* pending_alloc keeps a table: the new entry comes last, the others were there before.
LEMMA PendingAllocTable ==
  ASSUME NEW table \in Seq(Entry), NEW e \in Entry
  PROVE  LET t == PendingAlloc(table, e)
         IN  /\ t \in Seq(Entry)
             /\ Len(t) \in Nat \ {0}
             /\ t[Len(t)] = e
             /\ \A i \in 1 .. Len(t) :
                  t[i] = e \/ \E j \in 1 .. Len(table) : t[i] = table[j]
<1> DEFINE r == IF Len(table) >= PendingMax THEN Tail(table) ELSE table
           t == Append(r, e)
<1>1. /\ r \in Seq(Entry)
      /\ \A i \in 1 .. Len(r) : \E j \in 1 .. Len(table) : r[i] = table[j]
  <2>1. CASE Len(table) >= PendingMax
    <3>1. Len(table) \in Nat /\ table # << >>
      BY <2>1, LenProperties, EmptySeq, ConsensusAssumption
    <3>2. /\ Tail(table) \in Seq(Entry)
          /\ Len(Tail(table)) = Len(table) - 1
          /\ \A i \in 1 .. Len(Tail(table)) : Tail(table)[i] = table[i + 1]
      BY <3>1, HeadTailProperties
    <3>3. ASSUME NEW i \in 1 .. Len(Tail(table))
          PROVE  i + 1 \in 1 .. Len(table) /\ Tail(table)[i] = table[i + 1]
      BY <3>1, <3>2
    <3> QED
      BY <2>1, <3>2, <3>3
  <2>2. CASE ~(Len(table) >= PendingMax)
    BY <2>2
  <2> QED
    BY <2>1, <2>2
<1>2. Len(r) \in Nat
  BY <1>1, LenProperties
<1>3. /\ t \in Seq(Entry)
      /\ Len(t) = Len(r) + 1
      /\ \A i \in 1 .. Len(r) : t[i] = r[i]
      /\ t[Len(r) + 1] = e
  BY <1>1, AppendProperties
<1>4. ASSUME NEW i \in 1 .. Len(t)
      PROVE  t[i] = e \/ \E j \in 1 .. Len(table) : t[i] = table[j]
  <2>1. CASE i = Len(r) + 1
    BY <2>1, <1>3
  <2>2. CASE i \in 1 .. Len(r)
    BY <2>2, <1>1, <1>3, Zenon
  <2> QED
    BY <1>2, <1>3, <2>1, <2>2
<1>5. PendingAlloc(table, e) = t
  BY DEF PendingAlloc
<1> HIDE DEF t
<1> QED
  BY <1>2, <1>3, <1>4, <1>5

\* Two tables with the same blocks and the same signers.
SameEntries(t, table) ==
  /\ t \in Seq(Entry)
  /\ Len(t) = Len(table)
  /\ \A j \in 1 .. Len(table) :
       t[j].block = table[j].block /\ t[j].signers = table[j].signers

\* Adding signers to an entry changes nothing else.
LEMMA AddSignersTable ==
  ASSUME NEW table \in Seq(Entry), NEW i \in 1 .. Len(table), NEW X \in SUBSET Node
  PROVE  /\ AddSigners(table, i, X) \in Seq(Entry)
         /\ Len(AddSigners(table, i, X)) = Len(table)
         /\ \A j \in 1 .. Len(table) :
              /\ AddSigners(table, i, X)[j].block = table[j].block
              /\ AddSigners(table, i, X)[j].signers =
                   IF j = i THEN table[j].signers \cup X ELSE table[j].signers
<1> DEFINE e == [table[i] EXCEPT !.signers = @ \cup X]
           t == [table EXCEPT ![i] = e]
<1>1. table[i] \in Entry
  BY ElementOfSeq
<1>2. /\ e \in Entry
      /\ e.block = table[i].block
      /\ e.signers = table[i].signers \cup X
  BY <1>1 DEF Entry
<1>3. /\ t \in Seq(Entry)
      /\ Len(t) = Len(table)
      /\ \A j \in 1 .. Len(table) : t[j] = IF j = i THEN e ELSE table[j]
  BY <1>2, ExceptSeq
<1>4. AddSigners(table, i, X) = t
  BY DEF AddSigners
<1> HIDE DEF e, t
<1> QED
  BY <1>2, <1>3, <1>4, Zenon

\* A function on an initial segment of the positions is a table.
LEMMA FunctionIsTable ==
  ASSUME NEW k \in Nat, NEW f \in [1 .. k -> Entry]
  PROVE  f \in Seq(Entry) /\ Len(f) = k
OBVIOUS

\* Opening the grace window of an entry changes neither blocks nor signers.
LEMMA MarkReached ==
  ASSUME NEW table \in Seq(Entry), NEW i \in 1 .. Len(table)
  PROVE  SameEntries([table EXCEPT ![i].reached = TRUE], table)
<1> DEFINE e == [table[i] EXCEPT !.reached = TRUE]
           t == [table EXCEPT ![i] = e]
<1>1. table[i] \in Entry
  BY ElementOfSeq
<1>2. /\ e \in Entry
      /\ e.block = table[i].block
      /\ e.signers = table[i].signers
  BY <1>1, Zenon DEF Entry
<1>3. /\ t \in Seq(Entry)
      /\ Len(t) = Len(table)
      /\ \A j \in 1 .. Len(table) : t[j] = IF j = i THEN e ELSE table[j]
  BY <1>2, ExceptSeq
<1>4. [table EXCEPT ![i].reached = TRUE] = t
  OBVIOUS
<1> HIDE DEF e, t
<1> QED
  BY <1>2, <1>3, <1>4, Zenon DEF SameEntries

\* What every commit attempt does to node n: its table becomes one with the same
\* entries, and its chain stays or grows by one of the entries in I.
CommitStep(n, table, I) ==
  /\ \E t \in Seq(Entry) :
       SameEntries(t, table) /\ pending' = [pending EXCEPT ![n] = t]
  /\ \/ UNCHANGED <<chain, certs, anns>>
     \/ \E i \in I :
          /\ ValidBlock(n, table[i].block, table[i].signers)
          /\ Extend(n, table[i].block, table[i].signers)
          /\ anns' = anns \cup {[block |-> table[i].block, cert |-> table[i].signers]}

\* try_commit is such an attempt.
LEMMA TryCommitIsStep ==
  ASSUME NEW n \in Node, NEW table \in Seq(Entry), NEW i \in 1 .. Len(table),
         TryCommit(n, table, i)
  PROVE  CommitStep(n, table, {i})
<1> DEFINE marked == [table EXCEPT ![i].reached = TRUE]
<1>1. SameEntries(table, table)
  BY DEF SameEntries
<1>2. SameEntries(marked, table) /\ marked \in Seq(Entry)
  BY MarkReached DEF SameEntries
<1>3. \E t \in Seq(Entry) : SameEntries(t, table) /\ pending' = [pending EXCEPT ![n] = t]
  <2>1. \/ pending' = [pending EXCEPT ![n] = table]
        \/ pending' = [pending EXCEPT ![n] = marked]
    BY DEF TryCommit
  <2> HIDE DEF marked
  <2> QED
    BY <1>1, <1>2, <2>1
<1>4. \/ UNCHANGED <<chain, certs, anns>>
      \/ /\ ValidBlock(n, table[i].block, table[i].signers)
         /\ Extend(n, table[i].block, table[i].signers)
         /\ anns' = anns \cup {[block |-> table[i].block, cert |-> table[i].signers]}
  <2>1. \/ UNCHANGED <<chain, certs, anns>>
        \/ AcceptBlock(n, table[i].block, table[i].signers)
    BY DEF TryCommit
  <2> QED
    BY <2>1 DEF AcceptBlock
<1> QED
  BY <1>3, <1>4, Zenon DEF CommitStep

\* seal_phase is such an attempt too.
LEMMA SealPhaseIsStep ==
  ASSUME TypeOK, NEW n \in Node, SealPhase(n)
  PROVE  CommitStep(n, pending[n], 1 .. Len(pending[n]))
<1> DEFINE due == {i \in DOMAIN pending[n] :
                     /\ LastSlot(pending[n][i].block) = clock[n]
                     /\ Open(n, pending[n][i].block)
                     /\ CommitThreshold(pending[n][i].signers, LiveSet(n))}
           t == [i \in DOMAIN pending[n] |->
                   [pending[n][i] EXCEPT !.reached = @ \/ i \in due]]
<1>1. /\ pending[n] \in Seq(Entry)
      /\ DOMAIN pending[n] = 1 .. Len(pending[n])
      /\ Len(pending[n]) \in Nat
      /\ \A i \in 1 .. Len(pending[n]) : pending[n][i] \in Entry
  BY LenProperties, ElementOfSeq DEF TypeOK
<1>2. pending' = [pending EXCEPT ![n] = t]
  BY DEF SealPhase, TypeOK
<1> HIDE DEF due
<1>3. ASSUME NEW i \in 1 .. Len(pending[n])
      PROVE  /\ t[i] \in Entry
             /\ t[i].block = pending[n][i].block
             /\ t[i].signers = pending[n][i].signers
  BY <1>1, Zenon DEF Entry
<1>4. t \in Seq(Entry) /\ Len(t) = Len(pending[n])
  <2>1. t \in [1 .. Len(pending[n]) -> Entry]
    BY <1>1, <1>3, Zenon
  <2> HIDE DEF t
  <2> QED
    BY <1>1, <2>1, FunctionIsTable, Zenon
<1>5. SameEntries(t, pending[n])
  BY <1>3, <1>4, Zenon DEF SameEntries
<1>6. \/ UNCHANGED <<chain, certs, anns>>
      \/ \E i \in 1 .. Len(pending[n]) :
           AcceptBlock(n, pending[n][i].block, pending[n][i].signers)
  BY <1>1, ZenonT(40) DEF SealPhase
<1>7. \/ UNCHANGED <<chain, certs, anns>>
      \/ \E i \in 1 .. Len(pending[n]) :
           /\ ValidBlock(n, pending[n][i].block, pending[n][i].signers)
           /\ Extend(n, pending[n][i].block, pending[n][i].signers)
           /\ anns' = anns \cup {[block |-> pending[n][i].block,
                                  cert |-> pending[n][i].signers]}
  BY <1>6 DEF AcceptBlock
<1> HIDE DEF t
<1> QED
  BY <1>2, <1>4, <1>5, <1>7, Zenon DEF CommitStep

-----------------------------------------------------------------------------
(* What a commit attempt preserves *)

\* Chains only grow, by at most one block.
Grown == \A m \in Node : chain'[m] = chain[m] \/ Len(chain'[m]) = Len(chain[m]) + 1

\* A block that is sound for a chain stays so when the chain grows: it then lies below
\* the next height.
LEMMA EntrySoundKept ==
  ASSUME TypeOK, chain' \in [Node -> Block], Grown,
         NEW m \in Node, NEW b \in Block, EntrySound(chain[m], b)
  PROVE  EntrySound(chain'[m], b)
<1>1. Len(chain[m]) \in Nat /\ Len(b) \in Nat
  BY LenProperties DEF TypeOK, FTypeOK, Block
<1>2. CASE chain'[m] = chain[m]
  BY <1>2 DEF EntrySound
<1>3. CASE Len(chain'[m]) = Len(chain[m]) + 1
  BY <1>1, <1>3 DEF EntrySound
<1> QED
  BY <1>2, <1>3 DEF Grown

\* A valid block is a child of the tip.
LEMMA ValidIsChild ==
  ASSUME TypeOK, NEW n \in Node, NEW b \in Block, NEW S, ValidBlock(n, b, S)
  PROVE  \E p \in Leaders : b = Append(chain[n], p)
BY ChildIsAppend, Zenon DEF ValidBlock, TypeOK, FTypeOK

\* The chains stay certified.
LEMMA CommitKeepsChains ==
  ASSUME CInv, NEW n \in Node, NEW table \in Seq(Entry), NEW I \in SUBSET (1 .. Len(table)),
         CommitStep(n, table, I), votes \subseteq votes', votes' \subseteq Vote,
         UNCHANGED genesisLive
  PROVE  FTypeOK' /\ ChainCertified' /\ Grown
<1>0. FInv /\ TypeOK
  BY DEF CInv, FInv, TypeOK
<1>1. CASE UNCHANGED <<chain, certs, anns>>
  <2>1. genesisLive' \in [Node -> BOOLEAN]
    BY DEF CInv, TypeOK, FTypeOK
  <2> QED
    BY <1>0, <1>1, <2>1, MoreVotes DEF FInv, Grown
<1>2. CASE \E i \in I : /\ ValidBlock(n, table[i].block, table[i].signers)
                        /\ Extend(n, table[i].block, table[i].signers)
  <2>1. PICK i \in I : /\ ValidBlock(n, table[i].block, table[i].signers)
                       /\ Extend(n, table[i].block, table[i].signers)
    BY <1>2
  <2>2. table[i] \in Entry
    BY ElementOfSeq
  <2>3. table[i].block \in Block /\ table[i].signers \in SUBSET Node
    BY <2>2 DEF Entry
  <2>4. PICK p \in Leaders : table[i].block = Append(chain[n], p)
    BY <1>0, <2>1, <2>3, ValidIsChild
  <2>5. FInv'
    BY <1>0, <2>1, <2>3, <2>4, ExtendCertified, Zenon
  <2>6. Grown
    BY <1>0, <2>1 DEF Extend, ValidBlock, Grown, TypeOK, FTypeOK
  <2> QED
    BY <2>5, <2>6 DEF FInv
<1> QED
  BY <1>1, <1>2 DEF CommitStep

\* The tables stay sound.
LEMMA CommitKeepsTables ==
  ASSUME TypeOK, PendingSound, chain' \in [Node -> Block], Grown,
         NEW n \in Node, NEW table \in Seq(Entry), NEW I,
         TableSound(chain[n], table), CommitStep(n, table, I)
  PROVE  pending' \in [Node -> Seq(Entry)] /\ PendingSound'
<1>1. PICK t \in Seq(Entry) : SameEntries(t, table) /\ pending' = [pending EXCEPT ![n] = t]
  BY Zenon DEF CommitStep
<1>2. pending \in [Node -> Seq(Entry)]
  BY DEF TypeOK
<1>3. pending' \in [Node -> Seq(Entry)]
  BY <1>1, <1>2
<1>4. ASSUME NEW m \in Node, NEW i \in 1 .. Len(pending'[m])
      PROVE  EntrySound(chain'[m], pending'[m][i].block)
  <2>1. CASE m = n
    <3>1. pending'[m] = t /\ i \in 1 .. Len(table) /\ t[i].block = table[i].block
      BY <1>1, <1>2, <2>1 DEF SameEntries
    <3>2. table[i] \in Entry
      BY <3>1, ElementOfSeq
    <3>3. table[i].block \in Block /\ EntrySound(chain[m], table[i].block)
      BY <2>1, <3>1, <3>2, Zenon DEF Entry, TableSound
    <3>4. EntrySound(chain'[m], table[i].block)
      BY <3>3, EntrySoundKept
    <3> QED
      BY <3>1, <3>4
  <2>2. CASE m # n
    <3>1. pending'[m] = pending[m] /\ i \in 1 .. Len(pending[m])
      BY <1>1, <1>2, <2>2
    <3>2. pending[m][i] \in Entry
      BY <1>2, <3>1, ElementOfSeq, Zenon
    <3>3. pending[m][i].block \in Block /\ EntrySound(chain[m], pending[m][i].block)
      BY <3>1, <3>2, Zenon DEF Entry, PendingSound, TableSound
    <3> QED
      BY <3>1, <3>3, EntrySoundKept
  <2> QED
    BY <2>1, <2>2
<1> QED
  BY <1>3, <1>4, Zenon DEF PendingSound, TableSound

\* Every signer of the table has signed its block.
TableGenuine(table) ==
  \A i \in 1 .. Len(table) : \A v \in table[i].signers :
    SignedBy(v, table[i].block) \in votes'

\* Signers stay genuine, in the tables and in what is broadcast.
LEMMA CommitKeepsSigners ==
  ASSUME TypeOK, SignersGenuine, votes \subseteq votes',
         NEW n \in Node, NEW table \in Seq(Entry), NEW I \in SUBSET (1 .. Len(table)),
         TableGenuine(table), CommitStep(n, table, I)
  PROVE  anns' \subseteq Announcement /\ SignersGenuine'
<1>1. PICK t \in Seq(Entry) : SameEntries(t, table) /\ pending' = [pending EXCEPT ![n] = t]
  BY Zenon DEF CommitStep
<1>2. pending \in [Node -> Seq(Entry)]
  BY DEF TypeOK
<1>3. ASSUME NEW m \in Node, NEW i \in DOMAIN pending'[m], NEW v \in pending'[m][i].signers
      PROVE  SignedBy(v, pending'[m][i].block) \in votes'
  <2>1. CASE m = n
    <3>1. pending'[m] = t /\ DOMAIN t = 1 .. Len(table)
      BY <1>1, <1>2, <2>1, LenProperties, Zenon DEF SameEntries
    <3>2. /\ i \in 1 .. Len(table)
          /\ t[i].block = table[i].block
          /\ v \in table[i].signers
      BY <1>1, <3>1, Zenon DEF SameEntries
    <3> QED
      BY <3>1, <3>2, Zenon DEF TableGenuine
  <2>2. CASE m # n
    <3>1. pending'[m] = pending[m]
      BY <1>1, <1>2, <2>2
    <3> QED
      BY <3>1 DEF SignersGenuine
  <2> QED
    BY <2>1, <2>2
<1>4. PICK A \in SUBSET (1 .. Len(table)) :
        anns' = anns \cup {[block |-> table[i].block, cert |-> table[i].signers] : i \in A}
  <2>1. CASE UNCHANGED anns
    <3> WITNESS {} \in SUBSET (1 .. Len(table))
    <3> QED
      BY <2>1
  <2>2. CASE \E i \in I :
          anns' = anns \cup {[block |-> table[i].block, cert |-> table[i].signers]}
    <3>1. PICK i \in I :
            anns' = anns \cup {[block |-> table[i].block, cert |-> table[i].signers]}
      BY <2>2
    <3> WITNESS {i} \in SUBSET (1 .. Len(table))
    <3> QED
      BY <3>1
  <2> QED
    BY <2>1, <2>2, Zenon DEF CommitStep
<1>5. ASSUME NEW m \in anns'
      PROVE  m \in Announcement /\ \A v \in m.cert : SignedBy(v, m.block) \in votes'
  <2>1. CASE m \in anns
    BY <2>1 DEF SignersGenuine, TypeOK
  <2>2. CASE \E i \in A : m = [block |-> table[i].block, cert |-> table[i].signers]
    <3>1. PICK i \in A : m = [block |-> table[i].block, cert |-> table[i].signers]
      BY <2>2
    <3>2. table[i] \in Entry
      BY ElementOfSeq
    <3> QED
      BY <3>1, <3>2 DEF Entry, Announcement, TableGenuine
  <2> QED
    BY <1>4, <2>1, <2>2, Zenon
<1> QED
  BY <1>3, <1>5 DEF SignersGenuine

\* Every committed block has been announced with its certificate.
LEMMA CommitKeepsAnnounced ==
  ASSUME TypeOK, ChainCertified, CommitsAnnounced,
         NEW n \in Node, NEW table \in Seq(Entry), NEW I \in SUBSET (1 .. Len(table)),
         CommitStep(n, table, I)
  PROVE  CommitsAnnounced'
<1>1. CASE UNCHANGED <<chain, certs, anns>>
  BY <1>1, Zenon DEF CommitsAnnounced
<1>2. CASE \E i \in I :
          /\ ValidBlock(n, table[i].block, table[i].signers)
          /\ Extend(n, table[i].block, table[i].signers)
          /\ anns' = anns \cup {[block |-> table[i].block, cert |-> table[i].signers]}
  <2>1. PICK i \in I :
          /\ ValidBlock(n, table[i].block, table[i].signers)
          /\ Extend(n, table[i].block, table[i].signers)
          /\ anns' = anns \cup {[block |-> table[i].block, cert |-> table[i].signers]}
    BY <1>2
  <2> DEFINE S == table[i].signers
  <2>2. table[i].block \in Block /\ S \in SUBSET Node
    <3>1. table[i] \in Entry
      BY ElementOfSeq
    <3> QED
      BY <3>1 DEF Entry
  <2>3. PICK p \in Leaders : table[i].block = Append(chain[n], p)
    BY <2>1, <2>2, ValidIsChild, Zenon
  <2>4. /\ chain[n] \in Block /\ certs[n] \in Seq(SUBSET Node)
        /\ Len(certs[n]) = Len(chain[n]) /\ Len(chain[n]) \in Nat
    BY LenProperties, Zenon DEF TypeOK, FTypeOK, ChainCertified, Block
  <2>5. /\ Len(Append(chain[n], p)) = Len(chain[n]) + 1
        /\ \A h \in 1 .. Len(chain[n]) :
             Ancestor(Append(chain[n], p), h) = Ancestor(chain[n], h)
        /\ Ancestor(Append(chain[n], p), Len(chain[n]) + 1) = Append(chain[n], p)
    BY <2>4, ChildBlock
  <2>6. /\ \A h \in 1 .. Len(chain[n]) : Append(certs[n], S)[h] = certs[n][h]
        /\ Append(certs[n], S)[Len(chain[n]) + 1] = S
    <3> HIDE DEF S
    <3>1. /\ \A h \in 1 .. Len(certs[n]) : Append(certs[n], S)[h] = certs[n][h]
          /\ Append(certs[n], S)[Len(certs[n]) + 1] = S
      BY <2>2, <2>4, AppendProperties
    <3> QED
      BY <2>4, <3>1
  <2>7. ASSUME NEW m \in Node, NEW h \in 1 .. Len(chain'[m])
        PROVE  [block |-> Ancestor(chain'[m], h), cert |-> certs'[m][h]] \in anns'
    <3>1. CASE m # n
      <4>1. chain'[m] = chain[m] /\ certs'[m] = certs[m]
        BY <2>1, <3>1, Zenon DEF Extend, TypeOK, FTypeOK
      <4> QED
        BY <2>1, <4>1 DEF CommitsAnnounced
    <3>2. CASE m = n
      <4>1. chain'[m] = Append(chain[n], p) /\ certs'[m] = Append(certs[n], S)
        BY <2>1, <2>3, <3>2, Zenon DEF Extend, TypeOK, FTypeOK
      <4>2. CASE h \in 1 .. Len(chain[n])
        BY <2>1, <2>5, <2>6, <4>1, <4>2, Zenon DEF CommitsAnnounced
      <4>3. CASE h = Len(chain[n]) + 1
        BY <2>1, <2>3, <2>5, <2>6, <4>1, <4>3, Zenon
      <4> QED
        BY <2>4, <2>5, <4>1, <4>2, <4>3
    <3> QED
      BY <3>1, <3>2, Zenon
  <2> QED
    BY <2>7 DEF CommitsAnnounced
<1> QED
  BY <1>1, <1>2 DEF CommitStep

-----------------------------------------------------------------------------
(* The invariant in two halves: what commit attempts change, and the slot thread *)

EngineInv ==
  /\ FTypeOK
  /\ pending \in [Node -> Seq(Entry)]
  /\ anns \subseteq Announcement
  /\ ChainCertified
  /\ PendingSound
  /\ SignersGenuine
  /\ CommitsAnnounced

SlotTypeOK ==
  /\ clock \in [Node -> 0 .. MaxSlot]
  /\ pc \in [Node -> Phase]
  /\ built \in [Node -> Block]
  /\ lock \in [Node -> Block]
  /\ slotVoted \in [Node -> SUBSET Slot]
  /\ crashed \subseteq Node

SlotInv == SlotTypeOK /\ BuiltSound /\ LockHeight /\ LockIsLowestVote

\* The inductive invariant is its two halves.
LEMMA TwoHalves == CInv <=> EngineInv /\ SlotInv
BY DEF CInv, EngineInv, SlotInv, SlotTypeOK, TypeOK

\* The same after a step.
LEMMA TwoHalvesNext == EngineInv' /\ SlotInv' => CInv'
BY DEF CInv, EngineInv, SlotInv, SlotTypeOK, TypeOK

\* A commit attempt on a sound table of genuine signers keeps the first half.
LEMMA CommitKeepsEngine ==
  ASSUME CInv, NEW n \in Node, NEW table \in Seq(Entry), NEW I \in SUBSET (1 .. Len(table)),
         TableSound(chain[n], table), TableGenuine(table), CommitStep(n, table, I),
         votes \subseteq votes', votes' \subseteq Vote, UNCHANGED genesisLive
  PROVE  EngineInv' /\ Grown
<1>1. TypeOK /\ ChainCertified /\ PendingSound /\ SignersGenuine /\ CommitsAnnounced
  BY DEF CInv
<1>2. FTypeOK' /\ ChainCertified' /\ Grown
  BY CommitKeepsChains
<1>3. chain' \in [Node -> Block]
  BY <1>2 DEF FTypeOK
<1>4. pending' \in [Node -> Seq(Entry)] /\ PendingSound'
  BY <1>1, <1>2, <1>3, CommitKeepsTables
<1>5. anns' \subseteq Announcement /\ SignersGenuine'
  BY <1>1, CommitKeepsSigners
<1>6. CommitsAnnounced'
  BY <1>1, CommitKeepsAnnounced
<1> QED
  BY <1>2, <1>4, <1>5, <1>6 DEF EngineInv

\* A step that leaves the slot thread's state alone, or takes it to a phase other than
\* "stash", keeps the second half.
LEMMA SlotKept ==
  ASSUME CInv, chain' \in [Node -> Block], Grown, NEW n \in Node,
         UNCHANGED <<clock, built, lock, slotVoted, votes, crashed>>,
         pc' = pc \/ \E ph \in Phase \ {"stash"} : pc' = [pc EXCEPT ![n] = ph]
  PROVE  SlotInv'
<1>1. TypeOK /\ BuiltSound /\ LockHeight /\ LockIsLowestVote
  BY DEF CInv
<1>2. SlotTypeOK'
  BY <1>1, Zenon DEF TypeOK, SlotTypeOK
<1>3. BuiltSound'
  <2> SUFFICES ASSUME NEW m \in Node, pc'[m] = "stash"
               PROVE  EntrySound(chain'[m], built[m])
    BY DEF BuiltSound
  <2>1. pc[m] = "stash"
    BY <1>1 DEF TypeOK
  <2> QED
    BY <1>1, <2>1, EntrySoundKept DEF BuiltSound, TypeOK
<1>4. LockHeight'
  <2> SUFFICES ASSUME NEW m \in Node PROVE Len(lock[m]) <= Len(chain'[m]) + 1
    BY Zenon DEF LockHeight
  <2>1. Len(lock[m]) \in Nat /\ Len(chain[m]) \in Nat /\ Len(lock[m]) <= Len(chain[m]) + 1
    BY <1>1, LenProperties, Zenon DEF TypeOK, FTypeOK, Block, LockHeight
  <2>2. CASE chain'[m] = chain[m]
    BY <2>1, <2>2
  <2>3. CASE Len(chain'[m]) = Len(chain[m]) + 1
    BY <2>1, <2>3
  <2> QED
    BY <2>2, <2>3 DEF Grown
<1>5. LockIsLowestVote'
  BY <1>1 DEF LockIsLowestVote
<1> QED
  BY <1>2, <1>3, <1>4, <1>5 DEF SlotInv

-----------------------------------------------------------------------------
(* One lemma per action *)

\* seal_phase preserves the invariant: it commits, but adds no vote and no entry.
LEMMA SealPhaseInv == ASSUME CInv, NEW n \in Node, SealPhase(n) PROVE CInv'
<1>1. CommitStep(n, pending[n], 1 .. Len(pending[n]))
  BY SealPhaseIsStep, Zenon DEF CInv
<1>2. /\ pending[n] \in Seq(Entry)
      /\ DOMAIN pending[n] = 1 .. Len(pending[n])
      /\ votes' = votes /\ votes \subseteq Vote /\ UNCHANGED genesisLive
  BY LenProperties, Zenon DEF CInv, TypeOK, FTypeOK, SealPhase
<1>3. TableSound(chain[n], pending[n]) /\ TableGenuine(pending[n])
  BY <1>2, Zenon DEF CInv, PendingSound, SignersGenuine, TableGenuine
<1>4. EngineInv' /\ Grown
  BY <1>1, <1>2, <1>3, CommitKeepsEngine
<1>5. chain' \in [Node -> Block]
  BY <1>4 DEF EngineInv, FTypeOK
<1>6. SlotInv'
  <2>1. /\ UNCHANGED <<clock, built, lock, slotVoted, votes, crashed>>
        /\ pc' = [pc EXCEPT ![n] = "sleep"] /\ "sleep" \in Phase \ {"stash"}
    BY Zenon DEF SealPhase, Phase
  <2> QED
    BY <1>4, <1>5, <2>1, SlotKept, Zenon
<1> QED
  BY <1>4, <1>6, TwoHalvesNext

\* Steps of the slot thread alone keep the first half.
LEMMA EngineIdle ==
  ASSUME CInv, UNCHANGED <<chain, certs, genesisLive, pending, anns, votes>>
  PROVE  EngineInv' /\ chain' \in [Node -> Block] /\ Grown
<1>1. EngineInv
  BY TwoHalves
<1>2. EngineInv'
  BY <1>1, Zenon DEF EngineInv, FTypeOK, ChainCertified, PendingSound, SignersGenuine,
              CommitsAnnounced
<1> QED
  BY <1>2 DEF EngineInv, FTypeOK, Grown

\* A vote_phase that returns early preserves the invariant.
LEMMA NoVoteInv == ASSUME CInv, NEW n \in Node, NoVote(n) PROVE CInv'
<1>1. EngineInv' /\ chain' \in [Node -> Block] /\ Grown
  BY EngineIdle DEF NoVote
<1>2. SlotInv'
  <2>1. /\ UNCHANGED <<clock, built, lock, slotVoted, votes, crashed>>
        /\ pc' = [pc EXCEPT ![n] = "seal"] /\ "seal" \in Phase \ {"stash"}
    BY DEF NoVote, Phase
  <2> QED
    BY <1>1, <2>1, SlotKept, Zenon
<1> QED
  BY <1>1, <1>2, TwoHalvesNext, Zenon

\* ac_consensus_start preserves the invariant.
LEMMA RestartInv == ASSUME CInv, NEW n \in Node, Restart(n) PROVE CInv'
<1>1. EngineInv' /\ chain' \in [Node -> Block] /\ Grown
  BY EngineIdle DEF Restart
<1>2. SlotInv'
  <2>1. /\ UNCHANGED <<clock, built, lock, slotVoted, votes, crashed>>
        /\ pc' = [pc EXCEPT ![n] = "sleep"] /\ "sleep" \in Phase \ {"stash"}
    BY DEF Restart, Phase
  <2> QED
    BY <1>1, <2>1, SlotKept, Zenon
<1> QED
  BY <1>1, <1>2, TwoHalvesNext

\* The clock of a stopped node preserves the invariant.
LEMMA DownTimeInv == ASSUME CInv, NEW n \in Node, DownTime(n) PROVE CInv'
<1>1. EngineInv'
  BY EngineIdle, Zenon DEF DownTime
<1>2. SlotInv
  BY TwoHalves
<1>3. clock' \in [Node -> 0 .. MaxSlot]
  <2>1. clock[n] + 1 \in 0 .. MaxSlot
    BY <1>2, FinalityAssumption DEF SlotInv, SlotTypeOK, DownTime
  <2> QED
    BY <1>2, <2>1 DEF SlotInv, SlotTypeOK, DownTime
<1>4. SlotInv'
  BY <1>2, <1>3 DEF SlotInv, SlotTypeOK, BuiltSound, LockHeight, LockIsLowestVote, DownTime
<1> QED
  BY <1>1, <1>4, TwoHalvesNext

\* slot_routine up to the chain unlock preserves the invariant: the block it builds
\* extends the tip.
LEMMA StartSlotInv == ASSUME CInv, NEW n \in Node, StartSlot(n) PROVE CInv'
<1> DEFINE s == clock[n] + 1
<1>1. EngineInv'
  BY EngineIdle DEF StartSlot
<1>2. SlotInv /\ chain[n] \in Block
  BY TwoHalves, Zenon DEF CInv, TypeOK, FTypeOK
<1>3. s \in 0 .. MaxSlot
  BY <1>2, FinalityAssumption DEF SlotInv, SlotTypeOK, StartSlot
<1>4. CASE IsLeader(n, s)
  <2>1. /\ clock' = [clock EXCEPT ![n] = s]
        /\ built' = [built EXCEPT ![n] = Append(chain[n], <<s, n>>)]
        /\ pc' = [pc EXCEPT ![n] = "stash"]
        /\ UNCHANGED <<chain, lock, slotVoted, votes, crashed>>
    BY <1>4 DEF StartSlot
  <2>2. <<s, n>> \in Leaders
    BY <1>4 DEF IsLeader
  <2>3. /\ Append(chain[n], <<s, n>>) \in Block
        /\ EntrySound(chain[n], Append(chain[n], <<s, n>>))
    <3>1. /\ Append(chain[n], <<s, n>>) \in Block
          /\ Len(Append(chain[n], <<s, n>>)) = Len(chain[n]) + 1
          /\ Parent(Append(chain[n], <<s, n>>)) = chain[n]
          /\ Len(chain[n]) \in Nat /\ Len(<< >>) = 0
      BY <1>2, <2>2, ChildBlock, LenProperties, EmptySeq DEF Block
    <3> DEFINE b == Append(chain[n], <<s, n>>)
    <3>2. /\ b \in Block /\ Len(b) = Len(chain[n]) + 1 /\ Parent(b) = chain[n]
          /\ Len(chain[n]) \in Nat /\ Len(<< >>) = 0
      BY <3>1
    <3> HIDE DEF b
    <3>3. b # << >>
      BY <3>2
    <3>4. EntrySound(chain[n], b)
      BY <3>2, <3>3 DEF EntrySound
    <3> QED
      BY <3>2, <3>4, Zenon DEF b
  <2> HIDE DEF s
  <2>4. SlotTypeOK'
    BY <1>2, <1>3, <2>1, <2>3, Zenon DEF SlotInv, SlotTypeOK, Phase
  <2>5. BuiltSound'
    <3> SUFFICES ASSUME NEW m \in Node, pc'[m] = "stash"
                 PROVE  EntrySound(chain[m], built'[m])
      BY <2>1, Zenon DEF BuiltSound
    <3>1. CASE m = n
      BY <1>2, <2>1, <2>3, <3>1 DEF SlotInv, SlotTypeOK
    <3>2. CASE m # n
      BY <1>2, <2>1, <3>2 DEF SlotInv, SlotTypeOK, BuiltSound
    <3> QED
      BY <3>1, <3>2, Zenon
  <2> QED
    BY <1>2, <2>1, <2>4, <2>5, <1>1, TwoHalvesNext, Zenon
       DEF SlotInv, LockHeight, LockIsLowestVote
<1>5. CASE ~IsLeader(n, s)
  <2>1. /\ clock' = [clock EXCEPT ![n] = s]
        /\ built' = [built EXCEPT ![n] = built[n]]
        /\ pc' = [pc EXCEPT ![n] = "vote"]
        /\ UNCHANGED <<chain, lock, slotVoted, votes, crashed>>
    BY <1>5 DEF StartSlot
  <2> HIDE DEF s
  <2>2. built' = built
    BY <1>2, <2>1 DEF SlotInv, SlotTypeOK
  <2>3. SlotTypeOK'
    BY <1>2, <1>3, <2>1, <2>2 DEF SlotInv, SlotTypeOK, Phase
  <2>4. BuiltSound'
    BY <1>2, <2>1, <2>2, Zenon DEF SlotInv, SlotTypeOK, BuiltSound
  <2> QED
    BY <1>2, <2>1, <2>3, <2>4, <1>1, TwoHalvesNext
       DEF SlotInv, LockHeight, LockIsLowestVote
<1> QED
  BY <1>4, <1>5

\* A sound table of genuine signers remains one when signatures are folded in.
LEMMA AddSignersKeeps ==
  ASSUME CInv, NEW n \in Node, NEW i \in DOMAIN pending[n], NEW X \in SUBSET Node,
         votes \subseteq votes',
         \A v \in X : SignedBy(v, pending[n][i].block) \in votes'
  PROVE  LET table == AddSigners(pending[n], i, X)
         IN  /\ table \in Seq(Entry)
             /\ i \in 1 .. Len(table)
             /\ TableSound(chain[n], table)
             /\ TableGenuine(table)
<1> DEFINE table == AddSigners(pending[n], i, X)
<1>1. /\ pending[n] \in Seq(Entry)
      /\ DOMAIN pending[n] = 1 .. Len(pending[n])
      /\ i \in 1 .. Len(pending[n])
  BY LenProperties, Zenon DEF CInv, TypeOK
<1>2. /\ table \in Seq(Entry)
      /\ Len(table) = Len(pending[n])
      /\ \A j \in 1 .. Len(pending[n]) :
           /\ table[j].block = pending[n][j].block
           /\ table[j].signers = IF j = i THEN pending[n][j].signers \cup X
                                          ELSE pending[n][j].signers
  <2> DEFINE t == pending[n]
  <2>1. t \in Seq(Entry) /\ i \in 1 .. Len(t)
    BY <1>1
  <2> HIDE DEF t
  <2>2. /\ AddSigners(t, i, X) \in Seq(Entry)
        /\ Len(AddSigners(t, i, X)) = Len(t)
        /\ \A j \in 1 .. Len(t) :
             /\ AddSigners(t, i, X)[j].block = t[j].block
             /\ AddSigners(t, i, X)[j].signers =
                  IF j = i THEN t[j].signers \cup X ELSE t[j].signers
    BY <2>1, AddSignersTable, Zenon
  <2> QED
    BY <2>2, Zenon DEF t
<1> HIDE DEF table
<1>3. TableSound(chain[n], table)
  BY <1>2, Zenon DEF CInv, PendingSound, TableSound
<1>4. TableGenuine(table)
  BY <1>1, <1>2, Zenon DEF CInv, SignersGenuine, TableGenuine
<1> QED
  BY <1>1, <1>2, <1>3, <1>4 DEF table

\* A commit attempt of a handler that has updated the table.
LEMMA TryCommitKeepsEngine ==
  ASSUME CInv, NEW n \in Node, NEW table \in Seq(Entry), NEW i \in 1 .. Len(table),
         TableSound(chain[n], table), TableGenuine(table), TryCommit(n, table, i),
         votes \subseteq votes', votes' \subseteq Vote, UNCHANGED genesisLive
  PROVE  EngineInv' /\ Grown /\ chain' \in [Node -> Block]
<1>1. CommitStep(n, table, {i})
  BY TryCommitIsStep
<1>2. {i} \in SUBSET (1 .. Len(table))
  OBVIOUS
<1>3. EngineInv' /\ Grown
  BY <1>1, <1>2, CommitKeepsEngine
<1> QED
  BY <1>3 DEF EngineInv, FTypeOK

\* handle_block on a known block preserves the invariant: an announced certificate is
\* made of genuine signatures.
LEMMA MergeBlockInv == ASSUME CInv, NEW n \in Node, NEW m \in anns, MergeBlock(n, m) PROVE CInv'
<1>1. PICK i \in DOMAIN pending[n] :
        /\ pending[n][i].block = m.block
        /\ TryCommit(n, AddSigners(pending[n], i, m.cert), i)
  BY Zenon DEF MergeBlock
<1> DEFINE table == AddSigners(pending[n], i, m.cert)
<1>2. /\ m.cert \in SUBSET Node
      /\ votes' = votes /\ votes \subseteq Vote /\ UNCHANGED genesisLive
      /\ \A v \in m.cert : SignedBy(v, pending[n][i].block) \in votes'
  BY <1>1, Zenon DEF CInv, TypeOK, FTypeOK, Announcement, SignersGenuine, MergeBlock
<1>3. /\ table \in Seq(Entry) /\ i \in 1 .. Len(table)
      /\ TableSound(chain[n], table) /\ TableGenuine(table)
  BY <1>2, AddSignersKeeps, Zenon
<1> HIDE DEF table
<1>4. EngineInv' /\ Grown /\ chain' \in [Node -> Block]
  BY <1>1, <1>2, <1>3, TryCommitKeepsEngine, Zenon DEF table
<1>5. SlotInv'
  BY <1>4, SlotKept, Zenon DEF MergeBlock
<1> QED
  BY <1>4, <1>5, TwoHalvesNext

\* handle_vote preserves the invariant: the vote is for the very block of the entry.
LEMMA HandleVoteInv ==
  ASSUME CInv, NEW n \in Node, NEW v \in votes, HandleVote(n, v) PROVE CInv'
<1>1. PICK i \in DOMAIN pending[n] :
        /\ pending[n][i].block = v.block
        /\ TryCommit(n, AddSigners(pending[n], i, {v.signer}), i)
  BY Zenon DEF HandleVote
<1> DEFINE table == AddSigners(pending[n], i, {v.signer})
<1>2. /\ {v.signer} \in SUBSET Node
      /\ votes' = votes /\ votes \subseteq Vote /\ UNCHANGED genesisLive
      /\ SignedBy(v.signer, v.block) = v
  BY Zenon DEF CInv, TypeOK, FTypeOK, Vote, SignedBy, HandleVote
<1>3. \A w \in {v.signer} : SignedBy(w, pending[n][i].block) \in votes'
  BY <1>1, <1>2, Zenon
<1>4. /\ table \in Seq(Entry) /\ i \in 1 .. Len(table)
      /\ TableSound(chain[n], table) /\ TableGenuine(table)
  BY <1>2, <1>3, AddSignersKeeps, Zenon
<1> HIDE DEF table
<1>5. EngineInv' /\ Grown /\ chain' \in [Node -> Block]
  BY <1>1, <1>2, <1>4, TryCommitKeepsEngine, Zenon DEF table
<1>6. SlotInv'
  BY <1>5, SlotKept, Zenon DEF HandleVote
<1> QED
  BY <1>5, <1>6, TwoHalvesNext

\* A sound table of genuine signers remains one when a sound block is stashed.
LEMMA PendingAllocKeeps ==
  ASSUME CInv, NEW n \in Node, NEW e \in Entry, EntrySound(chain[n], e.block),
         votes \subseteq votes', \A v \in e.signers : SignedBy(v, e.block) \in votes'
  PROVE  LET table == PendingAlloc(pending[n], e)
         IN  /\ table \in Seq(Entry)
             /\ Len(table) \in 1 .. Len(table)
             /\ TableSound(chain[n], table)
             /\ TableGenuine(table)
<1> DEFINE table == PendingAlloc(pending[n], e)
<1>1. /\ pending[n] \in Seq(Entry)
      /\ DOMAIN pending[n] = 1 .. Len(pending[n])
  BY LenProperties DEF CInv, TypeOK
<1>2. /\ table \in Seq(Entry)
      /\ Len(table) \in Nat \ {0}
      /\ \A i \in 1 .. Len(table) :
           table[i] = e \/ \E j \in 1 .. Len(pending[n]) : table[i] = pending[n][j]
  BY <1>1, PendingAllocTable, Zenon
<1> HIDE DEF table
<1>3. TableSound(chain[n], table)
  BY <1>2, Zenon DEF CInv, PendingSound, TableSound
<1>4. TableGenuine(table)
  BY <1>1, <1>2, Zenon DEF CInv, SignersGenuine, TableGenuine
<1>5. Len(table) \in 1 .. Len(table)
  BY <1>2
<1> QED
  BY <1>2, <1>3, <1>4, <1>5, ZenonT(40) DEF table

\* handle_block on a new block preserves the invariant: its parent is our tip.
LEMMA ReceiveBlockInv ==
  ASSUME CInv, NEW n \in Node, NEW m \in anns, ReceiveBlock(n, m) PROVE CInv'
<1> DEFINE e == [block |-> m.block, signers |-> m.cert, reached |-> FALSE]
           table == PendingAlloc(pending[n], e)
<1>1. /\ m.block \in Block /\ m.cert \in SUBSET Node
      /\ votes' = votes /\ votes \subseteq Vote /\ UNCHANGED genesisLive
      /\ \A v \in m.cert : SignedBy(v, m.block) \in votes'
  BY Zenon DEF CInv, TypeOK, FTypeOK, Announcement, SignersGenuine, ReceiveBlock
<1>2. e \in Entry /\ e.block = m.block /\ e.signers = m.cert
  BY <1>1, Zenon DEF Entry
<1>3. EntrySound(chain[n], m.block)
  <2>1. /\ Len(m.block) = Len(chain[n]) + 1 /\ Parent(m.block) = chain[n]
        /\ Len(chain[n]) \in Nat /\ Len(<< >>) = 0
    BY LenProperties, EmptySeq, Zenon DEF ReceiveBlock, CInv, TypeOK, FTypeOK, Block
  <2>2. m.block # << >>
    BY <2>1
  <2> QED
    BY <2>1, <2>2 DEF EntrySound
<1>4. TryCommit(n, table, Len(table))
  BY DEF ReceiveBlock
<1> HIDE DEF e
<1>5. /\ table \in Seq(Entry) /\ Len(table) \in 1 .. Len(table)
      /\ TableSound(chain[n], table) /\ TableGenuine(table)
  BY <1>1, <1>2, <1>3, PendingAllocKeeps, ZenonT(40)
<1> HIDE DEF table
<1>6. EngineInv' /\ Grown /\ chain' \in [Node -> Block]
  BY <1>1, <1>4, <1>5, TryCommitKeepsEngine
<1>7. SlotInv'
  BY <1>6, SlotKept, Zenon DEF ReceiveBlock
<1> QED
  BY <1>6, <1>7, TwoHalvesNext

\* slot_routine under cs->mu preserves the invariant, even when the chain has grown
\* since the block was built: the block is then not at the height voted on.
LEMMA StashBlockInv == ASSUME CInv, NEW n \in Node, StashBlock(n) PROVE CInv'
<1> DEFINE e == [block |-> built[n], signers |-> {}, reached |-> FALSE]
           a == [block |-> built[n], cert |-> {}]
           table == PendingAlloc(pending[n], e)
<1>0. EngineInv /\ SlotInv /\ UNCHANGED <<chain, certs, genesisLive, votes>>
  BY TwoHalves, Zenon DEF StashBlock
<1>1. built[n] \in Block /\ EntrySound(chain[n], built[n])
  BY <1>0, Zenon DEF SlotInv, SlotTypeOK, BuiltSound, StashBlock
<1>2. e \in Entry /\ e.block = built[n] /\ e.signers = {}
  BY <1>1, Zenon DEF Entry
<1>3. pending' = [pending EXCEPT ![n] = table]
  BY DEF StashBlock
<1>4. a \in Announcement /\ a.cert = {} /\ anns' = anns \cup {a}
  BY <1>1, ZenonT(40) DEF Announcement, StashBlock
<1> HIDE DEF e, a
<1>5. /\ table \in Seq(Entry)
      /\ TableSound(chain[n], table) /\ TableGenuine(table)
  BY <1>0, <1>1, <1>2, PendingAllocKeeps
<1> HIDE DEF table
<1>6. FTypeOK' /\ ChainCertified'
  BY <1>0, Zenon DEF EngineInv, FTypeOK, ChainCertified
<1>7. pending' \in [Node -> Seq(Entry)] /\ anns' \subseteq Announcement
  BY <1>0, <1>3, <1>4, <1>5, Zenon DEF EngineInv
<1>8. PendingSound'
  <2> SUFFICES ASSUME NEW m \in Node PROVE TableSound(chain[m], pending'[m])
    BY <1>0 DEF PendingSound
  <2>1. CASE m = n
    BY <1>0, <1>3, <1>5, <2>1 DEF EngineInv
  <2>2. CASE m # n
    BY <1>0, <1>3, <2>2, Zenon DEF EngineInv, PendingSound
  <2> QED
    BY <2>1, <2>2
<1>9. SignersGenuine'
  <2>1. ASSUME NEW m \in Node, NEW i \in DOMAIN pending'[m], NEW v \in pending'[m][i].signers
        PROVE  SignedBy(v, pending'[m][i].block) \in votes'
    <3>1. CASE m = n
      <4>1. pending'[m] = table /\ DOMAIN table = 1 .. Len(table)
        BY <1>0, <1>3, <1>5, <3>1, LenProperties, Zenon DEF EngineInv
      <4> QED
        BY <1>5, <4>1 DEF TableGenuine
    <3>2. CASE m # n
      <4>1. pending'[m] = pending[m]
        BY <1>0, <1>3, <3>2, Zenon DEF EngineInv
      <4> QED
        BY <1>0, <4>1, Zenon DEF EngineInv, SignersGenuine
    <3> QED
      BY <3>1, <3>2, ZenonT(40)
  <2>2. \A m \in anns' : \A v \in m.cert : SignedBy(v, m.block) \in votes'
    BY <1>0, <1>4, Zenon DEF EngineInv, SignersGenuine
  <2> QED
    BY <2>1, <2>2, Zenon DEF SignersGenuine
<1>10. CommitsAnnounced'
  BY <1>0, <1>4 DEF EngineInv, CommitsAnnounced
<1>11. EngineInv'
  BY <1>6, <1>7, <1>8, <1>9, <1>10 DEF EngineInv
<1>12. SlotInv'
  <2>1. /\ built' = [built EXCEPT ![n] = << >>]
        /\ pc' = [pc EXCEPT ![n] = "vote"]
        /\ UNCHANGED <<clock, chain, lock, slotVoted, votes, crashed>>
    BY DEF StashBlock
  <2>2. << >> \in Block
    BY EmptySeq DEF Block
  <2>3. SlotTypeOK'
    BY <1>0, <2>1, <2>2 DEF SlotInv, SlotTypeOK, Phase
  <2>4. BuiltSound'
    BY <1>0, <2>1, ZenonT(40) DEF SlotInv, SlotTypeOK, BuiltSound
  <2>5. LockHeight' /\ LockIsLowestVote'
    BY <1>0, <2>1 DEF SlotInv, LockHeight, LockIsLowestVote
  <2> QED
    BY <2>3, <2>4, <2>5, Zenon DEF SlotInv
<1> QED
  BY <1>11, <1>12, TwoHalvesNext, Zenon

\* A stopped node keeps its chain and loses its table, its lock and its slot votes.
LEMMA CrashInv == ASSUME CInv, NEW n \in Node, Crash(n) PROVE CInv'
<1>0. EngineInv /\ SlotInv /\ UNCHANGED <<clock, chain, certs, anns, votes>>
  BY TwoHalves DEF Crash
<1>1. << >> \in Block /\ << >> \in Seq(Entry) /\ Len(<< >>) = 0 /\ DOMAIN << >> = {}
  BY EmptySeq DEF Block
<1>2. /\ crashed' = crashed \cup {n}
      /\ pc' = [pc EXCEPT ![n] = "down"]
      /\ built' = [built EXCEPT ![n] = << >>]
      /\ pending' = [pending EXCEPT ![n] = << >>]
      /\ lock' = [lock EXCEPT ![n] = << >>]
      /\ slotVoted' = [slotVoted EXCEPT ![n] = {}]
      /\ genesisLive' = [genesisLive EXCEPT ![n] = FALSE]
  BY DEF Crash
<1>3. FTypeOK' /\ ChainCertified' /\ CommitsAnnounced'
  BY <1>0, <1>2, Zenon DEF EngineInv, FTypeOK, ChainCertified, CommitsAnnounced
<1>4. pending' \in [Node -> Seq(Entry)] /\ anns' \subseteq Announcement
  BY <1>0, <1>1, <1>2 DEF EngineInv
<1>5. \A m \in Node : pending'[m] = IF m = n THEN << >> ELSE pending[m]
  BY <1>0, <1>2, Zenon DEF EngineInv
<1>6. PendingSound' /\ SignersGenuine'
  BY <1>0, <1>1, <1>5 DEF EngineInv, PendingSound, TableSound, SignersGenuine
<1>7. EngineInv'
  BY <1>3, <1>4, <1>6, Zenon DEF EngineInv
<1>8. SlotTypeOK'
  BY <1>0, <1>1, <1>2, Zenon DEF SlotInv, SlotTypeOK, Phase
<1>9. BuiltSound'
  BY <1>0, <1>2, Zenon DEF SlotInv, SlotTypeOK, BuiltSound
<1>10. \A m \in Node : lock'[m] = IF m = n THEN << >> ELSE lock[m]
  BY <1>0, <1>2, Zenon DEF SlotInv, SlotTypeOK
<1>11. LockHeight'
  <2>1. \A m \in Node : Len(chain[m]) \in Nat
    BY <1>0, LenProperties DEF EngineInv, FTypeOK, Block
  <2> QED
    BY <1>0, <1>1, <1>10, <2>1 DEF SlotInv, LockHeight
<1>12. LockIsLowestVote'
  <2> SUFFICES ASSUME NEW v \in votes, v.signer \notin crashed'
               PROVE  /\ Len(v.block) <= Len(lock'[v.signer])
                      /\ Len(v.block) = Len(lock'[v.signer]) =>
                           Prio(lock'[v.signer]) <= Prio(v.block)
    BY <1>0, Zenon DEF LockIsLowestVote
  <2>1. v.signer \in Node /\ v.signer # n /\ v.signer \notin crashed
    BY <1>0, <1>2, Zenon DEF EngineInv, FTypeOK, Vote
  <2>2. lock'[v.signer] = lock[v.signer]
    BY <1>10, <2>1, Zenon
  <2> QED
    BY <1>0, <2>1, <2>2, Zenon DEF SlotInv, LockIsLowestVote
<1> QED
  BY <1>7, <1>8, <1>9, <1>11, <1>12, TwoHalvesNext DEF SlotInv

-----------------------------------------------------------------------------
(* Voting *)

\* What our_vote_now and the commit attempt after it do: at most one new vote, for the
\* pending block at hand.
LEMMA CastVoteKeepsEngine ==
  ASSUME CInv, NEW n \in Node, NEW i \in Candidates(n), CastVote(n, i),
         UNCHANGED genesisLive
  PROVE  /\ EngineInv' /\ Grown /\ chain' \in [Node -> Block]
         /\ slotVoted' \in [Node -> SUBSET Slot]
         /\ votes' \subseteq votes \cup {SignedBy(n, pending[n][i].block)}
<1> DEFINE b == pending[n][i].block
           X == IF Member(n, b) THEN {n} ELSE {}
           table == AddSigners(pending[n], i, X)
<1>1. i \in DOMAIN pending[n] /\ TypeOK /\ PendingSound
  BY Zenon DEF Candidates, CInv
<1>2. b \in Block /\ b # << >>
  <2>1. i \in 1 .. Len(pending[n]) /\ pending[n][i] \in Entry
    BY <1>1, LenProperties, ElementOfSeq, Zenon DEF TypeOK
  <2> QED
    BY <1>1, <2>1, Zenon DEF Entry, PendingSound, TableSound, EntrySound
<1>3. LastSlot(b) \in Slot
  BY <1>2, LastProposal, Zenon
<1>4. /\ votes' = IF Member(n, b) THEN votes \cup {SignedBy(n, b)} ELSE votes
      /\ slotVoted' = IF Member(n, b) THEN [slotVoted EXCEPT ![n] = @ \cup {LastSlot(b)}]
                                      ELSE slotVoted
      /\ TryCommit(n, table, i)
  BY Zenon DEF CastVote
<1> HIDE DEF b
<1>5. /\ votes \subseteq votes' /\ votes' \subseteq Vote
      /\ votes' \subseteq votes \cup {SignedBy(n, b)}
      /\ X \in SUBSET Node
      /\ \A v \in X : SignedBy(v, b) \in votes'
  BY <1>1, <1>2, <1>4, SignatureIsVote DEF TypeOK, FTypeOK
<1>6. slotVoted' \in [Node -> SUBSET Slot]
  BY <1>1, <1>3, <1>4, Zenon DEF TypeOK
<1> HIDE DEF X
<1>7. /\ table \in Seq(Entry) /\ i \in 1 .. Len(table)
      /\ TableSound(chain[n], table) /\ TableGenuine(table)
  BY <1>1, <1>5, AddSignersKeeps, Zenon DEF b
<1> HIDE DEF table
<1>8. EngineInv' /\ Grown /\ chain' \in [Node -> Block]
  BY <1>4, <1>5, <1>7, TryCommitKeepsEngine
<1> QED
  BY <1>5, <1>6, <1>8 DEF b

\* A candidate has a priority.
LEMMA CandidatePrio ==
  ASSUME CInv, NEW n \in Node, NEW i \in Candidates(n)
  PROVE  /\ pending[n][i].block \in Block
         /\ Len(pending[n][i].block) = Len(chain[n]) + 1
         /\ Prio(pending[n][i].block) \in Nat
         /\ Parent(pending[n][i].block) = chain[n]
<1>1. i \in DOMAIN pending[n] /\ Len(pending[n][i].block) = Len(chain[n]) + 1
  BY DEF Candidates
<1>2. i \in 1 .. Len(pending[n]) /\ pending[n][i] \in Entry
  BY <1>1, LenProperties, ElementOfSeq DEF CInv, TypeOK
<1>3. pending[n][i].block \in Block /\ EntrySound(chain[n], pending[n][i].block)
  BY <1>2, Zenon DEF Entry, CInv, PendingSound, TableSound
<1> QED
  BY <1>1, <1>3, LastProposal, Zenon DEF EntrySound

\* A block of positive height has a priority.
LEMMA HighBlockPrio ==
  ASSUME NEW b \in Block, NEW k \in Nat, Len(b) = k + 1
  PROVE  Prio(b) \in Nat
<1>1. b # << >>
  BY EmptySeq
<1> QED
  BY <1>1, LastProposal

\* The half of the invariant about the slot thread survives a vote for block b when the
\* lock becomes (or is) b: b is at the next height, and as low as every earlier vote.
LEMMA VoteKeepsSlot ==
  ASSUME CInv, NEW n \in Node, NEW b \in Block, Len(b) = Len(chain[n]) + 1,
         Locked(n) => Prio(b) <= Prio(lock[n]),
         lock' = [lock EXCEPT ![n] = b],
         pc' = [pc EXCEPT ![n] = "seal"],
         UNCHANGED <<clock, built, crashed>>,
         chain' \in [Node -> Block], Grown, slotVoted' \in [Node -> SUBSET Slot],
         votes' \subseteq votes \cup {SignedBy(n, b)}
  PROVE  SlotInv'
<1>0. TypeOK /\ BuiltSound /\ LockHeight /\ LockIsLowestVote
  BY Zenon DEF CInv
<1>1. SlotTypeOK'
  BY <1>0 DEF TypeOK, SlotTypeOK, Phase
<1>2. BuiltSound'
  <2> SUFFICES ASSUME NEW m \in Node, pc'[m] = "stash"
               PROVE  EntrySound(chain'[m], built[m])
    BY Zenon DEF BuiltSound
  <2>1. pc[m] = "stash"
    BY <1>0, Zenon DEF TypeOK
  <2> QED
    BY <1>0, <2>1, EntrySoundKept, Zenon DEF BuiltSound, TypeOK
<1>3. \A m \in Node : lock'[m] = IF m = n THEN b ELSE lock[m]
  BY <1>0 DEF TypeOK
<1>4. \A m \in Node : /\ Len(lock[m]) \in Nat /\ Len(chain[m]) \in Nat
                      /\ Len(lock[m]) <= Len(chain[m]) + 1
  BY <1>0, LenProperties, Zenon DEF TypeOK, FTypeOK, Block, LockHeight
<1>5. LockHeight'
  <2> SUFFICES ASSUME NEW m \in Node PROVE Len(lock'[m]) <= Len(chain'[m]) + 1
    BY Zenon DEF LockHeight
  <2>1. Len(lock'[m]) \in Nat /\ Len(lock'[m]) <= Len(chain[m]) + 1
    BY <1>3, <1>4
  <2>2. CASE chain'[m] = chain[m]
    BY <2>1, <2>2, Zenon
  <2>3. CASE Len(chain'[m]) = Len(chain[m]) + 1
    BY <1>4, <2>1, <2>3
  <2> QED
    BY <2>2, <2>3, Zenon DEF Grown
<1>6. LockIsLowestVote'
  <2> SUFFICES ASSUME NEW v \in votes', v.signer \notin crashed
               PROVE  /\ Len(v.block) <= Len(lock'[v.signer])
                      /\ Len(v.block) = Len(lock'[v.signer]) =>
                           Prio(lock'[v.signer]) <= Prio(v.block)
    BY Zenon DEF LockIsLowestVote
  <2>0. Prio(b) \in Nat /\ Len(b) \in Nat
    <3>1. Prio(b) \in Nat
      BY <1>4, HighBlockPrio, Zenon
    <3>2. Len(b) \in Nat
      BY LenProperties, Zenon DEF Block
    <3> QED
      BY <3>1, <3>2, Zenon
  <2>1. CASE v = SignedBy(n, b)
    <3>1. v.signer = n /\ v.block = b
      BY <2>1, Zenon DEF SignedBy
    <3> QED
      BY <1>3, <2>0, <3>1, AtMost, Zenon
  <2>2. CASE v \in votes
    <3>1. /\ v.signer \in Node /\ v.block \in Block
          /\ Len(v.block) <= Len(lock[v.signer])
          /\ Len(v.block) = Len(lock[v.signer]) => Prio(lock[v.signer]) <= Prio(v.block)
          /\ Len(v.block) \in Nat
      BY <1>0, <2>2, LenProperties, Zenon DEF TypeOK, FTypeOK, Vote, Block, LockIsLowestVote
    <3>2. CASE v.signer # n
      BY <1>3, <3>1, <3>2, Zenon
    <3>3. CASE v.signer = n
      <4>1. Len(v.block) <= Len(b)
        <5>1. Len(lock[n]) \in Nat /\ Len(lock[n]) <= Len(b)
          BY <1>4, Zenon
        <5> QED
          BY <2>0, <3>1, <3>3, <5>1, AtMost, Zenon
      <4>2. ASSUME Len(v.block) = Len(b) PROVE Prio(b) <= Prio(v.block)
        <5>1. Len(lock[n]) = Len(chain[n]) + 1
          BY <1>4, <3>1, <3>3, <4>2
        <5>2. Locked(n) /\ lock[n] \in Block
          BY <1>0, <5>1, Zenon DEF Locked, TypeOK
        <5>3. Prio(lock[n]) \in Nat /\ Prio(v.block) \in Nat
          BY <1>4, <3>1, <4>2, <5>1, <5>2, HighBlockPrio, Zenon
        <5>4. Prio(b) <= Prio(lock[n])
          BY <5>2, Zenon
        <5>5. Prio(lock[n]) <= Prio(v.block)
          BY <3>1, <3>3, <4>2, <5>1, Zenon
        <5> QED
          BY <2>0, <5>3, <5>4, <5>5, AtMost, Zenon
      <4> QED
        BY <1>3, <3>3, <4>1, <4>2, Zenon
    <3> QED
      BY <3>2, <3>3, Zenon
  <2> QED
    BY <2>1, <2>2, Zenon
<1> QED
  BY <1>1, <1>2, <1>5, <1>6, Zenon DEF SlotInv

\* A vote that moves, moves to a block strictly below the lock: some candidate is, and
\* the block voted for is the lowest one.
LEMMA VoteForLowestInv == ASSUME CInv, NEW n \in Node, VoteForLowest(n) PROVE CInv'
<1>1. PICK i \in Lowest(n) : CastVote(n, i) /\ lock' = [lock EXCEPT ![n] = pending[n][i].block]
  BY Zenon DEF VoteForLowest
<1> DEFINE b == pending[n][i].block
<1>2. i \in Candidates(n) /\ UNCHANGED genesisLive
  BY Zenon DEF Lowest, VoteForLowest
<1>3. /\ EngineInv' /\ Grown /\ chain' \in [Node -> Block]
      /\ slotVoted' \in [Node -> SUBSET Slot]
      /\ votes' \subseteq votes \cup {SignedBy(n, b)}
  BY <1>1, <1>2, CastVoteKeepsEngine
<1>4. b \in Block /\ Len(b) = Len(chain[n]) + 1 /\ Prio(b) \in Nat
  BY <1>2, CandidatePrio, Zenon
<1>5. Locked(n) => Prio(b) <= Prio(lock[n])
  <2> SUFFICES ASSUME Locked(n) PROVE Prio(b) <= Prio(lock[n])
    BY Zenon
  <2>1. PICK j \in Candidates(n) : ~(Prio(pending[n][j].block) >= Prio(lock[n]))
    BY DEF VoteForLowest, KeepsVote
  <2>2. Prio(pending[n][j].block) \in Nat
    BY CandidatePrio, Zenon
  <2>3. Prio(lock[n]) \in Nat
    <3>1. lock[n] \in Block /\ Len(lock[n]) = Len(chain[n]) + 1 /\ Len(chain[n]) \in Nat
      BY LenProperties, Zenon DEF CInv, TypeOK, FTypeOK, Block, Locked
    <3> QED
      BY <3>1, HighBlockPrio, Zenon
  <2>4. Prio(b) <= Prio(pending[n][j].block)
    BY DEF Lowest
  <2> HIDE DEF b
  <2> QED
    BY <1>4, <2>1, <2>2, <2>3, <2>4, AtMost, Zenon
<1>6. SlotInv'
  <2>1. /\ lock' = [lock EXCEPT ![n] = b]
        /\ pc' = [pc EXCEPT ![n] = "seal"]
        /\ UNCHANGED <<clock, built, crashed>>
    BY <1>1, Zenon DEF VoteForLowest
  <2> HIDE DEF b
  <2> QED
    BY <1>3, <1>4, <1>5, <2>1, VoteKeepsSlot, Zenon
<1> QED
  BY <1>3, <1>6, TwoHalvesNext, Zenon

\* A re-affirmed vote is for the lock itself.
LEMMA ReaffirmInv == ASSUME CInv, NEW n \in Node, Reaffirm(n) PROVE CInv'
<1>1. PICK i \in Candidates(n) : pending[n][i].block = lock[n] /\ CastVote(n, i)
  BY Zenon DEF Reaffirm
<1>2. /\ EngineInv' /\ Grown /\ chain' \in [Node -> Block]
      /\ slotVoted' \in [Node -> SUBSET Slot]
      /\ votes' \subseteq votes \cup {SignedBy(n, lock[n])}
  BY <1>1, CastVoteKeepsEngine, Zenon DEF Reaffirm
<1>3. lock[n] \in Block /\ Len(lock[n]) = Len(chain[n]) + 1 /\ Prio(lock[n]) \in Nat
  BY <1>1, CandidatePrio, Zenon
<1>4. /\ lock' = [lock EXCEPT ![n] = lock[n]]
      /\ pc' = [pc EXCEPT ![n] = "seal"]
      /\ UNCHANGED <<clock, built, crashed>>
  BY Zenon DEF Reaffirm, CInv, TypeOK
<1>5. Prio(lock[n]) <= Prio(lock[n])
  BY <1>3
<1>6. SlotInv'
  BY <1>2, <1>3, <1>4, <1>5, VoteKeepsSlot, Zenon
<1> QED
  BY <1>2, <1>6, TwoHalvesNext

-----------------------------------------------------------------------------
(* The invariant is inductive *)

\* The invariant holds when the engine starts.
LEMMA CInitInv == Init => CInv
<1> SUFFICES ASSUME Init PROVE CInv
  OBVIOUS
<1>1. /\ << >> \in Block /\ << >> \in Seq(Entry) /\ << >> \in Seq(SUBSET Node)
      /\ Len(<< >>) = 0 /\ DOMAIN << >> = {}
  BY EmptySeq DEF Block
<1>2. FInv
  BY FInitInv DEF Init, FInit
<1>3. 0 \in 0 .. MaxSlot
  BY FinalityAssumption
<1>4. TypeOK
  BY <1>1, <1>2, <1>3, Zenon DEF FInv, Init, TypeOK, Phase
<1>n. 1 .. 0 = {} /\ 0 <= 0 + 1
  OBVIOUS
<1>5. PendingSound /\ BuiltSound /\ LockHeight
  BY <1>1, <1>n, Zenon DEF Init, PendingSound, TableSound, BuiltSound, LockHeight
<1>6. LockIsLowestVote /\ SignersGenuine /\ CommitsAnnounced
  BY <1>1, <1>n, Zenon DEF Init, LockIsLowestVote, SignersGenuine, CommitsAnnounced
<1> QED
  BY <1>2, <1>4, <1>5, <1>6 DEF FInv, CInv

\* Every step of the engine preserves the invariant.
LEMMA CNextInv == CInv /\ [Next]_vars => CInv'
<1> SUFFICES ASSUME CInv, [Next]_vars PROVE CInv'
  BY Zenon
<1>1. ASSUME NEW n \in Node, SlotThread(n) PROVE CInv'
  BY <1>1, StartSlotInv, StashBlockInv, VoteForLowestInv, ReaffirmInv, NoVoteInv,
     SealPhaseInv DEF SlotThread
<1>2. ASSUME NEW n \in Node, NetworkThread(n) PROVE CInv'
  BY <1>2, MergeBlockInv, ReceiveBlockInv, HandleVoteInv, Zenon DEF NetworkThread
<1>3. ASSUME NEW n \in Node, Crash(n) \/ DownTime(n) \/ Restart(n) PROVE CInv'
  BY <1>3, CrashInv, DownTimeInv, RestartInv, Zenon
<1>4. CASE UNCHANGED vars
  BY <1>4, Zenon DEF vars, CInv, TypeOK, FTypeOK, ChainCertified, PendingSound, BuiltSound,
              LockHeight, LockIsLowestVote, SignersGenuine, CommitsAnnounced
<1> QED
  BY <1>1, <1>2, <1>3, <1>4 DEF Next

\* The invariant holds throughout every behaviour.
LEMMA CInvAlways == Spec => []CInv
<1> QED
  BY CInitInv, CNextInv, PTL DEF Spec

\* The state of the engine keeps its type: in particular the pending table, the lock
\* and the slot votes only ever hold blocks and slots that some leader proposed.
THEOREM EngineTypes == Spec => []TypeOK
<1>1. CInv => TypeOK
  BY DEF CInv
<1> QED
  BY <1>1, CInvAlways, PTL

\* What vote_phase can vote for extends the node's own tip, although slot_routine builds
\* before it takes cs->mu and vote_phase compares heights only.
THEOREM VotesExtendTip == Spec => []PendingExtendsTip
<1>1. CInv => PendingExtendsTip
  BY CandidatePrio DEF PendingExtendsTip
<1> QED
  BY <1>1, CInvAlways, PTL

\* Until a node restarts its votes move up in height and, at one height, down in
\* priority only (vote_height, vote_priority and vote_block of struct ac_consensus).
THEOREM VotesOnlyMoveDown == Spec => []LockIsLowestVote
<1>1. CInv => LockIsLowestVote
  BY DEF CInv
<1> QED
  BY <1>1, CInvAlways, PTL

\* Signers counted for a block or carried by an announcement have signed that block
\* (ac_consensus_handle_block merges certificates unseen).
THEOREM SignersAreGenuine == Spec => []SignersGenuine
<1>1. CInv => SignersGenuine
  BY DEF CInv
<1> QED
  BY <1>1, CInvAlways, PTL

\* Every committed block has been broadcast with the certificate it is stored with
\* (the re-broadcast of try_commit_inner).
THEOREM CommitsAreAnnounced == Spec => []CommitsAnnounced
<1>1. CInv => CommitsAnnounced
  BY Zenon DEF CInv
<1> QED
  BY <1>1, CInvAlways, PTL

-----------------------------------------------------------------------------
(* The engine implements Finality *)

\* A commit attempt without a new vote is a Finalise step or changes no chain.
LEMMA CommitRefines ==
  ASSUME TypeOK, NEW n \in Node, NEW table \in Seq(Entry), NEW I \in SUBSET (1 .. Len(table)),
         CommitStep(n, table, I), UNCHANGED <<votes, genesisLive>>
  PROVE  [FNext]_fvars
<1>1. CASE UNCHANGED <<chain, certs, anns>>
  BY <1>1, Zenon DEF fvars
<1>2. CASE \E i \in I : /\ ValidBlock(n, table[i].block, table[i].signers)
                        /\ Extend(n, table[i].block, table[i].signers)
  <2>1. PICK i \in I : /\ ValidBlock(n, table[i].block, table[i].signers)
                       /\ Extend(n, table[i].block, table[i].signers)
    BY <1>2, Zenon
  <2>2. table[i] \in Entry
    BY ElementOfSeq, Zenon
  <2>3. table[i].block \in Block /\ table[i].signers \in SUBSET Node
    BY <2>2 DEF Entry
  <2>4. PICK p \in Leaders : table[i].block = Append(chain[n], p)
    BY <2>1, <2>3, ValidIsChild, Zenon
  <2>5. Finalise(n, Append(chain[n], p), table[i].signers)
    BY <2>1, <2>4 DEF Finalise
  <2> QED
    BY <2>3, <2>5, Zenon DEF FNext
<1> QED
  BY <1>1, <1>2 DEF CommitStep

\* A vote is a Sign step, or a Finalise step with the node's own signature.
LEMMA CastVoteRefines ==
  ASSUME CInv, NEW n \in Node, NEW i \in Candidates(n), CastVote(n, i),
         UNCHANGED genesisLive
  PROVE  [FNext]_fvars
<1> DEFINE b == pending[n][i].block
           X == IF Member(n, b) THEN {n} ELSE {}
           table == AddSigners(pending[n], i, X)
<1>0. TypeOK /\ chain[n] \in Block
  BY Zenon DEF CInv, TypeOK, FTypeOK
<1>1. /\ pending[n] \in Seq(Entry) /\ i \in 1 .. Len(pending[n])
  BY LenProperties, Zenon DEF CInv, TypeOK, Candidates
<1>2. PICK p \in Leaders : b = Append(chain[n], p)
  BY <1>0, CandidatePrio, ChildIsAppend, Zenon
<1>3. X \in SUBSET Node
  OBVIOUS
<1>4. TryCommit(n, table, i)
  BY Zenon DEF CastVote
<1> HIDE DEF X
<1>5. /\ table \in Seq(Entry) /\ i \in 1 .. Len(table)
      /\ table[i].block = b
  <2> DEFINE t == pending[n]
  <2>1. t \in Seq(Entry) /\ i \in 1 .. Len(t)
    BY <1>1
  <2> HIDE DEF t
  <2>2. /\ AddSigners(t, i, X) \in Seq(Entry)
        /\ Len(AddSigners(t, i, X)) = Len(t)
        /\ AddSigners(t, i, X)[i].block = t[i].block
    BY <1>3, <2>1, AddSignersTable, Zenon
  <2> QED
    BY <2>1, <2>2 DEF t
<1> HIDE DEF table
<1>6. CommitStep(n, table, {i})
  BY <1>4, <1>5, TryCommitIsStep
<1>7. CASE ~Member(n, b)
  BY <1>0, <1>5, <1>6, <1>7, CommitRefines, Zenon DEF CastVote
<1>8. CASE Member(n, b)
  <2>1. votes' = votes \cup {SignedBy(n, b)}
    BY <1>8, Zenon DEF CastVote
  <2>2. CASE UNCHANGED <<chain, certs, anns>>
    <3>1. Sign(n, Append(chain[n], p))
      BY <1>2, <1>8, <2>1, <2>2, CandidatePrio, Zenon DEF Sign
    <3> QED
      BY <3>1 DEF FNext
  <2>3. CASE /\ ValidBlock(n, table[i].block, table[i].signers)
             /\ Extend(n, table[i].block, table[i].signers)
    <3>1. table[i] \in Entry
      BY <1>5, ElementOfSeq, Zenon
    <3>2. table[i].signers \in SUBSET Node
      BY <3>1 DEF Entry
    <3>3. Finalise(n, Append(chain[n], p), table[i].signers)
      BY <1>2, <1>5, <1>8, <2>1, <2>3, Zenon DEF Finalise
    <3> QED
      BY <3>2, <3>3 DEF FNext
  <2> QED
    BY <1>6, <2>2, <2>3, Zenon DEF CommitStep
<1> QED
  BY <1>7, <1>8

\* Every step of the engine is a step of the finality specification or leaves its
\* variables alone.
LEMMA StepRefines == CInv /\ [Next]_vars => [FNext]_fvars
<1> SUFFICES ASSUME CInv, [Next]_vars PROVE [FNext]_fvars
  OBVIOUS
<1>0. TypeOK
  BY DEF CInv
<1>1. ASSUME NEW n \in Node, StartSlot(n) \/ StashBlock(n) \/ NoVote(n) \/ DownTime(n) \/ Restart(n)
      PROVE  [FNext]_fvars
  BY <1>1, Zenon DEF StartSlot, StashBlock, NoVote, DownTime, Restart, fvars
<1>2. ASSUME NEW n \in Node, VoteForLowest(n) \/ Reaffirm(n) PROVE [FNext]_fvars
  <2>1. /\ \E i \in Candidates(n) : CastVote(n, i)
        /\ UNCHANGED genesisLive
    BY <1>2 DEF VoteForLowest, Reaffirm, Lowest
  <2> QED
    BY <2>1, CastVoteRefines, ZenonT(40)
<1>3. ASSUME NEW n \in Node, SealPhase(n) PROVE [FNext]_fvars
  <2>1. pending[n] \in Seq(Entry) /\ UNCHANGED <<votes, genesisLive>>
    BY <1>0, <1>3 DEF TypeOK, SealPhase
  <2>2. CommitStep(n, pending[n], 1 .. Len(pending[n]))
    BY <1>0, <1>3, SealPhaseIsStep, Zenon
  <2> QED
    BY <1>0, <2>1, <2>2, CommitRefines, Zenon
<1>4. ASSUME NEW n \in Node, NetworkThread(n) PROVE [FNext]_fvars
  <2>1. \E table \in Seq(Entry) : \E i \in 1 .. Len(table) : TryCommit(n, table, i)
    <3>1. ASSUME NEW m \in anns, MergeBlock(n, m)
          PROVE  \E i \in DOMAIN pending[n], X \in SUBSET Node :
                   TryCommit(n, AddSigners(pending[n], i, X), i)
      BY <1>0, <3>1 DEF MergeBlock, TypeOK, Announcement
    <3>2. ASSUME NEW v \in votes, HandleVote(n, v)
          PROVE  \E i \in DOMAIN pending[n], X \in SUBSET Node :
                   TryCommit(n, AddSigners(pending[n], i, X), i)
      BY <1>0, <3>2, Zenon DEF HandleVote, TypeOK, FTypeOK, Vote
    <3>3. ASSUME NEW i \in DOMAIN pending[n], NEW X \in SUBSET Node,
                 TryCommit(n, AddSigners(pending[n], i, X), i)
          PROVE  \E table \in Seq(Entry) : \E j \in 1 .. Len(table) : TryCommit(n, table, j)
      <4>1. pending[n] \in Seq(Entry) /\ i \in 1 .. Len(pending[n])
        BY <1>0, LenProperties, Zenon DEF TypeOK
      <4>2. /\ AddSigners(pending[n], i, X) \in Seq(Entry)
            /\ i \in 1 .. Len(AddSigners(pending[n], i, X))
        BY <4>1, AddSignersTable
      <4> QED
        BY <3>3, <4>2
    <3>4. ASSUME NEW m \in anns, ReceiveBlock(n, m)
          PROVE  \E table \in Seq(Entry) : \E j \in 1 .. Len(table) : TryCommit(n, table, j)
      <4> DEFINE e == [block |-> m.block, signers |-> m.cert, reached |-> FALSE]
                 table == PendingAlloc(pending[n], e)
      <4>1. e \in Entry /\ pending[n] \in Seq(Entry)
        BY <1>0, Zenon DEF TypeOK, Announcement, Entry
      <4>2. TryCommit(n, table, Len(table))
        BY <3>4, Zenon DEF ReceiveBlock
      <4> HIDE DEF e
      <4>3. table \in Seq(Entry) /\ Len(table) \in Nat \ {0}
        BY <4>1, PendingAllocTable, Zenon
      <4> HIDE DEF table
      <4> QED
        BY <4>2, <4>3
    <3> QED
      BY <1>4, <3>1, <3>2, <3>3, <3>4, Zenon DEF NetworkThread
  <2>2. PICK table \in Seq(Entry) : \E i \in 1 .. Len(table) : TryCommit(n, table, i)
    BY <2>1
  <2>3. PICK i \in 1 .. Len(table) : TryCommit(n, table, i)
    BY <2>2, Zenon
  <2>4. CommitStep(n, table, {i}) /\ {i} \in SUBSET (1 .. Len(table))
    BY <2>3, TryCommitIsStep
  <2>5. UNCHANGED <<votes, genesisLive>>
    BY <1>4, Zenon DEF NetworkThread, MergeBlock, ReceiveBlock, HandleVote
  <2> QED
    BY <1>0, <2>4, <2>5, CommitRefines
<1>5. ASSUME NEW n \in Node, Crash(n) PROVE [FNext]_fvars
  <2>1. /\ genesisLive' = [genesisLive EXCEPT ![n] = FALSE]
        /\ UNCHANGED <<chain, certs, votes>>
    BY <1>5 DEF Crash
  <2>2. CASE genesisLive[n]
    BY <2>1, <2>2, Zenon DEF Reopen, FNext
  <2>3. CASE ~genesisLive[n]
    <3>1. genesisLive' = genesisLive
      BY <1>0, <2>1, <2>3, Zenon DEF TypeOK, FTypeOK
    <3> QED
      BY <2>1, <3>1, Zenon DEF fvars
  <2> QED
    BY <2>2, <2>3, Zenon
<1>6. CASE UNCHANGED vars
  BY <1>6 DEF vars, fvars
<1> QED
  BY <1>1, <1>2, <1>3, <1>4, <1>5, <1>6 DEF Next, SlotThread

\* The engine implements Finality: every block its slot and network threads commit, in
\* any order, is one that ac_chain_accept_block accepts with a valid certificate.
THEOREM EngineImplementsFinality == Spec => FSpec
<1>1. Init => FInit
  BY DEF Init, FInit
<1> QED
  BY <1>1, StepRefines, CInvAlways, PTL DEF Spec, FSpec

\* So forks of the running engine are provable equivocation, too, restarts included.
THEOREM EngineForksAccountable == Spec => []Accountability
BY EngineImplementsFinality, ForksAreAccountable, PTL

\* And it never rolls back a committed block.
THEOREM EngineAppendOnly == Spec => AppendOnly
BY EngineImplementsFinality, ChainsAppendOnly, PTL

-----------------------------------------------------------------------------
(* The weights: ac_isqrt_u64 *)

\* The quotient and the remainder of a division.
LEMMA Quotient ==
  ASSUME NEW a \in Nat, NEW b \in Nat, b > 0
  PROVE  a \div b \in Nat /\ (a \div b) * b <= a /\ a < (a \div b) * b + b
  OBVIOUS

\* A number is at most the quotient by it exactly when its square is at most the dividend,
\* which is how the loops compare without overflow.
LEMMA SquareTest ==
  ASSUME NEW a \in Nat, NEW b \in Nat, b > 0
  PROVE  b <= a \div b <=> b * b <= a
<1>1. PICK q \in Nat : q = a \div b /\ q * b <= a /\ a < q * b + b
  BY Quotient
<1>2. ASSUME b <= q PROVE b * b <= a
  BY <1>1, <1>2
<1>3. ASSUME q < b PROVE a < b * b
  BY <1>1, <1>3
<1> QED
  BY <1>1, <1>2, <1>3

\* Newton's step from a number r > 0 gives no less than the root, as the geometric mean is
\* at most the arithmetic one.
LEMMA StaysAbove ==
  ASSUME NEW a \in Nat, NEW b \in Nat, b > 0, NEW n \in Nat, n = (b + a \div b) \div 2
  PROVE  a < (n + 1) * (n + 1)
<1>1. PICK q \in Nat : q = a \div b /\ a < q * b + b
  BY Quotient
<1>2. b + q + 1 <= 2 * (n + 1)
  BY <1>1
<1>3. 4 * (b * (q + 1)) <= (b + q + 1) * (b + q + 1)
  <2>1. PICK d \in Int : d = b - (q + 1)
    OBVIOUS
  <2>2. d * d >= 0
    OBVIOUS
  <2>3. (b + q + 1) * (b + q + 1) = d * d + 4 * (b * (q + 1))
    BY <2>1
  <2> QED
    BY <2>2, <2>3
<1>4. (b + q + 1) * (b + q + 1) <= (2 * (n + 1)) * (2 * (n + 1))
  BY <1>2
<1>5. a < b * (q + 1)
  BY <1>1
<1> QED
  BY <1>3, <1>4, <1>5

\* Above the root, the sum of the iteration is small.
LEMMA SmallSum ==
  ASSUME NEW a \in Nat, NEW b \in Nat, b > 0, a < (b + 1) * (b + 1)
  PROVE  a \div b <= b + 2
<1>1. PICK q \in Nat : q = a \div b /\ q * b <= a
  BY Quotient
<1>2. ASSUME q > b + 2 PROVE FALSE
  <2>1. (b + 3) * b <= q * b
    BY <1>2
  <2>2. (b + 3) * b = b * b + 3 * b /\ (b + 1) * (b + 1) = b * b + 2 * b + 1
    OBVIOUS
  <2> QED
    BY <1>1, <2>1, <2>2
<1> QED
  BY <1>1, <1>2

\* The bound holds at the start: the root of a word is at most SqrtMax.
LEMMA RInvInit == ASSUME WordWidth, RInit PROVE RInv
<1>1. SqrtMax \in Nat /\ word \in 0 .. Word - 1 /\ Word \in Nat /\ word \in Nat
  BY DEF WordWidth, RInit, Word
<1>2. CASE word > SqrtMax
  BY <1>1, <1>2 DEF WordWidth, RInit, RInv, Word
<1>3. CASE word <= SqrtMax
  <2>1. root = word
    BY <1>1, <1>3 DEF RInit
  <2>2. word < (word + 1) * (word + 1)
    BY <1>1
  <2>3. word <= 1 => word * word <= word
    BY <1>1
  <2> QED
    BY <1>1, <1>3, <2>1, <2>2, <2>3 DEF RInit, RInv
<1> QED
  BY <1>1, <1>2, <1>3

\* What the invariant says of the iteration's sum.
LEMMA SumFits == ASSUME WordWidth, RInv PROVE NoWrap
<1> SUFFICES ASSUME phase = "newton" PROVE root > 0 /\ root + word \div root < Word
  BY DEF NoWrap
<1>1. /\ word \in Nat /\ root \in Nat /\ root > 0 /\ root <= SqrtMax /\ SqrtMax \in Nat
      /\ word < (root + 1) * (root + 1)
  BY DEF RInv, WordWidth
<1>2. word \div root \in Nat /\ word \div root <= root + 2
  BY <1>1, SmallSum, Quotient
<1>3. 2 * SqrtMax + 2 < Word
  <2>1. SqrtMax * SqrtMax >= 2 * SqrtMax
    BY DEF WordWidth
  <2>2. Word = SqrtMax * SqrtMax + 2 * SqrtMax + 1
    BY <1>1 DEF Word
  <2> QED
    BY <1>1, <2>1, <2>2 DEF WordWidth
<1>4. Word \in Nat
  BY <1>1 DEF Word
<1> QED
  BY <1>1, <1>2, <1>3, <1>4

\* Every step keeps the invariant, and the loops after the iteration leave the result alone.
LEMMA RInvStep ==
  ASSUME WordWidth, RInv, [RNext]_rvars
  PROVE  RInv' /\ (phase # "newton" => root' = root)
<1>1. /\ word \in Nat /\ root \in Nat /\ SqrtMax \in Nat /\ root <= SqrtMax
      /\ word < (root + 1) * (root + 1) /\ Word \in Nat
  BY DEF RInv, WordWidth, Word
<1>2. CASE Newton
  <2>1. PICK q \in Nat : q = word \div root
    BY <1>1, <1>2, Quotient, Zenon DEF Newton, RInv
  <2>2. root > 0 /\ root + q < Word
    BY <1>2, <2>1, SumFits DEF Newton, NoWrap
  <2>3. (root + word \div root) % Word = root + q
    BY <1>1, <2>1, <2>2
  <2>4. PICK nr \in Nat : nr = (root + q) \div 2
    BY <1>1, <2>1
  <2>5. /\ \/ nr >= root /\ phase' = "down" /\ root' = root
           \/ nr < root /\ root' = nr /\ phase' = phase
        /\ word' = word /\ phase = "newton"
    BY <1>2, <2>3, <2>4 DEF Newton
  <2>6. word < (nr + 1) * (nr + 1)
    BY <1>1, <2>1, <2>2, <2>4, StaysAbove
  <2>7. nr > 0
    <3>1. root = 1 => q >= 1
      <4>1. root = 1 => q = word
        BY <1>1, <2>1
      <4> QED
        BY <1>1, <2>5, <4>1 DEF RInv
    <3> QED
      BY <1>1, <2>1, <2>2, <2>4, <3>1
  <2>8. nr >= root => root * root <= word
    <3>1. nr >= root => root <= q
      BY <1>1, <2>1, <2>4
    <3> QED
      BY <1>1, <2>1, <2>2, <3>1, SquareTest, Zenon
  <2> QED
    BY <1>1, <2>5, <2>6, <2>7, <2>8 DEF RInv
<1>3. CASE CorrectDown
  <2>1. root * root <= word
    BY <1>3, Zenon DEF CorrectDown, RInv
  <2>2. ~TooLarge
    BY <1>1, <2>1, SquareTest, Quotient DEF TooLarge
  <2> QED
    BY <1>3, <2>2 DEF CorrectDown, RInv
<1>4. CASE CorrectUp
  <2>1. word < (root + 1) * (root + 1) /\ root + 1 \in Nat /\ root + 1 > 0
    BY <1>1
  <2>2. ~TooSmall
    BY <1>1, <2>1, SquareTest, Quotient DEF TooSmall
  <2> QED
    BY <1>4, <2>2 DEF CorrectUp, RInv
<1>5. CASE UNCHANGED rvars
  BY <1>5 DEF rvars, RInv
<1> QED
  BY <1>2, <1>3, <1>4, <1>5, Zenon DEF RNext

\* ac_isqrt_u64 returns the integer square root of every word.
THEOREM RootIsExact == WordWidth => (RSpec => []IsRoot)
<1> SUFFICES ASSUME WordWidth PROVE RSpec => []IsRoot
  OBVIOUS
<1>1. RInit => RInv
  BY RInvInit
<1>2. RInv /\ [RNext]_rvars => RInv'
  BY RInvStep
<1>3. RInv => IsRoot
  BY DEF RInv, IsRoot
<1> QED
  BY <1>1, <1>2, <1>3, PTL DEF RSpec

\* It divides by no zero and adds without overflow on the way.
THEOREM SumsDoNotWrap == WordWidth => (RSpec => []NoWrap)
<1> SUFFICES ASSUME WordWidth PROVE RSpec => []NoWrap
  OBVIOUS
<1>1. RInit => RInv
  BY RInvInit
<1>2. RInv /\ [RNext]_rvars => RInv'
  BY RInvStep
<1>3. RInv => NoWrap
  BY SumFits
<1> QED
  BY <1>1, <1>2, <1>3, PTL DEF RSpec

\* Its two correction loops never change the result of the iteration.
THEOREM CorrectionsAreIdle == WordWidth => (RSpec => CorrectionsIdle)
<1> SUFFICES ASSUME WordWidth PROVE RSpec => CorrectionsIdle
  OBVIOUS
<1>1. RInit => RInv
  BY RInvInit
<1>2. RInv /\ [RNext]_rvars => RInv'
  BY RInvStep
<1>3. RInv /\ [RNext]_rvars => [phase # "newton" => root' = root]_rvars
  BY RInvStep
<1> QED
  BY <1>1, <1>2, <1>3, PTL DEF RSpec, CorrectionsIdle
=============================================================================
