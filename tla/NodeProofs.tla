----------------------------- MODULE NodeProofs -----------------------------
(***************************************************************************)
(* What a node keeps. Its dedup ring, for every network and every number   *)
(* of messages. Its files: what survives failed writes and stops, for any  *)
(* number of them and chains of any height. Its cached epoch seed: it is   *)
(* the chain's, for epochs of any length.                                  *)
(***************************************************************************)
EXTENDS Gossip, Seeds, FiniteSetTheorems, WellFoundedInduction, TLAPS

\* Time limits for the provers, in seconds.
USE SMTT(30), ZenonT(30)

-----------------------------------------------------------------------------
(* Sequences *)

\* Their lengths and elements.
LEMMA SeqTypes ==
  ASSUME NEW S, NEW s \in Seq(S)
  PROVE  Len(s) \in Nat /\ \A i \in 1 .. Len(s) : s[i] \in S
  OBVIOUS

\* The empty one is the one of length zero.
LEMMA EmptyIs ==
  ASSUME NEW S
  PROVE  << >> \in Seq(S) /\ Len(<< >>) = 0 /\ \A s \in Seq(S) : s = << >> <=> Len(s) = 0
  OBVIOUS

\* Two with the same elements are the same.
LEMMA SameSeq ==
  ASSUME NEW S, NEW s \in Seq(S), NEW t \in Seq(S), Len(s) = Len(t),
         \A i \in 1 .. Len(s) : s[i] = t[i]
  PROVE  s = t
  OBVIOUS

\* One more element at the end.
LEMMA AppendIs ==
  ASSUME NEW S, NEW s \in Seq(S), NEW x \in S
  PROVE  /\ Append(s, x) \in Seq(S) /\ Len(Append(s, x)) = Len(s) + 1
         /\ \A i \in 1 .. Len(s) : Append(s, x)[i] = s[i]
         /\ Append(s, x)[Len(s) + 1] = x
  OBVIOUS

\* The first element, and the others.
LEMMA HeadTailAre ==
  ASSUME NEW S, NEW s \in Seq(S), s # << >>
  PROVE  Head(s) \in S /\ Tail(s) \in Seq(S) /\ Len(Tail(s)) = Len(s) - 1
  OBVIOUS

-----------------------------------------------------------------------------
(* The dedup ring: the inductive invariant *)

\* A reader that has stored its message finds it in the ring.
StoredFound == \A e \in Link : rd[e] = "stored" => DedupHas(e[2], inHand[e])

\* P: the neighbours whose reader has stored a message, with the message. A reader that is
\* about to store one has not stored that one before.
StoredBy(n, P) ==
  /\ Len(ring[n]) <= Cardinality(P)
  /\ \A x \in P : DedupHas(n, x[2])
  /\ \A p \in Neighbours(n) :
       rd[<<p, n>>] = "new" => <<p, inHand[<<p, n>>]>> \notin P

StoredOnce == \A n \in Node : \E P \in SUBSET (Neighbours(n) \X Msg) : StoredBy(n, P)

\* D: the neighbours whose reader has handled m. None of them handles it again.
HandledBy(n, m, D) ==
  /\ calls[n][m] <= Cardinality(D)
  /\ D # {} => DedupHas(n, m)
  /\ \A p \in D : rd[<<p, n>>] # "recv" => inHand[<<p, n>>] # m

HandledOnce == \A n \in Node, m \in Msg : \E D \in SUBSET Neighbours(n) : HandledBy(n, m, D)

GInv == GTypeOK /\ StoredFound /\ StoredOnce /\ HandledOnce

USE GossipAssumption

-----------------------------------------------------------------------------
(* Links and their ends *)

\* The ends of a link are nodes, and its sender is a neighbour of its receiver.
LEMMA LinkEnds ==
  ASSUME NEW e \in Link
  PROVE  /\ e[1] \in Node /\ e[2] \in Node /\ e = <<e[1], e[2]>>
         /\ e[1] \in Neighbours(e[2]) /\ <<e[2], e[1]>> \in Link
<1>1. e \in Node \X Node
  OBVIOUS
<1>2. e[1] \in Node /\ e[2] \in Node /\ e = <<e[1], e[2]>>
  BY <1>1
<1> QED
  BY <1>2 DEF Neighbours

\* The link from a neighbour.
LEMMA NeighbourLink ==
  ASSUME NEW n \in Node, NEW p \in Neighbours(n)
  PROVE  <<p, n>> \in Link /\ p \in Node
  BY DEF Neighbours

\* Pairs of neighbours and messages can be counted.
LEMMA PairsFinite ==
  ASSUME NEW n \in Node, NEW P \in SUBSET (Neighbours(n) \X Msg)
  PROVE  /\ IsFiniteSet(P) /\ Cardinality(P) \in Nat
         /\ RingLarge => Cardinality(P) <= RingCap
<1>1. IsFiniteSet(Neighbours(n)) /\ Cardinality(Neighbours(n)) \in Nat
  BY FS_Subset, FS_CardinalityType, Zenon DEF Neighbours
<1>2. /\ IsFiniteSet(Neighbours(n) \X Msg)
      /\ Cardinality(Neighbours(n) \X Msg) = Cardinality(Neighbours(n)) * Cardinality(Msg)
  BY <1>1, FS_Product
<1>3. /\ IsFiniteSet(P) /\ Cardinality(P) <= Cardinality(Neighbours(n) \X Msg)
  BY <1>2, FS_Subset
<1>4. Cardinality(P) \in Nat /\ Cardinality(Neighbours(n) \X Msg) \in Nat
  BY <1>2, <1>3, FS_CardinalityType
<1> QED
  BY <1>2, <1>3, <1>4 DEF RingLarge

\* So can neighbours.
LEMMA NeighboursFinite ==
  ASSUME NEW n \in Node, NEW D \in SUBSET Neighbours(n)
  PROVE  /\ IsFiniteSet(D) /\ Cardinality(D) \in Nat
         /\ Cardinality(D) <= Cardinality(Neighbours(n))
         /\ Cardinality(Neighbours(n)) \in Nat
         /\ Cardinality(D) = 0 <=> D = {}
<1>1. IsFiniteSet(Neighbours(n)) /\ Cardinality(Neighbours(n)) \in Nat
  BY FS_Subset, FS_CardinalityType, Zenon DEF Neighbours
<1>2. IsFiniteSet(D) /\ Cardinality(D) <= Cardinality(Neighbours(n))
  BY <1>1, FS_Subset
<1> QED
  BY <1>1, <1>2, FS_CardinalityType, FS_EmptySet

\* CallMax is a natural number.
LEMMA CallMaxNat == CallMax \in Nat
  BY FS_CardinalityType DEF CallMax

-----------------------------------------------------------------------------
(* Types *)

\* ac_net_broadcast keeps the queues and the links in order (peer_enqueue).
LEMMA BroadcastTypes ==
  ASSUME GTypeOK, NEW n \in Node, NEW m \in Msg, NEW X, Broadcast(n, m, X)
  PROVE  /\ queue' \in [Link -> Seq(Msg)] /\ \A e \in Link : Len(queue'[e]) <= QueueMax
         /\ up' \subseteq Link /\ \A e \in up' : <<e[2], e[1]>> \in up'
         /\ overflow' \in BOOLEAN
<1> DEFINE to == {e \in up : e[1] = n /\ e[2] \notin X}
           full == {e \in to : Full(e)}
<1>1. /\ queue' = [e \in Link |-> IF e \in to \ full THEN Append(queue[e], m) ELSE queue[e]]
      /\ up' = up \ Both(full)
      /\ overflow' = (overflow \/ full # {})
  BY DEF Broadcast
<1>2. ASSUME NEW e \in Link
      PROVE  queue'[e] \in Seq(Msg) /\ Len(queue'[e]) <= QueueMax
  <2>1. queue[e] \in Seq(Msg) /\ Len(queue[e]) \in Nat /\ Len(queue[e]) <= QueueMax
    BY SeqTypes DEF GTypeOK
  <2>2. /\ Append(queue[e], m) \in Seq(Msg)
        /\ Len(Append(queue[e], m)) = Len(queue[e]) + 1
    BY <2>1, AppendIs
  <2>3. e \in to \ full => Len(queue[e]) < QueueMax
    BY <2>1 DEF Full
  <2>4. queue'[e] = IF e \in to \ full THEN Append(queue[e], m) ELSE queue[e]
    BY <1>1
  <2> HIDE DEF to, full
  <2> QED
    BY <2>1, <2>2, <2>3, <2>4
<1>3. queue' \in [Link -> Seq(Msg)]
  <2> HIDE DEF to, full
  <2> QED
    BY <1>1, <1>2
<1>4. up' \subseteq Link
  BY <1>1 DEF GTypeOK
<1>5. ASSUME NEW e \in up' PROVE <<e[2], e[1]>> \in up'
  <2>1. e \in up /\ e \in Link /\ e \notin Both(full) /\ <<e[2], e[1]>> \in up
    BY <1>1 DEF GTypeOK
  <2>2. e = <<e[1], e[2]>>
    BY <2>1, LinkEnds
  <2>3. <<e[2], e[1]>> \notin Both(full)
    <3> SUFFICES ASSUME <<e[2], e[1]>> \in Both(full) PROVE FALSE
      OBVIOUS
    <3>1. CASE <<e[2], e[1]>> \in full
      BY <2>1, <2>2, <3>1 DEF Both
    <3>2. CASE \E d \in full : <<e[2], e[1]>> = <<d[2], d[1]>>
      <4>1. PICK d \in full : <<e[2], e[1]>> = <<d[2], d[1]>>
        BY <3>2
      <4>2. d \in Link
        BY DEF GTypeOK
      <4>3. d = <<d[1], d[2]>> /\ d[1] = e[1] /\ d[2] = e[2]
        BY <4>1, <4>2, LinkEnds
      <4> QED
        BY <2>1, <2>2, <4>1, <4>3 DEF Both
    <3> QED
      BY <3>1, <3>2 DEF Both
  <2> QED
    BY <1>1, <2>1, <2>3
<1> QED
  BY <1>1, <1>2, <1>3, <1>4, <1>5 DEF GTypeOK

\* The place of a reader and its message change together.
LEMMA ReaderTypes ==
  ASSUME GTypeOK, NEW e \in Link, NEW s, NEW m,
         \/ s \in {"new", "stored"} /\ m \in Msg
         \/ s = "recv" /\ m = NoMsg,
         rd' = [rd EXCEPT ![e] = s], inHand' = [inHand EXCEPT ![e] = m]
  PROVE  /\ rd' \in [Link -> {"recv", "new", "stored"}]
         /\ inHand' \in [Link -> Msg \cup {NoMsg}]
         /\ \A d \in Link : rd'[d] = "recv" <=> inHand'[d] = NoMsg
<1>1. rd' \in [Link -> {"recv", "new", "stored"}] /\ inHand' \in [Link -> Msg \cup {NoMsg}]
  BY DEF GTypeOK
<1>2. ASSUME NEW d \in Link
      PROVE  rd'[d] = "recv" <=> inHand'[d] = NoMsg
  <2>1. CASE d = e
    BY <2>1 DEF GTypeOK
  <2>2. CASE d # e
    BY <2>2 DEF GTypeOK
  <2> QED
    BY <2>1, <2>2
<1> QED
  BY <1>1, <1>2

\* frame_recv takes the first message of the stream.
LEMMA TakesHead ==
  ASSUME GTypeOK, NEW e \in Link, queue[e] # <<>>, queue' = [queue EXCEPT ![e] = Tail(@)]
  PROVE  /\ Head(queue[e]) \in Msg
         /\ queue' \in [Link -> Seq(Msg)] /\ \A d \in Link : Len(queue'[d]) <= QueueMax
<1>1. queue[e] \in Seq(Msg) /\ Len(queue[e]) \in Nat /\ Len(queue[e]) <= QueueMax
  BY SeqTypes DEF GTypeOK
<1>2. /\ Head(queue[e]) \in Msg /\ Tail(queue[e]) \in Seq(Msg)
      /\ Len(Tail(queue[e])) = Len(queue[e]) - 1
  BY <1>1, HeadTailAre
<1>3. queue' \in [Link -> Seq(Msg)]
  BY <1>2 DEF GTypeOK
<1>4. ASSUME NEW d \in Link PROVE Len(queue'[d]) <= QueueMax
  <2>1. CASE d = e
    BY <1>1, <1>2, <2>1 DEF GTypeOK
  <2>2. CASE d # e
    BY <2>2 DEF GTypeOK
  <2> QED
    BY <2>1, <2>2
<1> QED
  BY <1>2, <1>3, <1>4

\* The ring before the new entry: a full one without its oldest.
Kept(n) == IF Len(ring[n]) = RingCap THEN Tail(ring[n]) ELSE ring[n]

\* What dedup_remember makes of the ring.
LEMMA RingTypes ==
  ASSUME GTypeOK, NEW n \in Node, NEW m \in Msg, DedupRemember(n, m)
  PROVE  /\ ring' \in [Node -> Seq(Msg)] /\ \A k \in Node : Len(ring'[k]) <= RingCap
         /\ \A k \in Node \ {n} : ring'[k] = ring[k]
         /\ ring'[n] = Append(Kept(n), m)
         /\ Kept(n) \in Seq(Msg) /\ Len(Kept(n)) < RingCap
<1>1. ring[n] \in Seq(Msg) /\ Len(ring[n]) \in Nat /\ Len(ring[n]) <= RingCap
  BY SeqTypes DEF GTypeOK
<1>2. Kept(n) \in Seq(Msg) /\ Len(Kept(n)) < RingCap
  <2>1. CASE Len(ring[n]) = RingCap
    <3>1. ring[n] # <<>>
      BY <1>1, <2>1, EmptyIs
    <3> QED
      BY <1>1, <2>1, <3>1, HeadTailAre DEF Kept
  <2>2. CASE Len(ring[n]) # RingCap
    BY <1>1, <2>2 DEF Kept
  <2> QED
    BY <2>1, <2>2
<1>3. /\ Append(Kept(n), m) \in Seq(Msg)
      /\ Len(Append(Kept(n), m)) = Len(Kept(n)) + 1 /\ Len(Kept(n)) \in Nat
  BY <1>2, AppendIs, SeqTypes
<1>4. ring' = [ring EXCEPT ![n] = Append(Kept(n), m)]
  BY DEF DedupRemember, Kept, GTypeOK
<1>5. /\ ring' \in [Node -> Seq(Msg)]
      /\ \A k \in Node \ {n} : ring'[k] = ring[k]
      /\ ring'[n] = Append(Kept(n), m)
  BY <1>3, <1>4 DEF GTypeOK
<1>6. ASSUME NEW k \in Node PROVE Len(ring'[k]) <= RingCap
  <2>1. CASE k = n
    BY <1>2, <1>3, <1>5, <2>1
  <2>2. CASE k # n
    BY <1>5, <2>2, Zenon DEF GTypeOK
  <2> QED
    BY <2>1, <2>2
<1> QED
  BY <1>2, <1>5, <1>6

\* The count of the callback's calls.
LEMMA CallTypes ==
  ASSUME GTypeOK, NEW e \in Link, NEW m \in Msg, m = inHand[e], Relay(e)
  PROVE  /\ calls' \in [Node -> [Msg -> 0 .. CallMax]]
         /\ calls'[e[2]][m] <= calls[e[2]][m] + 1
         /\ \A k \in Node, x \in Msg : k # e[2] \/ x # m => calls'[k][x] = calls[k][x]
<1> DEFINE n == e[2]
<1>0. n \in Node
  BY LinkEnds
<1>1. CallMax \in Nat /\ calls[n][m] \in 0 .. CallMax /\ calls[n] \in [Msg -> 0 .. CallMax]
  BY <1>0, CallMaxNat DEF GTypeOK
<1> DEFINE c == IF calls[n][m] < CallMax THEN calls[n][m] + 1 ELSE calls[n][m]
<1>2. c \in 0 .. CallMax /\ c <= calls[n][m] + 1
  BY <1>1
<1>3. calls' = [calls EXCEPT ![n] = [calls[n] EXCEPT ![m] = c]]
  BY <1>0 DEF Relay, GTypeOK
<1> HIDE DEF c
<1>4. [calls[n] EXCEPT ![m] = c] \in [Msg -> 0 .. CallMax]
  BY <1>1, <1>2
<1> QED
  BY <1>0, <1>1, <1>2, <1>3, <1>4, Zenon DEF GTypeOK

\* Links that break or come back do so in both directions.
LEMMA BothSymmetric ==
  ASSUME NEW e \in Link, NEW U \in SUBSET Link, \A d \in U : <<d[2], d[1]>> \in U
  PROVE  /\ \A d \in U \ Both({e}) : <<d[2], d[1]>> \in U \ Both({e})
         /\ \A d \in U \cup Both({e}) : <<d[2], d[1]>> \in U \cup Both({e})
         /\ Both({e}) \subseteq Link
<1>1. Both({e}) = {e, <<e[2], e[1]>>} /\ <<e[2], e[1]>> \in Link /\ e = <<e[1], e[2]>>
  BY LinkEnds DEF Both
<1>2. ASSUME NEW d \in U \ Both({e}) PROVE <<d[2], d[1]>> \in U \ Both({e})
  <2>1. d \in Link /\ d = <<d[1], d[2]>>
    BY LinkEnds
  <2> QED
    BY <1>1, <2>1
<1>3. ASSUME NEW d \in U \cup Both({e}) PROVE <<d[2], d[1]>> \in U \cup Both({e})
  <2>1. CASE d \in U
    BY <2>1
  <2>2. CASE d = e
    BY <1>1, <2>2
  <2>3. CASE d = <<e[2], e[1]>>
    <3>1. d[1] = e[2] /\ d[2] = e[1]
      BY <2>3
    <3>2. <<d[2], d[1]>> = e
      BY <1>1, <3>1
    <3> QED
      BY <1>1, <3>2, Zenon
  <2> QED
    BY <1>1, <2>1, <2>2, <2>3, Zenon
<1> QED
  BY <1>1, <1>2, <1>3, ZenonT(40)

\* Every step keeps the types.
LEMMA GTypesStep == GTypeOK /\ [GNext]_gvars => GTypeOK'
<1> SUFFICES ASSUME GTypeOK, [GNext]_gvars PROVE GTypeOK'
  BY Zenon
<1>1. ASSUME NEW m \in Msg, Originate(m) PROVE GTypeOK'
  <2>1. Origin[m] \in Node
    OBVIOUS
  <2>2. /\ queue' \in [Link -> Seq(Msg)] /\ \A e \in Link : Len(queue'[e]) <= QueueMax
        /\ up' \subseteq Link /\ \A e \in up' : <<e[2], e[1]>> \in up'
        /\ overflow' \in BOOLEAN
    BY <1>1, <2>1, BroadcastTypes DEF Originate
  <2> QED
    BY <1>1, <2>2 DEF Originate, GTypeOK
<1>2. ASSUME NEW e \in Link, Receive(e) PROVE GTypeOK'
  <2>1. /\ Head(queue[e]) \in Msg
        /\ queue' \in [Link -> Seq(Msg)] /\ \A d \in Link : Len(queue'[d]) <= QueueMax
    BY <1>2, TakesHead, Zenon DEF Receive
  <2>2. /\ rd' \in [Link -> {"recv", "new", "stored"}]
        /\ inHand' \in [Link -> Msg \cup {NoMsg}]
        /\ \A d \in Link : rd'[d] = "recv" <=> inHand'[d] = NoMsg
    <3>1. CASE DedupHas(e[2], Head(queue[e]))
      BY <1>2, <3>1, Zenon DEF Receive, GTypeOK
    <3>2. CASE ~DedupHas(e[2], Head(queue[e]))
      BY <1>2, <2>1, <3>2, ReaderTypes, Zenon DEF Receive
    <3> QED
      BY <3>1, <3>2, Zenon
  <2> QED
    BY <1>2, <2>1, <2>2, Zenon DEF Receive, GTypeOK
<1>3. ASSUME NEW e \in Link, Remember(e) PROVE GTypeOK'
  <2>1. inHand[e] \in Msg /\ e[2] \in Node
    BY <1>3, LinkEnds, Zenon DEF Remember, GTypeOK
  <2>2. ring' \in [Node -> Seq(Msg)] /\ \A k \in Node : Len(ring'[k]) <= RingCap
    BY <1>3, <2>1, RingTypes DEF Remember
  <2>3. inHand' = [inHand EXCEPT ![e] = inHand[e]] /\ rd' = [rd EXCEPT ![e] = "stored"]
    BY <1>3 DEF Remember, GTypeOK
  <2>4. /\ rd' \in [Link -> {"recv", "new", "stored"}]
        /\ inHand' \in [Link -> Msg \cup {NoMsg}]
        /\ \A d \in Link : rd'[d] = "recv" <=> inHand'[d] = NoMsg
    BY <2>1, <2>3, ReaderTypes, Zenon
  <2> QED
    BY <1>3, <2>2, <2>4, Zenon DEF Remember, GTypeOK
<1>4. ASSUME NEW e \in Link, Relay(e) PROVE GTypeOK'
  <2>1. inHand[e] \in Msg /\ e[2] \in Node
    BY <1>4, LinkEnds, Zenon DEF Relay, GTypeOK
  <2>2. /\ queue' \in [Link -> Seq(Msg)] /\ \A d \in Link : Len(queue'[d]) <= QueueMax
        /\ up' \subseteq Link /\ \A d \in up' : <<d[2], d[1]>> \in up'
        /\ overflow' \in BOOLEAN
    BY <1>4, <2>1, BroadcastTypes, Zenon DEF Relay
  <2>3. /\ rd' \in [Link -> {"recv", "new", "stored"}]
        /\ inHand' \in [Link -> Msg \cup {NoMsg}]
        /\ \A d \in Link : rd'[d] = "recv" <=> inHand'[d] = NoMsg
    BY <1>4, ReaderTypes, Zenon DEF Relay
  <2>4. calls' \in [Node -> [Msg -> 0 .. CallMax]]
    BY <1>4, <2>1, CallTypes
  <2> QED
    BY <1>4, <2>2, <2>3, <2>4 DEF Relay, GTypeOK
<1>5. ASSUME NEW e \in Link, Break(e) PROVE GTypeOK'
  <2>1. up' \subseteq Link /\ \A d \in up' : <<d[2], d[1]>> \in up'
    BY <1>5, BothSymmetric, Zenon DEF Break, GTypeOK
  <2>2. breaks' \in 0 .. MaxBreaks
    BY <1>5 DEF Break, GTypeOK
  <2> QED
    BY <1>5, <2>1, <2>2, Zenon DEF Break, GTypeOK
<1>6. ASSUME NEW e \in Link, Lose(e) PROVE GTypeOK'
  <2>1. <<>> \in Seq(Msg) /\ Len(<<>>) = 0
    OBVIOUS
  <2>2. queue' \in [Link -> Seq(Msg)]
    BY <1>6, <2>1 DEF Lose, GTypeOK
  <2>3. ASSUME NEW d \in Link PROVE Len(queue'[d]) <= QueueMax
    BY <1>6, <2>1 DEF Lose, GTypeOK
  <2> QED
    BY <1>6, <2>2, <2>3, Zenon DEF Lose, GTypeOK
<1>7. ASSUME NEW e \in Link, Reconnect(e) PROVE GTypeOK'
  <2>1. up' \subseteq Link /\ \A d \in up' : <<d[2], d[1]>> \in up'
    BY <1>7, BothSymmetric, Zenon DEF Reconnect, GTypeOK
  <2> QED
    BY <1>7, <2>1, Zenon DEF Reconnect, GTypeOK
<1>8. CASE UNCHANGED gvars
  BY <1>8, Zenon DEF gvars, GTypeOK
<1> QED
  BY <1>1, <1>2, <1>3, <1>4, <1>5, <1>6, <1>7, <1>8 DEF GNext, ReaderStep

\* A network that has just started is well typed.
LEMMA GTypesInit == GInit => GTypeOK
<1> SUFFICES ASSUME GInit PROVE GTypeOK
  OBVIOUS
<1>1. <<>> \in Seq(Msg) /\ Len(<<>>) = 0 /\ CallMax \in Nat
  BY CallMaxNat
<1>2. queue \in [Link -> Seq(Msg)] /\ \A e \in Link : Len(queue[e]) <= QueueMax
  BY <1>1 DEF GInit
<1>3. ring \in [Node -> Seq(Msg)] /\ \A n \in Node : Len(ring[n]) <= RingCap
  BY <1>1 DEF GInit
<1>4. calls \in [Node -> [Msg -> 0 .. CallMax]]
  BY <1>1 DEF GInit
<1>5. rd \in [Link -> {"recv", "new", "stored"}] /\ inHand \in [Link -> Msg \cup {NoMsg}]
  BY DEF GInit
<1>6. up \subseteq Link /\ \A e \in up : <<e[2], e[1]>> \in up
  BY DEF GInit
<1>7. \A e \in Link : rd[e] = "recv" <=> inHand[e] = NoMsg
  BY DEF GInit
<1>8. sent \subseteq Msg /\ breaks \in 0 .. MaxBreaks
  BY DEF GInit
<1>9. overflow \in BOOLEAN
  BY Zenon DEF GInit
<1> QED
  BY <1>2, <1>3, <1>4, <1>5, <1>6, <1>7, <1>8, <1>9, Zenon DEF GTypeOK

\* The queues (peer_enqueue) and the ring (dedup_remember) stay within their capacity, and
\* a reader has a message in hand exactly between frame_recv and the end of its relay,
\* in every network.
THEOREM GossipTypes == GSpec => []GTypeOK
<1> QED
  BY GTypesInit, GTypesStep, PTL DEF GSpec

-----------------------------------------------------------------------------
(* What the ring remembers *)

\* The start.
LEMMA GInvInit == GInit => GInv
<1> SUFFICES ASSUME GInit PROVE GInv
  OBVIOUS
<1>1. GTypeOK
  BY GTypesInit
<1>2. StoredFound
  BY DEF GInit, StoredFound
<1>3. \A e \in Link : rd[e] = "recv"
  BY DEF GInit
<1>4. Cardinality({}) = 0
  BY FS_EmptySet
<1>5. ASSUME NEW n \in Node PROVE StoredBy(n, {})
  <2>1. Len(ring[n]) <= 0
    BY DEF GInit
  <2>2. ASSUME NEW p \in Neighbours(n) PROVE rd[<<p, n>>] # "new"
    BY <1>3, NeighbourLink
  <2> QED
    BY <1>4, <2>1, <2>2 DEF StoredBy
<1>6. ASSUME NEW n \in Node, NEW m \in Msg PROVE HandledBy(n, m, {})
  BY <1>4 DEF GInit, HandledBy
<1> QED
  BY <1>1, <1>2, <1>5, <1>6 DEF GInv, StoredOnce, HandledOnce

\* A step that touches neither the ring nor the readers.
LEMMA ReadersStay ==
  ASSUME GInv, GTypeOK', UNCHANGED <<ring, rd, inHand, calls>>
  PROVE  GInv'
<1>1. ASSUME NEW n \in Node, NEW m \in Msg
      PROVE  \E D \in SUBSET Neighbours(n) : HandledBy(n, m, D)'
  <2>1. PICK D \in SUBSET Neighbours(n) : HandledBy(n, m, D)
    BY Zenon DEF GInv, HandledOnce
  <2>2. HandledBy(n, m, D)'
    BY <2>1 DEF HandledBy, DedupHas
  <2> QED
    BY <2>2
<1>2. StoredFound'
  BY Zenon DEF GInv, StoredFound, DedupHas
<1>3. StoredOnce'
  BY DEF GInv, StoredOnce, StoredBy, DedupHas
<1>4. HandledOnce'
  BY <1>1 DEF HandledOnce, Neighbours
<1> QED
  BY <1>2, <1>3, <1>4 DEF GInv

\* dispatch_message looks a message up that is new to the node: its reader has neither
\* stored nor handled it before.
LEMMA ReceiveKnows ==
  ASSUME GInv, GTypeOK', NEW e \in Link, Receive(e)
  PROVE  GInv'
<1> DEFINE n == e[2]
           m == Head(queue[e])
<1>1. CASE DedupHas(n, m)
  BY <1>1, ReadersStay DEF Receive
<1>2. CASE ~DedupHas(n, m)
  <2>1. /\ rd' = [rd EXCEPT ![e] = "new"] /\ inHand' = [inHand EXCEPT ![e] = m]
        /\ ring' = ring /\ calls' = calls
    BY <1>2 DEF Receive
  <2>2. m \in Msg /\ n \in Node /\ e = <<e[1], n>> /\ e[1] \in Neighbours(n)
    BY TakesHead, LinkEnds, Zenon DEF Receive, GInv
  <2>3. rd'[e] = "new" /\ inHand'[e] = m
    BY <2>1, Zenon DEF GInv, GTypeOK
  <2>4. \A d \in Link \ {e} : rd'[d] = rd[d] /\ inHand'[d] = inHand[d]
    BY <2>1 DEF GInv, GTypeOK
  <2> HIDE DEF m
  <2>5. \A k, x : DedupHas(k, x)' <=> DedupHas(k, x)
    BY <2>1 DEF DedupHas
  <2>6. ASSUME NEW d \in Link, rd'[d] = "stored" PROVE DedupHas(d[2], inHand[d])'
    <3>1. d # e
      BY <2>3, <2>6
    <3>2. rd[d] = "stored" /\ inHand'[d] = inHand[d]
      BY <2>4, <2>6, <3>1, Zenon
    <3> QED
      BY <2>1, <3>2, Zenon DEF GInv, StoredFound, DedupHas
  <2>7. ASSUME NEW k \in Node
        PROVE  \E P \in SUBSET (Neighbours(k) \X Msg) : StoredBy(k, P)'
    <3>1. PICK P \in SUBSET (Neighbours(k) \X Msg) : StoredBy(k, P)
      BY Zenon DEF GInv, StoredOnce
    <3>2. ASSUME NEW p \in Neighbours(k), rd'[<<p, k>>] = "new"
          PROVE  <<p, inHand'[<<p, k>>]>> \notin P
      <4>0. <<p, k>> \in Link
        BY NeighbourLink, Zenon
      <4>1. CASE <<p, k>> = e
        <5>1. k = n /\ inHand'[<<p, k>>] = m
          BY <2>3, <4>1, Zenon
        <5>2. ASSUME <<p, m>> \in P PROVE FALSE
          <6>1. DedupHas(k, <<p, m>>[2])
            BY <3>1, <5>2 DEF StoredBy
          <6>2. <<p, m>>[2] = m
            BY Zenon
          <6> QED
            BY <1>2, <5>1, <6>1, <6>2, Zenon DEF m
        <5> QED
          BY <5>1, <5>2, Zenon
      <4>2. CASE <<p, k>> # e
        BY <2>4, <3>1, <3>2, <4>0, <4>2 DEF StoredBy
      <4> QED
        BY <4>1, <4>2
    <3>3. Len(ring'[k]) <= Cardinality(P)
      BY <2>1, <3>1, Zenon DEF StoredBy
    <3>4. \A x \in P : DedupHas(k, x[2])'
      BY <2>5, <3>1, Zenon DEF StoredBy
    <3> QED
      BY <3>2, <3>3, <3>4 DEF StoredBy
  <2>8. ASSUME NEW k \in Node, NEW x \in Msg
        PROVE  \E D \in SUBSET Neighbours(k) : HandledBy(k, x, D)'
    <3>1. PICK D \in SUBSET Neighbours(k) : HandledBy(k, x, D)
      BY Zenon DEF GInv, HandledOnce
    <3>2. ASSUME NEW p \in D, rd'[<<p, k>>] # "recv" PROVE inHand'[<<p, k>>] # x
      <4>0. <<p, k>> \in Link
        BY NeighbourLink, Zenon
      <4>1. CASE <<p, k>> = e
        <5>1. k = n /\ inHand'[<<p, k>>] = m
          BY <2>3, <4>1, Zenon
        <5>2. DedupHas(k, x)
          BY <3>1, <3>2 DEF HandledBy
        <5>3. ~DedupHas(n, m)
          BY <1>2, Zenon DEF m
        <5> QED
          BY <5>1, <5>2, <5>3, Zenon
      <4>2. CASE <<p, k>> # e
        BY <2>4, <3>1, <3>2, <4>0, <4>2, Zenon DEF HandledBy
      <4> QED
        BY <4>1, <4>2
    <3>3. calls'[k][x] <= Cardinality(D)
      BY <2>1, <3>1, Zenon DEF HandledBy
    <3>4. D # {} => DedupHas(k, x)'
      BY <2>5, <3>1, Zenon DEF HandledBy
    <3> QED
      BY <3>2, <3>3, <3>4 DEF HandledBy
  <2>9. StoredFound'
    BY <2>6 DEF StoredFound
  <2>10. StoredOnce'
    BY <2>7 DEF StoredOnce, Neighbours
  <2>11. HandledOnce'
    BY <2>8 DEF HandledOnce, Neighbours
  <2> QED
    BY <2>9, <2>10, <2>11 DEF GInv
<1> QED
  BY <1>1, <1>2

\* dedup_remember stores a message in a ring that is not full, so nothing is forgotten: each
\* of the entries was stored by another reader or is another message.
LEMMA RememberKeeps ==
  ASSUME RingLarge, GInv, GTypeOK', NEW e \in Link, Remember(e)
  PROVE  GInv'
<1> DEFINE n == e[2]
<1>0. inHand[e] \in Msg
  BY DEF Remember, GInv, GTypeOK
<1>msg. PICK m \in Msg : m = inHand[e]
  BY <1>0, ZenonT(40)
<1>1. /\ rd' = [rd EXCEPT ![e] = "stored"] /\ inHand' = inHand /\ calls' = calls
      /\ rd[e] = "new" /\ DedupRemember(n, m)
  BY <1>msg DEF Remember
<1>2. m \in Msg /\ n \in Node /\ e = <<e[1], n>> /\ e[1] \in Neighbours(n)
  BY LinkEnds, Zenon
<1>3. rd'[e] = "stored" /\ \A d \in Link \ {e} : rd'[d] = rd[d]
  BY <1>1 DEF GInv, GTypeOK
<1>4. PICK P \in SUBSET (Neighbours(n) \X Msg) : StoredBy(n, P)
  BY <1>2, Zenon DEF GInv, StoredOnce
<1> DEFINE Q == P \cup {<<e[1], m>>}
<1>5. <<e[1], m>> \notin P
  BY <1>msg, <1>1, <1>2, <1>4 DEF StoredBy
<1>6. Q \in SUBSET (Neighbours(n) \X Msg)
  BY <1>2
<1>7. Cardinality(Q) = Cardinality(P) + 1 /\ Cardinality(Q) <= RingCap /\ Cardinality(P) \in Nat
  <2>1. IsFiniteSet(P) /\ Cardinality(P) \in Nat
    BY <1>2, PairsFinite, Zenon
  <2>2. Cardinality(Q) <= RingCap
    BY <1>2, <1>6, PairsFinite
  <2>3. Cardinality(Q) = Cardinality(P) + 1
    BY <1>5, <2>1, FS_AddElement, Zenon
  <2> QED
    BY <2>1, <2>2, <2>3, Zenon
<1> HIDE DEF Q
<1>8. /\ ring[n] \in Seq(Msg) /\ Len(ring[n]) \in Nat
      /\ ring'[n] = Append(ring[n], m) /\ \A k \in Node \ {n} : ring'[k] = ring[k]
  <2>1. ring[n] \in Seq(Msg) /\ Len(ring[n]) \in Nat
    BY <1>2, SeqTypes, Zenon DEF GInv, GTypeOK
  <2>2. Len(ring[n]) < RingCap
    BY <1>4, <1>7, <2>1 DEF StoredBy
  <2> QED
    BY <1>1, <1>2, <2>1, <2>2, RingTypes DEF GInv, Kept
<1>9. ASSUME NEW k \in Node, NEW x, DedupHas(k, x) PROVE DedupHas(k, x)'
  <2>1. CASE k = n
    <3>1. PICK i \in 1 .. Len(ring[n]) : ring[n][i] = x
      BY <1>9, <2>1, Zenon DEF DedupHas
    <3>2. i \in 1 .. Len(ring'[n]) /\ ring'[n][i] = x
      BY <1>2, <1>8, <3>1, AppendIs
    <3> QED
      BY <2>1, <3>2, Zenon DEF DedupHas
  <2>2. CASE k # n
    BY <1>8, <1>9, <2>2, Zenon DEF DedupHas
  <2> QED
    BY <2>1, <2>2, Zenon
<1>10. DedupHas(n, m)'
  <2>1. Len(ring'[n]) = Len(ring[n]) + 1 /\ ring'[n][Len(ring[n]) + 1] = m
    BY <1>2, <1>8, AppendIs
  <2> QED
    BY <1>8, <2>1 DEF DedupHas
<1>11. ASSUME NEW d \in Link, rd'[d] = "stored" PROVE DedupHas(d[2], inHand[d])'
  <2>1. d[2] \in Node
    BY LinkEnds, Zenon
  <2>2. CASE d = e
    BY <1>msg, <1>1, <1>10, <2>2, Zenon DEF DedupHas
  <2>3. CASE d # e
    <3>1. DedupHas(d[2], inHand[d])
      BY <1>3, <1>11, <2>3, Zenon DEF GInv, StoredFound
    <3>2. DedupHas(d[2], inHand[d])' <=>
            \E i \in 1 .. Len(ring'[d[2]]) : ring'[d[2]][i] = inHand'[d]
      BY Zenon DEF DedupHas
    <3>3. \A x : DedupHas(d[2], x) => \E i \in 1 .. Len(ring'[d[2]]) : ring'[d[2]][i] = x
      BY <1>9, <2>1, Zenon DEF DedupHas
    <3> QED
      BY <1>1, <3>1, <3>2, <3>3, Zenon
  <2> QED
    BY <2>2, <2>3
<1>12. StoredBy(n, Q)'
  <2>1. Len(ring'[n]) <= Cardinality(Q)
    BY <1>2, <1>4, <1>7, <1>8, AppendIs DEF StoredBy
  <2>2. ASSUME NEW x \in Q PROVE DedupHas(n, x[2])'
    <3>1. CASE x \in P
      BY <1>2, <1>4, <1>9, <3>1, Zenon DEF StoredBy
    <3>2. CASE x = <<e[1], m>>
      <4>1. x[2] = m
        BY <3>2, Zenon
      <4> QED
        BY <1>10, <4>1
    <3> QED
      BY <3>1, <3>2, Zenon DEF Q
  <2>3. ASSUME NEW p \in Neighbours(n), rd'[<<p, n>>] = "new"
        PROVE  <<p, inHand'[<<p, n>>]>> \notin Q
    <3>1. <<p, n>> \in Link /\ <<p, n>> # e
      BY <1>2, <1>3, <2>3, NeighbourLink, Zenon
    <3>2. p # e[1]
      BY <1>2, <3>1, Zenon
    <3>3. <<p, inHand[<<p, n>>]>> \notin P
      BY <1>3, <1>4, <2>3, <3>1, Zenon DEF StoredBy
    <3> QED
      BY <1>1, <3>2, <3>3, Zenon DEF Q
  <2> QED
    BY <2>1, <2>2, <2>3, Zenon DEF StoredBy
<1>13. ASSUME NEW k \in Node
       PROVE  \E S \in SUBSET (Neighbours(k) \X Msg) : StoredBy(k, S)'
  <2>1. CASE k = n
    BY <1>6, <1>12, <2>1, Zenon
  <2>2. CASE k # n
    <3>1. PICK S \in SUBSET (Neighbours(k) \X Msg) : StoredBy(k, S)
      BY Zenon DEF GInv, StoredOnce
    <3>2. ASSUME NEW p \in Neighbours(k)
          PROVE  rd'[<<p, k>>] = rd[<<p, k>>] /\ inHand'[<<p, k>>] = inHand[<<p, k>>]
      <4>1. <<p, k>> \in Link /\ <<p, k>> # e
        BY <1>2, <2>2, NeighbourLink
      <4> QED
        BY <1>1, <1>3, <4>1, Zenon
    <3>3. Len(ring'[k]) <= Cardinality(S)
      BY <1>8, <2>2, <3>1, Zenon DEF StoredBy
    <3>4. \A x \in S : DedupHas(k, x[2])'
      BY <1>9, <3>1, Zenon DEF StoredBy
    <3>5. \A p \in Neighbours(k) : rd'[<<p, k>>] = "new" => <<p, inHand'[<<p, k>>]>> \notin S
      BY <3>1, <3>2, Zenon DEF StoredBy
    <3> QED
      BY <3>3, <3>4, <3>5 DEF StoredBy
  <2> QED
    BY <2>1, <2>2, Zenon
<1>14. ASSUME NEW k \in Node, NEW x \in Msg
       PROVE  \E D \in SUBSET Neighbours(k) : HandledBy(k, x, D)'
  <2>1. PICK D \in SUBSET Neighbours(k) : HandledBy(k, x, D)
    BY Zenon DEF GInv, HandledOnce
  <2>2. ASSUME NEW p \in D, rd'[<<p, k>>] # "recv" PROVE inHand'[<<p, k>>] # x
    <3>1. <<p, k>> \in Link
      BY NeighbourLink, Zenon
    <3>2. rd[<<p, k>>] # "recv"
      BY <1>1, <1>3, <2>2, <3>1, Zenon
    <3> QED
      BY <1>1, <2>1, <3>2 DEF HandledBy
  <2>3. calls'[k][x] <= Cardinality(D)
    BY <1>1, <2>1, Zenon DEF HandledBy
  <2>4. D # {} => DedupHas(k, x)'
    BY <1>9, <2>1, Zenon DEF HandledBy
  <2> QED
    BY <2>2, <2>3, <2>4, Zenon DEF HandledBy
<1>15. StoredFound'
  BY <1>11, Zenon DEF StoredFound
<1>16. StoredOnce'
  BY <1>13, Zenon DEF StoredOnce, Neighbours
<1>17. HandledOnce'
  BY <1>14 DEF HandledOnce, Neighbours
<1> QED
  BY <1>15, <1>16, <1>17, Zenon DEF GInv

\* The callback is called with a message for one neighbour more, the one it came from.
LEMMA RelayCounts ==
  ASSUME GInv, GTypeOK', NEW e \in Link, Relay(e)
  PROVE  GInv'
<1> DEFINE n == e[2]
<1>0. inHand[e] \in Msg
  BY DEF Relay, GInv, GTypeOK
<1>msg. PICK m \in Msg : m = inHand[e]
  BY <1>0, Zenon
<1>1. /\ rd' = [rd EXCEPT ![e] = "recv"] /\ inHand' = [inHand EXCEPT ![e] = NoMsg]
      /\ ring' = ring /\ rd[e] = "stored"
      /\ calls' = [calls EXCEPT ![n][m] = IF @ < CallMax THEN @ + 1 ELSE @]
  BY <1>msg DEF Relay
<1>2. n \in Node /\ e = <<e[1], n>> /\ e[1] \in Neighbours(n)
  BY LinkEnds, ZenonT(40)
<1>3. rd'[e] = "recv" /\ \A d \in Link \ {e} : rd'[d] = rd[d] /\ inHand'[d] = inHand[d]
  BY <1>1 DEF GInv, GTypeOK
<1>4. /\ calls'[n][m] <= calls[n][m] + 1
      /\ \A k \in Node, x \in Msg : k # n \/ x # m => calls'[k][x] = calls[k][x]
  BY <1>msg, CallTypes, Zenon DEF GInv
<1>5. \A k, x : DedupHas(k, x)' <=> DedupHas(k, x)
  BY <1>1, Zenon DEF DedupHas
<1>6. ASSUME NEW d \in Link, rd'[d] = "stored" PROVE DedupHas(d[2], inHand[d])'
  <2>1. rd[d] = "stored" /\ inHand'[d] = inHand[d]
    BY <1>3, <1>6, ZenonT(40)
  <2> QED
    BY <1>1, <2>1, Zenon DEF GInv, StoredFound, DedupHas
<1>7. ASSUME NEW k \in Node
      PROVE  \E P \in SUBSET (Neighbours(k) \X Msg) : StoredBy(k, P)'
  <2>1. PICK P \in SUBSET (Neighbours(k) \X Msg) : StoredBy(k, P)
    BY Zenon DEF GInv, StoredOnce
  <2>2. ASSUME NEW p \in Neighbours(k), rd'[<<p, k>>] = "new"
        PROVE  <<p, inHand'[<<p, k>>]>> \notin P
    <3>1. <<p, k>> \in Link /\ <<p, k>> # e
      BY <1>3, <2>2, NeighbourLink, Zenon
    <3> QED
      BY <1>3, <2>1, <2>2, <3>1, Zenon DEF StoredBy
  <2>3. Len(ring'[k]) <= Cardinality(P)
    BY <1>1, <2>1, Zenon DEF StoredBy
  <2>4. \A x \in P : DedupHas(k, x[2])'
    BY <1>5, <2>1 DEF StoredBy
  <2> QED
    BY <2>2, <2>3, <2>4 DEF StoredBy
<1>8. ASSUME NEW k \in Node, NEW x \in Msg
      PROVE  \E D \in SUBSET Neighbours(k) : HandledBy(k, x, D)'
  <2>1. PICK D \in SUBSET Neighbours(k) : HandledBy(k, x, D)
    BY Zenon DEF GInv, HandledOnce
  <2>2. ASSUME NEW p \in D, rd'[<<p, k>>] # "recv" PROVE inHand'[<<p, k>>] # x
    <3>1. <<p, k>> \in Link /\ <<p, k>> # e
      BY <1>3, <2>2, NeighbourLink, Zenon
    <3> QED
      BY <1>3, <2>1, <2>2, <3>1, Zenon DEF HandledBy
  <2>3. CASE k = n /\ x = m
    <3> DEFINE E == D \cup {e[1]}
    <3>1. e[1] \notin D
      BY <1>msg, <1>1, <1>2, <2>1, <2>3, Zenon DEF HandledBy
    <3>2. E \in SUBSET Neighbours(k)
      BY <1>2, <2>3
    <3>3. Cardinality(E) = Cardinality(D) + 1 /\ Cardinality(D) \in Nat
      BY <3>1, NeighboursFinite, FS_AddElement, Zenon
    <3>4. calls'[k][x] <= Cardinality(E)
      <4>1. calls[n][m] \in Nat /\ calls'[n][m] \in Nat
        BY <1>2, CallMaxNat DEF GInv, GTypeOK
      <4> HIDE DEF E
      <4> QED
        BY <1>4, <2>1, <2>3, <3>3, <4>1 DEF HandledBy
    <3>5. DedupHas(k, x)'
      BY <1>msg, <1>1, <1>5, <2>3, Zenon DEF GInv, StoredFound
    <3>6. ASSUME NEW p \in E, rd'[<<p, k>>] # "recv" PROVE inHand'[<<p, k>>] # x
      <4>1. p # e[1]
        BY <1>2, <1>3, <2>3, <3>6, ZenonT(40)
      <4> QED
        BY <2>2, <3>6, <4>1, Zenon
    <3>7. HandledBy(k, x, E)'
      BY <3>4, <3>5, <3>6 DEF HandledBy
    <3> QED
      BY <3>2, <3>7, Zenon
  <2>4. CASE ~(k = n /\ x = m)
    <3>1. calls'[k][x] <= Cardinality(D)
      BY <1>4, <2>1, <2>4, Zenon DEF HandledBy
    <3>2. D # {} => DedupHas(k, x)'
      BY <1>5, <2>1, Zenon DEF HandledBy
    <3>3. HandledBy(k, x, D)'
      BY <2>2, <3>1, <3>2, Zenon DEF HandledBy
    <3> QED
      BY <3>3, Zenon
  <2> QED
    BY <2>3, <2>4, Zenon
<1>9. StoredFound'
  BY <1>6 DEF StoredFound
<1>10. StoredOnce'
  BY <1>7, Zenon DEF StoredOnce, Neighbours
<1>11. HandledOnce'
  BY <1>8, Zenon DEF HandledOnce, Neighbours
<1> QED
  BY <1>9, <1>10, <1>11, Zenon DEF GInv

\* Every step keeps the invariant, with a ring that is large enough.
LEMMA GInvStep == RingLarge /\ GInv /\ [GNext]_gvars => GInv'
<1> SUFFICES ASSUME RingLarge, GInv, [GNext]_gvars PROVE GInv'
  OBVIOUS
<1>1. GTypeOK'
  BY GTypesStep, Zenon DEF GInv
<1>2. ASSUME NEW m \in Msg, Originate(m) PROVE GInv'
  BY <1>1, <1>2, ReadersStay DEF Originate
<1>3. ASSUME NEW e \in Link, Receive(e) PROVE GInv'
  BY <1>1, <1>3, ReceiveKnows
<1>4. ASSUME NEW e \in Link, Remember(e) PROVE GInv'
  BY <1>1, <1>4, RememberKeeps, Zenon
<1>5. ASSUME NEW e \in Link, Relay(e) PROVE GInv'
  BY <1>1, <1>5, RelayCounts, Zenon
<1>6. ASSUME NEW e \in Link, Break(e) \/ Lose(e) \/ Reconnect(e) PROVE GInv'
  BY <1>1, <1>6, ReadersStay DEF Break, Lose, Reconnect
<1>7. CASE UNCHANGED gvars
  BY <1>1, <1>7, ReadersStay, Zenon DEF gvars
<1> QED
  BY <1>2, <1>3, <1>4, <1>5, <1>6, <1>7 DEF GNext, ReaderStep

\* The invariant bounds the calls.
LEMMA GInvBounds == GInv => CallsBounded /\ HandledRemembered
<1> SUFFICES ASSUME GInv, NEW n \in Node, NEW m \in Msg
             PROVE  /\ calls[n][m] <= Cardinality(Neighbours(n))
                    /\ calls[n][m] > 0 => DedupHas(n, m)
  BY DEF CallsBounded, HandledRemembered
<1>1. PICK D \in SUBSET Neighbours(n) : HandledBy(n, m, D)
  BY Zenon DEF GInv, HandledOnce
<1>2. calls[n][m] \in Nat
  BY CallMaxNat DEF GInv, GTypeOK
<1>3. /\ Cardinality(D) \in Nat /\ Cardinality(D) <= Cardinality(Neighbours(n))
      /\ Cardinality(Neighbours(n)) \in Nat /\ (Cardinality(D) = 0 <=> D = {})
  BY NeighboursFinite, Zenon
<1>4. calls[n][m] <= Cardinality(D) /\ (D # {} => DedupHas(n, m))
  BY <1>1 DEF HandledBy
<1> QED
  BY <1>2, <1>3, <1>4

\* In every network whose nodes have a ring (AC_DEDUP_CAP) with a place for each message
\* from each neighbour, a node hands a message to its callback and relays it at most once
\* for each neighbour, whatever the readers' race between dedup_has and dedup_remember.
THEOREM CallsBoundedHolds == RingLarge => (GSpec => []CallsBounded)
<1> SUFFICES ASSUME RingLarge PROVE GSpec => []CallsBounded
  OBVIOUS
<1>1. GInv /\ [GNext]_gvars => GInv'
  BY GInvStep
<1>2. GInv => CallsBounded
  BY GInvBounds
<1> QED
  BY GInvInit, <1>1, <1>2, PTL DEF GSpec

\* In such a network no entry of the ring is overwritten: what a node handled it knows from
\* then on, and drops when it comes again.
THEOREM HandledRememberedHolds == RingLarge => (GSpec => []HandledRemembered)
<1> SUFFICES ASSUME RingLarge PROVE GSpec => []HandledRemembered
  OBVIOUS
<1>1. GInv /\ [GNext]_gvars => GInv'
  BY GInvStep
<1>2. GInv => HandledRemembered
  BY GInvBounds, Zenon
<1> QED
  BY GInvInit, <1>1, <1>2, PTL DEF GSpec

HIDE GossipAssumption

-----------------------------------------------------------------------------
(* The files: the inductive invariant *)

Accepting == {"block", "state", "meta"}
GenesisPhase == {"genesis block", "genesis meta", "genesis state"}

\* Every block file up to t's height is there; a is an ancestor of t.
Stored(t) == Len(t) <= MaxHeight /\ \A h \in 0 .. Len(t) : blockFile[h] = {Cut(t, h)}
Before(a, t) == Len(a) <= Len(t) /\ a = Cut(t, Len(a))

STypeOK ==
  /\ pc \in Running \cup GenesisPhase \cup {"closed"}
  /\ blockFile \in [0 .. MaxHeight -> SUBSET Tip]
  /\ metaFile = {} \/ \E m \in Tip : metaFile = {m}
  /\ stateFile = {} \/ \E s \in Tip : stateFile = {s}
  /\ tip \in Tip /\ state \in Tip /\ accepting \in Tip /\ acked \in Tip
  /\ indexed \in SUBSET Nat
  /\ failed \in BOOLEAN /\ torn \in BOOLEAN

\* What meta.bin names is on disk and includes every acknowledged block.
MetaGood ==
  /\ \A m \in metaFile : Stored(m) /\ Before(acked, m)
  /\ metaFile = {} => acked = << >>

\* A running node is at the tip of meta.bin or, after a failed write, further on.
RunGood ==
  pc \in Running =>
    /\ metaFile # {}
    /\ \A m \in metaFile : Before(m, tip)
    /\ Stored(tip)
    /\ Before(acked, tip)

\* The block being persisted is a child of the tip and has been applied.
AcceptGood ==
  /\ pc \in Accepting => /\ Len(accepting) = Len(tip) + 1
                         /\ Len(accepting) <= MaxHeight
                         /\ \A h \in 0 .. Len(tip) : Cut(accepting, h) = Cut(tip, h)
                         /\ Len(accepting) <= Len(state)
  /\ pc \in {"state", "meta"} => blockFile[Len(accepting)] = {accepting}
  /\ pc = "meta" => stateFile = {state}

\* Before the node runs the memory holds nothing but genesis.
GenesisGood ==
  /\ pc \notin Running => tip = << >> /\ state = << >> /\ indexed = {} /\ ~failed
  /\ pc \in {"genesis block", "genesis meta"} => metaFile = {}
  /\ pc \in {"genesis meta", "genesis state"} => blockFile[0] = {<< >>}
  /\ pc = "genesis state" => metaFile = {<< >>}

\* Where the files and the memory agree as long as nothing is torn.
Agree ==
  ~torn =>
    /\ pc = "closed" => metaFile = {} \/ metaFile = stateFile
    /\ pc \in {"idle", "block", "state"} /\ metaFile = {tip} => stateFile = {tip}
    /\ pc \in Accepting => state = accepting
    /\ pc \in Running /\ ~failed => metaFile = {tip} /\ indexed = 1 .. Len(tip)
    /\ pc = "idle" /\ ~failed => state = tip

SInv == /\ STypeOK /\ MetaGood /\ RunGood /\ AcceptGood /\ GenesisGood
        /\ StateNotBehind /\ Agree

-----------------------------------------------------------------------------
(* Ancestors *)

\* The ancestor at height h is a chain of that height.
LEMMA CutType ==
  ASSUME NEW t \in Tip, NEW h \in 0 .. Len(t)
  PROVE  /\ Cut(t, h) \in Tip
         /\ Len(Cut(t, h)) = h
         /\ \A i \in 1 .. h : Cut(t, h)[i] = t[i]
<1>1. Len(t) \in Nat /\ \A i \in 1 .. h : t[i] \in Block
  BY SeqTypes DEF Tip
<1>2. /\ SubSeq(t, 1, h) \in Seq(Block)
      /\ Len(SubSeq(t, 1, h)) = IF 1 <= h THEN h - 1 + 1 ELSE 0
      /\ \A i \in 1 .. h - 1 + 1 : SubSeq(t, 1, h)[i] = t[1 + i - 1]
  <2>1. 1 \in Int /\ h \in Int
    BY <1>1
  <2> QED
    BY <1>1, <2>1
<1> QED
  BY <1>1, <1>2 DEF Cut, Tip

\* Chains that agree up to a height have the same ancestors up to it.
LEMMA CutAgree ==
  ASSUME NEW t \in Tip, NEW u \in Tip, NEW k \in 0 .. Len(t), k <= Len(u),
         \A i \in 1 .. k : t[i] = u[i]
  PROVE  \A h \in 0 .. k : Cut(t, h) = Cut(u, h)
<1>0. Len(t) \in Nat /\ Len(u) \in Nat
  BY SeqTypes DEF Tip
<1> SUFFICES ASSUME NEW h \in 0 .. k PROVE Cut(t, h) = Cut(u, h)
  BY Zenon
<1>1. /\ Cut(t, h) \in Seq(Block) /\ Cut(u, h) \in Seq(Block)
      /\ Len(Cut(t, h)) = Len(Cut(u, h))
      /\ \A i \in 1 .. Len(Cut(t, h)) : Cut(t, h)[i] = Cut(u, h)[i]
  BY <1>0, CutType DEF Tip
<1> QED
  BY <1>1, SameSeq

\* A chain is its own ancestor, and genesis is everybody's.
LEMMA CutEnds ==
  ASSUME NEW t \in Tip
  PROVE  /\ Cut(t, Len(t)) = t
         /\ Cut(t, 0) = << >>
         /\ Len(t) \in Nat
         /\ t = << >> <=> Len(t) = 0
<1>0. Len(t) \in Nat
  BY SeqTypes, Zenon DEF Tip
<1>1. /\ Cut(t, Len(t)) \in Seq(Block) /\ t \in Seq(Block)
      /\ Len(Cut(t, Len(t))) = Len(t)
      /\ \A i \in 1 .. Len(Cut(t, Len(t))) : Cut(t, Len(t))[i] = t[i]
  BY <1>0, CutType DEF Tip
<1>2. Cut(t, Len(t)) = t
  BY <1>1, SameSeq
<1>3. Cut(t, 0) = << >>
  BY DEF Cut
<1>4. t = << >> <=> Len(t) = 0
  BY <1>0, EmptyIs, Zenon DEF Tip
<1> QED
  BY <1>0, <1>2, <1>3, <1>4

\* An ancestor's ancestors are the chain's.
LEMMA CutCut ==
  ASSUME NEW t \in Tip, NEW k \in 0 .. Len(t), NEW h \in 0 .. k
  PROVE  Cut(Cut(t, k), h) = Cut(t, h)
<1>0. Len(t) \in Nat
  BY SeqTypes DEF Tip
<1>1. Cut(t, k) \in Tip /\ Len(Cut(t, k)) = k /\ \A i \in 1 .. k : Cut(t, k)[i] = t[i]
  BY CutType, Zenon
<1> QED
  BY <1>0, <1>1, CutAgree

\* A child and its parent have the same ancestors.
LEMMA CutAppend ==
  ASSUME NEW t \in Tip, NEW b \in Block
  PROVE  /\ Append(t, b) \in Tip
         /\ Len(Append(t, b)) = Len(t) + 1
         /\ \A h \in 0 .. Len(t) : Cut(Append(t, b), h) = Cut(t, h)
<1>1. /\ Append(t, b) \in Tip /\ Len(Append(t, b)) = Len(t) + 1 /\ Len(t) \in Nat
      /\ \A i \in 1 .. Len(t) : t[i] = Append(t, b)[i]
  BY AppendIs, SeqTypes DEF Tip
<1>2. \A h \in 0 .. Len(t) : Cut(t, h) = Cut(Append(t, b), h)
  <2> DEFINE u == Append(t, b)
              k == Len(t)
  <2>1. u \in Tip /\ k \in 0 .. Len(t) /\ k <= Len(u) /\ \A i \in 1 .. k : t[i] = u[i]
    BY <1>1
  <2> HIDE DEF u, k
  <2>2. \A h \in 0 .. k : Cut(t, h) = Cut(u, h)
    BY <2>1, CutAgree
  <2> QED
    BY <2>2, Zenon DEF u, k
<1> QED
  BY <1>1, <1>2

\* Being an ancestor is transitive along a child.
LEMMA BeforeChild ==
  ASSUME NEW a \in Tip, NEW t \in Tip, NEW u \in Tip, Before(a, t),
         Len(u) >= Len(t), \A h \in 0 .. Len(t) : Cut(u, h) = Cut(t, h)
  PROVE  Before(a, u)
  BY CutEnds DEF Before

\* The facts about ancestors the steps below need, in one formula.
Ancestry ==
  /\ << >> \in Tip /\ Len(<< >>) = 0
  /\ \A t \in Tip : /\ Cut(t, Len(t)) = t
                    /\ Cut(t, 0) = << >>
                    /\ Len(t) \in Nat
                    /\ t = << >> <=> Len(t) = 0

\* They hold.
LEMMA AncestryHolds == Ancestry
<1>1. << >> \in Tip /\ Len(<< >>) = 0
  BY EmptyIs DEF Tip
<1> QED
  BY <1>1, CutEnds DEF Ancestry

\* The genesis block has height 0 and no ancestor but itself.
LEMMA GenesisCut == /\ Len(<< >>) = 0
                    /\ \A h \in 0 .. 0 : Cut(<< >>, h) = << >>
                    /\ Cut(<< >>, 0) = << >>
<1>1. << >> \in Tip /\ Len(<< >>) = 0
  BY EmptyIs DEF Tip
<1>2. Cut(<< >>, 0) = << >>
  BY <1>1, CutEnds, Zenon
<1> QED
  BY <1>1, <1>2

-----------------------------------------------------------------------------
(* The steps *)

USE StorageAssumption

\* Nothing is on disk and nothing in memory.
LEMMA SInitSInv == SInit => SInv
  BY AncestryHolds DEF SInit, SInv, STypeOK, MetaGood, RunGood, AcceptGood, GenesisGood,
     StateNotBehind, Agree, Ancestry, Running, GenesisPhase, Accepting

\* ac_chain_open without meta.bin.
LEMMA OpenFreshSInv == SInv /\ OpenFresh => SInv'
<1> SUFFICES ASSUME SInv, OpenFresh PROVE SInv'
  OBVIOUS
<1>1. STypeOK'
  BY Zenon DEF SInv, STypeOK, OpenFresh, GenesisPhase
<1>2. MetaGood' /\ RunGood' /\ AcceptGood'
  BY Zenon DEF SInv, MetaGood, RunGood, AcceptGood, OpenFresh, Running, Accepting
<1>3. GenesisGood' /\ StateNotBehind' /\ Agree'
  BY Zenon DEF SInv, GenesisGood, StateNotBehind, Agree, OpenFresh, Running, Accepting
<1> QED
  BY <1>1, <1>2, <1>3 DEF SInv

\* ac_chain_open with meta.bin and state.bin.
LEMMA OpenExistingSInv == SInv /\ OpenExisting => SInv'
<1> SUFFICES ASSUME SInv, OpenExisting PROVE SInv'
  BY Zenon
<1>1. tip' \in Tip /\ metaFile = {tip'} /\ state' \in Tip /\ stateFile = {state'}
  BY DEF SInv, STypeOK, OpenExisting
<1>2. Len(tip') \in Nat /\ Cut(tip', Len(tip')) = tip'
  BY <1>1, CutEnds, Zenon
<1>3. STypeOK'
  BY <1>1, <1>2 DEF SInv, STypeOK, OpenExisting, Running
<1>4. MetaGood' /\ RunGood'
  BY <1>1, <1>2 DEF SInv, MetaGood, RunGood, OpenExisting, Stored, Before, Running
<1>5. AcceptGood' /\ GenesisGood' /\ StateNotBehind'
  BY <1>1, Zenon DEF SInv, AcceptGood, GenesisGood, StateNotBehind, OpenExisting, Running, Accepting
<1>6. Agree'
  <2>1. indexed' = 1 .. Len(tip')
    <3>1. \A h \in 1 .. Len(tip') : blockFile[h] # {}
      BY <1>1, <1>2 DEF SInv, MetaGood, Stored
    <3> QED
      BY <3>1, ZenonT(40) DEF OpenExisting
  <2> QED
    BY <1>1, <2>1, Zenon DEF SInv, Agree, GenesisGood, OpenExisting, Running, Accepting
<1> QED
  BY <1>3, <1>4, <1>5, <1>6 DEF SInv

\* chain_apply_genesis, write by write.
LEMMA GenesisSInv == SInv /\ (GenesisBlock \/ GenesisMeta \/ GenesisState) => SInv'
<1>1. ASSUME SInv, GenesisBlock PROVE SInv'
  <2>0. /\ blockFile' \in [0 .. MaxHeight -> SUBSET Tip]
        /\ blockFile'[0] = {<< >>}
    <3>1. blockFile \in [0 .. MaxHeight -> SUBSET Tip] /\ {<< >>} \in SUBSET Tip
      BY <1>1, AncestryHolds DEF SInv, STypeOK, Ancestry
    <3>2. 0 \in 0 .. MaxHeight
      OBVIOUS
    <3>3. blockFile' = [blockFile EXCEPT ![0] = {<< >>}]
      BY <1>1, Zenon DEF GenesisBlock
    <3> QED
      BY <3>1, <3>2, <3>3, Zenon
  <2>1. STypeOK'
    BY <1>1, <2>0, Zenon DEF SInv, STypeOK, GenesisBlock, Genesis, GenesisPhase
  <2>2. MetaGood' /\ RunGood' /\ AcceptGood'
    BY <1>1, Zenon DEF SInv, MetaGood, RunGood, AcceptGood, GenesisGood, GenesisBlock, Genesis,
       Running, Accepting
  <2>3. GenesisGood' /\ StateNotBehind' /\ Agree'
    BY <1>1, <2>0, Zenon DEF SInv, GenesisGood, StateNotBehind, Agree, GenesisBlock, Genesis,
       Running, Accepting
  <2> QED
    BY <2>1, <2>2, <2>3 DEF SInv
<1>2. ASSUME SInv, GenesisMeta PROVE SInv'
  <2>1. STypeOK'
    BY <1>2, AncestryHolds, Zenon DEF SInv, STypeOK, GenesisMeta, Genesis, Ancestry, GenesisPhase
  <2>0. acked' = << >> /\ blockFile'[0] = {<< >>}
    BY <1>2, Zenon DEF SInv, MetaGood, GenesisGood, GenesisMeta, Genesis
  <2>2. Stored(<< >>)' /\ Before(acked, << >>)'
    BY <2>0, GenesisCut DEF Stored, Before
  <2>3. MetaGood' /\ RunGood' /\ AcceptGood'
    BY <1>2, <2>2, Zenon DEF SInv, MetaGood, RunGood, AcceptGood, GenesisMeta, Genesis,
       Running, Accepting
  <2>4. GenesisGood' /\ Agree'
    BY <1>2, Zenon DEF SInv, GenesisGood, Agree, GenesisMeta, Genesis, Running, Accepting
  <2>5. StateNotBehind'
    <3>1. \A s \in stateFile' : Len(s) \in Nat
      BY <1>2, CutEnds, Zenon DEF SInv, STypeOK, GenesisMeta
    <3> QED
      <4>1. \A m \in metaFile' : Len(m) = 0
        BY <1>2, GenesisCut, Zenon DEF GenesisMeta
      <4>2. pc' \notin Running
        BY <1>2, Zenon DEF GenesisMeta, Genesis, Running
      <4> QED
        BY <3>1, <4>1, <4>2 DEF StateNotBehind
  <2> QED
    BY <2>1, <2>3, <2>4, <2>5 DEF SInv
<1>3. ASSUME SInv, GenesisState PROVE SInv'
  <2>1. STypeOK'
    BY <1>3, AncestryHolds, Zenon DEF SInv, STypeOK, GenesisState, Genesis, Ancestry, Running
  <2>2. tip = << >> /\ state = << >> /\ indexed = {} /\ metaFile = {<< >>}
    BY <1>3, Zenon DEF SInv, GenesisGood, GenesisState, Genesis, Running
  <2>3. Stored(<< >>) /\ Before(acked, << >>) /\ Before(<< >>, << >>)
    <3>1. Stored(<< >>) /\ Before(acked, << >>)
      BY <1>3, <2>2 DEF SInv, MetaGood
    <3>2. Before(<< >>, << >>)
      BY GenesisCut DEF Before
    <3> QED
      BY <3>1, <3>2
  <2>4. MetaGood' /\ RunGood'
    BY <1>3, <2>2, <2>3, Zenon DEF MetaGood, RunGood, GenesisState, Genesis, Stored, Before
  <2>0. /\ Len(tip') = 0 /\ Len(state') = 0
        /\ \A m \in metaFile' \cup stateFile' : Len(m) = 0
    BY <1>3, <2>2, GenesisCut, Zenon DEF GenesisState, Genesis
  <2>5. AcceptGood' /\ GenesisGood' /\ StateNotBehind'
    <3>1. StateNotBehind'
      BY <2>0 DEF StateNotBehind
    <3> QED
      BY <1>3, <3>1, Zenon DEF AcceptGood, GenesisGood, GenesisState, Genesis, Running, Accepting
  <2>6. Agree'
    <3>1. indexed' = 1 .. Len(tip')
      <4>1. indexed' = {}
        BY <1>3, <2>2, Zenon DEF GenesisState, Genesis
      <4> QED
        BY <2>0, <4>1
    <3> QED
      BY <1>3, <2>2, <3>1, Zenon DEF Agree, GenesisState, Genesis, Running, Accepting
  <2> QED
    BY <2>1, <2>4, <2>5, <2>6 DEF SInv
<1> QED
  BY <1>1, <1>2, <1>3, Zenon

\* A write of chain_apply_genesis fails and the open with it.
LEMMA GenesisFailsSInv == SInv /\ GenesisFails => SInv'
<1> SUFFICES ASSUME SInv, GenesisFails PROVE SInv'
  OBVIOUS
<1>1. torn' \in BOOLEAN /\ ~failed' /\ failed' \in BOOLEAN
  BY Zenon DEF GenesisFails, FailWith
<1>2. ~torn' => ~torn /\ pc # "genesis state"
  BY Zenon DEF GenesisFails
<1>3. /\ pc \in GenesisPhase /\ pc' = "closed" /\ accepting' = << >>
      /\ UNCHANGED <<blockFile, metaFile, stateFile, tip, state, indexed, acked>>
  BY Zenon DEF GenesisFails, FailWith, GenesisPhase
<1>4. STypeOK'
  BY <1>1, <1>3, AncestryHolds DEF SInv, STypeOK, Ancestry
<1>5. MetaGood' /\ RunGood' /\ AcceptGood' /\ GenesisGood' /\ StateNotBehind'
  BY <1>1, <1>3, Zenon DEF SInv, MetaGood, RunGood, AcceptGood, GenesisGood, StateNotBehind,
     Running, GenesisPhase, Accepting, Stored, Before
<1>6. Agree'
  BY <1>2, <1>3, Zenon DEF SInv, GenesisGood, Agree, Running, GenesisPhase, Accepting
<1> QED
  BY <1>4, <1>5, <1>6 DEF SInv

\* The process stops.
LEMMA StopSInv == SInv /\ Stop => SInv'
<1> SUFFICES ASSUME SInv, Stop PROVE SInv'
  OBVIOUS
<1>1. torn' \in BOOLEAN /\ ~failed' /\ failed' \in BOOLEAN
  BY Zenon DEF Stop
<1>2. ~torn' => /\ ~torn
                /\ pc # "meta" /\ pc # "genesis state"
                /\ pc \in Running => metaFile = {tip}
  BY Zenon DEF Stop
<1>3. /\ pc # "closed" /\ pc' = "closed"
      /\ tip' = << >> /\ state' = << >> /\ accepting' = << >> /\ indexed' = {}
      /\ UNCHANGED <<blockFile, metaFile, stateFile, acked>>
  BY Zenon DEF Stop
<1>4. STypeOK'
  BY <1>1, <1>3, AncestryHolds DEF SInv, STypeOK, Ancestry
<1>5. MetaGood' /\ RunGood' /\ AcceptGood' /\ GenesisGood' /\ StateNotBehind'
  BY <1>1, <1>3, Zenon DEF SInv, MetaGood, RunGood, AcceptGood, GenesisGood, StateNotBehind,
     Running, GenesisPhase, Accepting, Stored, Before
<1>6. Agree'
  BY <1>2, <1>3, Zenon DEF SInv, STypeOK, GenesisGood, Agree, Running, GenesisPhase, Accepting
<1> QED
  BY <1>4, <1>5, <1>6 DEF SInv

\* The checks and the transactions of accept_block.
LEMMA ApplySInv == ASSUME NEW b \in Block PROVE SInv /\ Apply(b) => SInv'
<1> SUFFICES ASSUME SInv, Apply(b) PROVE SInv'
  BY Zenon
<1>1. torn' \in BOOLEAN
  BY DEF Apply
<1>2. ~torn' => ~torn /\ state = tip
  BY Zenon DEF Apply
<1>3. /\ pc = "idle" /\ pc' = "block" /\ Len(tip) < MaxHeight
      /\ state' = Append(state, b) /\ accepting' = Append(tip, b)
      /\ UNCHANGED <<blockFile, metaFile, stateFile, tip, indexed, acked, failed>>
  BY Zenon DEF Apply
<1>4. /\ tip \in Tip /\ Len(tip) \in Nat /\ state \in Tip /\ Len(state) \in Nat
      /\ Len(tip) <= Len(state)
  BY <1>3, CutEnds, Zenon DEF SInv, STypeOK, StateNotBehind, Running
<1>5. /\ state' \in Tip /\ Len(state') = Len(state) + 1
      /\ accepting' \in Tip /\ Len(accepting') = Len(tip) + 1
      /\ \A h \in 0 .. Len(tip) : Cut(accepting', h) = Cut(tip, h)
  BY <1>3, <1>4, CutAppend, Zenon
<1>6. STypeOK'
  BY <1>1, <1>3, <1>5, Zenon DEF SInv, STypeOK, Running
<1>7. MetaGood' /\ RunGood' /\ GenesisGood' /\ StateNotBehind'
  BY <1>3, <1>4, <1>5 DEF SInv, MetaGood, RunGood, GenesisGood, StateNotBehind,
     Running, Stored, Before
<1>8. AcceptGood'
  BY <1>3, <1>4, <1>5 DEF AcceptGood, Accepting
<1>9. Agree'
  BY <1>2, <1>3, Zenon DEF SInv, Agree, Running, Accepting
<1> QED
  BY <1>6, <1>7, <1>8, <1>9 DEF SInv

\* block_write, which replaces a file above the tip only.
LEMMA WriteBlockSInv == SInv /\ WriteBlock => SInv'
<1> SUFFICES ASSUME SInv, WriteBlock PROVE SInv'
  BY Zenon
<1>1. /\ tip \in Tip /\ Len(tip) \in Nat /\ Len(accepting) = Len(tip) + 1
      /\ Len(accepting) <= MaxHeight /\ accepting \in Tip
      /\ blockFile \in [0 .. MaxHeight -> SUBSET Tip]
  BY CutEnds, Zenon DEF SInv, STypeOK, AcceptGood, Accepting, WriteBlock
<1>2. /\ blockFile' \in [0 .. MaxHeight -> SUBSET Tip]
      /\ blockFile'[Len(accepting)] = {accepting}
      /\ \A h \in 0 .. Len(tip) : blockFile'[h] = blockFile[h]
  BY <1>1 DEF WriteBlock
<1>3. STypeOK'
  BY <1>2, Zenon DEF SInv, STypeOK, WriteBlock, Running
<1>4. \A t \in Tip : Stored(t) /\ Len(t) <= Len(tip) => Stored(t)'
  BY <1>1, <1>2, CutEnds DEF Stored
<1>5. \A m \in metaFile : m \in Tip /\ Len(m) <= Len(tip)
  BY Zenon DEF SInv, STypeOK, RunGood, Before, Running, WriteBlock
<1>6. MetaGood' /\ RunGood'
  BY <1>1, <1>4, <1>5 DEF SInv, MetaGood, RunGood, WriteBlock, Before, Running
<1>7. AcceptGood' /\ GenesisGood' /\ StateNotBehind' /\ Agree'
  BY <1>2 DEF SInv, AcceptGood, GenesisGood, StateNotBehind, Agree, WriteBlock,
     Running, Accepting
<1> QED
  BY <1>3, <1>6, <1>7 DEF SInv

\* ac_state_save.
LEMMA SaveStateSInv == SInv /\ SaveState => SInv'
<1> SUFFICES ASSUME SInv, SaveState PROVE SInv'
  BY Zenon
<1>1. /\ Len(tip) \in Nat /\ Len(state) \in Nat /\ Len(tip) <= Len(state)
      /\ \A m \in metaFile : Len(m) \in Nat /\ Len(m) <= Len(tip)
  BY CutEnds, Zenon DEF SInv, STypeOK, StateNotBehind, RunGood, Before, Running, SaveState
<1>2. STypeOK'
  BY Zenon DEF SInv, STypeOK, SaveState, Running
<1>3. MetaGood' /\ RunGood'
  BY Zenon DEF SInv, MetaGood, RunGood, SaveState, Stored, Before, Running
<1>4. AcceptGood' /\ GenesisGood'
  BY Zenon DEF SInv, AcceptGood, GenesisGood, SaveState, Running, Accepting
<1>5. StateNotBehind'
  BY <1>1 DEF StateNotBehind, SaveState
<1>6. Agree'
  BY Zenon DEF SInv, Agree, SaveState, Running, Accepting
<1> QED
  BY <1>2, <1>3, <1>4, <1>5, <1>6 DEF SInv

\* The block being persisted is on disk with all of its ancestors before meta.bin is
\* written.
LEMMA AcceptingStored ==
  ASSUME SInv, pc = "meta"
  PROVE  /\ Stored(accepting)
         /\ Before(acked, accepting)
         /\ Before(accepting, accepting)
         /\ \A m \in metaFile : Before(m, accepting) /\ Len(m) < Len(accepting)
         /\ Len(accepting) <= Len(state)
         /\ stateFile = {state}
<1>1. /\ tip \in Tip /\ accepting \in Tip /\ acked \in Tip
      /\ \A m \in metaFile : m \in Tip
  BY Zenon DEF SInv, STypeOK
<1>2. /\ Len(tip) \in Nat /\ Len(accepting) = Len(tip) + 1
      /\ Cut(accepting, Len(accepting)) = accepting
  BY <1>1, CutEnds, Zenon DEF SInv, AcceptGood, Accepting
<1>3. /\ \A h \in 0 .. Len(tip) : Cut(accepting, h) = Cut(tip, h)
      /\ Len(accepting) <= MaxHeight /\ Len(accepting) <= Len(state)
      /\ blockFile[Len(accepting)] = {accepting} /\ stateFile = {state}
  BY Zenon DEF SInv, AcceptGood, Accepting
<1>4. Stored(tip) /\ Before(acked, tip) /\ \A m \in metaFile : Before(m, tip)
  BY Zenon DEF SInv, RunGood, Running
<1>5. Stored(accepting)
  BY <1>2, <1>3, <1>4 DEF Stored
<1>6. \A a \in Tip : Before(a, tip) => Before(a, accepting) /\ Len(a) < Len(accepting)
  <2> SUFFICES ASSUME NEW a \in Tip, Before(a, tip)
               PROVE  Before(a, accepting) /\ Len(a) < Len(accepting)
    BY Zenon
  <2>1. Before(a, accepting)
    BY <1>1, <1>2, <1>3, BeforeChild
  <2>2. Len(a) \in Nat /\ Len(a) <= Len(tip)
    BY CutEnds DEF Before
  <2> QED
    BY <1>2, <2>1, <2>2
<1>7. Before(accepting, accepting)
  BY <1>2 DEF Before
<1> QED
  BY <1>1, <1>3, <1>4, <1>5, <1>6, <1>7, Zenon

\* meta_save and the updates after it.
LEMMA SaveMetaSInv == SInv /\ SaveMeta => SInv'
<1> SUFFICES ASSUME SInv, SaveMeta PROVE SInv'
  BY Zenon
<1>1. /\ Stored(accepting) /\ Before(accepting, accepting)
      /\ Len(accepting) <= Len(state) /\ stateFile = {state}
  BY AcceptingStored, Zenon DEF SaveMeta
<1>2. Len(accepting) \in Nat /\ Len(accepting) = Len(tip) + 1 /\ Len(tip) \in Nat
  BY CutEnds DEF SInv, STypeOK, AcceptGood, Accepting, SaveMeta
<1>3. STypeOK'
  BY <1>2, AncestryHolds, Zenon DEF SInv, STypeOK, SaveMeta, Ancestry, Running
<1>4. MetaGood' /\ RunGood'
  BY <1>1, Zenon DEF MetaGood, RunGood, SaveMeta, Stored, Before
<1>5. AcceptGood' /\ GenesisGood' /\ StateNotBehind'
  BY <1>1, Zenon DEF AcceptGood, GenesisGood, StateNotBehind, SaveMeta, Running, Accepting
<1>6. Agree'
  <2> SUFFICES ASSUME ~torn PROVE Agree'
    BY Zenon DEF Agree, SaveMeta
  <2>1. state = accepting /\ (~failed => indexed = 1 .. Len(tip))
    BY DEF SInv, Agree, SaveMeta, Running, Accepting
  <2>2. ~failed => indexed' = 1 .. Len(accepting)
    BY <1>2, <2>1 DEF SaveMeta
  <2> QED
    BY <1>1, <2>1, <2>2, Zenon DEF Agree, SaveMeta, Running, Accepting
<1> QED
  BY <1>3, <1>4, <1>5, <1>6 DEF SInv

\* AC_ACCEPT_INTERNAL.
LEMMA AcceptFailsSInv == SInv /\ AcceptFails => SInv'
<1> SUFFICES ASSUME SInv, AcceptFails PROVE SInv'
  OBVIOUS
<1>1. /\ failed' \in BOOLEAN /\ failed'
      /\ pc \in Accepting /\ pc' = "idle" /\ accepting' = << >> /\ torn' = torn
      /\ UNCHANGED <<blockFile, metaFile, stateFile, state, indexed, acked>>
  BY Zenon DEF AcceptFails, FailWith, Accepting
<1>2. (pc = "meta" /\ tip' = accepting) \/ (pc # "meta" /\ tip' = tip)
  BY Zenon DEF AcceptFails
<1>3. STypeOK'
  BY <1>1, <1>2, AncestryHolds DEF SInv, STypeOK, Ancestry, Running
<1>4. AcceptGood' /\ GenesisGood' /\ MetaGood'
  BY <1>1, Zenon DEF SInv, AcceptGood, GenesisGood, MetaGood, Stored, Before, Running, Accepting
<1>5. RunGood' /\ StateNotBehind' /\ Agree'
  <2>1. CASE pc = "meta" /\ tip' = accepting
    <3>1. RunGood'
      BY <1>1, <2>1, AcceptingStored, Zenon DEF SInv, RunGood, Running, Stored, Before
    <3>2. StateNotBehind'
      BY <1>1, <2>1, AcceptingStored DEF SInv, StateNotBehind
    <3>3. metaFile # {accepting}
      <4>1. Len(accepting) \in Nat
        BY CutEnds, Zenon DEF SInv, STypeOK
      <4> QED
        BY <2>1, <4>1, AcceptingStored
    <3>4. Agree'
      BY <1>1, <2>1, <3>3, Zenon DEF Agree, Running, Accepting
    <3> QED
      BY <3>1, <3>2, <3>4, Zenon
  <2>2. CASE pc # "meta" /\ tip' = tip
    BY <1>1, <2>2 DEF SInv, RunGood, StateNotBehind, Agree, Running, Accepting, Stored, Before
  <2> QED
    BY <1>2, <2>1, <2>2
<1> QED
  BY <1>3, <1>4, <1>5 DEF SInv

-----------------------------------------------------------------------------
\* Every step preserves the invariant.
LEMMA SInvStep == SInv /\ [SNext]_svars => SInv'
<1> SUFFICES ASSUME SInv, [SNext]_svars PROVE SInv'
  BY Zenon
<1>1. CASE UNCHANGED svars
  <2>1. STypeOK' /\ MetaGood' /\ RunGood'
    BY <1>1 DEF svars, SInv, STypeOK, MetaGood, RunGood, Stored, Before
  <2>2. AcceptGood' /\ GenesisGood' /\ StateNotBehind' /\ Agree'
    BY <1>1, Zenon DEF svars, SInv, AcceptGood, GenesisGood, StateNotBehind, Agree
  <2> QED
    BY <2>1, <2>2, Zenon DEF SInv
<1>2. CASE SNext
  BY <1>2, OpenFreshSInv, OpenExistingSInv, GenesisSInv, GenesisFailsSInv, ApplySInv,
     WriteBlockSInv, SaveStateSInv, SaveMetaSInv, AcceptFailsSInv, StopSInv, Zenon DEF SNext
<1> QED
  BY <1>1, <1>2

\* The files and the memory fit together in every reachable state (chain.c).
THEOREM StorageInvariant == SSpec => []SInv
  BY SInitSInv, SInvStep, PTL DEF SSpec

\* The block files a running node serves are its chain (block_write, HEADERS_REQ).
THEOREM ServesChainHolds == SSpec => []ServesChain
<1>1. SInv => ServesChain
  BY DEF SInv, RunGood, Stored, ServesChain
<1> QED
  BY <1>1, StorageInvariant, PTL

\* An acknowledged block is never lost (accept_block returns AC_ACCEPT_OK after meta_save).
THEOREM DurableCommitsHolds == SSpec => []DurableCommits
<1>1. SInv => DurableCommits
  BY DEF SInv, RunGood, Before, DurableCommits
<1> QED
  BY <1>1, StorageInvariant, PTL

\* No committed block's effects are missing from the state (state.bin before meta.bin).
THEOREM StateNotBehindHolds == SSpec => []StateNotBehind
<1>1. SInv => StateNotBehind
  BY DEF SInv
<1> QED
  BY <1>1, StorageInvariant, PTL

\* Away from the damaging moments a restart undoes the effects of failed writes
\* (ac_chain_open, tx_index_rebuild).
THEOREM IntactHolds == SSpec => []Intact
<1>1. SInv => Intact
  BY DEF SInv, Agree, Intact, Running
<1> QED
  BY <1>1, StorageInvariant, PTL

-----------------------------------------------------------------------------
(* The files as one durable log *)

\* The tip of meta.bin is the one chain in it.
LEMMA MetaTipIs == /\ metaFile = {} => MetaTip = << >>
                   /\ \A m : metaFile = {m} => MetaTip = m
  BY DEF MetaTip

\* The same after a step.
LEMMA MetaTipWillBe == /\ metaFile' = {} => MetaTip' = << >>
                       /\ \A m : metaFile' = {m} => MetaTip' = m
  BY Zenon DEF MetaTip

\* It stays as long as meta.bin does.
LEMMA MetaTipStays == STypeOK /\ metaFile' = metaFile => MetaTip' = MetaTip
  BY MetaTipIs, MetaTipWillBe DEF STypeOK

\* The block being persisted is the tip and one block more.
LEMMA AcceptingAppends ==
  ASSUME SInv, pc \in Accepting
  PROVE  \E b \in Block : accepting = Append(tip, b)
<1>1. tip \in Seq(Block) /\ accepting \in Seq(Block)
  BY Zenon DEF SInv, STypeOK, Tip
<1>2. Len(tip) \in Nat /\ Len(accepting) = Len(tip) + 1
  BY <1>1, SeqTypes, Zenon DEF SInv, AcceptGood
<1>3. \A i \in 1 .. Len(tip) : accepting[i] = tip[i]
  <2>1. Cut(accepting, Len(tip)) = tip
    BY <1>1, <1>2, CutEnds DEF SInv, AcceptGood, Tip
  <2>2. Len(tip) \in 0 .. Len(accepting)
    BY <1>2
  <2>3. \A i \in 1 .. Len(tip) : Cut(accepting, Len(tip))[i] = accepting[i]
    BY <1>1, <2>2, CutType, Zenon DEF Tip
  <2> QED
    BY <2>1, <2>3, Zenon
<1> DEFINE b == accepting[Len(tip) + 1]
<1>4. b \in Block
  <2>1. Len(tip) + 1 \in 1 .. Len(accepting)
    BY <1>2
  <2> QED
    BY <1>1, <2>1, SeqTypes
<1>b. accepting[Len(tip) + 1] = b
  OBVIOUS
<1> HIDE DEF b
<1>5. /\ Append(tip, b) \in Seq(Block)
      /\ Len(Append(tip, b)) = Len(tip) + 1
      /\ \A i \in 1 .. Len(tip) : Append(tip, b)[i] = tip[i]
      /\ Append(tip, b)[Len(tip) + 1] = b
  <2>1. Append(tip, b) \in Seq(Block) /\ Len(Append(tip, b)) = Len(tip) + 1
    BY <1>1, <1>4, AppendIs, Zenon
  <2>2. \A i \in 1 .. Len(tip) : Append(tip, b)[i] = tip[i]
    BY <1>1, <1>4, AppendIs
  <2>3. Append(tip, b)[Len(tip) + 1] = b
    BY <1>1, <1>4, AppendIs, Zenon
  <2> QED
    BY <2>1, <2>2, <2>3, Zenon
<1>6. \A i \in 1 .. Len(accepting) : accepting[i] = Append(tip, b)[i]
  <2> SUFFICES ASSUME NEW i \in 1 .. Len(accepting) PROVE accepting[i] = Append(tip, b)[i]
    BY Zenon
  <2>1. i \in 1 .. Len(tip) \/ i = Len(tip) + 1
    BY <1>2
  <2> QED
    BY <1>3, <1>5, <1>b, <2>1, Zenon
<1>7. accepting = Append(tip, b)
  BY <1>1, <1>2, <1>5, <1>6, SameSeq, Zenon
<1> QED
  BY <1>4, <1>7, Zenon

LogStep == [Log!LogNext]_(Log!logVars)

\* A step that leaves the log as it is.
LEMMA Stutters ==
  ASSUME MetaTip' = MetaTip, acked' = acked, pc' \in Running <=> pc \in Running,
         pc \in Running => tip' = tip
  PROVE  LogStep
<1>1. (pc' \in Running) = (pc \in Running)
  OBVIOUS
<1>2. (IF pc \in Running THEN tip ELSE << >>)' = IF pc \in Running THEN tip ELSE << >>
  OBVIOUS
<1>3. Log!logVars' = Log!logVars
  BY <1>1, <1>2, Zenon DEF Log!logVars
<1> QED
  BY <1>3 DEF LogStep

\* ac_chain_open: nothing of the log changes before the node is up.
LEMMA OpenLogs ==
  SInv /\ (OpenFresh \/ OpenExisting \/ GenesisBlock \/ GenesisMeta \/ GenesisState
         \/ GenesisFails) => LogStep
<1>1. ASSUME SInv, OpenFresh \/ GenesisBlock \/ GenesisFails PROVE LogStep
  <2>1. /\ metaFile' = metaFile /\ acked' = acked
        /\ pc \notin Running /\ pc' \notin Running
    BY <1>1, Zenon DEF OpenFresh, GenesisBlock, Genesis, GenesisFails, FailWith, Running
  <2> QED
    BY <1>1, <2>1, MetaTipStays, Stutters DEF SInv
<1>2. ASSUME SInv, GenesisMeta PROVE LogStep
  <2>1. MetaTip = << >> /\ MetaTip' = << >>
    BY <1>2, MetaTipIs, MetaTipWillBe, Zenon DEF SInv, GenesisGood, GenesisMeta, Genesis
  <2> QED
    BY <1>2, <2>1, Stutters, Zenon DEF GenesisMeta, Genesis, Running
<1>3. ASSUME SInv, GenesisState \/ OpenExisting PROVE LogStep
  <2>1. MetaTip' = MetaTip
    BY <1>3, MetaTipStays, Zenon DEF SInv, GenesisState, OpenExisting
  <2>2. tip' = MetaTip
    <3>1. CASE GenesisState
      BY <1>3, <3>1, MetaTipIs, Zenon DEF SInv, GenesisGood, GenesisState, Genesis, Running
    <3>2. CASE OpenExisting
      BY <1>3, <3>2, MetaTipIs, Zenon DEF SInv, STypeOK, OpenExisting
    <3> QED
      BY <1>3, <3>1, <3>2
  <2>3. pc \notin Running /\ pc' \in Running /\ acked' = acked
    BY <1>3, Zenon DEF GenesisState, Genesis, OpenExisting, Running
  <2> QED
    BY <2>1, <2>2, <2>3 DEF LogStep, Log!LogNext, Log!LogStart
<1> QED
  BY <1>1, <1>2, <1>3

\* A stop loses what is not durable.
LEMMA StopLogs == SInv /\ Stop => LogStep
<1> SUFFICES ASSUME SInv, Stop PROVE LogStep
  OBVIOUS
<1>1. MetaTip' = MetaTip /\ acked' = acked /\ pc' \notin Running
  BY MetaTipStays, Zenon DEF SInv, Stop, Running
<1>2. CASE pc \in Running
  BY <1>1, <1>2 DEF LogStep, Log!LogNext, Log!LogStop
<1>3. CASE pc \notin Running
  BY <1>1, <1>3, Stutters
<1> QED
  BY <1>2, <1>3

\* accept_block: one step of the log, at meta_save.
LEMMA AcceptLogs ==
  SInv /\ ((\E b \in Block : Apply(b)) \/ WriteBlock \/ SaveState \/ SaveMeta \/ AcceptFails)
    => LogStep
<1>1. ASSUME SInv, (\E b \in Block : Apply(b)) \/ WriteBlock \/ SaveState
      PROVE  LogStep
  <2>1. /\ metaFile' = metaFile /\ acked' = acked /\ tip' = tip
        /\ pc \in Running /\ pc' \in Running
    BY <1>1 DEF Apply, WriteBlock, SaveState, Running
  <2> QED
    BY <1>1, <2>1, MetaTipStays, Stutters, Zenon DEF SInv
<1>2. ASSUME SInv, SaveMeta PROVE LogStep
  <2>1. PICK b \in Block : accepting = Append(tip, b)
    BY <1>2, AcceptingAppends, Zenon DEF SaveMeta, Accepting
  <2>2. /\ pc \in Running /\ pc' \in Running
        /\ tip' = Append(tip, b) /\ acked' = tip'
    BY <1>2, <2>1, Zenon DEF SaveMeta, Running
  <2>3. MetaTip' = tip'
    BY <1>2, MetaTipWillBe DEF SaveMeta
  <2> QED
    BY <2>2, <2>3 DEF LogStep, Log!LogNext, Log!LogCommit
<1>3. ASSUME SInv, AcceptFails PROVE LogStep
  <2>1. /\ pc \in Accepting /\ pc \in Running /\ pc' \in Running
        /\ MetaTip' = MetaTip /\ acked' = acked
    BY <1>3, MetaTipStays DEF SInv, AcceptFails, FailWith, Accepting, Running
  <2>2. CASE tip' = tip
    BY <2>1, <2>2, Stutters
  <2>3. CASE tip' = accepting
    <3>1. PICK b \in Block : tip' = Append(tip, b)
      BY <1>3, <2>1, <2>3, AcceptingAppends
    <3> QED
      BY <2>1, <3>1 DEF LogStep, Log!LogNext, Log!LogTail
  <2> QED
    BY <1>3, <2>2, <2>3, Zenon DEF AcceptFails
<1> QED
  BY <1>1, <1>2, <1>3

\* The files implement the durable log: every step of ac_chain_open, of ac_chain_accept_block
\* and every failure is a step of the log or leaves it as it is.
THEOREM StorageImplementsLog == SSpec => ImplementsLog
<1>1. SInit => Log!LogInit
  BY MetaTipIs DEF SInit, Log!LogInit, Running
<1>2. SInv /\ [SNext]_svars => [Log!LogNext]_(Log!logVars)
  <2> SUFFICES ASSUME SInv, [SNext]_svars PROVE LogStep
    BY Zenon DEF LogStep
  <2>1. CASE UNCHANGED svars
    BY <2>1, MetaTipStays, Stutters DEF svars, SInv
  <2>2. CASE SNext
    BY <2>2, OpenLogs, StopLogs, AcceptLogs DEF SNext
  <2> QED
    BY <2>1, <2>2
<1> QED
  BY <1>1, <1>2, StorageInvariant, PTL DEF SSpec, ImplementsLog, Log!LogSpec

-----------------------------------------------------------------------------
(* The epoch seed *)

\* What is cached is a seed of an epoch, and a node that does not run has nothing cached.
CacheType ==
  /\ cache = {} \/ \E c \in Seed : cache = {c}
  /\ pc \notin Running => cache = {}

\* While a block is accepted, what is cached belongs to the epoch of that block.
CacheOfBlock ==
  pc \in Accepting =>
    \E b \in Block : accepting = Append(tip, b) /\ \A c \in cache : c.epoch = Epoch(b)

EInv == SInv /\ CacheType /\ CacheOfBlock /\ SeedCurrent

-----------------------------------------------------------------------------
(* The last block before an epoch *)

\* A set of heights up to n that is not empty has a greatest element.
LEMMA MaxHeightIn ==
  ASSUME NEW n \in Nat, NEW S \in SUBSET (0 .. n), S # {}
  PROVE  Max(S) \in S
<1> DEFINE T == {k \in 0 .. n : n - k \in S}
           R == {p \in Nat \X Nat : p[1] < p[2]}
<1>1. T \subseteq Nat /\ T # {}
  <2>1. PICK h \in S : TRUE
    BY Zenon
  <2>2. n - h \in 0 .. n /\ n - (n - h) = h
    BY <2>1
  <2>3. n - h \in T
    BY <2>1, <2>2, Zenon
  <2>4. T # {}
    BY <2>3, Zenon
  <2>5. T \subseteq Nat
    OBVIOUS
  <2> QED
    BY <2>4, <2>5, Zenon
<1>2. PICK x \in T : \A y \in T : <<y, x>> \notin R
  <2>1. IsWellFoundedOn(R, Nat)
    BY NatLessThanWellFounded DEF OpToRel
  <2> HIDE DEF R, T
  <2> QED
    BY <1>1, <2>1, WFMin, Zenon
<1>3. \A y \in T : ~(y < x)
  BY <1>1, <1>2, Zenon
<1>4. PICK h \in S : h = n - x
  BY <1>2
<1>5. ASSUME NEW k \in S PROVE h >= k
  <2>1. n - k \in 0 .. n /\ n - (n - k) = k /\ x \in 0 .. n
    BY <1>2
  <2>2. n - k \in T
    BY <1>5, <2>1, Zenon
  <2>3. ~(n - k < x)
    BY <1>3, <2>2
  <2> QED
    BY <1>4, <1>5, <2>1, <2>3
<1> QED
  BY <1>4, <1>5, Zenon DEF Max

\* The slot of a chain's last block is a natural number.
LEMMA LastSlotNat == ASSUME NEW t \in Tip PROVE LastSlot(t) \in Nat
<1>1. Len(t) \in Nat /\ (t = << >> <=> Len(t) = 0)
  BY CutEnds
<1>2. t # << >> => t[Len(t)] \in Block
  BY <1>1, SeqTypes DEF Tip
<1> QED
  BY <1>2, SeedsAssumption DEF LastSlot

\* The height of the last block before an epoch is one of the chain's.
LEMMA LastBeforeIn ==
  ASSUME NEW t \in Tip, NEW e \in Nat
  PROVE  LastBefore(t, e) \in 0 .. Len(t)
<1> DEFINE S == {0} \cup {h \in 1 .. Len(t) : LastSlot(Cut(t, h)) < e * EpochSlots}
<1>1. Len(t) \in Nat /\ S \in SUBSET (0 .. Len(t)) /\ S # {}
  BY CutEnds
<1>2. LastBefore(t, e) = Max(S)
  BY DEF LastBefore
<1> HIDE DEF S
<1>3. Max(S) \in S
  BY <1>1, MaxHeightIn, Zenon
<1> QED
  BY <1>1, <1>2, <1>3, Zenon

\* The seed of an epoch as the chain t has it.
SeedIn(t, e) == IF e = 0 THEN {} ELSE {Cut(t, LastBefore(t, e))}

\* compute_epoch_seed, which reads the block files, finds the chain's seed.
LEMMA ComputesSeed ==
  ASSUME tip \in Tip, Stored(tip), NEW e \in Nat
  PROVE  ComputeEpochSeed(e) = SeedIn(tip, e)
<1>1. Len(tip) \in Nat
  BY CutEnds, Zenon
<1>2. \A h \in 1 .. Len(tip) : EndsScan(e, h) <=> LastSlot(Cut(tip, h)) < e * EpochSlots
  BY <1>1 DEF Stored, EndsScan
<1>3. {h \in 1 .. Len(tip) : EndsScan(e, h)}
        = {h \in 1 .. Len(tip) : LastSlot(Cut(tip, h)) < e * EpochSlots}
  BY <1>2
<1>4. e # 0 => ComputeEpochSeed(e) = blockFile[LastBefore(tip, e)]
  BY <1>3, Zenon DEF ComputeEpochSeed, LastBefore
<1>5. LastBefore(tip, e) \in 0 .. Len(tip)
  BY LastBeforeIn
<1> QED
  BY <1>4, <1>5, Zenon DEF Stored, SeedIn, ComputeEpochSeed

\* A block does not change the seed of its own epoch.
LEMMA SeedStays ==
  ASSUME NEW t \in Tip, NEW b \in Block
  PROVE  SeedIn(Append(t, b), Epoch(b)) = SeedIn(t, Epoch(b))
<1> DEFINE u == Append(t, b)
           e == Epoch(b)
<1>1. /\ u \in Tip /\ Len(u) = Len(t) + 1 /\ Len(t) \in Nat
      /\ \A h \in 0 .. Len(t) : Cut(u, h) = Cut(t, h)
      /\ Cut(u, Len(u)) = u
  BY CutAppend, CutEnds, Zenon
<1>2. SlotOf[b] \in Nat /\ EpochSlots \in Nat \ {0}
  BY SeedsAssumption
<1>3. e \in Nat /\ e * EpochSlots <= SlotOf[b]
  BY <1>2 DEF Epoch
<1>4. LastSlot(u) = SlotOf[b]
  <2>1. u[Len(u)] = b /\ u # << >>
    BY <1>1, AppendIs DEF Tip
  <2> QED
    BY <2>1, Zenon DEF LastSlot
<1>5. {h \in 1 .. Len(u) : LastSlot(Cut(u, h)) < e * EpochSlots}
        = {h \in 1 .. Len(t) : LastSlot(Cut(t, h)) < e * EpochSlots}
  <2> HIDE DEF u, e
  <2>1. ~(LastSlot(Cut(u, Len(u))) < e * EpochSlots)
    BY <1>1, <1>2, <1>3, <1>4
  <2> QED
    BY <1>1, <2>1
<1>6. LastBefore(u, e) = LastBefore(t, e)
  BY <1>5, Zenon DEF LastBefore
<1>7. LastBefore(t, e) \in 0 .. Len(t)
  BY <1>3, LastBeforeIn
<1> QED
  BY <1>1, <1>6, <1>7, Zenon DEF SeedIn

-----------------------------------------------------------------------------
(* The steps *)

\* ac_chain_epoch_seed leaves the seed of the chain in the cache, and only that of epoch e.
LEMMA AskedSeed ==
  ASSUME SInv, pc = "idle", CacheType, SeedCurrent, NEW e \in Nat, EpochSeed(e)
  PROVE  /\ \E c \in Seed : cache' = {c}
         /\ \A c \in cache' : c.epoch = e /\ c.seed = SeedIn(tip, e)
<1>1. tip \in Tip /\ Stored(tip) /\ pc \in Running
  BY DEF SInv, STypeOK, RunGood, Running
<1>2. CASE \E c \in cache : c.epoch = e
  <2>1. cache' = cache /\ \A c \in cache : c.epoch = e
    BY <1>2 DEF EpochSeed, CacheType
  <2>2. \A c \in cache : c.seed = SeedIn(tip, c.epoch)
    BY <1>1, Zenon DEF SeedCurrent, SeedIn
  <2> QED
    BY <1>2, <2>1, <2>2, Zenon DEF CacheType
<1>3. CASE ~\E c \in cache : c.epoch = e
  <2>1. cache' = {[epoch |-> e, seed |-> SeedIn(tip, e)]}
    BY <1>1, <1>3, ComputesSeed, Zenon DEF EpochSeed
  <2>2. SeedIn(tip, e) \in SUBSET Tip
    BY <1>1, LastBeforeIn, CutType DEF SeedIn
  <2>3. [epoch |-> e, seed |-> SeedIn(tip, e)] \in Seed
    BY <2>2 DEF Seed
  <2> HIDE DEF SeedIn
  <2> QED
    BY <2>1, <2>3
<1> QED
  BY <1>2, <1>3, Zenon

\* Nothing is cached at first.
LEMMA EInitEInv == EInit => EInv
<1> SUFFICES ASSUME EInit PROVE EInv
  OBVIOUS
<1>1. SInv
  BY SInitSInv, Zenon DEF EInit
<1>2. CacheType /\ CacheOfBlock /\ SeedCurrent
  BY Zenon DEF EInit, SInit, CacheType, CacheOfBlock, SeedCurrent, Running, Accepting
<1> QED
  BY <1>1, <1>2 DEF EInv

\* Every step is one of the chain's, or leaves the chain alone.
LEMMA ENextIsSNext == [ENext]_evars => [SNext]_svars
  BY ZenonT(40) DEF ENext, SNext, AskSeed, CheckAndApply, Commit, evars

\* An empty cache is right, outside accept_block.
LEMMA EmptySeeds ==
  ASSUME cache' = {}, pc' \notin Accepting
  PROVE  CacheType' /\ CacheOfBlock' /\ SeedCurrent'
  BY DEF CacheType, CacheOfBlock, SeedCurrent

\* A caller asks for a seed.
LEMMA AskSeeds ==
  ASSUME EInv, NEW e \in Nat, AskSeed(e)
  PROVE  CacheType' /\ CacheOfBlock' /\ SeedCurrent'
<1>1. /\ \E c \in Seed : cache' = {c}
      /\ \A c \in cache' : c.epoch = e /\ c.seed = SeedIn(tip, e)
  BY AskedSeed DEF EInv, AskSeed
<1>2. pc = "idle" /\ pc' = "idle" /\ tip' = tip
  BY DEF AskSeed, svars
<1>3. CacheType' /\ CacheOfBlock'
  BY <1>1, <1>2, ZenonT(40) DEF CacheType, CacheOfBlock, Running, Accepting
<1>4. SeedCurrent'
  BY <1>1, <1>2 DEF SeedCurrent, SeedIn
<1> QED
  BY <1>3, <1>4

\* accept_block asks for the seed of the block's epoch.
LEMMA ApplySeeds ==
  ASSUME EInv, NEW b \in Block, CheckAndApply(b)
  PROVE  CacheType' /\ CacheOfBlock' /\ SeedCurrent'
<1>0. Epoch(b) \in Nat
  BY SeedsAssumption DEF Epoch
<1>1. pc = "idle" /\ pc' = "block" /\ tip' = tip /\ accepting' = Append(tip, b)
  BY Zenon DEF CheckAndApply, Apply
<1>2. /\ \E c \in Seed : cache' = {c}
      /\ \A c \in cache' : c.epoch = Epoch(b) /\ c.seed = SeedIn(tip, Epoch(b))
  BY <1>0, <1>1, AskedSeed, Zenon DEF EInv, CheckAndApply
<1>3. CacheType' /\ CacheOfBlock'
  BY <1>1, <1>2, ZenonT(40) DEF CacheType, CacheOfBlock, Running, Accepting
<1>4. SeedCurrent'
  BY <1>1, <1>2 DEF SeedCurrent, SeedIn
<1> QED
  BY <1>3, <1>4

\* The writes that do not move the tip.
LEMMA WriteSeeds ==
  ASSUME EInv, WriteBlock \/ SaveState, UNCHANGED cache
  PROVE  CacheType' /\ CacheOfBlock' /\ SeedCurrent'
<1>1. /\ pc \in Accepting /\ pc' \in Accepting
      /\ UNCHANGED <<tip, accepting, cache>>
  BY DEF WriteBlock, SaveState, Accepting
<1>2. pc \in Running /\ pc' \in Running
  BY <1>1 DEF Accepting, Running
<1> QED
  BY <1>1, <1>2, Zenon DEF EInv, CacheType, CacheOfBlock, SeedCurrent

\* A write fails. If it is meta.bin's the tip has moved to the block, whose epoch is the one
\* that is cached and whose seed does not depend on it.
LEMMA FailSeeds ==
  ASSUME EInv, AcceptFails, UNCHANGED cache
  PROVE  CacheType' /\ CacheOfBlock' /\ SeedCurrent'
<1>1. /\ pc \in Accepting /\ pc' = "idle" /\ cache' = cache
      /\ tip' = tip \/ tip' = accepting
  BY Zenon DEF AcceptFails, FailWith, Accepting
<1>2. CacheType' /\ CacheOfBlock'
  BY <1>1 DEF EInv, CacheType, CacheOfBlock, Running, Accepting
<1>3. PICK b \in Block : accepting = Append(tip, b) /\ \A c \in cache : c.epoch = Epoch(b)
  BY <1>1, Zenon DEF EInv, CacheOfBlock
<1>4. \A c \in cache : c.seed = SeedIn(tip, c.epoch)
  BY <1>1, Zenon DEF EInv, SeedCurrent, SeedIn, Running, Accepting
<1>5. SeedIn(accepting, Epoch(b)) = SeedIn(tip, Epoch(b))
  BY <1>3, SeedStays DEF EInv, SInv, STypeOK
<1>6. \A c \in cache' : c.seed = SeedIn(tip', c.epoch)
  BY <1>1, <1>3, <1>4, <1>5, ZenonT(40)
<1>7. SeedCurrent'
  BY <1>6 DEF SeedCurrent, SeedIn
<1> QED
  BY <1>2, <1>7

\* Every step preserves the invariant.
LEMMA EInvStep == EInv /\ [ENext]_evars => EInv'
<1> SUFFICES ASSUME EInv, [ENext]_evars PROVE EInv'
  OBVIOUS
<1>1. SInv'
  BY ENextIsSNext, SInvStep, Zenon DEF EInv
<1>2. CacheType' /\ CacheOfBlock' /\ SeedCurrent'
  <2>1. CASE (OpenFresh \/ OpenExisting) /\ UNCHANGED cache
    <3>1. cache' = {} /\ pc' \notin Accepting
      BY <2>1, Zenon DEF EInv, CacheType, OpenFresh, OpenExisting, Running, Accepting
    <3> QED
      BY <3>1, EmptySeeds
  <2>2. CASE (GenesisBlock \/ GenesisMeta \/ GenesisState \/ GenesisFails) /\ UNCHANGED cache
    <3>1. cache' = {} /\ pc' \notin Accepting
      BY <2>2, Zenon DEF EInv, CacheType, GenesisBlock, GenesisMeta, GenesisState, Genesis,
         GenesisFails, FailWith, Running, Accepting
    <3> QED
      BY <3>1, EmptySeeds
  <2>3. CASE \E e \in 0 .. MaxEpoch : AskSeed(e)
    <3>1. PICK e \in 0 .. MaxEpoch : AskSeed(e)
      BY <2>3
    <3>2. e \in Nat
      BY SeedsAssumption
    <3> QED
      BY <3>1, <3>2, AskSeeds
  <2>4. CASE \E b \in Block : CheckAndApply(b)
    BY <2>4, ApplySeeds
  <2>5. CASE (WriteBlock \/ SaveState) /\ UNCHANGED cache
    BY <2>5, WriteSeeds
  <2>6. CASE AcceptFails /\ UNCHANGED cache
    BY <2>6, FailSeeds
  <2>7. CASE Commit
    <3>1. cache' = {} /\ pc' \notin Accepting
      BY <2>7, Zenon DEF Commit, SaveMeta, Accepting
    <3> QED
      BY <3>1, EmptySeeds, Zenon
  <2>8. CASE Stop /\ cache' = {}
    <3>1. pc' \notin Accepting
      BY <2>8, Zenon DEF Stop, Accepting
    <3> QED
      BY <2>8, <3>1, EmptySeeds
  <2>9. CASE UNCHANGED evars
    BY <2>9, Zenon DEF EInv, CacheType, CacheOfBlock, SeedCurrent, evars, svars
  <2> QED
    BY <2>1, <2>2, <2>3, <2>4, <2>5, <2>6, <2>7, <2>8, <2>9, Zenon DEF ENext
<1> QED
  BY <1>1, <1>2 DEF EInv

\* A cached epoch seed is that of the chain the node is on (ac_chain_epoch_seed), whatever
\* was asked for before and whichever writes of accept_block failed since.
THEOREM SeedCurrentHolds == ESpec => []SeedCurrent
<1>1. EInv => SeedCurrent
  BY DEF EInv
<1> QED
  BY <1>1, EInitEInv, EInvStep, PTL DEF ESpec

\* A chain with seeds is a chain of module Storage: what is shown of that holds here.
THEOREM SeedsRunStorage == ESpec => SSpec
<1>1. EInit => SInit
  BY DEF EInit
<1> QED
  BY <1>1, ENextIsSNext, PTL DEF ESpec, SSpec
=============================================================================
