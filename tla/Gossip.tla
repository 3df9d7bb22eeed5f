------------------------------- MODULE Gossip -------------------------------
(***************************************************************************)
(* How blocks, transactions and votes spread (net.c): ac_net_broadcast,    *)
(* the outgoing queues, and dispatch_message with its ring of recently     *)
(* seen payloads (dedup_has, dedup_remember). Every link has a reader      *)
(* thread at its end, so the readers of one node interleave between the    *)
(* look-up, the store and the relay, which are three critical sections.    *)
(* How connections come and go is in module Peers; here a link is up or    *)
(* down. A message stands for its payload, and so for its hash.            *)
(***************************************************************************)
EXTENDS Naturals, Sequences, FiniteSets

CONSTANTS
  Node,
  Link,      \* the pairs <<p, n>> of neighbours, in both directions
  Msg,
  NoMsg,     \* no message
  Origin,    \* Origin[m]: the node that broadcasts m
  RingCap,   \* AC_DEDUP_CAP
  QueueMax,  \* AC_OUT_QUEUE_MAX_MSGS
  MaxBreaks  \* bound: the links that break by themselves

ASSUME GossipAssumption ==
  /\ Link \subseteq Node \X Node
  /\ \A e \in Link : e[1] # e[2] /\ <<e[2], e[1]>> \in Link
  /\ NoMsg \notin Msg /\ Origin \in [Msg -> Node]
  /\ IsFiniteSet(Node) /\ IsFiniteSet(Msg)
  /\ RingCap \in Nat \ {0} /\ QueueMax \in Nat \ {0} /\ MaxBreaks \in Nat

VARIABLES
  queue,     \* queue[<<p, n>>]: what p has queued or sent for n and n has not read
  up,        \* the links over which p can send to n
  ring,      \* ring[n]: n->dedup, oldest first
  rd,        \* rd[<<p, n>>]: where n's reader of p is
  inHand,    \* and the message it handles
  calls,     \* calls[n][m]: how often n's callback and relay were called with m
  sent,      \* the messages that were broadcast by their origin
  breaks,    \* the links that broke by themselves
  overflow   \* a message was dropped because a queue was full

gvars == <<queue, up, ring, rd, inHand, calls, sent, breaks, overflow>>

Neighbours(n) == {p \in Node : <<p, n>> \in Link}
CallMax == Cardinality(Node)     \* calls are counted up to here

GTypeOK ==
  /\ queue \in [Link -> Seq(Msg)] /\ \A e \in Link : Len(queue[e]) <= QueueMax
  /\ up \subseteq Link /\ \A e \in up : <<e[2], e[1]>> \in up
  /\ ring \in [Node -> Seq(Msg)] /\ \A n \in Node : Len(ring[n]) <= RingCap
  /\ rd \in [Link -> {"recv", "new", "stored"}]
  /\ inHand \in [Link -> Msg \cup {NoMsg}]
  /\ \A e \in Link : rd[e] = "recv" <=> inHand[e] = NoMsg
  /\ calls \in [Node -> [Msg -> 0 .. CallMax]]
  /\ sent \subseteq Msg /\ breaks \in 0 .. MaxBreaks /\ overflow \in BOOLEAN

GInit ==
  /\ queue = [e \in Link |-> <<>>] /\ up = Link
  /\ ring = [n \in Node |-> <<>>]
  /\ rd = [e \in Link |-> "recv"] /\ inHand = [e \in Link |-> NoMsg]
  /\ calls = [n \in Node |-> [m \in Msg |-> 0]]
  /\ sent = {} /\ breaks = 0 /\ overflow = FALSE

Both(E) == E \cup {<<e[2], e[1]>> : e \in E}

\* Variant: one message more.
FullLate(e) == Len(queue[e]) > QueueMax

\* peer_enqueue refuses: the queue is full.
Full(e) == Len(queue[e]) >= QueueMax

\* ac_net_broadcast to all neighbours but those of X; a link whose queue is full is shut down.
Broadcast(n, m, X) ==
  LET to == {e \in up : e[1] = n /\ e[2] \notin X}
      full == {e \in to : Full(e)}
  IN
  /\ queue' = [e \in Link |-> IF e \in to \ full THEN Append(queue[e], m) ELSE queue[e]]
  /\ up' = up \ Both(full)
  /\ overflow' = (overflow \/ full # {})

\* A proposal, a vote, a committed block or a submitted transaction of the node itself. It
\* is not entered in the ring.
Originate(m) ==
  /\ m \notin sent
  /\ sent' = sent \cup {m}
  /\ Broadcast(Origin[m], m, {})
  /\ UNCHANGED <<ring, rd, inHand, calls, breaks>>

\* Variant: all but the last entry.
DedupHasOlder(n, m) == \E i \in 1 .. Len(ring[n]) - 1 : ring[n][i] = m

\* dedup_has, over the whole ring.
DedupHas(n, m) == \E i \in 1 .. Len(ring[n]) : ring[n][i] = m

\* Variant: a message in the ring is not taken from the stream.
ReceiveFresh(e) ==
  /\ rd[e] = "recv" /\ queue[e] # <<>> /\ ~DedupHas(e[2], Head(queue[e]))
  /\ queue' = [queue EXCEPT ![e] = Tail(@)]
  /\ rd' = [rd EXCEPT ![e] = "new"]
  /\ inHand' = [inHand EXCEPT ![e] = Head(queue[e])]
  /\ UNCHANGED <<up, ring, calls, sent, breaks, overflow>>

\* frame_recv and dedup_has: a message in the ring is dropped.
Receive(e) ==
  /\ rd[e] = "recv" /\ queue[e] # <<>>
  /\ queue' = [queue EXCEPT ![e] = Tail(@)]
  /\ IF DedupHas(e[2], Head(queue[e]))
     THEN UNCHANGED <<rd, inHand>>
     ELSE /\ rd' = [rd EXCEPT ![e] = "new"]
          /\ inHand' = [inHand EXCEPT ![e] = Head(queue[e])]
  /\ UNCHANGED <<up, ring, calls, sent, breaks, overflow>>

\* Variant: dedup_pos is not advanced.
DedupOverwrite(n, m) == ring' = [ring EXCEPT ![n] = <<m>>]

\* dedup_remember: the oldest entry of a full ring is overwritten.
DedupRemember(n, m) ==
  ring' = [ring EXCEPT ![n] = Append(IF Len(@) = RingCap THEN Tail(@) ELSE @, m)]

Remember(e) ==
  /\ rd[e] = "new"
  /\ DedupRemember(e[2], inHand[e])
  /\ rd' = [rd EXCEPT ![e] = "stored"]
  /\ UNCHANGED <<queue, up, inHand, calls, sent, breaks, overflow>>

\* Variant: the message is not passed on.
RelayNothing(e) ==
  /\ rd[e] = "stored"
  /\ calls' = [calls EXCEPT ![e[2]][inHand[e]] = IF @ < CallMax THEN @ + 1 ELSE @]
  /\ rd' = [rd EXCEPT ![e] = "recv"]
  /\ inHand' = [inHand EXCEPT ![e] = NoMsg]
  /\ UNCHANGED <<queue, up, ring, sent, breaks, overflow>>

\* The callback, and ac_net_broadcast to all but the sender.
Relay(e) ==
  /\ rd[e] = "stored"
  /\ calls' = [calls EXCEPT ![e[2]][inHand[e]] = IF @ < CallMax THEN @ + 1 ELSE @]
  /\ Broadcast(e[2], inHand[e], {e[1]})
  /\ rd' = [rd EXCEPT ![e] = "recv"]
  /\ inHand' = [inHand EXCEPT ![e] = NoMsg]
  /\ UNCHANGED <<ring, sent, breaks>>

\* A link breaks, for a reason of its own.
Break(e) ==
  /\ e \in up /\ breaks < MaxBreaks
  /\ up' = up \ Both({e}) /\ breaks' = breaks + 1
  /\ UNCHANGED <<queue, ring, rd, inHand, calls, sent, overflow>>

\* What was under way on a link that is down may be read still, or is lost.
Lose(e) ==
  /\ e \notin up /\ queue[e] # <<>>
  /\ queue' = [queue EXCEPT ![e] = <<>>]
  /\ UNCHANGED <<up, ring, rd, inHand, calls, sent, breaks, overflow>>

\* The connector dials again. Nothing is sent again.
Reconnect(e) ==
  /\ e \notin up /\ \A d \in Both({e}) : queue[d] = <<>> /\ rd[d] = "recv"
  /\ up' = up \cup Both({e})
  /\ UNCHANGED <<queue, ring, rd, inHand, calls, sent, breaks, overflow>>

ReaderStep(e) == Receive(e) \/ Remember(e) \/ Relay(e)

GNext ==
  \/ \E m \in Msg : Originate(m)
  \/ \E e \in Link : ReaderStep(e) \/ Break(e) \/ Lose(e) \/ Reconnect(e)

\* A reader goes on when there is something to read (the writer at the other end does).
GFairness == \A e \in Link : WF_gvars(ReaderStep(e))

GSpec == GInit /\ [][GNext]_gvars /\ GFairness

-----------------------------------------------------------------------------
(* Properties. The first three need a ring that holds every message as often as the    *)
(* readers of a node can store it at once.                                            *)

RingLarge == \A n \in Node : RingCap >= Cardinality(Neighbours(n)) * Cardinality(Msg)

\* However the readers interleave between dedup_has and dedup_remember, a node passes a
\* message to its callback and on to the others at most once for each of its neighbours.
CallsBounded ==
  \A n \in Node, m \in Msg : calls[n][m] <= Cardinality(Neighbours(n))

\* A message that a node handled is in its ring from then on: no copy that arrives later,
\* over whatever path, is handled again.
HandledRemembered ==
  \A n \in Node, m \in Msg : calls[n][m] > 0 => DedupHas(n, m)

\* Gossip dies down: once the nodes have nothing new to say, every queue runs empty and
\* every reader is back in frame_recv, in spite of echoes and of cycles of links.
Quiesces == <>[](\A e \in Link : queue[e] = <<>> /\ rd[e] = "recv")

\* Every node gets every message of another, also one that was under way on a link that
\* broke (it comes by another path), unless a full queue made a node drop a message. For a
\* network that is connected without any MaxBreaks of its links.
Spreads ==
  \A m \in Msg : m \in sent ~> overflow \/ \A n \in Node \ {Origin[m]} : calls[n][m] > 0

=============================================================================
