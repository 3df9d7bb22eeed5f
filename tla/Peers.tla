------------------------------- MODULE Peers -------------------------------
(***************************************************************************)
(* The peer connections of one node (net.c): the slot table, the listener, *)
(* the connector with its reaper, a reader and a writer thread for every   *)
(* connection, the callers that find a queue full, and ac_net_stop. A step *)
(* is what a thread does from one critical section or blocking call to the *)
(* next that another thread can tell apart. What the queues carry and how  *)
(* it spreads is in module Gossip.                                         *)
(*                                                                         *)
(* A connection has a number of its own, which is also its descriptor (a   *)
(* descriptor number that the system hands out again is not modelled) and  *)
(* the name of its two threads. The other nodes may send anything or       *)
(* nothing, and may close a connection at any time.                        *)
(***************************************************************************)
EXTENDS Naturals, FiniteSets

CONSTANTS
  MaxPeers,  \* AC_MAX_PEERS
  Remote,    \* the other nodes
  NoNode,    \* no node
  Callers,   \* the nodes that dial this one
  SeedCount, \* seed_n
  Seeds,     \* seed_peers
  Referral,  \* Referral[r]: the peer, if any, that r's HELLO tells us to dial
  MaxConns   \* bound: the connections of a behaviour

ASSUME PeersAssumption ==
  /\ MaxPeers \in Nat \ {0} /\ SeedCount \in Nat /\ MaxConns \in Nat
  /\ NoNode \notin Remote /\ Callers \subseteq Remote
  /\ Seeds \in [1 .. SeedCount -> Remote]
  /\ Referral \in [Remote -> Remote \cup {NoNode}] /\ \A r \in Remote : Referral[r] # r

Slot == 1 .. MaxPeers
Conn == 1 .. MaxConns
None == 0                        \* fd = -1, or no thread
Listener == 0
Connector == MaxConns + 1
Maker == 0 .. MaxConns + 1       \* the listener, the readers, the connector

VARIABLES
  running,                       \* n->running
  inUse, fd, known, closing,     \* in_use, fd, peer_id_known and out_closing of a slot
  owner,                         \* the threads stored in reader and writer of a slot
  rStarted,                      \* reader_started
  who, maker, stage, home, sock, \* a connection: its other end, creator, progress, slot, socket
  rpc, wpc,                      \* its reader and its writer
  lpc, at, seen, thR,            \* the listener; the connector, its slot or seed, reader_th
  stop, stopAt,                  \* ac_net_stop and the slot it is at
  overtaken, late, died          \* see ReapJoin, PeerAlloc and ReapLook

slotVars == <<inUse, fd, known, closing, owner, rStarted>>
connVars == <<who, maker, stage, home, sock>>
reapVars == <<at, seen, thR>>
stopVars == <<running, stop, stopAt>>
marks == <<overtaken, late, died>>
pvars == <<running, inUse, fd, known, closing, owner, rStarted, who, maker, stage, home,
           sock, rpc, wpc, lpc, at, seen, thR, stop, stopAt, overtaken, late, died>>

Making == {"connecting", "slotted", "spawned"}
RunningReader == {"hello", "publish", "dial", "dialling", "read", "close"}

PTypeOK ==
  /\ running \in BOOLEAN
  /\ inUse \in [Slot -> BOOLEAN] /\ fd \in [Slot -> Conn \cup {None}]
  /\ known \in [Slot -> BOOLEAN] /\ closing \in [Slot -> BOOLEAN]
  /\ owner \in [Slot -> Conn \cup {None}] /\ rStarted \in [Slot -> BOOLEAN]
  /\ who \in [Conn -> Remote \cup {NoNode}] /\ maker \in [Conn -> Maker]
  /\ stage \in [Conn -> Making \cup {"unused", "made"}]
  /\ home \in [Conn -> Slot \cup {None}]
  /\ sock \in [Conn -> {"none", "open", "shut", "closed"}]
  /\ rpc \in [Conn -> RunningReader \cup {"none", "ended", "joined"}]
  /\ wpc \in [Conn -> {"none", "runs", "ended", "joined"}]
  /\ lpc \in {"accept", "ended"} /\ at \in {"reap", "join", "dial", "ended"}
  /\ seen \in (IF at = "dial" THEN 1 .. SeedCount ELSE 1 .. MaxPeers + 1)
  /\ thR \in Conn \cup {None}
  /\ stop \in {"no", "loops", "sweep", "join", "done"} /\ stopAt \in Slot
  /\ overtaken \in BOOLEAN /\ late \in BOOLEAN /\ died \in BOOLEAN

\* ac_net_new and ac_net_start
PInit ==
  /\ running = TRUE
  /\ inUse = [s \in Slot |-> FALSE] /\ fd = [s \in Slot |-> None]
  /\ known = [s \in Slot |-> FALSE] /\ closing = [s \in Slot |-> FALSE]
  /\ owner = [s \in Slot |-> None] /\ rStarted = [s \in Slot |-> FALSE]
  /\ who = [c \in Conn |-> NoNode] /\ maker = [c \in Conn |-> Listener]
  /\ stage = [c \in Conn |-> "unused"] /\ home = [c \in Conn |-> None]
  /\ sock = [c \in Conn |-> "none"]
  /\ rpc = [c \in Conn |-> "none"] /\ wpc = [c \in Conn |-> "none"]
  /\ lpc = "accept" /\ at = "reap" /\ seen = 1 /\ thR = None
  /\ stop = "no" /\ stopAt = 1
  /\ overtaken = FALSE /\ late = FALSE /\ died = FALSE

-----------------------------------------------------------------------------
(* A new connection, made by the listener, the connector or a reader *)

Busy(m) == \E c \in Conn : maker[c] = m /\ stage[c] \in Making

\* The next connection; the number of one that was not established is used again.
Fresh(c) == stage[c] = "unused" /\ \A d \in Conn : d < c => stage[d] # "unused"

\* peer_alloc: the first slot that is not in use is cleared, its descriptor is -1. late:
\* ac_net_stop has already gone over the open connections.
PeerAlloc(c, s) ==
  /\ ~inUse[s] /\ \A t \in Slot : t < s => inUse[t]
  /\ inUse' = [inUse EXCEPT ![s] = TRUE]
  /\ fd' = [fd EXCEPT ![s] = None]
  /\ known' = [known EXCEPT ![s] = FALSE]
  /\ closing' = [closing EXCEPT ![s] = FALSE]
  /\ owner' = [owner EXCEPT ![s] = None]
  /\ rStarted' = [rStarted EXCEPT ![s] = FALSE]
  /\ stage' = [stage EXCEPT ![c] = "slotted"]
  /\ home' = [home EXCEPT ![c] = s]
  /\ sock' = [sock EXCEPT ![c] = "open"]
  /\ late' = (late \/ stop \in {"join", "done"})

\* listen_loop up to peer_alloc; a connection there is no slot for is closed again.
Accept(c, s, r) ==
  /\ lpc = "accept" /\ running /\ ~Busy(Listener)
  /\ Fresh(c) /\ PeerAlloc(c, s)
  /\ who' = [who EXCEPT ![c] = r]
  /\ maker' = [maker EXCEPT ![c] = Listener]
  /\ UNCHANGED <<rpc, wpc, lpc, overtaken, died, reapVars, stopVars>>

\* The listen socket was closed: accept fails and n->running is false.
ListenerEnds ==
  /\ lpc = "accept" /\ ~running /\ ~Busy(Listener)
  /\ lpc' = "ended"
  /\ UNCHANGED <<rpc, wpc, marks, slotVars, connVars, reapVars, stopVars>>

\* already_dialed: there is a live outbound connection to r.
Outbound == {s \in Slot : inUse[s] /\ fd[s] # None /\ maker[fd[s]] # Listener}
AlreadyDialed(r) == \E s \in Outbound : who[fd[s]] = r

\* dial_peer from already_dialed to connect, by thread m.
Dial(m, c, r) ==
  /\ ~AlreadyDialed(r) /\ Fresh(c)
  /\ who' = [who EXCEPT ![c] = r]
  /\ maker' = [maker EXCEPT ![c] = m]
  /\ stage' = [stage EXCEPT ![c] = "connecting"]
  /\ UNCHANGED <<home, sock>>

\* dial_peer returns at once: r is dialled already or (the bound) unreachable.
NoDial(r) == AlreadyDialed(r) \/ \A c \in Conn : stage[c] # "unused"

\* Where a reader goes on: while (n->running).
LoopTop == IF running THEN "read" ELSE "close"

\* The connector after a dial_peer: the next seed, or the sleep and the loop's test.
NextTurn == at' = (IF running THEN "reap" ELSE "ended") /\ seen' = 1

\* Variant: one seed too many.
NextSeedPast ==
  IF running /\ seen <= SeedCount THEN seen' = seen + 1 /\ UNCHANGED at ELSE NextTurn

NextSeed ==
  IF running /\ seen < SeedCount THEN seen' = seen + 1 /\ UNCHANGED at ELSE NextTurn

\* dial_peer, or the listener's turn, is over for the thread.
Resume(m) ==
  /\ rpc' = IF m \in Conn THEN [rpc EXCEPT ![m] = LoopTop] ELSE rpc
  /\ IF m = Connector THEN NextSeed ELSE UNCHANGED <<at, seen>>

\* connect succeeded.
Connected(c, s) ==
  /\ stage[c] = "connecting"
  /\ PeerAlloc(c, s)
  /\ UNCHANGED <<who, maker, rpc, wpc, lpc, overtaken, died, reapVars, stopVars>>

\* connect failed, or there is no free slot.
DialFails(c) ==
  /\ stage[c] = "connecting"
  /\ stage' = [stage EXCEPT ![c] = "unused"]
  /\ Resume(maker[c])
  /\ UNCHANGED <<who, maker, home, sock, wpc, lpc, thR, marks, slotVars, stopVars>>

\* p->fd = fd and the rest of the slot, HELLO on the socket, pthread_create of the writer
\* and of the reader. A writer that finds n->running false ends at once.
Open(c) ==
  /\ stage[c] = "slotted"
  /\ fd' = [fd EXCEPT ![home[c]] = c]
  /\ owner' = [owner EXCEPT ![home[c]] = c]
  /\ wpc' = [wpc EXCEPT ![c] = IF running THEN "runs" ELSE "ended"]
  /\ closing' = [closing EXCEPT ![home[c]] = @ \/ ~running]
  /\ rpc' = [rpc EXCEPT ![c] = "hello"]
  /\ stage' = [stage EXCEPT ![c] = "spawned"]
  /\ UNCHANGED <<inUse, known, rStarted, who, maker, home, sock, lpc, marks, reapVars,
                 stopVars>>

\* p->reader_started = true, whatever has become of the slot meanwhile.
Made(c) ==
  /\ stage[c] = "spawned"
  /\ rStarted' = [rStarted EXCEPT ![home[c]] = TRUE]
  /\ stage' = [stage EXCEPT ![c] = "made"]
  /\ Resume(maker[c])
  /\ UNCHANGED <<inUse, fd, known, closing, owner, who, maker, home, sock, wpc, lpc, thR,
                 marks, stopVars>>

-----------------------------------------------------------------------------
(* Routing *)

\* ac_net_broadcast and ac_net_send_to use a slot whose peer is known and descriptor open.
Peer(s) == who[owner[s]]
Routed(s) == inUse[s] /\ known[s] /\ fd[s] # None

\* shutdown(SHUT_RDWR)
Shut(C) == [c \in Conn |-> IF c \in C /\ sock[c] = "open" THEN "shut" ELSE sock[c]]

\* A caller of theirs finds the queue of a slot full or closing.
Overflow(s) ==
  /\ Routed(s)
  /\ sock' = Shut({fd[s]})
  /\ UNCHANGED <<who, maker, stage, home, rpc, wpc, lpc, marks, slotVars, reapVars, stopVars>>

\* The other node closes the connection, or it breaks.
RemoteCloses(c) ==
  /\ sock' = Shut({c})
  /\ UNCHANGED <<who, maker, stage, home, rpc, wpc, lpc, marks, slotVars, reapVars, stopVars>>

-----------------------------------------------------------------------------
(* reader_loop *)

\* The first frame is a HELLO of this chain by another node. Newest wins: every slot known
\* for that node is hidden, shut down and told to close.
Stale(c) == {s \in Slot \ {home[c]} : inUse[s] /\ known[s] /\ Peer(s) = who[c]}

\* Variant: the slot is hidden but not shut down.
HelloHides(c) ==
  /\ rpc[c] = "hello" /\ sock[c] \in {"open", "shut"}
  /\ known' = [s \in Slot |-> known[s] /\ s \notin Stale(c)]
  /\ rpc' = [rpc EXCEPT ![c] = "publish"]
  /\ UNCHANGED <<inUse, fd, closing, owner, rStarted, wpc, lpc, marks, connVars, reapVars,
                 stopVars>>

HelloArrives(c) ==
  /\ rpc[c] = "hello" /\ sock[c] \in {"open", "shut"}
  /\ known' = [s \in Slot |-> known[s] /\ s \notin Stale(c)]
  /\ sock' = Shut({fd[s] : s \in Stale(c)})
  /\ closing' = [s \in Slot |-> closing[s] \/ s \in Stale(c)]
  /\ rpc' = [rpc EXCEPT ![c] = "publish"]
  /\ UNCHANGED <<inUse, fd, owner, rStarted, who, maker, stage, home, wpc, lpc, marks,
                 reapVars, stopVars>>

\* p->peer_id_known = true, after peers_mu was released.
Publish(c) ==
  /\ rpc[c] = "publish"
  /\ known' = [known EXCEPT ![home[c]] = TRUE]
  /\ rpc' = [rpc EXCEPT ![c] = IF Referral[who[c]] = NoNode THEN LoopTop ELSE "dial"]
  /\ UNCHANGED <<inUse, fd, closing, owner, rStarted, wpc, lpc, marks, connVars, reapVars,
                 stopVars>>

\* dial_peer of the peer the HELLO named.
GossipDial(c) ==
  /\ rpc[c] = "dial"
  /\ \/ /\ \E d \in Conn : Dial(c, d, Referral[who[c]])
        /\ rpc' = [rpc EXCEPT ![c] = "dialling"]
     \/ /\ NoDial(Referral[who[c]])
        /\ rpc' = [rpc EXCEPT ![c] = LoopTop] /\ UNCHANGED connVars
  /\ UNCHANGED <<wpc, lpc, marks, slotVars, reapVars, stopVars>>

\* frame_recv returns a frame, also after n->running has become false; dispatch_message
\* calls the node's callbacks. What it queues is in module Gossip.
Dispatch(c) ==
  /\ rpc[c] = "read" /\ sock[c] \in {"open", "shut"}
  /\ rpc' = [rpc EXCEPT ![c] = LoopTop]
  /\ UNCHANGED <<wpc, lpc, marks, slotVars, connVars, reapVars, stopVars>>

\* close(p->fd); p->fd = -1, unless it is -1 already.
CloseFd(s) ==
  /\ sock' = IF fd[s] # None THEN [sock EXCEPT ![fd[s]] = "closed"] ELSE sock
  /\ fd' = [fd EXCEPT ![s] = None]

\* peer_close_fd, after which the reader does not touch the slot.
ReaderEnds(c) ==
  /\ CloseFd(home[c])
  /\ rpc' = [rpc EXCEPT ![c] = "ended"]
  /\ UNCHANGED <<inUse, known, closing, owner, rStarted, who, maker, stage, home, wpc, lpc,
                 marks, reapVars, stopVars>>

\* A first frame that is no HELLO, or one of another chain or of this very node.
HelloFails(c) == rpc[c] = "hello" /\ sock[c] = "open" /\ ReaderEnds(c)

\* The end of the stream, or of the loop.
ReaderStops(c) ==
  /\ rpc[c] = "close" \/ (rpc[c] \in {"hello", "read"} /\ sock[c] # "open")
  /\ ReaderEnds(c)

-----------------------------------------------------------------------------
(* writer_loop *)

\* The writer ends: out_closing, and the queue is dropped.
WriterEnds(c) ==
  /\ wpc[c] = "runs"
  /\ closing' = [closing EXCEPT ![home[c]] = TRUE]
  /\ wpc' = [wpc EXCEPT ![c] = "ended"]
  /\ UNCHANGED <<inUse, fd, known, owner, rStarted, who, maker, stage, home, rpc, lpc, marks,
                 reapVars, stopVars>>

\* A writer that waits for messages is woken by out_closing.
WriterRuns(c) == WriterEnds(c) /\ closing[home[c]] /\ UNCHANGED sock

\* Between two messages it may also see n->running, or have frame_send fail (the descriptor
\* is -1 or broken, or SO_SNDTIMEO is over), and then shuts the connection down.
WriterFails(c) ==
  /\ WriterEnds(c)
  /\ (~running /\ UNCHANGED sock) \/ sock' = Shut({fd[home[c]]})

-----------------------------------------------------------------------------
(* connector_loop *)

\* writer_started is set with the handles and cleared with in_use.
WStarted(s) == inUse[s] /\ owner[s] # None

\* pthread_join of thread c, whose state is in pc, waits for the end of the thread.
Ended(pc, c) == c # None => pc[c] \in {"ended", "joined"}
Joined(pc, c) == IF c = None THEN pc ELSE [pc EXCEPT ![c] = "joined"]

\* A slot that reap_dead_peers has something to do for.
Dead(s) == inUse[s] /\ fd[s] = None /\ (rStarted[s] \/ WStarted(s))

\* Variant: the writer is not told to close.
ReapLookOnly(s) ==
  /\ at = "reap" /\ s >= seen /\ Dead(s) /\ \A t \in seen .. s - 1 : ~Dead(t)
  /\ thR' = IF rStarted[s] THEN owner[s] ELSE None
  /\ at' = "join" /\ seen' = s
  /\ died' = (owner[s] = None)
  /\ UNCHANGED <<rpc, wpc, lpc, overtaken, late, slotVars, connVars, stopVars>>

\* reap_dead_peers takes the threads of the next dead slot and has the writer close. A
\* reader_started without a handle (the slot was cleared before its last creator stored the
\* flag) makes it join thread 0, which is the end of the process.
ReapLook(s) ==
  /\ at = "reap" /\ s >= seen /\ Dead(s) /\ \A t \in seen .. s - 1 : ~Dead(t)
  /\ thR' = IF rStarted[s] THEN owner[s] ELSE None
  /\ closing' = [closing EXCEPT ![s] = @ \/ WStarted(s)]
  /\ at' = "join" /\ seen' = s
  /\ died' = (owner[s] = None)
  /\ UNCHANGED <<inUse, fd, known, owner, rStarted, rpc, wpc, lpc, overtaken, late,
                 connVars, stopVars>>

\* Variant: the writer is not joined.
ReapDetached ==
  /\ at = "join" /\ Ended(rpc, thR)
  /\ rpc' = Joined(rpc, thR)
  /\ inUse' = [inUse EXCEPT ![seen] = @ /\ fd[seen] # None]
  /\ rStarted' = [rStarted EXCEPT ![seen] = @ /\ fd[seen] # None]
  /\ overtaken' = (overtaken \/ thR = None)
  /\ at' = "reap" /\ seen' = seen + 1 /\ thR' = None
  /\ UNCHANGED <<wpc, fd, known, closing, owner, lpc, late, died, connVars, stopVars>>

\* Variant: the reader is not joined.
ReapWriterOnly ==
  /\ at = "join" /\ Ended(wpc, owner[seen])
  /\ wpc' = Joined(wpc, owner[seen])
  /\ inUse' = [inUse EXCEPT ![seen] = @ /\ fd[seen] # None]
  /\ rStarted' = [rStarted EXCEPT ![seen] = @ /\ fd[seen] # None]
  /\ overtaken' = (overtaken \/ thR = None)
  /\ at' = "reap" /\ seen' = seen + 1 /\ thR' = None
  /\ UNCHANGED <<rpc, fd, known, closing, owner, lpc, late, died, connVars, stopVars>>

\* Both are joined and the slot is released. overtaken: reader_started was not yet stored
\* when the reaper looked, and the reader is not joined.
ReapJoin ==
  /\ at = "join" /\ Ended(wpc, owner[seen]) /\ Ended(rpc, thR)
  /\ wpc' = Joined(wpc, owner[seen]) /\ rpc' = Joined(rpc, thR)
  /\ inUse' = [inUse EXCEPT ![seen] = @ /\ fd[seen] # None]
  /\ rStarted' = [rStarted EXCEPT ![seen] = @ /\ fd[seen] # None]
  /\ overtaken' = (overtaken \/ thR = None)
  /\ at' = "reap" /\ seen' = seen + 1 /\ thR' = None
  /\ UNCHANGED <<fd, known, closing, owner, lpc, late, died, connVars, stopVars>>

\* All slots are looked at. The target is one outbound connection for every seed.
Count ==
  /\ at = "reap" /\ \A s \in seen .. MaxPeers : ~Dead(s)
  /\ IF running /\ Cardinality(Outbound) < SeedCount
     THEN at' = "dial" /\ seen' = 1
     ELSE NextTurn
  /\ UNCHANGED <<thR, rpc, wpc, lpc, marks, slotVars, connVars, stopVars>>

\* dial_peer of one seed after the other.
DialSeed ==
  /\ at = "dial" /\ ~Busy(Connector)
  /\ \/ (\E c \in Conn : Dial(Connector, c, Seeds[seen])) /\ UNCHANGED <<at, seen>>
     \/ NoDial(Seeds[seen]) /\ NextSeed /\ UNCHANGED connVars
  /\ UNCHANGED <<thR, rpc, wpc, lpc, marks, slotVars, stopVars>>

-----------------------------------------------------------------------------
(* ac_net_stop *)

\* n->running = false, and the listen socket is closed.
StopBegins ==
  /\ stop = "no"
  /\ running' = FALSE /\ stop' = "loops"
  /\ UNCHANGED <<stopAt, rpc, wpc, lpc, marks, slotVars, connVars, reapVars>>

\* The listener and the connector are joined.
StopJoinsLoops ==
  /\ stop = "loops" /\ lpc = "ended" /\ at = "ended"
  /\ stop' = "sweep"
  /\ UNCHANGED <<running, stopAt, rpc, wpc, lpc, marks, slotVars, connVars, reapVars>>

\* Variant: the connections are not shut down.
StopWakes ==
  /\ stop = "sweep"
  /\ closing' = [s \in Slot |-> closing[s] \/ inUse[s]]
  /\ stop' = "join"
  /\ late' = (\E c \in Conn : stage[c] \in {"slotted", "spawned"})
  /\ UNCHANGED <<running, stopAt, inUse, fd, known, owner, rStarted, rpc, wpc, lpc,
                 overtaken, died, connVars, reapVars>>

\* Every open connection is shut down and every writer woken. late: one is being made.
StopSweeps ==
  /\ stop = "sweep"
  /\ sock' = Shut({fd[s] : s \in {t \in Slot : inUse[t]}})
  /\ closing' = [s \in Slot |-> closing[s] \/ inUse[s]]
  /\ stop' = "join"
  /\ late' = (\E c \in Conn : stage[c] \in {"slotted", "spawned"})
  /\ UNCHANGED <<running, stopAt, inUse, fd, known, owner, rStarted, who, maker, stage, home,
                 rpc, wpc, lpc, overtaken, died, reapVars>>

\* Slot by slot, the reader and the writer are joined and the slot is released.
StopJoins ==
  LET s == stopAt
      r == IF rStarted[s] THEN owner[s] ELSE None
      w == IF WStarted(s) THEN owner[s] ELSE None
  IN
  /\ stop = "join" /\ Ended(rpc, r) /\ Ended(wpc, w)
  /\ rpc' = Joined(rpc, r) /\ wpc' = Joined(wpc, w)
  /\ rStarted' = [rStarted EXCEPT ![s] = FALSE]
  /\ IF inUse[s] THEN CloseFd(s) ELSE UNCHANGED <<fd, sock>>
  /\ inUse' = [inUse EXCEPT ![s] = FALSE]
  /\ died' = (rStarted[s] /\ r = None)
  /\ IF s < MaxPeers THEN stopAt' = s + 1 /\ UNCHANGED stop
                     ELSE stop' = "done" /\ UNCHANGED stopAt
  /\ UNCHANGED <<running, known, closing, owner, who, maker, stage, home, lpc, overtaken,
                 late, reapVars>>

-----------------------------------------------------------------------------
(* The threads. What waits for another node is not a step of a thread's own. *)

Makes(m) ==
  \E c \in Conn :
    /\ maker[c] = m
    /\ (\E s \in Slot : Connected(c, s)) \/ DialFails(c) \/ Open(c) \/ Made(c)

ReaderRuns(c) == Publish(c) \/ GossipDial(c) \/ Makes(c) \/ ReaderStops(c)
ListenerRuns == Makes(Listener) \/ ListenerEnds
ConnectorRuns ==
  \/ (\E s \in Slot : ReapLook(s)) \/ ReapJoin
  \/ Count \/ DialSeed \/ Makes(Connector)
StopRuns == StopJoinsLoops \/ StopSweeps \/ StopJoins

Others ==
  \/ \E c \in Conn, s \in Slot, r \in Callers : Accept(c, s, r)
  \/ \E c \in Conn : HelloArrives(c) \/ HelloFails(c) \/ Dispatch(c) \/ RemoteCloses(c)
  \/ \E c \in Conn : WriterFails(c)
  \/ \E s \in Slot : Overflow(s)
  \/ StopBegins

PNext ==
  /\ ~died
  /\ \/ \E c \in Conn : ReaderRuns(c) \/ WriterRuns(c)
     \/ ListenerRuns \/ ConnectorRuns \/ StopRuns \/ Others

\* Every thread that can take a step goes on. Nothing is assumed of the other nodes.
PFairness ==
  /\ \A c \in Conn : WF_pvars(~died /\ ReaderRuns(c)) /\ WF_pvars(~died /\ WriterRuns(c))
  /\ WF_pvars(~died /\ ListenerRuns) /\ WF_pvars(~died /\ ConnectorRuns)
  /\ WF_pvars(~died /\ StopRuns)

PSpec == PInit /\ [][PNext]_pvars /\ PFairness

-----------------------------------------------------------------------------
(* Properties *)

UsesSlot(c) == stage[c] = "slotted" \/ rpc[c] \in RunningReader \/ wpc[c] = "runs"

\* A thread works on a slot only while the slot is in use and is its own: peer_alloc never
\* hands out a slot that a reader, a writer or a creator still touches. The exception is a
\* connection that a reader was still making when ac_net_stop went over the table (late).
OwnSlot ==
  ~late => /\ \A c \in Conn : UsesSlot(c) => inUse[home[c]]
           /\ \A c, d \in Conn : UsesSlot(c) /\ UsesSlot(d) /\ home[c] = home[d] => c = d

\* "Both are joined by reap_dead_peers / ac_net_stop" (net.c:759): when a slot is given up,
\* its two threads have been joined. Two exceptions: the reaper looked at the slot between
\* the end of its reader and its creator's store to reader_started (overtaken), or late.
GivenUpJoined ==
  ~overtaken /\ ~late =>
    \A c \in Conn : stage[c] \in {"spawned", "made"} =>
      \/ inUse[home[c]] /\ owner[home[c]] = c
      \/ rpc[c] = "joined" /\ wpc[c] = "joined"

\* A connection that is open and past its HELLO gets the messages for its node: what the
\* eviction hides (net.c:566) it also shuts down, and what the reaper or peer_alloc clears
\* is closed.
LiveRouted ==
  ~late => \A c \in Conn :
             rpc[c] \in {"dial", "dialling", "read"} /\ sock[c] = "open" =>
               Routed(home[c]) /\ owner[home[c]] = c

\* A slot does not stay in use without a working connection. One that was shut down, by the
\* other node, by a full queue, by a failed send, by a newer connection or by ac_net_stop, is
\* closed by its reader, and reap_dead_peers releases the slot of a closed one, so the table
\* is never used up by connections that have ended (late, and the end of the process, apart).
SlotRecovers ==
  \A s \in Slot :
    inUse[s] /\ (fd[s] = None \/ sock[fd[s]] = "shut")
      ~> ~inUse[s] \/ (fd[s] # None /\ sock[fd[s]] = "open") \/ late \/ died

\* ac_net_stop returns, unless it waits for a connection that was made after it went over
\* the table and whose other end says nothing.
StopReturns == stop # "no" ~> stop = "done" \/ late \/ died

\* "ac_net_stop ... joins every reader thread" and no callback can fire afterwards
\* (TECHNICAL-IMPLEMENTATION.md): when it has returned no reader and no writer runs.
StopJoinsAll ==
  stop = "done" => \A c \in Conn : rpc[c] \notin RunningReader /\ wpc[c] # "runs"

=============================================================================
