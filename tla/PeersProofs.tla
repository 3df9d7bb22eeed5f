---------------------------- MODULE PeersProofs ----------------------------
(***************************************************************************)
(* The slot table of net.c, for any number of slots, nodes and             *)
(* connections.                                                            *)
(***************************************************************************)
EXTENDS Peers, FiniteSetTheorems, TLAPS

\* Time limits for the provers, in seconds.
USE SMTT(30), ZenonT(30)

\* The threads of a connection exist once it is open, and its slot once it has one.
Stages ==
  \A c \in Conn :
    /\ stage[c] \in {"unused", "connecting", "slotted"} => rpc[c] = "none" /\ wpc[c] = "none"
    /\ stage[c] \in {"spawned", "made"} => rpc[c] # "none" /\ wpc[c] # "none"
    /\ stage[c] \in {"slotted", "spawned", "made"} => home[c] \in Slot
    /\ stage[c] # "unused" => who[c] \in Remote
    /\ rpc[c] = "dial" => Referral[who[c]] \in Remote

\* A thread makes one connection at a time and waits for it.
Makers ==
  /\ \A c, d \in Conn :
       stage[c] \in Making /\ stage[d] \in Making /\ maker[c] = maker[d] => c = d
  /\ \A c \in Conn : stage[c] \in Making =>
       /\ maker[c] \in Conn => rpc[maker[c]] = "dialling"
       /\ maker[c] = Connector => at = "dial"

\* ac_net_stop goes over the table when the connector has ended.
Loops ==
  /\ late => stop \in {"join", "done"}
  /\ stop \in {"sweep", "join", "done"} => at = "ended"
  /\ at = "join" => seen \in Slot

\* The handles of a slot are those of a connection whose slot it is.
Owners ==
  \A s \in Slot : owner[s] # None =>
    home[owner[s]] = s /\ stage[owner[s]] \in {"spawned", "made"}

\* A connection that has a slot and no threads yet.
SlottedGood(c) ==
  stage[c] = "slotted" =>
    /\ inUse[home[c]] /\ owner[home[c]] = None
    /\ stop \notin {"join", "done"}
    /\ \A d \in Conn : stage[d] = "slotted" /\ home[d] = home[c] => d = c

\* A connection whose reader runs, one whose writer runs, and one that is complete.
ReaderGood(c) ==
  rpc[c] \in RunningReader =>
    /\ inUse[home[c]] /\ owner[home[c]] = c /\ fd[home[c]] = c
    /\ rpc[c] \in {"dial", "dialling", "read"} /\ sock[c] = "open" => known[home[c]]
WriterGood(c) == wpc[c] = "runs" => inUse[home[c]] /\ owner[home[c]] = c
StoredGood(c) ==
  /\ stage[c] = "spawned" => stop \notin {"join", "done"}
  /\ stage[c] = "made" /\ inUse[home[c]] /\ owner[home[c]] = c => rStarted[home[c]]

Held == ~late => \A c \in Conn : SlottedGood(c) /\ ReaderGood(c) /\ WriterGood(c) /\ StoredGood(c)

\* The slot whose threads the reaper is joining.
Reaping ==
  at = "join" /\ ~died =>
    /\ inUse[seen] /\ fd[seen] = None /\ owner[seen] # None
    /\ thR # None => thR = owner[seen]

PInv == PTypeOK /\ Stages /\ Makers /\ Loops /\ Owners /\ Held /\ Reaping /\ GivenUpJoined

-----------------------------------------------------------------------------
(* Types *)

\* A thread is not one of another kind, and no connection is the missing one.
LEMMA Names == /\ None \notin Conn /\ Listener \notin Conn /\ Connector \notin Conn
               /\ Connector # Listener
               /\ Listener \in Maker /\ Connector \in Maker /\ Conn \subseteq Maker
  BY PeersAssumption DEF Conn, None, Listener, Connector, Maker

\* An update of a table of flags.
LEMMA SetFlag ==
  ASSUME NEW S, NEW f \in [S -> BOOLEAN], NEW s \in S, NEW v \in BOOLEAN
  PROVE  /\ [f EXCEPT ![s] = v] \in [S -> BOOLEAN]
         /\ [f EXCEPT ![s] = v][s] = v
         /\ \A t \in S \ {s} : [f EXCEPT ![s] = v][t] = f[t]
  BY Zenon

\* shutdown(2) opens no socket.
LEMMA ShutType ==
  ASSUME sock \in [Conn -> {"none", "open", "shut", "closed"}], NEW C
  PROVE  /\ Shut(C) \in [Conn -> {"none", "open", "shut", "closed"}]
         /\ \A c \in Conn : Shut(C)[c] = "open" => sock[c] = "open" /\ c \notin C
  BY Zenon DEF Shut

-----------------------------------------------------------------------------
(* Steps that leave the slots and the connections as they are, or only shut them *)

PRest == <<running, inUse, fd, known, owner, rStarted, who, maker, stage, home, rpc, lpc, at,
           seen, thR, stop, stopAt, overtaken, late, died>>

\* Fewer sockets are open and fewer writers run; a joined writer stays joined.
LEMMA Fewer ==
  ASSUME PInv, UNCHANGED PRest,
         closing' \in [Slot -> BOOLEAN],
         sock' \in [Conn -> {"none", "open", "shut", "closed"}],
         \A c \in Conn : sock'[c] = "open" => sock[c] = "open",
         wpc' \in [Conn -> {"none", "runs", "ended", "joined"}],
         \A c \in Conn : wpc'[c] = wpc[c] \/ (wpc[c] = "runs" /\ wpc'[c] = "ended")
  PROVE  PInv'
<1>1. PTypeOK'
  BY DEF PInv, PTypeOK, PRest
<1>2. Stages'
  BY Zenon DEF PInv, Stages, PRest
<1>3. Makers' /\ Loops' /\ Owners' /\ Reaping'
  BY Zenon DEF PInv, Makers, Loops, Owners, Reaping, PRest
<1>4. Held'
  BY DEF PInv, Held, SlottedGood, ReaderGood, WriterGood, StoredGood, PRest
<1>5. GivenUpJoined'
  BY Zenon DEF PInv, GivenUpJoined, PRest
<1> QED
  BY <1>1, <1>2, <1>3, <1>4, <1>5, Zenon DEF PInv

\* A full queue, or the other node, shuts a connection.
LEMMA ShutsInv ==
  PInv /\ ((\E s \in Slot : Overflow(s)) \/ \E c \in Conn : RemoteCloses(c)) => PInv'
<1> SUFFICES ASSUME PInv, (\E s \in Slot : Overflow(s)) \/ \E c \in Conn : RemoteCloses(c)
             PROVE  PInv'
  BY Zenon
<1>1. PICK C : sock' = Shut(C)
  BY Zenon DEF Overflow, RemoteCloses
<1>2. UNCHANGED PRest /\ closing' = closing /\ wpc' = wpc
  BY Zenon DEF Overflow, RemoteCloses, PRest, slotVars, reapVars, stopVars, marks
<1> QED
  BY <1>1, <1>2, ShutType, Fewer, Zenon DEF PInv, PTypeOK

\* writer_loop ends.
LEMMA WriterInv == PInv /\ (\E c \in Conn : WriterRuns(c) \/ WriterFails(c)) => PInv'
<1> SUFFICES ASSUME PInv, NEW c \in Conn, WriterRuns(c) \/ WriterFails(c) PROVE PInv'
  BY Zenon
<1>1. WriterEnds(c)
  BY Zenon DEF WriterRuns, WriterFails
<1>2. sock' = sock \/ \E C : sock' = Shut(C)
  BY Zenon DEF WriterRuns, WriterFails
<1>3. sock \in [Conn -> {"none", "open", "shut", "closed"}]
  BY Zenon DEF PInv, PTypeOK
<1>4. /\ sock' \in [Conn -> {"none", "open", "shut", "closed"}]
      /\ \A d \in Conn : sock'[d] = "open" => sock[d] = "open"
  BY <1>2, <1>3, ShutType
<1>5. closing' \in [Slot -> BOOLEAN]
  <2>1. home[c] \in Slot
    BY <1>1, Zenon DEF PInv, PTypeOK, Stages, WriterEnds, Making
  <2> QED
    BY <1>1, <2>1, SetFlag, Zenon DEF PInv, PTypeOK, WriterEnds
<1>6. UNCHANGED PRest
  BY <1>1, Zenon DEF WriterEnds, PRest, reapVars, stopVars, marks
<1>7. /\ wpc' \in [Conn -> {"none", "runs", "ended", "joined"}]
      /\ \A d \in Conn : wpc'[d] = wpc[d] \/ (wpc[d] = "runs" /\ wpc'[d] = "ended")
  BY <1>1, Zenon DEF PInv, PTypeOK, WriterEnds
<1> QED
  BY <1>4, <1>5, <1>6, <1>7, Fewer, Zenon

-----------------------------------------------------------------------------
(* The loops and ac_net_stop, as far as they leave the table alone *)

\* The number of outbound connections is a number.
LEMMA OutboundCount == Cardinality(Outbound) \in Nat
<1>1. IsFiniteSet(Slot)
  BY FS_Interval, PeersAssumption DEF Slot
<1>2. Outbound \subseteq Slot
  BY Zenon DEF Outbound
<1> QED
  BY <1>1, <1>2, FS_Subset, FS_CardinalityType, Zenon

PTable == <<inUse, fd, known, closing, owner, rStarted, who, maker, stage, home, sock, rpc, wpc>>

\* Steps that change nothing of the table; no creator of the connector's is waiting.
LEMMA LoopKeeps ==
  ASSUME PInv, UNCHANGED PTable, UNCHANGED <<thR, stopAt, overtaken, late, died>>,
         PTypeOK', Loops',
         \A c \in Conn : stage[c] \in Making /\ maker[c] = Connector => at' = "dial",
         at' # "join" \/ (at = "join" /\ seen' = seen),
         stop' \in {"join", "done"} => stop \in {"join", "done"}
  PROVE  PInv'
<1>1. Stages' /\ Makers' /\ Owners'
  BY Zenon DEF PInv, Stages, Makers, Owners, PTable
<1>2. Held'
  BY ZenonT(60) DEF PInv, Held, SlottedGood, ReaderGood, WriterGood, StoredGood, PTable
<1>3. Reaping' /\ GivenUpJoined'
  BY Zenon DEF PInv, Reaping, GivenUpJoined, PTable
<1> QED
  BY <1>1, <1>2, <1>3, Zenon DEF PInv

\* listen_loop ends, ac_net_stop begins and joins the two loops.
LEMMA StopEarlyInv == PInv /\ (ListenerEnds \/ StopBegins \/ StopJoinsLoops) => PInv'
<1> SUFFICES ASSUME PInv, ListenerEnds \/ StopBegins \/ StopJoinsLoops PROVE PInv'
  BY Zenon
<1>1. /\ UNCHANGED PTable /\ UNCHANGED <<at, seen, thR, stopAt, overtaken, late, died>>
      /\ running' = running \/ running' = FALSE
  BY Zenon DEF ListenerEnds, StopBegins, StopJoinsLoops, PTable, slotVars, connVars, reapVars,
     stopVars, marks
<1>2. /\ lpc' \in {"accept", "ended"}
      /\ stop' = stop \/ (stop = "no" /\ stop' = "loops")
                      \/ (stop = "loops" /\ stop' = "sweep" /\ at = "ended")
  BY Zenon DEF PInv, PTypeOK, ListenerEnds, StopBegins, StopJoinsLoops, stopVars
<1>3. PTypeOK'
  BY <1>1, <1>2, ZenonT(60) DEF PInv, PTypeOK, PTable
<1>4. Loops'
  BY <1>1, <1>2, Zenon DEF PInv, Loops
<1> QED
  BY <1>1, <1>2, <1>3, <1>4, LoopKeeps, Zenon DEF PInv, Makers

\* connector_loop goes on to the next seed, to sleep or to its end.
LEMMA TurnInv ==
  ASSUME PInv, UNCHANGED PTable,
         UNCHANGED <<running, lpc, thR, stop, stopAt, overtaken, late, died>>,
         at \in {"reap", "dial"}, ~Busy(Connector),
         \/ NextTurn
         \/ at = "dial" /\ NextSeed
         \/ at' = "dial" /\ seen' = 1 /\ 0 < SeedCount
  PROVE  PInv'
<1>1. \/ at' \in {"reap", "ended"} /\ seen' = 1
      \/ at' = "dial" /\ seen' \in 1 .. SeedCount
  BY PeersAssumption DEF NextTurn, NextSeed, PInv, PTypeOK
<1>2. PTypeOK'
  BY <1>1, PeersAssumption DEF PInv, PTypeOK, PTable
<1>3. Loops'
  BY <1>1, Zenon DEF PInv, Loops
<1> QED
  BY <1>1, <1>2, <1>3, LoopKeeps, Zenon DEF Busy

\* The end of reap_dead_peers, and a seed that is dialled already.
LEMMA TurnsInv ==
  PInv /\ (Count \/ (DialSeed /\ UNCHANGED connVars)) => PInv'
<1>1. ASSUME PInv, Count PROVE PInv'
  <2>1. /\ UNCHANGED PTable
        /\ UNCHANGED <<running, lpc, thR, stop, stopAt, overtaken, late, died>>
        /\ at = "reap"
    BY <1>1, Zenon DEF Count, PTable, slotVars, connVars, stopVars, marks
  <2>2. ~Busy(Connector)
    BY <1>1, <2>1, Zenon DEF PInv, Makers, Busy
  <2>3. NextTurn \/ (at' = "dial" /\ seen' = 1 /\ 0 < SeedCount)
    BY <1>1, OutboundCount, PeersAssumption DEF Count
  <2> QED
    BY <1>1, <2>1, <2>2, <2>3, TurnInv, Zenon
<1>2. ASSUME PInv, DialSeed, UNCHANGED connVars PROVE PInv'
  <2>1. /\ UNCHANGED PTable
        /\ UNCHANGED <<running, lpc, thR, stop, stopAt, overtaken, late, died>>
        /\ at = "dial" /\ ~Busy(Connector)
    BY <1>2, Zenon DEF DialSeed, PTable, slotVars, connVars, stopVars, marks
  <2>2. NextSeed
    <3>1. \A c \in Conn : ~Dial(Connector, c, Seeds[seen])
      <4> SUFFICES ASSUME NEW c \in Conn, Dial(Connector, c, Seeds[seen]) PROVE FALSE
        BY Zenon
      <4> QED
        BY <1>2, Zenon DEF Dial, Fresh, connVars, PInv, PTypeOK
    <3> QED
      BY <1>2, <3>1, Zenon DEF DialSeed
  <2> QED
    BY <1>2, <2>1, <2>2, TurnInv, Zenon
<1> QED
  BY <1>1, <1>2, Zenon

-----------------------------------------------------------------------------
(* reader_loop *)

RRest == <<running, inUse, fd, owner, rStarted, who, maker, stage, home, wpc, lpc, at, seen,
           thR, stop, stopAt, overtaken, late, died>>

\* A reader that runs goes on, and what is past its HELLO and open is known.
LEMMA ReaderMoves ==
  ASSUME PInv, NEW c \in Conn, NEW v \in {"publish", "dial", "read", "close"},
         rpc[c] \in RunningReader \ {"dialling"}, rpc' = [rpc EXCEPT ![c] = v],
         v = "dial" => Referral[who[c]] \in Remote,
         UNCHANGED RRest,
         known' \in [Slot -> BOOLEAN], closing' \in [Slot -> BOOLEAN],
         sock' \in [Conn -> {"none", "open", "shut", "closed"}],
         ~late => \A d \in Conn : rpc'[d] \in {"dial", "dialling", "read"} /\ sock'[d] = "open"
                                    => known'[home[d]]
  PROVE  PInv'
<1>0. /\ rpc' \in [Conn -> RunningReader \cup {"none", "ended", "joined"}]
      /\ rpc'[c] = v /\ \A d \in Conn \ {c} : rpc'[d] = rpc[d]
  BY Zenon DEF PInv, PTypeOK, RunningReader
<1>1. PTypeOK'
  BY <1>0, ZenonT(60) DEF PInv, PTypeOK, RRest
<1>2. Stages'
  BY <1>0 DEF PInv, Stages, RRest, RunningReader
<1>3. Makers' /\ Loops' /\ Owners' /\ Reaping'
  BY <1>0 DEF PInv, Makers, Loops, Owners, Reaping, RRest
<1>4. Held'
  <2> SUFFICES ASSUME ~late, NEW d \in Conn
               PROVE (SlottedGood(d) /\ ReaderGood(d) /\ WriterGood(d) /\ StoredGood(d))'
    BY Zenon DEF Held, RRest
  <2>1. SlottedGood(d) /\ ReaderGood(d) /\ WriterGood(d) /\ StoredGood(d)
    BY Zenon DEF PInv, Held
  <2>2. SlottedGood(d)' /\ WriterGood(d)' /\ StoredGood(d)'
    BY <2>1, Zenon DEF SlottedGood, WriterGood, StoredGood, RRest
  <2>3. rpc'[d] \in RunningReader => rpc[d] \in RunningReader
    BY <1>0, Zenon
  <2>4. ReaderGood(d)'
    BY <2>1, <2>3, Zenon DEF ReaderGood, RRest
  <2> QED
    BY <2>2, <2>4, Zenon
<1>5. GivenUpJoined'
  BY <1>0, Zenon DEF PInv, GivenUpJoined, RRest, RunningReader
<1> QED
  BY <1>1, <1>2, <1>3, <1>4, <1>5, Zenon DEF PInv

\* A reader that runs has a slot, and the slot no other reader.
LEMMA ReaderHome ==
  ASSUME PInv, NEW c \in Conn, rpc[c] \in RunningReader
  PROVE  /\ home[c] \in Slot /\ who[c] \in Remote
         /\ stage[c] \in {"spawned", "made"}
         /\ ~late => fd[home[c]] = c /\ inUse[home[c]] /\ owner[home[c]] = c
<1>1. stage[c] \in {"spawned", "made"}
  BY Zenon DEF PInv, PTypeOK, Stages, RunningReader, Making
<1> QED
  BY <1>1, Zenon DEF PInv, Stages, Held, ReaderGood

\* The HELLO of the other node: the connections it replaces are hidden and shut.
LEMMA HelloInv == ASSUME NEW c \in Conn PROVE PInv /\ HelloArrives(c) => PInv'
<1> SUFFICES ASSUME PInv, HelloArrives(c) PROVE PInv'
  BY Zenon
<1>1. rpc[c] = "hello" /\ rpc' = [rpc EXCEPT ![c] = "publish"] /\ UNCHANGED RRest
  BY Zenon DEF HelloArrives, RRest, reapVars, stopVars, marks
<1>2. known' \in [Slot -> BOOLEAN] /\ closing' \in [Slot -> BOOLEAN]
  BY Zenon DEF HelloArrives
<1>3. \A s \in Slot : s \notin Stale(c) /\ known[s] => known'[s]
  BY Zenon DEF HelloArrives
<1> DEFINE C == {fd[s] : s \in Stale(c)}
<1>4. /\ sock' \in [Conn -> {"none", "open", "shut", "closed"}]
      /\ \A d \in Conn : sock'[d] = "open" => sock[d] = "open" /\ d \notin C
  <2>1. sock' = Shut(C)
    BY Zenon DEF HelloArrives
  <2> HIDE DEF C
  <2> QED
    BY <2>1, ShutType, Zenon DEF PInv, PTypeOK
<1>5. ASSUME ~late, NEW d \in Conn, rpc'[d] \in {"dial", "dialling", "read"}, sock'[d] = "open"
      PROVE  known'[home[d]]
  <2>1. rpc[d] = rpc'[d] /\ rpc[d] \in RunningReader
    BY <1>1, <1>5, Zenon DEF PInv, PTypeOK, RunningReader
  <2>2. home[d] \in Slot /\ fd[home[d]] = d
    BY <1>5, <2>1, ReaderHome, Zenon
  <2>3. known[home[d]]
    BY <1>4, <1>5, <2>1, Zenon DEF PInv, Held, ReaderGood
  <2>4. home[d] \notin Stale(c)
    BY <1>4, <1>5, <2>2, Zenon
  <2> QED
    BY <1>3, <2>2, <2>3, <2>4, Zenon
<1> HIDE DEF C
<1>6. rpc[c] \in RunningReader \ {"dialling"}
  BY <1>1, Zenon DEF RunningReader
<1> QED
  BY <1>1, <1>2, <1>4, <1>5, <1>6, ReaderMoves, Zenon

\* The slot is published.
LEMMA PublishInv == ASSUME NEW c \in Conn PROVE PInv /\ Publish(c) => PInv'
<1> SUFFICES ASSUME PInv, Publish(c) PROVE PInv'
  BY Zenon
<1>1. /\ rpc[c] = "publish" /\ rpc[c] \in RunningReader \ {"dialling"}
      /\ UNCHANGED RRest /\ sock' = sock /\ closing' = closing
  BY Zenon DEF Publish, RRest, reapVars, stopVars, marks, connVars, RunningReader
<1>2. home[c] \in Slot /\ who[c] \in Remote
  BY <1>1, ReaderHome, Zenon
<1>3. /\ known' \in [Slot -> BOOLEAN] /\ known'[home[c]]
      /\ \A s \in Slot \ {home[c]} : known'[s] = known[s]
  BY <1>2, SetFlag, SMTT(30) DEF Publish, PInv, PTypeOK
<1>4. PICK v \in {"dial", "read", "close"} :
        rpc' = [rpc EXCEPT ![c] = v] /\ (v = "dial" => Referral[who[c]] \in Remote)
  <2>1. Referral[who[c]] \in Remote \cup {NoNode}
    BY <1>2, PeersAssumption, Zenon
  <2> QED
    BY <2>1, Zenon DEF Publish, LoopTop
<1>5. ASSUME ~late, NEW d \in Conn, rpc'[d] \in {"dial", "dialling", "read"}, sock'[d] = "open"
      PROVE  known'[home[d]]
  <2>1. CASE d = c
    BY <1>3, <2>1, Zenon
  <2>2. CASE d # c
    <3>1. rpc[d] = rpc'[d] /\ rpc[d] \in RunningReader
      BY <1>4, <1>5, <2>2, Zenon DEF PInv, PTypeOK, RunningReader
    <3>2. home[d] \in Slot /\ known[home[d]]
      BY <1>1, <1>5, <3>1, ReaderHome, Zenon DEF PInv, Held, ReaderGood
    <3> QED
      BY <1>3, <3>2, Zenon
  <2> QED
    BY <2>1, <2>2, Zenon
<1> QED
  BY <1>1, <1>3, <1>4, <1>5, ReaderMoves, Zenon DEF PInv, PTypeOK

\* A frame, and a peer that is dialled already.
LEMMA LoopTopInv ==
  ASSUME NEW c \in Conn
  PROVE  PInv /\ (Dispatch(c) \/ (GossipDial(c) /\ rpc' = [rpc EXCEPT ![c] = LoopTop]
                                  /\ UNCHANGED connVars)) => PInv'
<1> SUFFICES ASSUME PInv, Dispatch(c) \/ (GossipDial(c) /\ rpc' = [rpc EXCEPT ![c] = LoopTop]
                                          /\ UNCHANGED connVars)
             PROVE  PInv'
  BY Zenon
<1>1. /\ rpc[c] \in {"read", "dial"} /\ rpc' = [rpc EXCEPT ![c] = LoopTop]
      /\ UNCHANGED RRest /\ sock' = sock /\ closing' = closing /\ known' = known
  BY Zenon DEF Dispatch, GossipDial, RRest, reapVars, stopVars, marks, connVars, slotVars
<1>2. LoopTop \in {"read", "close"} /\ rpc[c] \in RunningReader \ {"dialling"}
  BY <1>1, Zenon DEF LoopTop, RunningReader
<1>3. ASSUME ~late, NEW d \in Conn, rpc'[d] \in {"dial", "dialling", "read"}, sock'[d] = "open"
      PROVE  known'[home[d]]
  <2>1. rpc[d] \in {"dial", "dialling", "read"}
    BY <1>1, <1>3, Zenon DEF PInv, PTypeOK
  <2> QED
    BY <1>1, <1>3, <2>1, Zenon DEF PInv, Held, ReaderGood, RunningReader
<1> QED
  BY <1>1, <1>2, <1>3, ReaderMoves, Zenon DEF PInv, PTypeOK

\* peer_close_fd, and the end of the reader.
LEMMA ReaderEndsInv ==
  ASSUME NEW c \in Conn
  PROVE  PInv /\ (HelloFails(c) \/ ReaderStops(c)) => PInv'
<1> SUFFICES ASSUME PInv, HelloFails(c) \/ ReaderStops(c) PROVE PInv'
  BY Zenon
<1> DEFINE s == home[c]
<1>1. rpc[c] \in {"hello", "read", "close"} /\ rpc[c] \in RunningReader /\ ReaderEnds(c)
  BY Zenon DEF HelloFails, ReaderStops, RunningReader
<1>2. /\ s \in Slot
      /\ ~late => fd[s] = c /\ inUse[s] /\ owner[s] = c
  BY <1>1, ReaderHome, Zenon
<1>3. /\ rpc' \in [Conn -> RunningReader \cup {"none", "ended", "joined"}]
      /\ rpc'[c] = "ended" /\ \A d \in Conn \ {c} : rpc'[d] = rpc[d]
  BY <1>1, Zenon DEF ReaderEnds, PInv, PTypeOK
<1>4. /\ fd' \in [Slot -> Conn \cup {None}]
      /\ fd'[s] = None /\ \A t \in Slot \ {s} : fd'[t] = fd[t]
  BY <1>1, <1>2, Zenon DEF ReaderEnds, CloseFd, PInv, PTypeOK
<1>5. /\ sock' \in [Conn -> {"none", "open", "shut", "closed"}]
      /\ \A d \in Conn : sock'[d] = "open" => sock[d] = "open"
  BY <1>1, <1>2, Zenon DEF ReaderEnds, CloseFd, PInv, PTypeOK
<1>6. UNCHANGED <<running, inUse, known, closing, owner, rStarted, who, maker, stage, home, wpc,
                  lpc, at, seen, thR, stop, stopAt, overtaken, late, died>>
  BY <1>1, Zenon DEF ReaderEnds, reapVars, stopVars, marks
<1> HIDE DEF s
<1>7. PTypeOK'
  BY <1>3, <1>4, <1>5, <1>6, ZenonT(60) DEF PInv, PTypeOK
<1>8. Stages'
  BY <1>1, <1>3, <1>6, Zenon DEF PInv, Stages
<1>9. Makers' /\ Loops' /\ Owners'
  BY <1>1, <1>3, <1>6, SMTT(30) DEF PInv, Makers, Loops, Owners
<1>10. Held'
  <2> SUFFICES ASSUME ~late, NEW d \in Conn
               PROVE (SlottedGood(d) /\ ReaderGood(d) /\ WriterGood(d) /\ StoredGood(d))'
    BY <1>6, Zenon DEF Held
  <2>1. SlottedGood(d) /\ ReaderGood(d) /\ WriterGood(d) /\ StoredGood(d)
    BY Zenon DEF PInv, Held
  <2>2. SlottedGood(d)' /\ WriterGood(d)' /\ StoredGood(d)'
    BY <1>6, <2>1, Zenon DEF SlottedGood, WriterGood, StoredGood
  <2>3. ReaderGood(d)'
    <3> SUFFICES ASSUME rpc'[d] \in RunningReader PROVE ReaderGood(d)'
      BY Zenon DEF ReaderGood
    <3>1. d # c /\ rpc'[d] = rpc[d]
      BY <1>3, Zenon DEF RunningReader
    <3>2. home[d] \in Slot /\ owner[home[d]] = d
      BY <3>1, ReaderHome, Zenon
    <3>3. fd'[home[d]] = fd[home[d]]
      BY <1>2, <1>4, <3>1, <3>2, Zenon
    <3> QED
      BY <1>5, <1>6, <2>1, <3>1, <3>3, Zenon DEF ReaderGood
  <2> QED
    BY <2>2, <2>3, Zenon
<1>11. Reaping'
  BY <1>4, <1>6, Zenon DEF PInv, Loops, Reaping
<1>12. GivenUpJoined'
  BY <1>1, <1>3, <1>6, Zenon DEF PInv, GivenUpJoined
<1> QED
  BY <1>7, <1>8, <1>9, <1>10, <1>11, <1>12, Zenon DEF PInv

-----------------------------------------------------------------------------
(* dial_peer *)

\* The fields of a connection that starts to be made.
LEMMA DialTypes ==
  ASSUME PInv, NEW c \in Conn, NEW m \in Conn \cup {Connector}, NEW r \in Remote, Dial(m, c, r)
  PROVE  /\ stage[c] = "unused" /\ rpc[c] = "none" /\ wpc[c] = "none"
         /\ who' \in [Conn -> Remote \cup {NoNode}] /\ who'[c] = r
         /\ maker' \in [Conn -> Maker] /\ maker'[c] = m
         /\ stage' \in [Conn -> Making \cup {"unused", "made"}] /\ stage'[c] = "connecting"
         /\ \A d \in Conn \ {c} : who'[d] = who[d] /\ maker'[d] = maker[d] /\ stage'[d] = stage[d]
         /\ home' = home /\ sock' = sock
<1>1. stage[c] = "unused" /\ home' = home /\ sock' = sock
  BY Zenon DEF Dial, Fresh
<1>2. rpc[c] = "none" /\ wpc[c] = "none"
  BY <1>1, Zenon DEF PInv, Stages
<1>3. /\ who' \in [Conn -> Remote \cup {NoNode}] /\ who'[c] = r
      /\ \A d \in Conn \ {c} : who'[d] = who[d]
  BY Zenon DEF Dial, PInv, PTypeOK
<1>4. m \in Maker
  BY Names, Zenon
<1>5. /\ maker' \in [Conn -> Maker] /\ maker'[c] = m
      /\ \A d \in Conn \ {c} : maker'[d] = maker[d]
  BY <1>4, Zenon DEF Dial, PInv, PTypeOK
<1>6. /\ stage' \in [Conn -> Making \cup {"unused", "made"}] /\ stage'[c] = "connecting"
      /\ \A d \in Conn \ {c} : stage'[d] = stage[d]
  BY Zenon DEF Dial, PInv, PTypeOK, Making
<1> QED
  BY <1>1, <1>2, <1>3, <1>5, <1>6, Zenon

\* dial_peer begins, for a reader or for the connector.
LEMMA DialInv ==
  ASSUME PInv, NEW c \in Conn, NEW m \in Conn \cup {Connector}, NEW r \in Remote, Dial(m, c, r),
         UNCHANGED slotVars, UNCHANGED reapVars, UNCHANGED stopVars, UNCHANGED marks,
         wpc' = wpc, lpc' = lpc,
         \/ m \in Conn /\ rpc[m] = "dial" /\ rpc' = [rpc EXCEPT ![m] = "dialling"]
         \/ m = Connector /\ rpc' = rpc /\ at = "dial" /\ ~Busy(Connector)
  PROVE  PInv'
<1>1. /\ stage[c] = "unused" /\ rpc[c] = "none" /\ wpc[c] = "none"
      /\ who' \in [Conn -> Remote \cup {NoNode}] /\ who'[c] = r
      /\ maker' \in [Conn -> Maker] /\ maker'[c] = m
      /\ stage' \in [Conn -> Making \cup {"unused", "made"}] /\ stage'[c] = "connecting"
      /\ \A d \in Conn \ {c} : who'[d] = who[d] /\ maker'[d] = maker[d] /\ stage'[d] = stage[d]
      /\ home' = home /\ sock' = sock
  BY DialTypes, Zenon
<1>2. /\ rpc' \in [Conn -> RunningReader \cup {"none", "ended", "joined"}]
      /\ \A d \in Conn : rpc'[d] = rpc[d] \/ (d = m /\ rpc[d] = "dial" /\ rpc'[d] = "dialling")
      /\ m \in Conn => rpc'[m] = "dialling"
  BY Names, Zenon DEF PInv, PTypeOK, RunningReader
<1>3. \A d \in Conn : stage[d] \in Making => maker[d] # m
  BY Names, Zenon DEF PInv, Makers, Busy
<1>4. UNCHANGED <<running, inUse, fd, known, closing, owner, rStarted, wpc, lpc, at, seen, thR,
                  stop, stopAt, overtaken, late, died>>
  BY Zenon DEF slotVars, reapVars, stopVars, marks
<1>5. PTypeOK'
  BY <1>1, <1>2, <1>4 DEF PInv, PTypeOK
<1>6. Stages'
  <2> SUFFICES ASSUME NEW d \in Conn
               PROVE  /\ stage'[d] \in {"unused", "connecting", "slotted"} =>
                           rpc'[d] = "none" /\ wpc'[d] = "none"
                      /\ stage'[d] \in {"spawned", "made"} => rpc'[d] # "none" /\ wpc'[d] # "none"
                      /\ stage'[d] \in {"slotted", "spawned", "made"} => home'[d] \in Slot
                      /\ stage'[d] # "unused" => who'[d] \in Remote
                      /\ rpc'[d] = "dial" => Referral[who'[d]] \in Remote
    BY Zenon DEF Stages
  <2>1. CASE d = c
    BY <1>1, <1>2, <1>4, <2>1, Zenon
  <2>2. CASE d # c
    <3>1. stage'[d] = stage[d] /\ home'[d] = home[d] /\ who'[d] = who[d] /\ wpc'[d] = wpc[d]
      BY <1>1, <1>4, <2>2, Zenon
    <3>2. rpc'[d] = rpc[d] \/ (rpc[d] = "dial" /\ rpc'[d] = "dialling")
      BY <1>2, Zenon
    <3>3. /\ stage[d] \in {"unused", "connecting", "slotted"} => rpc[d] = "none" /\ wpc[d] = "none"
          /\ stage[d] \in {"spawned", "made"} => rpc[d] # "none" /\ wpc[d] # "none"
          /\ stage[d] \in {"slotted", "spawned", "made"} => home[d] \in Slot
          /\ stage[d] # "unused" => who[d] \in Remote
          /\ rpc[d] = "dial" => Referral[who[d]] \in Remote
      BY Zenon DEF PInv, Stages
    <3>4. CASE rpc'[d] = rpc[d]
      BY <3>1, <3>3, <3>4, Zenon
    <3>5. CASE rpc[d] = "dial" /\ rpc'[d] = "dialling"
      BY <3>1, <3>3, <3>5, Zenon
    <3> QED
      BY <3>2, <3>4, <3>5, Zenon
  <2> QED
    BY <2>1, <2>2, Zenon
<1>7. Makers'
  <2>1. \A d, e \in Conn : stage'[d] \in Making /\ stage'[e] \in Making /\ maker'[d] = maker'[e]
                             => d = e
    <3> SUFFICES ASSUME NEW d \in Conn, NEW e \in Conn, stage'[d] \in Making,
                        stage'[e] \in Making, maker'[d] = maker'[e], d # e
                 PROVE  FALSE
      BY Zenon
    <3>1. CASE d = c
      BY <1>1, <1>3, <3>1, Zenon
    <3>2. CASE e = c
      BY <1>1, <1>3, <3>2, Zenon
    <3>3. CASE d # c /\ e # c
      BY <1>1, <3>3, Zenon DEF PInv, Makers
    <3> QED
      BY <3>1, <3>2, <3>3, Zenon
  <2>2. ASSUME NEW d \in Conn, stage'[d] \in Making
        PROVE  /\ maker'[d] \in Conn => rpc'[maker'[d]] = "dialling"
               /\ maker'[d] = Connector => at' = "dial"
    <3>1. CASE d = c
      BY <1>1, <1>2, <1>4, <3>1, Names, Zenon
    <3>2. CASE d # c
      <4>1. stage[d] \in Making /\ maker'[d] = maker[d] /\ at' = at
        BY <1>1, <1>4, <2>2, <3>2, Zenon
      <4>2. /\ maker[d] \in Conn => rpc[maker[d]] = "dialling"
            /\ maker[d] = Connector => at = "dial"
        BY <4>1, Zenon DEF PInv, Makers
      <4> QED
        BY <1>2, <4>1, <4>2, Zenon
    <3> QED
      BY <3>1, <3>2, Zenon
  <2> QED
    BY <2>1, <2>2, Zenon DEF Makers
<1>8. Loops' /\ Reaping'
  BY <1>4, Zenon DEF PInv, Loops, Reaping
<1>9. Owners'
  BY <1>1, <1>4 DEF PInv, PTypeOK, Owners
<1>10. Held'
  <2> SUFFICES ASSUME ~late, NEW d \in Conn
               PROVE (SlottedGood(d) /\ ReaderGood(d) /\ WriterGood(d) /\ StoredGood(d))'
    BY <1>4, Zenon DEF Held
  <2>1. SlottedGood(d) /\ ReaderGood(d) /\ WriterGood(d) /\ StoredGood(d)
    BY Zenon DEF PInv, Held
  <2>2. SlottedGood(d)'
    BY <1>1, <1>4, <2>1, Zenon DEF SlottedGood
  <2>3. WriterGood(d)' /\ StoredGood(d)'
    BY <1>1, <1>4, <2>1, Zenon DEF WriterGood, StoredGood
  <2>4. ReaderGood(d)'
    BY <1>1, <1>2, <1>4, <2>1, Zenon DEF ReaderGood, RunningReader
  <2> QED
    BY <2>2, <2>3, <2>4, Zenon
<1>11. GivenUpJoined'
  BY <1>1, <1>2, <1>4, ZenonT(60) DEF PInv, GivenUpJoined
<1> QED
  BY <1>5, <1>6, <1>7, <1>8, <1>9, <1>10, <1>11, Zenon DEF PInv

\* A reader dials the peer of its HELLO.
LEMMA GossipDialInv == ASSUME NEW c \in Conn PROVE PInv /\ GossipDial(c) => PInv'
<1> SUFFICES ASSUME PInv, GossipDial(c) PROVE PInv'
  BY Zenon
<1>1. CASE rpc' = [rpc EXCEPT ![c] = LoopTop] /\ UNCHANGED connVars
  BY <1>1, LoopTopInv, Zenon
<1>2. CASE (\E d \in Conn : Dial(c, d, Referral[who[c]])) /\ rpc' = [rpc EXCEPT ![c] = "dialling"]
  <2>1. rpc[c] = "dial" /\ Referral[who[c]] \in Remote
    BY Zenon DEF GossipDial, PInv, Stages
  <2>2. /\ UNCHANGED slotVars /\ UNCHANGED reapVars /\ UNCHANGED stopVars /\ UNCHANGED marks
        /\ wpc' = wpc /\ lpc' = lpc
    BY DEF GossipDial
  <2> QED
    BY <1>2, <2>1, <2>2, DialInv, Zenon
<1> QED
  BY <1>1, <1>2, Zenon DEF GossipDial

\* The connector dials a seed.
LEMMA DialSeedInv == PInv /\ DialSeed => PInv'
<1> SUFFICES ASSUME PInv, DialSeed PROVE PInv'
  BY Zenon
<1>1. CASE UNCHANGED connVars
  BY <1>1, TurnsInv, Zenon
<1>2. CASE (\E c \in Conn : Dial(Connector, c, Seeds[seen])) /\ UNCHANGED <<at, seen>>
  <2>1. at = "dial" /\ ~Busy(Connector) /\ Seeds[seen] \in Remote
    BY PeersAssumption, Zenon DEF DialSeed, PInv, PTypeOK
  <2>2. /\ UNCHANGED slotVars /\ UNCHANGED reapVars /\ UNCHANGED stopVars /\ UNCHANGED marks
        /\ wpc' = wpc /\ lpc' = lpc /\ rpc' = rpc
    BY <1>2, Zenon DEF DialSeed, reapVars
  <2> QED
    BY <1>2, <2>1, <2>2, DialInv, Zenon
<1> QED
  BY <1>1, <1>2, Zenon DEF DialSeed

\* dial_peer returns to its thread, or the listener goes on.
LEMMA ResumeTypes ==
  ASSUME PInv, NEW c \in Conn, stage[c] \in Making, Resume(maker[c])
  PROVE  /\ rpc' \in [Conn -> RunningReader \cup {"none", "ended", "joined"}]
         /\ \A d \in Conn : \/ rpc'[d] = rpc[d]
                            \/ /\ d = maker[c]
                               /\ rpc[d] = "dialling" /\ rpc'[d] \in {"read", "close"}
         /\ \/ at' = at /\ seen' = seen /\ maker[c] # Connector
            \/ /\ maker[c] = Connector /\ at = "dial"
               /\ \/ at' \in {"reap", "ended"} /\ seen' = 1
                  \/ at' = "dial" /\ seen' \in 1 .. SeedCount
<1>1. LoopTop \in {"read", "close"}
  BY Zenon DEF LoopTop
<1>2. maker[c] \in Conn => rpc[maker[c]] = "dialling"
  BY Zenon DEF PInv, Makers
<1>3. /\ rpc' \in [Conn -> RunningReader \cup {"none", "ended", "joined"}]
      /\ \A d \in Conn : \/ rpc'[d] = rpc[d]
                         \/ /\ d = maker[c]
                            /\ rpc[d] = "dialling" /\ rpc'[d] \in {"read", "close"}
  BY <1>1, <1>2, Zenon DEF Resume, PInv, PTypeOK, RunningReader
<1>4. CASE maker[c] # Connector
  BY <1>3, <1>4, Zenon DEF Resume
<1>5. CASE maker[c] = Connector
  <2>1. at = "dial" /\ seen \in 1 .. SeedCount
    BY <1>5, Zenon DEF PInv, PTypeOK, Makers
  <2>2. NextSeed
    BY <1>5, Zenon DEF Resume
  <2>3. \/ at' \in {"reap", "ended"} /\ seen' = 1
        \/ at' = "dial" /\ seen' \in 1 .. SeedCount
    BY <2>1, <2>2, PeersAssumption DEF NextSeed, NextTurn
  <2> QED
    BY <1>3, <1>5, <2>1, <2>3, Zenon
<1> QED
  BY <1>4, <1>5, Zenon

\* A connection leaves the hands of its creator.
LEMMA Resumes ==
  ASSUME PInv, NEW c \in Conn, NEW v \in {"unused", "made"}, Resume(maker[c]),
         stage' = [stage EXCEPT ![c] = v],
         \/ stage[c] = "connecting" /\ v = "unused" /\ rStarted' = rStarted
         \/ /\ stage[c] = "spawned" /\ v = "made"
            /\ rStarted' = [rStarted EXCEPT ![home[c]] = TRUE],
         UNCHANGED <<running, inUse, fd, known, closing, owner, who, maker, home, sock, wpc, lpc,
                     thR, stop, stopAt, overtaken, late, died>>
  PROVE  PInv'
<1>1. stage[c] \in Making
  BY Zenon DEF Making
<1>2. /\ rpc' \in [Conn -> RunningReader \cup {"none", "ended", "joined"}]
      /\ \A d \in Conn : \/ rpc'[d] = rpc[d]
                         \/ /\ d = maker[c]
                            /\ rpc[d] = "dialling" /\ rpc'[d] \in {"read", "close"}
      /\ \/ at' = at /\ seen' = seen /\ maker[c] # Connector
         \/ /\ maker[c] = Connector /\ at = "dial"
            /\ \/ at' \in {"reap", "ended"} /\ seen' = 1
               \/ at' = "dial" /\ seen' \in 1 .. SeedCount
  BY <1>1, ResumeTypes, Zenon
<1>3. /\ stage' \in [Conn -> Making \cup {"unused", "made"}] /\ stage'[c] = v
      /\ \A d \in Conn \ {c} : stage'[d] = stage[d]
  BY Zenon DEF PInv, PTypeOK
<1>4. /\ rStarted' \in [Slot -> BOOLEAN]
      /\ v = "made" => home[c] \in Slot /\ rStarted'[home[c]]
      /\ \A s \in Slot : rStarted[s] => rStarted'[s]
  <2>1. v = "made" => home[c] \in Slot
    BY Zenon DEF PInv, Stages
  <2>2. CASE rStarted' = rStarted /\ v = "unused"
    BY <2>2, Zenon DEF PInv, PTypeOK
  <2>3. CASE rStarted' = [rStarted EXCEPT ![home[c]] = TRUE] /\ v = "made"
    BY <2>1, <2>3, SetFlag DEF PInv, PTypeOK
  <2> QED
    BY <2>2, <2>3, Zenon
<1>5. PTypeOK'
  <2>1. at \in {"reap", "join", "dial", "ended"}
        /\ seen \in (IF at = "dial" THEN 1 .. SeedCount ELSE 1 .. MaxPeers + 1)
    BY Zenon DEF PInv, PTypeOK
  <2>2. 1 \in 1 .. MaxPeers + 1
    BY PeersAssumption
  <2>3. at' \in {"reap", "join", "dial", "ended"}
        /\ seen' \in (IF at' = "dial" THEN 1 .. SeedCount ELSE 1 .. MaxPeers + 1)
    BY <1>2, <2>1, <2>2, Zenon
  <2> QED
    BY <1>2, <1>3, <1>4, <2>3, ZenonT(60) DEF PInv, PTypeOK
<1>6. Stages'
  <2> SUFFICES ASSUME NEW d \in Conn
               PROVE  /\ stage'[d] \in {"unused", "connecting", "slotted"} =>
                           rpc'[d] = "none" /\ wpc'[d] = "none"
                      /\ stage'[d] \in {"spawned", "made"} => rpc'[d] # "none" /\ wpc'[d] # "none"
                      /\ stage'[d] \in {"slotted", "spawned", "made"} => home'[d] \in Slot
                      /\ stage'[d] # "unused" => who'[d] \in Remote
                      /\ rpc'[d] = "dial" => Referral[who'[d]] \in Remote
    BY Zenon DEF Stages
  <2>1. CASE d = c
    <3>1. /\ stage[c] = "connecting" => rpc[c] = "none" /\ wpc[c] = "none"
          /\ stage[c] = "spawned" => rpc[c] # "none" /\ wpc[c] # "none" /\ home[c] \in Slot
          /\ who[c] \in Remote
          /\ rpc[c] = "dial" => Referral[who[c]] \in Remote
      BY Zenon DEF PInv, Stages
    <3>2. /\ rpc'[c] = "dial" => rpc[c] = "dial"
          /\ rpc[c] = "none" <=> rpc'[c] = "none"
      BY <1>2, Zenon
    <3>3. CASE stage[c] = "connecting" /\ stage'[c] = "unused"
      BY <2>1, <3>1, <3>2, <3>3, Zenon
    <3>4. CASE stage[c] = "spawned" /\ stage'[c] = "made"
      BY <2>1, <3>1, <3>2, <3>4, Zenon
    <3> QED
      BY <1>3, <3>3, <3>4, Zenon
  <2>2. CASE d # c
    BY <1>2, <1>3, <2>2 DEF PInv, Stages
  <2> QED
    BY <2>1, <2>2, Zenon
<1>7. Makers'
  <2>1. \A d \in Conn : stage'[d] \in Making => d # c /\ stage[d] \in Making /\ maker[d] # maker[c]
    BY <1>1, <1>3, Zenon DEF PInv, Makers, Making
  <2>2. \A d, e \in Conn : stage'[d] \in Making /\ stage'[e] \in Making /\ maker'[d] = maker'[e]
                             => d = e
    BY <2>1, Zenon DEF PInv, Makers
  <2>3. \A d \in Conn : stage'[d] \in Making =>
          /\ maker'[d] \in Conn => rpc'[maker'[d]] = "dialling"
          /\ maker'[d] = Connector => at' = "dial"
    BY <1>2, <2>1, ZenonT(60) DEF PInv, Makers
  <2> QED
    BY <2>2, <2>3, Zenon DEF Makers
<1>8. Loops'
  BY <1>2, Zenon DEF PInv, Loops
<1>9. Owners'
  <2> SUFFICES ASSUME NEW t \in Slot, owner[t] # None
               PROVE  home[owner[t]] = t /\ stage'[owner[t]] \in {"spawned", "made"}
    BY Zenon DEF Owners
  <2>1. /\ owner[t] \in Conn /\ home[owner[t]] = t
        /\ stage[owner[t]] \in {"spawned", "made"}
    <3>1. owner \in [Slot -> Conn \cup {None}]
      BY Zenon DEF PInv, PTypeOK
    <3>2. owner[t] \in Conn
      BY <3>1, Zenon
    <3> QED
      BY <3>2, Zenon DEF PInv, Owners
  <2>2. CASE owner[t] = c
    <3>1. stage[c] # "connecting"
      BY <2>1, <2>2, Zenon
    <3>2. stage'[c] = "made"
      BY <1>3, <3>1, Zenon
    <3> QED
      BY <2>1, <2>2, <3>2, Zenon
  <2>3. CASE owner[t] # c
    BY <1>3, <2>1, <2>3, Zenon
  <2> QED
    BY <2>1, <2>2, <2>3, Zenon
<1>10. Held'
  <2> SUFFICES ASSUME ~late, NEW d \in Conn
               PROVE (SlottedGood(d) /\ ReaderGood(d) /\ WriterGood(d) /\ StoredGood(d))'
    BY Zenon DEF Held
  <2>1. SlottedGood(d) /\ ReaderGood(d) /\ WriterGood(d) /\ StoredGood(d)
    BY Zenon DEF PInv, Held
  <2>2. SlottedGood(d)'
    BY <1>3, <2>1, Zenon DEF SlottedGood
  <2>3. WriterGood(d)'
    BY <2>1 DEF WriterGood
  <2>4. ReaderGood(d)'
    BY <1>2, <2>1, Zenon DEF ReaderGood, RunningReader
  <2>5. StoredGood(d)'
    <3>1. CASE d = c
      BY <1>3, <1>4, <3>1, Zenon DEF StoredGood
    <3>2. CASE d # c
      <4>1. stage[d] = "made" => home[d] \in Slot
        BY Zenon DEF PInv, Stages
      <4> QED
        BY <1>3, <1>4, <2>1, <3>2, <4>1 DEF StoredGood
    <3> QED
      BY <3>1, <3>2, Zenon
  <2> QED
    BY <2>2, <2>3, <2>4, <2>5, Zenon
<1>11. Reaping'
  BY <1>2, Zenon DEF PInv, Reaping
<1>12. GivenUpJoined'
  BY <1>2, <1>3 DEF PInv, GivenUpJoined
<1> QED
  BY <1>5, <1>6, <1>7, <1>8, <1>9, <1>10, <1>11, <1>12, Zenon DEF PInv

\* connect fails, or p->reader_started is stored.
LEMMA MadeInv == ASSUME NEW c \in Conn PROVE PInv /\ (DialFails(c) \/ Made(c)) => PInv'
<1> SUFFICES ASSUME PInv, DialFails(c) \/ Made(c) PROVE PInv'
  BY Zenon
<1>1. CASE DialFails(c)
  BY <1>1, Resumes, Zenon DEF DialFails, slotVars, stopVars, marks
<1>2. CASE Made(c)
  BY <1>2, Resumes, Zenon DEF Made, stopVars, marks
<1> QED
  BY <1>1, <1>2, Zenon

-----------------------------------------------------------------------------
(* A connection gets its slot and its threads *)

\* What peer_alloc writes.
LEMMA AllocTypes ==
  ASSUME PTypeOK, NEW c \in Conn, NEW s \in Slot, PeerAlloc(c, s)
  PROVE  /\ ~inUse[s]
         /\ inUse' \in [Slot -> BOOLEAN] /\ inUse'[s]
         /\ known' \in [Slot -> BOOLEAN] /\ closing' \in [Slot -> BOOLEAN]
         /\ rStarted' \in [Slot -> BOOLEAN]
         /\ fd' \in [Slot -> Conn \cup {None}] /\ owner' \in [Slot -> Conn \cup {None}]
         /\ owner'[s] = None
         /\ \A t \in Slot \ {s} : /\ inUse'[t] = inUse[t] /\ known'[t] = known[t]
                                  /\ rStarted'[t] = rStarted[t]
                                  /\ fd'[t] = fd[t] /\ owner'[t] = owner[t]
         /\ stage' \in [Conn -> Making \cup {"unused", "made"}] /\ stage'[c] = "slotted"
         /\ home' \in [Conn -> Slot \cup {None}] /\ home'[c] = s
         /\ sock' \in [Conn -> {"none", "open", "shut", "closed"}]
         /\ \A d \in Conn \ {c} : stage'[d] = stage[d] /\ home'[d] = home[d] /\ sock'[d] = sock[d]
         /\ late' \in BOOLEAN
         /\ ~late' => ~late /\ stop \notin {"join", "done"}
         /\ late' => late \/ stop \in {"join", "done"}
<1>1. /\ inUse' \in [Slot -> BOOLEAN] /\ inUse'[s] = TRUE
      /\ \A t \in Slot \ {s} : inUse'[t] = inUse[t]
  BY SetFlag, SMTT(30) DEF PeerAlloc, PTypeOK
<1>2. /\ known' \in [Slot -> BOOLEAN]
      /\ \A t \in Slot \ {s} : known'[t] = known[t]
  BY SetFlag DEF PeerAlloc, PTypeOK
<1>3. /\ rStarted' \in [Slot -> BOOLEAN] /\ closing' \in [Slot -> BOOLEAN]
      /\ \A t \in Slot \ {s} : rStarted'[t] = rStarted[t]
  BY SetFlag, SMTT(30) DEF PeerAlloc, PTypeOK
<1>4. /\ fd' \in [Slot -> Conn \cup {None}] /\ owner' \in [Slot -> Conn \cup {None}]
      /\ owner'[s] = None
      /\ \A t \in Slot \ {s} : fd'[t] = fd[t] /\ owner'[t] = owner[t]
  BY Zenon DEF PeerAlloc, PTypeOK
<1>5. /\ stage' \in [Conn -> Making \cup {"unused", "made"}] /\ stage'[c] = "slotted"
      /\ home' \in [Conn -> Slot \cup {None}] /\ home'[c] = s
      /\ sock' \in [Conn -> {"none", "open", "shut", "closed"}]
      /\ \A d \in Conn \ {c} : stage'[d] = stage[d] /\ home'[d] = home[d] /\ sock'[d] = sock[d]
  BY Zenon DEF PeerAlloc, PTypeOK, Making
<1>6. /\ ~inUse[s] /\ late' \in BOOLEAN
      /\ ~late' => ~late /\ stop \notin {"join", "done"}
      /\ late' => late \/ stop \in {"join", "done"}
  BY Zenon DEF PeerAlloc
<1> QED
  BY <1>1, <1>2, <1>3, <1>4, <1>5, <1>6, ZenonT(60)

\* peer_alloc, by the listener for a new connection or by the thread that dialled.
LEMMA Allocs ==
  ASSUME PInv, NEW c \in Conn, NEW s \in Slot, PeerAlloc(c, s),
         stage[c] \in {"unused", "connecting"},
         who' \in [Conn -> Remote \cup {NoNode}], maker' \in [Conn -> Maker],
         who'[c] \in Remote,
         \A d \in Conn \ {c} : who'[d] = who[d] /\ maker'[d] = maker[d],
         \/ maker'[c] = Listener /\ ~Busy(Listener)
         \/ maker'[c] = maker[c] /\ stage[c] = "connecting",
         UNCHANGED <<running, rpc, wpc, lpc, at, seen, thR, stop, stopAt, overtaken, died>>
  PROVE  PInv'
<1>1. /\ ~inUse[s]
      /\ inUse' \in [Slot -> BOOLEAN] /\ inUse'[s]
      /\ known' \in [Slot -> BOOLEAN] /\ closing' \in [Slot -> BOOLEAN]
      /\ rStarted' \in [Slot -> BOOLEAN]
      /\ fd' \in [Slot -> Conn \cup {None}] /\ owner' \in [Slot -> Conn \cup {None}]
      /\ owner'[s] = None
  BY AllocTypes, Zenon DEF PInv
<1>2. \A t \in Slot \ {s} : /\ inUse'[t] = inUse[t] /\ known'[t] = known[t]
                            /\ rStarted'[t] = rStarted[t]
                            /\ fd'[t] = fd[t] /\ owner'[t] = owner[t]
  BY AllocTypes, Zenon DEF PInv
<1>3. /\ stage' \in [Conn -> Making \cup {"unused", "made"}] /\ stage'[c] = "slotted"
      /\ home' \in [Conn -> Slot \cup {None}] /\ home'[c] = s
      /\ sock' \in [Conn -> {"none", "open", "shut", "closed"}]
      /\ \A d \in Conn \ {c} : stage'[d] = stage[d] /\ home'[d] = home[d] /\ sock'[d] = sock[d]
  BY AllocTypes, Zenon DEF PInv
<1>4. /\ late' \in BOOLEAN
      /\ ~late' => ~late /\ stop \notin {"join", "done"}
      /\ late' => late \/ stop \in {"join", "done"}
  BY AllocTypes, Zenon DEF PInv
<1>5. rpc[c] = "none" /\ wpc[c] = "none"
  BY DEF PInv, Stages
<1>6. PTypeOK'
  BY <1>1, <1>3, <1>4, ZenonT(60) DEF PInv, PTypeOK
<1>7. Stages'
  <2> SUFFICES ASSUME NEW d \in Conn
               PROVE  /\ stage'[d] \in {"unused", "connecting", "slotted"} =>
                           rpc'[d] = "none" /\ wpc'[d] = "none"
                      /\ stage'[d] \in {"spawned", "made"} => rpc'[d] # "none" /\ wpc'[d] # "none"
                      /\ stage'[d] \in {"slotted", "spawned", "made"} => home'[d] \in Slot
                      /\ stage'[d] # "unused" => who'[d] \in Remote
                      /\ rpc'[d] = "dial" => Referral[who'[d]] \in Remote
    BY Zenon DEF Stages
  <2>1. CASE d = c
    BY <1>3, <1>5, <2>1, Zenon
  <2>2. CASE d # c
    BY <1>3, <2>2, Zenon DEF PInv, Stages
  <2> QED
    BY <2>1, <2>2, Zenon
<1>8. Makers'
  <2>1. \A d \in Conn \ {c} : stage[d] \in Making => maker[d] # maker'[c]
    BY Zenon DEF PInv, Makers, Busy, Making
  <2>2. \A d, e \in Conn : stage'[d] \in Making /\ stage'[e] \in Making /\ maker'[d] = maker'[e]
                             => d = e
    <3> SUFFICES ASSUME NEW d \in Conn, NEW e \in Conn, stage'[d] \in Making,
                        stage'[e] \in Making, maker'[d] = maker'[e], d # e
                 PROVE  FALSE
      BY Zenon
    <3>1. CASE d = c
      <4>1. stage[e] \in Making /\ maker'[e] = maker[e]
        BY <1>3, <3>1, Zenon
      <4> QED
        BY <2>1, <3>1, <4>1, Zenon
    <3>2. CASE e = c
      <4>1. stage[d] \in Making /\ maker'[d] = maker[d]
        BY <1>3, <3>2, Zenon
      <4> QED
        BY <2>1, <3>2, <4>1, Zenon
    <3>3. CASE d # c /\ e # c
      <4>1. stage[d] \in Making /\ stage[e] \in Making /\ maker[d] = maker[e]
        BY <1>3, <3>3, Zenon
      <4> QED
        BY <4>1, Zenon DEF PInv, Makers
    <3> QED
      BY <3>1, <3>2, <3>3, Zenon
  <2>3. ASSUME NEW d \in Conn, stage'[d] \in Making
        PROVE  /\ maker'[d] \in Conn => rpc'[maker'[d]] = "dialling"
               /\ maker'[d] = Connector => at' = "dial"
    <3>1. CASE d = c
      BY <3>1, Names, ZenonT(40) DEF PInv, Makers, Making
    <3>2. CASE d # c
      BY <1>3, <2>3, <3>2, ZenonT(60) DEF PInv, Makers
    <3> QED
      BY <3>1, <3>2, Zenon
  <2> QED
    BY <2>2, <2>3, Zenon DEF Makers
<1>9. Loops'
  BY <1>4, Zenon DEF PInv, Loops
<1>10. Owners'
  BY <1>1, <1>2, <1>3 DEF PInv, PTypeOK, Owners
<1>11. Held'
  <2> SUFFICES ASSUME ~late', NEW d \in Conn
               PROVE (SlottedGood(d) /\ ReaderGood(d) /\ WriterGood(d) /\ StoredGood(d))'
    BY Zenon DEF Held
  <2>0. ~late /\ stop \notin {"join", "done"}
    BY <1>4, Zenon
  <2>1. \A e \in Conn : SlottedGood(e) /\ ReaderGood(e) /\ WriterGood(e) /\ StoredGood(e)
    BY <2>0, Zenon DEF PInv, Held
  <2>2. \A e \in Conn : stage[e] = "slotted" => home[e] \in Slot \ {s}
    <3> SUFFICES ASSUME NEW e \in Conn, stage[e] = "slotted" PROVE home[e] \in Slot \ {s}
      BY Zenon
    <3>1. home[e] \in Slot
      BY Zenon DEF PInv, Stages
    <3>2. inUse[home[e]]
      BY <2>1, Zenon DEF SlottedGood
    <3> QED
      BY <1>1, <3>1, <3>2, Zenon
  <2>same. ASSUME d # c, home[d] \in Slot \ {s}
           PROVE  /\ stage'[d] = stage[d] /\ home'[d] = home[d] /\ sock'[d] = sock[d]
                  /\ inUse'[home'[d]] = inUse[home[d]] /\ known'[home'[d]] = known[home[d]]
                  /\ rStarted'[home'[d]] = rStarted[home[d]] /\ fd'[home'[d]] = fd[home[d]]
                  /\ owner'[home'[d]] = owner[home[d]]
    <3>1. stage'[d] = stage[d] /\ home'[d] = home[d] /\ sock'[d] = sock[d]
      BY <1>3, <2>same, Zenon
    <3>2. /\ inUse'[home[d]] = inUse[home[d]] /\ known'[home[d]] = known[home[d]]
          /\ rStarted'[home[d]] = rStarted[home[d]] /\ fd'[home[d]] = fd[home[d]]
          /\ owner'[home[d]] = owner[home[d]]
      BY <1>2, <2>same, ZenonT(40)
    <3> QED
      BY <3>1, <3>2, Zenon
  <2>3. SlottedGood(d)'
    <3>1. CASE d = c
      <4>1. inUse'[home'[d]] /\ owner'[home'[d]] = None
        BY <1>1, <1>3, <3>1, Zenon
      <4>2. ASSUME NEW e \in Conn, stage'[e] = "slotted", home'[e] = home'[d]
            PROVE  e = d
        BY <1>3, <2>2, <3>1, <4>2, Zenon
      <4> QED
        BY <2>0, <4>1, <4>2, Zenon DEF SlottedGood
    <3>2. CASE d # c
      <4> SUFFICES ASSUME stage[d] = "slotted" PROVE SlottedGood(d)'
        BY <1>3, <3>2, Zenon DEF SlottedGood
      <4>1. home[d] \in Slot \ {s} /\ SlottedGood(d)
        BY <2>1, <2>2, Zenon
      <4>2. inUse'[home'[d]] /\ owner'[home'[d]] = None
        BY <2>same, <3>2, <4>1, Zenon DEF SlottedGood
      <4>3. ASSUME NEW e \in Conn, stage'[e] = "slotted", home'[e] = home'[d]
            PROVE  e = d
        BY <1>3, <2>same, <3>2, <4>1, <4>3, ZenonT(60) DEF SlottedGood
      <4> QED
        BY <2>0, <4>2, <4>3, Zenon DEF SlottedGood
    <3> QED
      BY <3>1, <3>2
  <2>4. ReaderGood(d)'
    <3> SUFFICES ASSUME rpc[d] \in RunningReader PROVE ReaderGood(d)'
      BY Zenon DEF ReaderGood
    <3>1. d # c /\ home[d] \in Slot \ {s}
      <4>1. home[d] \in Slot /\ inUse[home[d]]
        BY <2>0, ReaderHome, Zenon
      <4>2. d # c
        BY <1>5, Zenon DEF RunningReader
      <4> QED
        BY <1>1, <4>1, <4>2, Zenon
    <3> QED
      BY <2>same, <2>1, <3>1, Zenon DEF ReaderGood
  <2>5. WriterGood(d)'
    <3> SUFFICES ASSUME wpc[d] = "runs" PROVE WriterGood(d)'
      BY ZenonT(40) DEF WriterGood
    <3>1. stage[d] \in {"spawned", "made"}
      BY ZenonT(60) DEF PInv, PTypeOK, Stages, Making
    <3>2. d # c /\ home[d] \in Slot \ {s}
      BY <1>1, <1>5, <2>1, <3>1, ZenonT(60) DEF WriterGood, PInv, Stages
    <3> QED
      BY <2>same, <2>1, <3>2, Zenon DEF WriterGood
  <2>6. StoredGood(d)'
    <3>1. CASE d = c
      BY <1>3, <3>1, Zenon DEF StoredGood
    <3>2. CASE d # c
      <4>1. stage[d] = "made" => home[d] \in Slot
        BY Zenon DEF PInv, Stages
      <4> QED
        <5>1. CASE stage[d] = "made" /\ home[d] # s
          BY <2>same, <2>1, <3>2, <4>1, <5>1, Zenon DEF StoredGood
        <5>2. CASE stage[d] = "made" /\ home[d] = s
          <6>1. owner'[home'[d]] = None /\ stage'[d] = "made"
            BY <1>1, <1>3, <3>2, <5>2, Zenon
          <6>2. d # None
            BY Names, Zenon
          <6> QED
            BY <6>1, <6>2, Zenon DEF StoredGood
        <5>3. CASE stage[d] # "made"
          BY <1>3, <2>0, <3>2, <5>3, Zenon DEF StoredGood
        <5> QED
          BY <5>1, <5>2, <5>3, Zenon
    <3> QED
      BY <3>1, <3>2, Zenon
  <2> QED
    BY <2>3, <2>4, <2>5, <2>6, Zenon
<1>12. Reaping'
  BY <1>1, <1>2, Zenon DEF PInv, Loops, Reaping
<1>13. GivenUpJoined'
  <2> SUFFICES ASSUME ~overtaken, ~late', NEW d \in Conn, stage'[d] \in {"spawned", "made"}
               PROVE  \/ inUse'[home'[d]] /\ owner'[home'[d]] = d
                      \/ rpc'[d] = "joined" /\ wpc'[d] = "joined"
    BY Zenon DEF GivenUpJoined
  <2>1. d # c /\ stage[d] = stage'[d] /\ home'[d] = home[d] /\ home[d] \in Slot
    BY <1>3, Zenon DEF PInv, Stages
  <2>2. \/ inUse[home[d]] /\ owner[home[d]] = d
        \/ rpc[d] = "joined" /\ wpc[d] = "joined"
    BY <1>4, <2>1, Zenon DEF PInv, GivenUpJoined
  <2>3. inUse[home[d]] => home[d] \in Slot \ {s}
    BY <1>1, <2>1, Zenon
  <2>4. CASE inUse[home[d]] /\ owner[home[d]] = d
    BY <1>2, <2>1, <2>3, <2>4, ZenonT(60)
  <2>5. CASE rpc[d] = "joined" /\ wpc[d] = "joined"
    BY <2>5, Zenon
  <2> QED
    BY <2>2, <2>4, <2>5, Zenon
<1> QED
  BY <1>6, <1>7, <1>8, <1>9, <1>10, <1>11, <1>12, <1>13, Zenon DEF PInv

\* listen_loop accepts a connection, or connect succeeds.
LEMMA AllocInv ==
  ASSUME NEW c \in Conn, NEW s \in Slot
  PROVE  PInv /\ (Connected(c, s) \/ \E r \in Callers : Accept(c, s, r)) => PInv'
<1> SUFFICES ASSUME PInv, Connected(c, s) \/ \E r \in Callers : Accept(c, s, r) PROVE PInv'
  BY Zenon
<1>1. CASE Connected(c, s)
  <2>1. /\ stage[c] = "connecting" /\ PeerAlloc(c, s) /\ who' = who /\ maker' = maker
        /\ UNCHANGED <<running, rpc, wpc, lpc, at, seen, thR, stop, stopAt, overtaken, died>>
    BY <1>1, Zenon DEF Connected, reapVars, stopVars
  <2>2. who[c] \in Remote
    BY <2>1, Zenon DEF PInv, Stages
  <2> QED
    BY <2>1, <2>2, Allocs, Zenon DEF PInv, PTypeOK
<1>2. ASSUME NEW r \in Callers, Accept(c, s, r) PROVE PInv'
  <2>1. /\ stage[c] = "unused" /\ PeerAlloc(c, s) /\ ~Busy(Listener)
        /\ UNCHANGED <<running, rpc, wpc, lpc, at, seen, thR, stop, stopAt, overtaken, died>>
    BY <1>2, Zenon DEF Accept, Fresh, reapVars, stopVars
  <2>2. /\ who' \in [Conn -> Remote \cup {NoNode}] /\ who'[c] = r /\ r \in Remote
        /\ maker' \in [Conn -> Maker] /\ maker'[c] = Listener
        /\ \A d \in Conn \ {c} : who'[d] = who[d] /\ maker'[d] = maker[d]
    BY <1>2, Names, PeersAssumption DEF Accept, PInv, PTypeOK
  <2> QED
    BY <2>1, <2>2, Allocs, Zenon
<1> QED
  BY <1>1, <1>2, Zenon

\* The slot is filled in and the two threads are created.
LEMMA OpenInv == ASSUME NEW c \in Conn PROVE PInv /\ Open(c) => PInv'
<1> SUFFICES ASSUME PInv, Open(c) PROVE PInv'
  BY Zenon
<1> DEFINE s == home[c]
<1>1. stage[c] = "slotted" /\ s \in Slot /\ who[c] \in Remote /\ rpc[c] = "none"
  BY Zenon DEF Open, PInv, Stages
<1>2. /\ fd' \in [Slot -> Conn \cup {None}] /\ fd'[s] = c
      /\ owner' \in [Slot -> Conn \cup {None}] /\ owner'[s] = c
      /\ \A t \in Slot \ {s} : fd'[t] = fd[t] /\ owner'[t] = owner[t]
  BY <1>1, Zenon DEF Open, PInv, PTypeOK
<1>3. /\ wpc' \in [Conn -> {"none", "runs", "ended", "joined"}] /\ wpc'[c] \in {"runs", "ended"}
      /\ rpc' \in [Conn -> RunningReader \cup {"none", "ended", "joined"}] /\ rpc'[c] = "hello"
      /\ stage' \in [Conn -> Making \cup {"unused", "made"}] /\ stage'[c] = "spawned"
      /\ \A d \in Conn \ {c} : wpc'[d] = wpc[d] /\ rpc'[d] = rpc[d] /\ stage'[d] = stage[d]
  BY Zenon DEF Open, PInv, PTypeOK, Making, RunningReader
<1>4. closing' \in [Slot -> BOOLEAN]
  BY <1>1, SetFlag, Zenon DEF Open, PInv, PTypeOK
<1>5. UNCHANGED <<running, inUse, known, rStarted, who, maker, home, sock, lpc, at, seen, thR,
                  stop, stopAt, overtaken, late, died>>
  BY Zenon DEF Open, reapVars, stopVars, marks
<1>6. /\ ~late => /\ inUse[s] /\ owner[s] = None /\ stop \notin {"join", "done"}
                  /\ \A d \in Conn : stage[d] = "slotted" /\ home[d] = s => d = c
  BY <1>1, Zenon DEF PInv, Held, SlottedGood
<1> HIDE DEF s
<1>7. PTypeOK'
  BY <1>2, <1>3, <1>4, <1>5, ZenonT(60) DEF PInv, PTypeOK
<1>8. Stages'
  <2> SUFFICES ASSUME NEW d \in Conn
               PROVE  /\ stage'[d] \in {"unused", "connecting", "slotted"} =>
                           rpc'[d] = "none" /\ wpc'[d] = "none"
                      /\ stage'[d] \in {"spawned", "made"} => rpc'[d] # "none" /\ wpc'[d] # "none"
                      /\ stage'[d] \in {"slotted", "spawned", "made"} => home'[d] \in Slot
                      /\ stage'[d] # "unused" => who'[d] \in Remote
                      /\ rpc'[d] = "dial" => Referral[who'[d]] \in Remote
    BY Zenon DEF Stages
  <2>1. CASE d = c
    BY <1>1, <1>3, <1>5, <2>1, Zenon DEF s
  <2>2. CASE d # c
    BY <1>3, <1>5, <2>2 DEF PInv, Stages
  <2> QED
    BY <2>1, <2>2, Zenon
<1>9. Makers' /\ Loops'
  <2>1. \A d \in Conn : stage'[d] \in Making <=> stage[d] \in Making
    BY <1>1, <1>3, Zenon DEF Making
  <2>2. \A d \in Conn : rpc[d] = "dialling" => rpc'[d] = "dialling"
    BY <1>1, <1>3, Zenon DEF PInv, Stages
  <2>3. Makers'
    BY <1>5, <2>1, <2>2, ZenonT(40) DEF PInv, Makers
  <2>4. Loops'
    BY <1>5, Zenon DEF PInv, Loops
  <2> QED
    BY <2>3, <2>4, Zenon
<1>10. Owners'
  BY <1>1, <1>2, <1>3, <1>5 DEF PInv, PTypeOK, Owners, s
<1>11. Held'
  <2> SUFFICES ASSUME ~late, NEW d \in Conn
               PROVE (SlottedGood(d) /\ ReaderGood(d) /\ WriterGood(d) /\ StoredGood(d))'
    BY <1>5, Zenon DEF Held
  <2>1. SlottedGood(d) /\ ReaderGood(d) /\ WriterGood(d) /\ StoredGood(d)
    BY Zenon DEF PInv, Held
  <2>2. CASE d = c
    <3>1. SlottedGood(c)' /\ StoredGood(c)' /\ WriterGood(c)'
      BY <1>2, <1>3, <1>5, <1>6, Zenon DEF SlottedGood, StoredGood, WriterGood, s
    <3>2. ReaderGood(c)'
      BY <1>2, <1>3, <1>5, <1>6, Zenon DEF ReaderGood, s
    <3> QED
      BY <2>2, <3>1, <3>2, ZenonT(40)
  <2>3. CASE d # c
    <3>1. stage[d] \in {"slotted", "spawned", "made"} => home[d] \in Slot
      BY Zenon DEF PInv, Stages
    <3>2. SlottedGood(d)'
      BY <1>2, <1>3, <1>5, <1>6, <2>1, <2>3, <3>1 DEF SlottedGood
    <3>3. ReaderGood(d)'
      <4> SUFFICES ASSUME rpc[d] \in RunningReader PROVE ReaderGood(d)'
        BY <1>3, <2>3, Zenon DEF ReaderGood
      <4>1. home[d] \in Slot \ {s}
        <5>1. home[d] \in Slot /\ owner[home[d]] = d
          BY ReaderHome, Zenon
        <5>2. owner[s] = None /\ d # None
          BY <1>6, Names, Zenon
        <5> QED
          BY <5>1, <5>2, Zenon
      <4> QED
        BY <1>2, <1>3, <1>5, <2>1, <2>3, <4>1, Zenon DEF ReaderGood
    <3>4. WriterGood(d)'
      <4> SUFFICES ASSUME wpc[d] = "runs" PROVE WriterGood(d)'
        BY <1>3, <2>3, Zenon DEF WriterGood
      <4>1. stage[d] \in {"spawned", "made"}
        BY Zenon DEF PInv, PTypeOK, Stages, Making
      <4>2. home[d] \in Slot \ {s}
        BY <1>6, <2>1, <3>1, <4>1, Names, Zenon DEF WriterGood
      <4> QED
        BY <1>2, <1>3, <1>5, <2>1, <2>3, <4>2, Zenon DEF WriterGood
    <3>5. StoredGood(d)'
      BY <1>2, <1>3, <1>5, <2>1, <2>3, <3>1, Zenon DEF StoredGood
    <3> QED
      BY <3>2, <3>3, <3>4, <3>5, Zenon
  <2> QED
    BY <2>2, <2>3, Zenon
<1>12. Reaping'
  BY <1>1, <1>2, <1>5, <1>6, Zenon DEF PInv, Loops, Reaping
<1>13. GivenUpJoined'
  <2> SUFFICES ASSUME ~overtaken, ~late, NEW d \in Conn, stage'[d] \in {"spawned", "made"}
               PROVE  \/ inUse[home[d]] /\ owner'[home[d]] = d
                      \/ rpc'[d] = "joined" /\ wpc'[d] = "joined"
    BY <1>5, Zenon DEF GivenUpJoined
  <2>1. CASE d = c
    BY <1>2, <1>6, <2>1, Zenon DEF s
  <2>2. CASE d # c
    <3>1. stage[d] = stage'[d] /\ home[d] \in Slot
      BY <1>3, <2>2 DEF PInv, Stages
    <3>2. \/ inUse[home[d]] /\ owner[home[d]] = d
          \/ rpc[d] = "joined" /\ wpc[d] = "joined"
      BY <3>1, Zenon DEF PInv, GivenUpJoined
    <3> QED
      BY <1>2, <1>3, <1>6, <2>2, <3>1, <3>2, Names, SMTT(30)
  <2> QED
    BY <2>1, <2>2, Zenon
<1> QED
  BY <1>7, <1>8, <1>9, <1>10, <1>11, <1>12, <1>13, Zenon DEF PInv

-----------------------------------------------------------------------------
(* reap_dead_peers *)

\* The reaper takes the threads of a dead slot.
LEMMA ReapLookInv == ASSUME NEW s \in Slot PROVE PInv /\ ReapLook(s) => PInv'
<1> SUFFICES ASSUME PInv, ReapLook(s) PROVE PInv'
  BY Zenon
<1>1. /\ at = "reap" /\ at' = "join" /\ seen' = s
      /\ inUse[s] /\ fd[s] = None
      /\ thR' \in {None, owner[s]} /\ died' \in BOOLEAN /\ (~died' => owner[s] # None)
  BY Zenon DEF ReapLook, Dead
<1>2. closing' \in [Slot -> BOOLEAN]
  BY SetFlag, Zenon DEF ReapLook, PInv, PTypeOK, WStarted
<1>3. UNCHANGED <<running, inUse, fd, known, owner, rStarted, who, maker, stage, home, sock, rpc,
                  wpc, lpc, stop, stopAt, overtaken, late>>
  BY Zenon DEF ReapLook, connVars, stopVars
<1>4. PTypeOK'
  <2>1. s \in 1 .. MaxPeers + 1
    BY PeersAssumption DEF Slot
  <2>2. owner[s] \in Conn \cup {None}
    BY Zenon DEF PInv, PTypeOK
  <2> QED
    BY <1>1, <1>2, <1>3, <2>1, <2>2, Zenon DEF PInv, PTypeOK
<1>5. Stages' /\ Owners' /\ GivenUpJoined'
  BY <1>3, Zenon DEF PInv, Stages, Owners, GivenUpJoined
<1>6. Makers' /\ Loops'
  BY <1>1, <1>3, Zenon DEF PInv, Makers, Loops
<1>7. Held'
  BY <1>3, Zenon DEF PInv, Held, SlottedGood, ReaderGood, WriterGood, StoredGood
<1>8. Reaping'
  BY <1>1, <1>3, Zenon DEF Reaping
<1> QED
  BY <1>4, <1>5, <1>6, <1>7, <1>8, Zenon DEF PInv

\* A writer that is joined had ended.
LEMMA JoinWriter ==
  ASSUME PTypeOK, NEW c \in Conn \cup {None}, Ended(wpc, c), wpc' = Joined(wpc, c)
  PROVE  /\ wpc' \in [Conn -> {"none", "runs", "ended", "joined"}]
         /\ c # None => wpc'[c] = "joined"
         /\ \A d \in Conn : \/ wpc'[d] = wpc[d]
                            \/ wpc'[d] = "joined" /\ wpc[d] \in {"ended", "joined"}
  BY Zenon DEF Joined, Ended, PTypeOK

\* A reader that is joined had ended.
LEMMA JoinReader ==
  ASSUME PTypeOK, NEW c \in Conn \cup {None}, Ended(rpc, c), rpc' = Joined(rpc, c)
  PROVE  /\ rpc' \in [Conn -> RunningReader \cup {"none", "ended", "joined"}]
         /\ c # None => rpc'[c] = "joined"
         /\ \A d \in Conn : \/ rpc'[d] = rpc[d]
                            \/ rpc'[d] = "joined" /\ rpc[d] \in {"ended", "joined"}
  BY Zenon DEF Joined, Ended, PTypeOK

\* The reaper joins the threads and releases the slot.
LEMMA ReapJoinInv == PInv /\ ~died /\ ReapJoin => PInv'
<1> SUFFICES ASSUME PInv, ~died, ReapJoin PROVE PInv'
  BY Zenon
<1>1. /\ at = "join" /\ at' = "reap" /\ seen' = seen + 1 /\ thR' = None
      /\ overtaken' = (overtaken \/ thR = None)
      /\ UNCHANGED <<running, fd, known, closing, owner, who, maker, stage, home, sock, lpc, stop,
                     stopAt, late, died>>
  BY Zenon DEF ReapJoin, connVars, stopVars
<1>2. /\ seen \in Slot /\ inUse[seen] /\ fd[seen] = None /\ owner[seen] \in Conn
      /\ thR # None => thR = owner[seen]
      /\ ~late /\ thR \in Conn \cup {None}
  BY <1>1, Zenon DEF PInv, PTypeOK, Loops, Reaping
<1>3. /\ wpc' \in [Conn -> {"none", "runs", "ended", "joined"}] /\ wpc'[owner[seen]] = "joined"
      /\ \A d \in Conn : \/ wpc'[d] = wpc[d]
                         \/ wpc'[d] = "joined" /\ wpc[d] \in {"ended", "joined"}
  BY <1>2, JoinWriter, Names, Zenon DEF ReapJoin, PInv
<1>4. /\ rpc' \in [Conn -> RunningReader \cup {"none", "ended", "joined"}]
      /\ thR # None => rpc'[thR] = "joined"
      /\ \A d \in Conn : \/ rpc'[d] = rpc[d]
                         \/ rpc'[d] = "joined" /\ rpc[d] \in {"ended", "joined"}
  BY <1>2, JoinReader, Zenon DEF ReapJoin, PInv
<1>5. /\ inUse' \in [Slot -> BOOLEAN] /\ ~inUse'[seen]
      /\ \A t \in Slot \ {seen} : inUse'[t] = inUse[t]
  <2>1. inUse' = [inUse EXCEPT ![seen] = FALSE]
    BY <1>2, Zenon DEF ReapJoin
  <2> QED
    BY <1>2, <2>1, SetFlag DEF PInv, PTypeOK
<1>6. /\ rStarted' \in [Slot -> BOOLEAN]
      /\ \A t \in Slot \ {seen} : rStarted'[t] = rStarted[t]
  <2>1. rStarted' = [rStarted EXCEPT ![seen] = FALSE]
    BY <1>2, Zenon DEF ReapJoin
  <2> QED
    BY <1>2, <2>1, SetFlag DEF PInv, PTypeOK
<1>7. PTypeOK'
  <2>1. seen' \in 1 .. MaxPeers + 1
    BY <1>1, <1>2, PeersAssumption DEF Slot
  <2>2. overtaken' \in BOOLEAN
    BY <1>1, Zenon
  <2> QED
    BY <1>1, <1>3, <1>4, <1>5, <1>6, <2>1, <2>2, ZenonT(40) DEF PInv, PTypeOK
<1>8. Stages'
  BY <1>1, <1>3, <1>4, ZenonT(60) DEF PInv, Stages
<1>9. Makers' /\ Loops' /\ Owners' /\ Reaping'
  BY <1>1, <1>4, SMTT(30) DEF PInv, Makers, Loops, Owners, Reaping
<1>10. Held'
  <2> SUFFICES ASSUME NEW d \in Conn
               PROVE (SlottedGood(d) /\ ReaderGood(d) /\ WriterGood(d) /\ StoredGood(d))'
    BY Zenon DEF Held
  <2>1. SlottedGood(d) /\ ReaderGood(d) /\ WriterGood(d) /\ StoredGood(d)
    BY <1>2, Zenon DEF PInv, Held
  <2>2. stage[d] \in {"slotted", "spawned", "made"} => home[d] \in Slot
    BY Zenon DEF PInv, Stages
  <2>3. SlottedGood(d)'
    BY <1>1, <1>2, <1>5, <2>1, <2>2, Names, Zenon DEF SlottedGood
  <2>4. ReaderGood(d)'
    <3> SUFFICES ASSUME rpc'[d] \in RunningReader PROVE ReaderGood(d)'
      BY Zenon DEF ReaderGood
    <3>1. rpc'[d] = rpc[d]
      BY <1>4, Zenon DEF RunningReader
    <3>2. home[d] \in Slot \ {seen}
      BY <1>2, <3>1, ReaderHome, Names, Zenon
    <3> QED
      BY <1>1, <1>5, <2>1, <3>1, <3>2, Zenon DEF ReaderGood
  <2>5. WriterGood(d)'
    <3> SUFFICES ASSUME wpc'[d] = "runs" PROVE WriterGood(d)'
      BY Zenon DEF WriterGood
    <3>1. wpc[d] = "runs"
      BY <1>3, Zenon
    <3>2. stage[d] \in {"spawned", "made"}
      BY <3>1, Zenon DEF PInv, PTypeOK, Stages, Making
    <3>3. home[d] \in Slot \ {seen}
      BY <1>3, <2>1, <2>2, <3>1, <3>2, Zenon DEF WriterGood
    <3> QED
      BY <1>1, <1>5, <2>1, <3>1, <3>3, Zenon DEF WriterGood
  <2>6. StoredGood(d)'
    BY <1>1, <1>2, <1>5, <1>6, <2>1, <2>2, Zenon DEF StoredGood
  <2> QED
    BY <2>3, <2>4, <2>5, <2>6, Zenon
<1>11. GivenUpJoined'
  <2> SUFFICES ASSUME ~overtaken', NEW d \in Conn, stage[d] \in {"spawned", "made"}
               PROVE  \/ inUse'[home[d]] /\ owner[home[d]] = d
                      \/ rpc'[d] = "joined" /\ wpc'[d] = "joined"
    BY <1>1, Zenon DEF GivenUpJoined
  <2>1. ~overtaken /\ thR = owner[seen]
    BY <1>1, <1>2, Zenon
  <2>2. home[d] \in Slot
    BY Zenon DEF PInv, Stages
  <2>3. \/ inUse[home[d]] /\ owner[home[d]] = d
        \/ rpc[d] = "joined" /\ wpc[d] = "joined"
    BY <1>2, <2>1, Zenon DEF PInv, GivenUpJoined
  <2> QED
    BY <1>2, <1>3, <1>4, <1>5, <2>1, <2>2, <2>3, Names, Zenon
<1> QED
  BY <1>7, <1>8, <1>9, <1>10, <1>11, Zenon DEF PInv

-----------------------------------------------------------------------------
(* ac_net_stop *)

\* The connections are shut down and the writers woken.
LEMMA StopSweepsInv == PInv /\ StopSweeps => PInv'
<1> SUFFICES ASSUME PInv, StopSweeps PROVE PInv'
  BY Zenon
<1>1. /\ stop = "sweep" /\ stop' = "join"
      /\ late' = (\E c \in Conn : stage[c] \in {"slotted", "spawned"})
      /\ UNCHANGED <<running, inUse, fd, known, owner, rStarted, who, maker, stage, home, rpc, wpc,
                     lpc, at, seen, thR, stopAt, overtaken, died>>
  BY Zenon DEF StopSweeps, reapVars
<1>2. ~late /\ at = "ended"
  BY <1>1, Zenon DEF PInv, Loops
<1>3. /\ sock' \in [Conn -> {"none", "open", "shut", "closed"}]
      /\ \A d \in Conn : sock'[d] = "open" => sock[d] = "open"
  BY ShutType, Zenon DEF StopSweeps, PInv, PTypeOK
<1>4. closing' \in [Slot -> BOOLEAN]
  BY Zenon DEF StopSweeps
<1>5. late' \in BOOLEAN /\ (~late' => \A c \in Conn : stage[c] \notin {"slotted", "spawned"})
  BY <1>1, Zenon
<1>6. PTypeOK'
  BY <1>1, <1>3, <1>4, <1>5, Zenon DEF PInv, PTypeOK
<1>7. Stages' /\ Makers' /\ Loops' /\ Owners' /\ Reaping'
  BY <1>1, <1>2, Zenon DEF PInv, Stages, Makers, Loops, Owners, Reaping
<1>8. Held'
  BY <1>1, <1>2, <1>3, <1>5, Zenon DEF PInv, Held, SlottedGood, ReaderGood, WriterGood, StoredGood
<1>9. GivenUpJoined'
  BY <1>1, <1>2, Zenon DEF PInv, GivenUpJoined
<1> QED
  BY <1>6, <1>7, <1>8, <1>9, Zenon DEF PInv

\* The threads of a slot are joined and the slot is released.
LEMMA StopJoinsInv == PInv /\ StopJoins => PInv'
<1> SUFFICES ASSUME PInv, StopJoins PROVE PInv'
  BY Zenon
<1> DEFINE s == stopAt
           r == IF rStarted[s] THEN owner[s] ELSE None
           w == IF WStarted(s) THEN owner[s] ELSE None
<1>1. /\ s \in Slot /\ r \in Conn \cup {None} /\ w \in Conn \cup {None}
      /\ stop = "join" /\ at = "ended"
  BY Zenon DEF StopJoins, PInv, PTypeOK, Loops
<1>2. /\ wpc' \in [Conn -> {"none", "runs", "ended", "joined"}] /\ (w # None => wpc'[w] = "joined")
      /\ \A d \in Conn : \/ wpc'[d] = wpc[d]
                         \/ wpc'[d] = "joined" /\ wpc[d] \in {"ended", "joined"}
  <2>1. Ended(wpc, w) /\ wpc' = Joined(wpc, w)
    BY Zenon DEF StopJoins
  <2> HIDE DEF w
  <2> QED
    BY <1>1, <2>1, JoinWriter, Zenon DEF PInv
<1>3. /\ rpc' \in [Conn -> RunningReader \cup {"none", "ended", "joined"}]
      /\ r # None => rpc'[r] = "joined"
      /\ \A d \in Conn : \/ rpc'[d] = rpc[d]
                         \/ rpc'[d] = "joined" /\ rpc[d] \in {"ended", "joined"}
  <2>1. Ended(rpc, r) /\ rpc' = Joined(rpc, r)
    BY Zenon DEF StopJoins
  <2> HIDE DEF r
  <2> QED
    BY <1>1, <2>1, JoinReader, Zenon DEF PInv
<1>4. /\ inUse' \in [Slot -> BOOLEAN] /\ ~inUse'[s]
      /\ \A t \in Slot \ {s} : inUse'[t] = inUse[t]
  BY <1>1, SetFlag, SMTT(30) DEF StopJoins, PInv, PTypeOK
<1>5. /\ rStarted' \in [Slot -> BOOLEAN]
      /\ \A t \in Slot \ {s} : rStarted'[t] = rStarted[t]
  BY <1>1, SetFlag, SMTT(30) DEF StopJoins, PInv, PTypeOK
<1>6. /\ fd' \in [Slot -> Conn \cup {None}] /\ \A t \in Slot \ {s} : fd'[t] = fd[t]
      /\ sock' \in [Conn -> {"none", "open", "shut", "closed"}]
      /\ \A d \in Conn : sock'[d] = "open" => sock[d] = "open"
  <2>1. CASE inUse[s]
    <3>1. /\ fd \in [Slot -> Conn \cup {None}]
          /\ sock \in [Conn -> {"none", "open", "shut", "closed"}]
      BY Zenon DEF PInv, PTypeOK
    <3>2. /\ fd' = [fd EXCEPT ![s] = None]
          /\ sock' = IF fd[s] # None THEN [sock EXCEPT ![fd[s]] = "closed"] ELSE sock
      BY <2>1, Zenon DEF StopJoins, CloseFd
    <3>3. fd' \in [Slot -> Conn \cup {None}] /\ \A t \in Slot \ {s} : fd'[t] = fd[t]
      BY <1>1, <3>1, <3>2, Zenon
    <3>4. CASE fd[s] = None
      BY <3>1, <3>2, <3>3, <3>4, Zenon
    <3>5. CASE fd[s] # None
      <4>1. fd[s] \in Conn
        BY <1>1, <3>1, <3>5, Zenon
      <4>2. sock' \in [Conn -> {"none", "open", "shut", "closed"}]
        BY <3>1, <3>2, <3>5, <4>1, Zenon
      <4>3. \A d \in Conn : sock'[d] = "open" => sock[d] = "open"
        BY <3>1, <3>2, <3>5, <4>1, Zenon
      <4> QED
        BY <3>3, <4>2, <4>3, Zenon
    <3> QED
      BY <3>4, <3>5, Zenon
  <2>2. CASE ~inUse[s]
    BY <2>2, Zenon DEF StopJoins, PInv, PTypeOK
  <2> QED
    BY <2>1, <2>2, Zenon
<1>7. /\ UNCHANGED <<running, known, closing, owner, who, maker, stage, home, lpc, at, seen, thR,
                     overtaken, late>>
      /\ died' \in BOOLEAN /\ stop' \in {"join", "done"} /\ stopAt' \in Slot
  <2>1. stop' \in {"join", "done"} /\ stopAt' \in Slot
    BY <1>1, PeersAssumption DEF StopJoins, Slot
  <2> QED
    BY <2>1, Zenon DEF StopJoins, reapVars
<1>8. ASSUME ~late, NEW d \in Conn, inUse[s], owner[s] = d, stage[d] \in {"spawned", "made"},
             home[d] = s
      PROVE  rpc'[d] = "joined" /\ wpc'[d] = "joined"
  <2>1. stage[d] = "made" /\ rStarted[s]
    BY <1>1, <1>8, ZenonT(40) DEF PInv, Held, StoredGood
  <2>2. r = d /\ w = d
    BY <1>8, <2>1, Names, Zenon DEF WStarted
  <2> HIDE DEF r, w
  <2> QED
    BY <1>2, <1>3, <2>2, Names, Zenon
<1> HIDE DEF s, r, w
<1>9. PTypeOK'
  BY <1>1, <1>2, <1>3, <1>4, <1>5, <1>6, <1>7 DEF PInv, PTypeOK
<1>10. Stages'
  BY <1>2, <1>3, <1>7, Zenon DEF PInv, Stages
<1>11. Makers' /\ Loops' /\ Owners' /\ Reaping'
  <2>1. Makers'
    BY <1>3, <1>7, Zenon DEF PInv, Makers
  <2>2. Loops'
    BY <1>1, <1>7, Zenon DEF PInv, Loops
  <2>3. Owners'
    BY <1>7, Zenon DEF PInv, Owners
  <2>4. Reaping'
    BY <1>1, <1>7, Zenon DEF PInv, Reaping, Loops
  <2> QED
    BY <2>1, <2>2, <2>3, <2>4, Zenon
<1>12. Held'
  <2> SUFFICES ASSUME ~late, NEW d \in Conn
               PROVE (SlottedGood(d) /\ ReaderGood(d) /\ WriterGood(d) /\ StoredGood(d))'
    BY <1>7, Zenon DEF Held
  <2>1. SlottedGood(d) /\ ReaderGood(d) /\ WriterGood(d) /\ StoredGood(d)
    BY Zenon DEF PInv, Held
  <2>2. stage[d] \in {"slotted", "spawned", "made"} => home[d] \in Slot
    BY Zenon DEF PInv, Stages
  <2>3. SlottedGood(d)'
    BY <1>1, <1>7, <2>1, Zenon DEF SlottedGood
  <2>4. ReaderGood(d)'
    <3> SUFFICES ASSUME rpc'[d] \in RunningReader PROVE ReaderGood(d)'
      BY Zenon DEF ReaderGood
    <3>1. rpc'[d] = rpc[d] /\ rpc'[d] # "joined"
      BY <1>3, Zenon DEF RunningReader
    <3>2. /\ home[d] \in Slot /\ inUse[home[d]] /\ owner[home[d]] = d
          /\ stage[d] \in {"spawned", "made"}
      BY <3>1, ReaderHome, Zenon
    <3>3. home[d] # s
      BY <1>8, <3>1, <3>2, Zenon
    <3> QED
      BY <1>4, <1>6, <1>7, <2>1, <3>1, <3>2, <3>3, Zenon DEF ReaderGood
  <2>5. WriterGood(d)'
    <3> SUFFICES ASSUME wpc'[d] = "runs" PROVE WriterGood(d)'
      BY ZenonT(40) DEF WriterGood
    <3>1. wpc[d] = "runs"
      BY <1>2, Zenon
    <3>2. stage[d] \in {"spawned", "made"}
      BY <3>1 DEF PInv, PTypeOK, Stages, Making
    <3>3. home[d] # s
      BY <1>8, <2>1, <3>1, <3>2, Zenon DEF WriterGood
    <3> QED
      BY <1>4, <1>7, <2>1, <2>2, <3>1, <3>2, <3>3, Zenon DEF WriterGood
  <2>6. StoredGood(d)'
    BY <1>1, <1>4, <1>5, <1>7, <2>1, <2>2, Zenon DEF StoredGood
  <2> QED
    BY <2>3, <2>4, <2>5, <2>6, Zenon
<1>13. GivenUpJoined'
  <2> SUFFICES ASSUME ~overtaken, ~late, NEW d \in Conn, stage[d] \in {"spawned", "made"}
               PROVE  \/ inUse'[home[d]] /\ owner[home[d]] = d
                      \/ rpc'[d] = "joined" /\ wpc'[d] = "joined"
    BY <1>7 DEF GivenUpJoined
  <2>1. home[d] \in Slot
    BY Zenon DEF PInv, Stages
  <2>2. CASE inUse[home[d]] /\ owner[home[d]] = d
    BY <1>4, <1>8, <2>1, <2>2, Zenon
  <2>3. CASE rpc[d] = "joined" /\ wpc[d] = "joined"
    BY <1>2, <1>3, <2>3, Zenon
  <2> QED
    BY <2>2, <2>3, Zenon DEF PInv, GivenUpJoined
<1> QED
  BY <1>9, <1>10, <1>11, <1>12, <1>13, Zenon DEF PInv

-----------------------------------------------------------------------------
\* ac_net_start leaves an empty table.
LEMMA PInitInv == PInit => PInv
<1> SUFFICES ASSUME PInit PROVE PInv
  BY Zenon
<1>1. PTypeOK
  <2>1. /\ inUse \in [Slot -> BOOLEAN] /\ known \in [Slot -> BOOLEAN]
        /\ closing \in [Slot -> BOOLEAN] /\ rStarted \in [Slot -> BOOLEAN]
    BY Zenon DEF PInit
  <2>2. 1 \in Slot /\ 1 \in 1 .. MaxPeers + 1
    BY PeersAssumption DEF Slot
  <2> QED
    BY <2>1, <2>2, Names, Zenon DEF PInit, PTypeOK
<1>2. Stages /\ Makers /\ Loops /\ Owners
  BY Names, Zenon DEF PInit, Stages, Makers, Loops, Owners, Making
<1>3. Held /\ Reaping /\ GivenUpJoined
  BY Zenon DEF PInit, Held, SlottedGood, ReaderGood, WriterGood, StoredGood, Reaping, GivenUpJoined,
     RunningReader
<1> QED
  BY <1>1, <1>2, <1>3, Zenon DEF PInv

\* Every step of every thread keeps the table in order.
LEMMA PNextInv == PInv /\ [PNext]_pvars => PInv'
<1> SUFFICES ASSUME PInv, [PNext]_pvars PROVE PInv'
  BY Zenon
<1>1. CASE UNCHANGED pvars
  <2>1. UNCHANGED PRest /\ UNCHANGED <<closing, sock, wpc>>
    BY <1>1, Zenon DEF pvars, PRest
  <2> QED
    BY <2>1, Fewer, Zenon DEF PInv, PTypeOK
<1>2. ASSUME NEW m, Makes(m) PROVE PInv'
  BY <1>2, AllocInv, MadeInv, OpenInv, Zenon DEF Makes
<1>3. ASSUME NEW c \in Conn, ReaderRuns(c) \/ WriterRuns(c) PROVE PInv'
  BY <1>2, <1>3, PublishInv, GossipDialInv, ReaderEndsInv, WriterInv, Zenon DEF ReaderRuns
<1>4. CASE ListenerRuns
  BY <1>2, <1>4, StopEarlyInv, Zenon DEF ListenerRuns
<1>5. CASE ~died /\ ConnectorRuns
  BY <1>2, <1>5, ReapLookInv, ReapJoinInv, TurnsInv, DialSeedInv, Zenon DEF ConnectorRuns
<1>6. CASE StopRuns
  BY <1>6, StopEarlyInv, StopSweepsInv, StopJoinsInv, Zenon DEF StopRuns
<1>7. CASE Others
  BY <1>7, AllocInv, HelloInv, ReaderEndsInv, LoopTopInv, ShutsInv, WriterInv, StopEarlyInv, Zenon
     DEF Others
<1> QED
  BY <1>1, <1>3, <1>4, <1>5, <1>6, <1>7, Zenon DEF PNext

\* The slot table and the threads fit together in every reachable state (net.c).
THEOREM PeersInvariant == PSpec => []PInv
<1>1. PInit /\ [][PNext]_pvars => []PInv
  BY PInitInv, PNextInv, PTL
<1> QED
  BY <1>1, PTL DEF PSpec

\* The table, the descriptors and the thread states keep their ranges, the connector's seed
\* number among them.
THEOREM PeersTypes == PSpec => []PTypeOK
<1>1. PInv => PTypeOK
  BY Zenon DEF PInv
<1> QED
  BY <1>1, PeersInvariant, PTL

\* A thread works only on a slot that is in use and its own (peer_alloc, reap_dead_peers).
THEOREM OwnSlotHolds == PSpec => []OwnSlot
<1>1. PInv => OwnSlot
  <2> SUFFICES ASSUME PInv, ~late
               PROVE  /\ \A c \in Conn : UsesSlot(c) => inUse[home[c]]
                      /\ \A c, d \in Conn : UsesSlot(c) /\ UsesSlot(d) /\ home[c] = home[d] => c = d
    BY Zenon DEF OwnSlot
  <2>1. \A c \in Conn : SlottedGood(c) /\ ReaderGood(c) /\ WriterGood(c)
    BY Zenon DEF PInv, Held
  <2>2. \A c \in Conn : UsesSlot(c) =>
          inUse[home[c]] /\ (owner[home[c]] = c \/ (stage[c] = "slotted" /\ owner[home[c]] = None))
    BY <2>1 DEF UsesSlot, SlottedGood, ReaderGood, WriterGood
  <2>3. \A c, d \in Conn : UsesSlot(c) /\ UsesSlot(d) /\ home[c] = home[d] => c = d
    BY <2>1, <2>2, Names, SMTT(30) DEF SlottedGood
  <2> QED
    BY <2>2, <2>3, Zenon
<1> QED
  BY <1>1, PeersInvariant, PTL

\* The threads of a slot that is given up have been joined (reap_dead_peers, ac_net_stop).
THEOREM GivenUpJoinedHolds == PSpec => []GivenUpJoined
<1>1. PInv => GivenUpJoined
  BY Zenon DEF PInv
<1> QED
  BY <1>1, PeersInvariant, PTL

\* A connection that is open and past its HELLO is routed to (reader_loop, ac_net_broadcast).
THEOREM LiveRoutedHolds == PSpec => []LiveRouted
<1>1. PInv => LiveRouted
  <2> SUFFICES ASSUME PInv, ~late, NEW c \in Conn, rpc[c] \in {"dial", "dialling", "read"},
                      sock[c] = "open"
               PROVE  Routed(home[c]) /\ owner[home[c]] = c
    BY Zenon DEF LiveRouted
  <2>1. ReaderGood(c) /\ rpc[c] \in RunningReader
    BY Zenon DEF PInv, Held, RunningReader
  <2> QED
    BY <2>1, Names, Zenon DEF ReaderGood, Routed
<1> QED
  BY <1>1, PeersInvariant, PTL
=============================================================================
