----------------------------- MODULE Consensus -----------------------------
(***************************************************************************)
(* The block-finality engine of AgentChain (consensus.c) on top of the     *)
(* chain of Finality.tla (chain.c): a set of honest nodes, each with a     *)
(* slot thread that proposes, votes and seals, and network threads that    *)
(* deliver block announcements and commit votes in any order, any number   *)
(* of times, or never.                                                     *)
(***************************************************************************)
EXTENDS Finality

CONSTANTS
  Validator,   \* the nodes started with the validator flag
  MaxSkew,     \* bound on the number of slots two nodes' wall clocks are apart
  Priority,    \* Priority[<<s, v>>]: VRF priority of v's proposal for slot s, low wins
  PendingMax,  \* AC_PENDING_MAX
  MayCrash     \* bound: <<s, n>> \in MayCrash: n may stop in slot s; every node at most once

ASSUME ConsensusAssumption ==
  /\ Validator \subseteq Node
  /\ MaxSkew \in Nat
  /\ Priority \in [Leaders -> Nat]
  /\ PendingMax \in Nat \ {0}
  /\ MayCrash \subseteq (0 .. MaxSlot) \X Node

VARIABLES
  clock,       \* clock[n]: the slot n's slot thread is in (= its wall-clock slot)
  pc,          \* pc[n]: the next phase of the slot thread
  built,       \* built[n]: the block slot_routine has built and not yet stashed
  pending,     \* pending[n]: the pending_t table, oldest first
  lock,        \* lock[n]: vote_block (vote_height, vote_priority follow); << >> = none
  slotVoted,   \* slotVoted[n]: the slots whose slot_vote_t says voted (the ring of 8
               \* forgets old slots first, and only the current one is ever asked for)
  anns,        \* every BLOCK_ANN ever broadcast: a block and the signers it carries
  crashed      \* the nodes that have been stopped (each at most once)

vars == <<clock, pc, built, chain, certs, genesisLive, pending, lock, slotVoted,
          anns, votes, crashed>>

Entry == [block : Block, signers : SUBSET Node, reached : BOOLEAN]
Announcement == [block : Block, cert : SUBSET Node]
Phase == {"stash", "vote", "seal", "sleep", "down"}

TypeOK ==
  /\ FTypeOK
  /\ clock \in [Node -> 0 .. MaxSlot]
  /\ pc \in [Node -> Phase]
  /\ built \in [Node -> Block]
  /\ pending \in [Node -> Seq(Entry)]
  /\ lock \in [Node -> Block]
  /\ slotVoted \in [Node -> SUBSET Slot]
  /\ anns \subseteq Announcement
  /\ crashed \subseteq Node

-----------------------------------------------------------------------------
Prio(b) == Priority[b[Len(b)]]

\* A pending block at or below the tip is committed already or can never be accepted
\* any more; signers that arrive for it are not tracked.
Open(n, b) == Len(b) > Len(chain[n])

\* Variant: the sealed block is not broadcast again.
SilentAccept(n, b, S) ==
  \/ /\ ValidBlock(n, b, S)
     /\ LastSlot(b) <= clock[n] + 1
     /\ Extend(n, b, S)
     /\ UNCHANGED anns
  \/ /\ ~ValidBlock(n, b, S) \/ LastSlot(b) > clock[n]
     /\ UNCHANGED <<chain, certs, anns>>

\* Variant: the block goes to the chain without its checks.
UncheckedAccept(n, b, S) ==
  /\ Extend(n, b, S)
  /\ anns' = anns \cup {[block |-> b, cert |-> S]}

\* ac_chain_accept_block and the re-broadcast that follows it in try_commit_inner.
\* A block of the next slot is refused as "future" in the first 500 ms of this slot
\* and not afterwards.
AcceptBlock(n, b, S) ==
  \/ /\ ValidBlock(n, b, S)
     /\ LastSlot(b) <= clock[n] + 1
     /\ Extend(n, b, S)
     /\ anns' = anns \cup {[block |-> b, cert |-> S]}
  \/ /\ ~ValidBlock(n, b, S) \/ LastSlot(b) > clock[n]
     /\ UNCHANGED <<chain, certs, anns>>

-----------------------------------------------------------------------------
(* consensus.c: the pending table and the commit attempt *)

\* pending_alloc: when the table is full the oldest entry makes room.
PendingAlloc(table, entry) ==
  Append(IF Len(table) >= PendingMax THEN Tail(table) ELSE table, entry)

\* Fold signers into entry i, each of them once.
AddSigners(table, i, S) == [table EXCEPT ![i].signers = @ \cup S]

Known(n, b) == \E i \in DOMAIN pending[n] : pending[n][i].block = b

\* try_commit on entry i of n's (already updated) table. Nothing happens below the
\* threshold. When it is crossed the first time the grace window opens; the block goes
\* to the chain when it is more than one slot old or a later call finds the window over.
TryCommit(n, table, i) ==
  LET p == table[i]
      crossed == Open(n, p.block) /\ CommitThreshold(p.signers, LiveSet(n))
      catchingUp == clock[n] > LastSlot(p.block) + 1
      marked == [table EXCEPT ![i].reached = TRUE]
  IN  \/ /\ ~crossed
         /\ pending' = [pending EXCEPT ![n] = table]
         /\ UNCHANGED <<chain, certs, anns>>
      \/ /\ crossed
         /\ ~catchingUp
         /\ pending' = [pending EXCEPT ![n] = marked]
         /\ UNCHANGED <<chain, certs, anns>>
      \/ /\ crossed
         /\ catchingUp \/ p.reached
         /\ pending' = [pending EXCEPT ![n] = marked]
         /\ AcceptBlock(n, p.block, p.signers)

-----------------------------------------------------------------------------
(* The slot thread *)

IsLeader(n, s) == n \in Validator \cap Bonded /\ <<s, n>> \in Leaders

\* slot_loop enters its next slot and slot_routine runs up to the release of the
\* chain lock: a leader builds a block on its tip, whatever slot the tip has.
StartSlot(n) ==
  LET s == clock[n] + 1
  IN  /\ pc[n] = "sleep"
      /\ s <= MaxSlot
      /\ \A m \in Node : s <= clock[m] + MaxSkew
      /\ clock' = [clock EXCEPT ![n] = s]
      /\ built' = [built EXCEPT ![n] = IF IsLeader(n, s)
                                       THEN Append(chain[n], <<s, n>>) ELSE @]
      /\ pc' = [pc EXCEPT ![n] = IF IsLeader(n, s) THEN "stash" ELSE "vote"]
      /\ UNCHANGED <<chain, certs, genesisLive, pending, lock, slotVoted, anns, votes,
                     crashed>>

\* slot_routine under cs->mu: the block is stashed and broadcast without signers,
\* even when n's chain has moved on meanwhile. Its try_commit has no signer to count.
StashBlock(n) ==
  /\ pc[n] = "stash"
  /\ pending' = [pending EXCEPT ![n] =
       PendingAlloc(@, [block |-> built[n], signers |-> {}, reached |-> FALSE])]
  /\ anns' = anns \cup {[block |-> built[n], cert |-> {}]}
  /\ built' = [built EXCEPT ![n] = << >>]
  /\ pc' = [pc EXCEPT ![n] = "vote"]
  /\ UNCHANGED <<clock, chain, certs, genesisLive, lock, slotVoted, votes, crashed>>

\* The entries vote_phase chooses from: any slot, any parent, height tip + 1.
Candidates(n) ==
  {i \in DOMAIN pending[n] : Len(pending[n][i].block) = Len(chain[n]) + 1}

\* Variant: the comparison is the wrong way round.
Highest(n) ==
  {i \in Candidates(n) :
     \A j \in Candidates(n) : Prio(pending[n][i].block) >= Prio(pending[n][j].block)}

\* Those of lowest priority value; which of two equal ones comes first in the table is
\* not modelled.
Lowest(n) ==
  {i \in Candidates(n) :
     \A j \in Candidates(n) : Prio(pending[n][i].block) <= Prio(pending[n][j].block)}

\* vote_height = target_h
Locked(n) == Len(lock[n]) = Len(chain[n]) + 1

\* Variant: the vote lock is ignored.
NeverKeepsVote(n) == FALSE

\* The vote stays where it is: nothing strictly below vote_priority is pending.
KeepsVote(n) ==
  Locked(n) /\ \A i \in Candidates(n) : Prio(pending[n][i].block) >= Prio(lock[n])

\* our_vote_now and the try_commit after it, for entry i. A node that is not on the
\* committee of the block's slot signs nothing.
CastVote(n, i) ==
  LET b == pending[n][i].block
      member == Member(n, b)
  IN  /\ votes' = IF member THEN votes \cup {SignedBy(n, b)} ELSE votes
      /\ slotVoted' = IF member
                      THEN [slotVoted EXCEPT ![n] = @ \cup {LastSlot(b)}]
                      ELSE slotVoted
      /\ TryCommit(n, AddSigners(pending[n], i, IF member THEN {n} ELSE {}), i)

VotesNow(n) == n \in Validator /\ clock[n] \notin slotVoted[n] /\ Candidates(n) # {}

\* vote_phase, vote moved (or cast for the first time at this height).
VoteForLowest(n) ==
  /\ pc[n] = "vote"
  /\ VotesNow(n)
  /\ ~KeepsVote(n)
  /\ \E i \in Lowest(n) :
       /\ CastVote(n, i)
       /\ lock' = [lock EXCEPT ![n] = pending[n][i].block]
  /\ pc' = [pc EXCEPT ![n] = "seal"]
  /\ UNCHANGED <<clock, built, genesisLive, crashed>>

\* vote_phase, vote re-affirmed: it is broadcast again if the block is still pending.
Reaffirm(n) ==
  /\ pc[n] = "vote"
  /\ VotesNow(n)
  /\ KeepsVote(n)
  /\ \E i \in Candidates(n) : pending[n][i].block = lock[n] /\ CastVote(n, i)
  /\ pc' = [pc EXCEPT ![n] = "seal"]
  /\ UNCHANGED <<clock, built, genesisLive, lock, crashed>>

\* vote_phase without effect: not a validator, this slot already voted, nothing to
\* vote for, or the block backed so far has been evicted.
NoVote(n) ==
  /\ pc[n] = "vote"
  /\ VotesNow(n) => KeepsVote(n) /\ ~Known(n, lock[n])
  /\ pc' = [pc EXCEPT ![n] = "seal"]
  /\ UNCHANGED <<clock, built, chain, certs, genesisLive, pending, lock, slotVoted,
                 anns, votes, crashed>>

\* Variant: the grace window never ends.
NoSeal(n) ==
  /\ pc[n] = "seal"
  /\ pc' = [pc EXCEPT ![n] = "sleep"]
  /\ UNCHANGED <<clock, built, chain, certs, genesisLive, pending, lock, slotVoted,
                 anns, votes, crashed>>

\* seal_phase: a forced commit attempt for every entry of this slot. At most one of
\* them can be accepted (the others no longer extend the tip); which one, if several
\* could be, depends on table positions that are not modelled.
SealPhase(n) ==
  LET due == {i \in DOMAIN pending[n] :
                /\ LastSlot(pending[n][i].block) = clock[n]
                /\ Open(n, pending[n][i].block)
                /\ CommitThreshold(pending[n][i].signers, LiveSet(n))}
      valid == {i \in due : ValidBlock(n, pending[n][i].block, pending[n][i].signers)}
  IN  /\ pc[n] = "seal"
      /\ votes' = votes
      /\ pending' = [pending EXCEPT ![n] =
           [i \in DOMAIN pending[n] |->
              [pending[n][i] EXCEPT !.reached = @ \/ i \in due]]]
      /\ \/ /\ valid = {}
            /\ UNCHANGED <<chain, certs, anns>>
         \/ \E i \in valid : AcceptBlock(n, pending[n][i].block, pending[n][i].signers)
      /\ pc' = [pc EXCEPT ![n] = "sleep"]
      /\ UNCHANGED <<clock, built, genesisLive, lock, slotVoted, crashed>>

-----------------------------------------------------------------------------
(* The network threads. Announcements and votes stay available for ever, so a *)
(* message may be delivered late, twice, out of order or not at all. What a   *)
(* handler drops changes nothing and is a stuttering step.                    *)

\* ac_consensus_handle_block, block already pending: fold its signers in.
MergeBlock(n, m) ==
  /\ pc[n] # "down"
  /\ votes' = votes
  /\ \E i \in DOMAIN pending[n] :
       /\ pending[n][i].block = m.block
       /\ Open(n, m.block)
       /\ TryCommit(n, AddSigners(pending[n], i, m.cert), i)
  /\ UNCHANGED <<clock, pc, built, genesisLive, lock, slotVoted, crashed>>

\* Variant: the parent is not compared with our tip.
ReceiveAnyParent(n, m) ==
  LET table == PendingAlloc(pending[n],
                 [block |-> m.block, signers |-> m.cert, reached |-> FALSE])
  IN  /\ pc[n] # "down"
      /\ ~Known(n, m.block)
      /\ Len(m.block) = Len(chain[n]) + 1
      /\ votes' = votes
      /\ TryCommit(n, table, Len(table))
      /\ UNCHANGED <<clock, pc, built, genesisLive, lock, slotVoted, crashed>>

\* ac_consensus_handle_block, new block on top of our tip: stash it. Anything else
\* is dropped; a block from further ahead makes the node ask for the gap, and the
\* answer (BLOCK_RES) is again the delivery of an announcement of some earlier commit.
ReceiveBlock(n, m) ==
  LET table == PendingAlloc(pending[n],
                 [block |-> m.block, signers |-> m.cert, reached |-> FALSE])
  IN  /\ pc[n] # "down"
      /\ ~Known(n, m.block)
      /\ Len(m.block) = Len(chain[n]) + 1
      /\ Parent(m.block) = chain[n]
      /\ votes' = votes
      /\ TryCommit(n, table, Len(table))
      /\ UNCHANGED <<clock, pc, built, genesisLive, lock, slotVoted, crashed>>

\* Variant: the vote is matched by height and not by block hash.
HandleVoteByHeight(n, v) ==
  /\ pc[n] # "down"
  /\ Member(v.signer, v.block)
  /\ votes' = votes
  /\ \E i \in DOMAIN pending[n] :
       /\ Len(pending[n][i].block) = Len(v.block)
       /\ Open(n, v.block)
       /\ v.signer \notin pending[n][i].signers
       /\ TryCommit(n, AddSigners(pending[n], i, {v.signer}), i)
  /\ UNCHANGED <<clock, pc, built, genesisLive, lock, slotVoted, crashed>>

\* ac_consensus_handle_vote: counted only if its block is pending.
HandleVote(n, v) ==
  /\ pc[n] # "down"
  /\ Member(v.signer, v.block)
  /\ votes' = votes
  /\ \E i \in DOMAIN pending[n] :
       /\ pending[n][i].block = v.block
       /\ Open(n, v.block)
       /\ v.signer \notin pending[n][i].signers
       /\ TryCommit(n, AddSigners(pending[n], i, {v.signer}), i)
  /\ UNCHANGED <<clock, pc, built, genesisLive, lock, slotVoted, crashed>>

-----------------------------------------------------------------------------
(* Process stop and restart. Blocks and certificates are on disk; the pending *)
(* table, the vote lock and the slot votes are not.                           *)

Crash(n) ==
  /\ <<clock[n], n>> \in MayCrash /\ n \notin crashed
  /\ crashed' = crashed \cup {n}
  /\ pc' = [pc EXCEPT ![n] = "down"]
  /\ built' = [built EXCEPT ![n] = << >>]
  /\ pending' = [pending EXCEPT ![n] = << >>]
  /\ lock' = [lock EXCEPT ![n] = << >>]
  /\ slotVoted' = [slotVoted EXCEPT ![n] = {}]
  /\ genesisLive' = [genesisLive EXCEPT ![n] = FALSE]
  /\ UNCHANGED <<clock, chain, certs, anns, votes>>

\* ac_consensus_new and ac_consensus_start: slot_loop waits for the next slot.
Restart(n) ==
  /\ pc[n] = "down"
  /\ pc' = [pc EXCEPT ![n] = "sleep"]
  /\ UNCHANGED <<clock, built, chain, certs, genesisLive, pending, lock, slotVoted,
                 anns, votes, crashed>>

\* The wall clock of a stopped node goes on.
DownTime(n) ==
  /\ pc[n] = "down"
  /\ clock[n] < MaxSlot
  /\ \A m \in Node : clock[n] + 1 <= clock[m] + MaxSkew
  /\ clock' = [clock EXCEPT ![n] = @ + 1]
  /\ UNCHANGED <<pc, built, chain, certs, genesisLive, pending, lock, slotVoted, anns,
                 votes, crashed>>

-----------------------------------------------------------------------------
Init ==
  /\ clock = [n \in Node |-> 0]
  /\ pc = [n \in Node |-> "sleep"]
  /\ built = [n \in Node |-> << >>]
  /\ chain = [n \in Node |-> << >>]
  /\ certs = [n \in Node |-> << >>]
  /\ genesisLive = [n \in Node |-> TRUE]
  /\ pending = [n \in Node |-> << >>]
  /\ lock = [n \in Node |-> << >>]
  /\ slotVoted = [n \in Node |-> {}]
  /\ anns = {}
  /\ votes = {}
  /\ crashed = {}

SlotThread(n) ==
  \/ StartSlot(n)
  \/ StashBlock(n)
  \/ VoteForLowest(n)
  \/ Reaffirm(n)
  \/ NoVote(n)
  \/ SealPhase(n)

NetworkThread(n) ==
  \/ \E m \in anns : MergeBlock(n, m) \/ ReceiveBlock(n, m)
  \/ \E v \in votes : HandleVote(n, v)

Next ==
  \E n \in Node :
    SlotThread(n) \/ NetworkThread(n) \/ Crash(n) \/ DownTime(n) \/ Restart(n)

Spec == Init /\ [][Next]_vars

-----------------------------------------------------------------------------
(* Safety *)

\* Whatever is pending at the height vote_phase votes on extends the node's tip.
\* vote_phase does not look at the parent, and slot_routine stashes a block it built
\* before it took cs->mu, when the chain may have moved.
PendingExtendsTip ==
  \A n \in Node : \A i \in Candidates(n) : Parent(pending[n][i].block) = chain[n]

\* Every signer counted for a pending block or carried by an announcement has signed
\* that very block: handle_block merges certificates without looking at them, and
\* votes and announcements arrive in any order.
SignersGenuine ==
  /\ \A n \in Node : \A i \in DOMAIN pending[n] :
       \A v \in pending[n][i].signers : SignedBy(v, pending[n][i].block) \in votes
  /\ \A m \in anns : \A v \in m.cert : SignedBy(v, m.block) \in votes

\* Until a node restarts, its votes only move up in height and, at one height, down in
\* priority: the vote lock is at least as high, and at its height as low, as every
\* vote the node has ever cast (the comment on vote_height in struct ac_consensus).
LockIsLowestVote ==
  \A v \in votes :
    v.signer \notin crashed =>
      /\ Len(v.block) <= Len(lock[v.signer])
      /\ Len(v.block) = Len(lock[v.signer]) => Prio(lock[v.signer]) <= Prio(v.block)

\* Every committed block was announced with the certificate it was stored with, so a
\* lagging node can always be handed it (the re-broadcast in try_commit_inner).
CommitsAnnounced ==
  \A n \in Node : \A h \in 1 .. Len(chain[n]) :
    [block |-> Ancestor(chain[n], h), cert |-> certs[n][h]] \in anns

\* "at most one block can finalise per height even under a network partition"
\* (validate_commit), "at most one block finalises per height (no fork)" (vote_phase).
Agreement ==
  \A n, m \in Node : \A h \in 1 .. Len(chain[n]) :
    h <= Len(chain[m]) => Ancestor(chain[n], h) = Ancestor(chain[m], h)

\* "both gates must pass on every node or a block one node seals would be rejected by
\* the others" (try_commit_inner): the certificate a node stored with a block is good
\* enough for every other node that is at the block's parent.
CertificatesPortable ==
  \A n, m \in Node : \A h \in 1 .. Len(chain[n]) :
    chain[m] = Ancestor(chain[n], h - 1) => CommitThreshold(certs[n][h], LiveSet(m))
=============================================================================
