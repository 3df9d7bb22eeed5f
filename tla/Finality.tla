------------------------------ MODULE Finality ------------------------------
(***************************************************************************)
(* What chain.c promises about finality, whatever the consensus engine     *)
(* above it does: honest nodes sign blocks that extend their own tip, and  *)
(* each node's chain grows by a block that ac_chain_accept_block accepts   *)
(* with some commit certificate. Who signs what and when, which signatures *)
(* reach a node and how many it collects before it commits is left open.   *)
(* Consensus.tla refines this specification.                               *)
(*                                                                         *)
(* A block hash commits to the parent hash, so a block IS the sequence of  *)
(* <<slot, proposer>> pairs from the first block after genesis to itself:  *)
(* its length is its height, the genesis block is << >>, and the tip of a  *)
(* node's chain is the node's whole chain. The commit certificate is not   *)
(* part of the hash and is kept beside it.                                 *)
(***************************************************************************)
EXTENDS StakeWeight, Sequences

CONSTANTS
  MaxSlot,     \* bound: the last slot of a behaviour
  Leaders,     \* <<s, v>> \in Leaders: the VRF makes v a leader of slot s
  Committee,   \* <<s, v>> \in Committee: the VRF puts v on the committee of slot s
  Window       \* AC_LIVENESS_WINDOW

Slot == 1 .. MaxSlot

ASSUME FinalityAssumption ==
  /\ MaxSlot \in Nat
  /\ Leaders \subseteq Slot \X Node
  /\ Committee \subseteq Slot \X Node
  /\ Window \in Nat \ {0}

VARIABLES
  chain,       \* chain[n]: the tip n has committed
  certs,       \* certs[n][h]: the commit signers n stored with its block h
  genesisLive, \* genesisLive[n]: the live map still holds the genesis entries
  votes        \* every commit vote signed so far

fvars == <<chain, certs, genesisLive, votes>>

Block == Seq(Leaders)   \* a leader proposes at most once per slot
Vote == [signer : Node, block : Block]

FTypeOK ==
  /\ chain \in [Node -> Block]
  /\ certs \in [Node -> Seq(SUBSET Node)]
  /\ genesisLive \in [Node -> BOOLEAN]
  /\ votes \subseteq Vote

-----------------------------------------------------------------------------
LastSlot(b) == IF b = << >> THEN 0 ELSE b[Len(b)][1]
Proposer(b) == b[Len(b)][2]
Parent(b) == SubSeq(b, 1, Len(b) - 1)
Ancestor(b, h) == SubSeq(b, 1, h)

Member(v, b) == v \in Bonded /\ <<LastSlot(b), v>> \in Committee
SignedBy(v, b) == [signer |-> v, block |-> b]

\* live_is_within_window over the live map. live_record_signer keeps the height
\* of the last block a validator signed; the genesis validators start at height 0
\* and a restart (tx_index_rebuild) does not restore those entries.
LiveSet(n) ==
  LET height == Len(chain[n])
  IN  {v \in Bonded :
         \/ genesisLive[n] /\ height < Window
         \/ \E h \in 1 .. height : height - h < Window /\ v \in certs[n][h]}

\* validate_commit; votes' are the signatures that exist when the step is over.
ValidCommit(n, b, S) ==
  /\ S # {}
  /\ \A v \in S : Member(v, b) /\ SignedBy(v, b) \in votes'
  /\ CommitThreshold(S, LiveSet(n))

\* Variant: slots need not increase along a chain.
AnySlotBlock(n, b, S) ==
  /\ Len(b) = Len(chain[n]) + 1
  /\ Parent(b) = chain[n]
  /\ Proposer(b) \in Bonded
  /\ ValidCommit(n, b, S)

\* The checks of ac_chain_accept_block that depend on more than the contents of the
\* block (always well formed here), except the comparison with the wall clock.
ValidBlock(n, b, S) ==
  /\ Len(b) = Len(chain[n]) + 1
  /\ Parent(b) = chain[n]
  /\ LastSlot(b) > LastSlot(chain[n])
  /\ Proposer(b) \in Bonded
  /\ ValidCommit(n, b, S)

\* Variant: the block is stored under the slot after its own.
MisfiledExtend(n, b, S) ==
  /\ chain' = [chain EXCEPT ![n] = Append(@, <<LastSlot(b) + 1, Proposer(b)>>)]
  /\ certs' = [certs EXCEPT ![n] = Append(@, S)]

\* What ac_chain_accept_block writes when every check has passed.
Extend(n, b, S) ==
  /\ chain' = [chain EXCEPT ![n] = b]
  /\ certs' = [certs EXCEPT ![n] = Append(@, S)]

-----------------------------------------------------------------------------
\* A member of the block's committee signs a block on top of its own tip.
Sign(v, b) ==
  /\ Parent(b) = chain[v]
  /\ Member(v, b)
  /\ votes' = votes \cup {SignedBy(v, b)}
  /\ UNCHANGED <<chain, certs, genesisLive>>

\* A node accepts a block; the signature that completes the certificate may be its
\* own, made in the same step.
Finalise(n, b, S) ==
  /\ \/ votes' = votes
     \/ Member(n, b) /\ votes' = votes \cup {SignedBy(n, b)}
  /\ ValidBlock(n, b, S)
  /\ Extend(n, b, S)
  /\ UNCHANGED genesisLive

\* ac_chain_open on existing data (a second one changes nothing more).
Reopen(n) ==
  /\ genesisLive[n]
  /\ genesisLive' = [genesisLive EXCEPT ![n] = FALSE]
  /\ UNCHANGED <<chain, certs, votes>>

FInit ==
  /\ chain = [n \in Node |-> << >>]
  /\ certs = [n \in Node |-> << >>]
  /\ genesisLive = [n \in Node |-> TRUE]
  /\ votes = {}

FNext ==
  \E n \in Node :
    \/ \E p \in Leaders : Sign(n, Append(chain[n], p))
    \/ \E p \in Leaders, S \in SUBSET Node : Finalise(n, Append(chain[n], p), S)
    \/ Reopen(n)

FSpec == FInit /\ [][FNext]_fvars

-----------------------------------------------------------------------------
\* Every block of a chain is stored with a certificate of genuine signatures worth
\* more than half of the bonded square-root stake, whichever votes reached the node
\* and however small its live set was (validate_commit).
ChainCertified ==
  \A n \in Node :
    /\ Len(certs[n]) = Len(chain[n])
    /\ \A h \in 1 .. Len(chain[n]) :
         /\ \A v \in certs[n][h] : SignedBy(v, Ancestor(chain[n], h)) \in votes
         /\ FloorGate(certs[n][h])

\* When two nodes have finalised different blocks at one height, some validator has
\* signed both of them: the fork is provable equivocation (PROTOCOL.md, section 6.5,
\* on committed blocks; the safety floor of validate_commit).
Accountability ==
  \A n, m \in Node :
    \A h \in 1 .. Len(chain[n]) :
      (h <= Len(chain[m]) /\ Ancestor(chain[n], h) # Ancestor(chain[m], h)) =>
        \E v \in Node : /\ SignedBy(v, Ancestor(chain[n], h)) \in votes
                        /\ SignedBy(v, Ancestor(chain[m], h)) \in votes

\* Committed blocks are never rolled back: a chain only ever grows, by one block of a
\* later slot at a time (ac_chain_accept_block follows no fork).
AppendOnly ==
  [][\A n \in Node :
       chain'[n] # chain[n] =>
         /\ Parent(chain'[n]) = chain[n]
         /\ LastSlot(chain'[n]) > LastSlot(chain[n])]_fvars
=============================================================================
