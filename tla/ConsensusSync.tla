--------------------------- MODULE ConsensusSync ---------------------------
(***************************************************************************)
(* Consensus.tla on a network that keeps the deadlines the phase constants *)
(* of consensus.c are chosen for: clocks agree on the slot, every proposal *)
(* of a slot reaches every node before AC_VOTE_DELAY_MS have passed, every *)
(* commit vote before AC_VOTE_DELAY_MS + AC_SEAL_GRACE_MS, and nobody      *)
(* stops. Deliveries still interleave freely with the slot threads.        *)
(***************************************************************************)
EXTENDS Consensus

\* The next phase of n's slot thread is not due before the network has done its part.
OnTime(n) ==
  CASE pc[n] = "sleep" ->
         \A m \in Node : clock[m] > clock[n] \/ pc[m] = "sleep"
    [] pc[n] = "vote" ->
         /\ \A m \in Node : clock[m] = clock[n] /\ pc[m] # "stash"
         /\ \A a \in anns : Parent(a.block) = chain[n] => Known(n, a.block)
    [] pc[n] = "seal" ->
         /\ \A m \in Node : clock[m] = clock[n] /\ pc[m] \in {"seal", "sleep"}
         /\ \A v \in votes : \A i \in DOMAIN pending[n] :
              (pending[n][i].block = v.block /\ Open(n, v.block))
                => v.signer \in pending[n][i].signers
    [] OTHER -> TRUE

TimelySlotThread(n) == OnTime(n) /\ SlotThread(n)

SyncNext == \E n \in Node : TimelySlotThread(n) \/ NetworkThread(n)

\* Some thread runs as long as any of them can do something: enough, because no step
\* of this specification can be repeated for ever.
SyncSpec == Init /\ [][SyncNext]_vars /\ WF_vars(SyncNext)

-----------------------------------------------------------------------------
\* The leaders of slot s that will propose, and the one whose proposal should win.
Proposers(s) == {n \in Node : IsLeader(n, s)}
Winner(s) == CHOOSE n \in Proposers(s) :
               \A m \in Proposers(s) : Priority[<<s, n>>] <= Priority[<<s, m>>]

\* A slot is productive when somebody leads it and its committee's validators carry
\* enough weight for any live set.
Productive(s) ==
  /\ Proposers(s) # {}
  /\ LET C == {v \in Validator \cap Bonded : <<s, v>> \in Committee}
     IN  SqrtSum[C] * 3 >= SqrtSum[Node] * 2

\* The slots node n is done with.
Finished(n, s) == clock[n] > s \/ (clock[n] = s /\ pc[n] = "sleep")

\* A slot with leaders ends with the lowest-priority proposal sealed on every node,
\* however many leaders proposed and in whatever order proposals and votes arrived
\* (vote_phase: "the network converges on a single block per slot regardless of how
\* many leaders proposed"; seal_phase: "a block is sealed ... in every committable case").
SealedInSlot ==
  \A n \in Node : \A s \in Slot :
    (Finished(n, s) /\ Productive(s)) =>
      \E h \in 1 .. Len(chain[n]) : chain[n][h] = <<s, Winner(s)>>

\* The chains catch up with the clock: every productive slot's block is eventually
\* final on every node.
EventuallyFinal ==
  <>(\A n \in Node : \A s \in Slot :
       Productive(s) => \E h \in 1 .. Len(chain[n]) : chain[n][h][1] = s)
=============================================================================
