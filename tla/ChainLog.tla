------------------------------ MODULE ChainLog ------------------------------
(***************************************************************************)
(* What the chain store of a node promises to its callers: a log that only *)
(* grows, with a tail that may be in use before it is durable. A stop      *)
(* loses the tail and nothing else.                                        *)
(***************************************************************************)
EXTENDS Sequences

CONSTANT Block

VARIABLES
  durable,  \* the blocks that survive a stop
  inUse,    \* the blocks the node works on, while it is up
  promised, \* the blocks a caller has been told are committed
  up

logVars == <<durable, inUse, promised, up>>

LogInit == durable = << >> /\ inUse = << >> /\ promised = << >> /\ ~up

\* A block is committed: it is durable, with the tail before it, when its caller is told.
LogCommit(b) ==
  /\ up
  /\ inUse' = Append(inUse, b)
  /\ durable' = inUse' /\ promised' = inUse'
  /\ UNCHANGED up

\* A block is in use and its caller is told of a failure.
LogTail(b) ==
  /\ up
  /\ inUse' = Append(inUse, b)
  /\ UNCHANGED <<durable, promised, up>>

LogStop == up /\ ~up' /\ inUse' = << >> /\ UNCHANGED <<durable, promised>>
LogStart == ~up /\ up' /\ inUse' = durable /\ UNCHANGED <<durable, promised>>

LogNext == LogStop \/ LogStart \/ \E b \in Block : LogCommit(b) \/ LogTail(b)

LogSpec == LogInit /\ [][LogNext]_logVars
=============================================================================
