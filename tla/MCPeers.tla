------------------------------ MODULE MCPeers ------------------------------
(* Small instances of Peers. *)
EXTENDS Peers

CONSTANTS a, b

MCRemote == {a, b}
MCCallers == {a}
MCSeeds == [i \in 1 .. 1 |-> a]
MCReferral == [r \in MCRemote |-> IF r = a THEN b ELSE NoNode]

=============================================================================
