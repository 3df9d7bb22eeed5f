----------------------------- MODULE MCStorage -----------------------------
(* Two blocks of other nodes and two of our own, over three epochs. *)
EXTENDS Seeds

CONSTANTS p1, p2, o1, o2

MCPeerBlock == {p1, p2}
MCOwnBlock == {o1, o2}
MCSlotOf == [b \in MCPeerBlock \cup MCOwnBlock |->
               CASE b = p1 -> 1 [] b = o1 -> 2 [] b = p2 -> 3 [] OTHER -> 4]
=============================================================================
