------------------------------- MODULE HubRole -------------------------------
(***************************************************************************)
(* What the election promises a reader of the nodes table: the role of the *)
(* hub belongs to nobody until the first election, and from then on to one *)
(* node; it passes from node to node in a single step, and is never vacant *)
(* or shared in between.  Election implements this module.                 *)
(***************************************************************************)
CONSTANT Node

VARIABLE hubs    \* the nodes that the table names as the hub

Init == hubs = {}

Elect(n) == hubs' = {n}

Next == \E n \in Node : Elect(n)

Spec == Init /\ [][Next]_hubs
=============================================================================
