----------------------------- MODULE MCRegistry -----------------------------
(* Instances of Registry for TLC: a handler is a pair of a node and a number. *)
EXTENDS Registry

CONSTANT n1

TwoOfOne == {<<n1, 1>>, <<n1, 2>>}
FirstOf == [h \in Handler |-> h[1]]
=============================================================================
