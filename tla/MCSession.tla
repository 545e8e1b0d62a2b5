----------------------------- MODULE MCSession -----------------------------
(* Instances of Session for TLC, and the mutants its properties must catch. *)
EXTENDS Session, TLC

Symmetry == Permutations(Cmd)
=============================================================================
