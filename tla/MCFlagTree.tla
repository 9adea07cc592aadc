----------------------------- MODULE MCFlagTree -----------------------------
(* Small instances of FlagTree for TLC: the containers are interchangeable. *)
EXTENDS FlagTree, TLC

Boxes == Permutations(Node \ Leaf)
=============================================================================
