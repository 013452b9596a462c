---------------------------- MODULE MCSharedData ----------------------------
(* Instances of SharedData for TLC. *)
EXTENDS SharedData, TLC

Symmetry == Permutations(Editor) \cup Permutations(Player)
=============================================================================
