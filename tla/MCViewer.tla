------------------------------ MODULE MCViewer ------------------------------
(* Instances of Viewer for TLC. *)
EXTENDS Viewer, TLC

Symmetry == Permutations(Archives) \cup Permutations(Intents)
=============================================================================
