----------------------------- MODULE MCCatalog -----------------------------
(* Instances of Catalog for TLC. *)
EXTENDS Catalog, TLC

\* Slots are only compared for equality.
Symmetry == Permutations(Slots)
=============================================================================
