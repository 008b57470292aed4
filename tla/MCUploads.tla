----------------------------- MODULE MCUploads -----------------------------
(***************************************************************************)
(* Model-checking instances of Uploads.                                    *)
(***************************************************************************)
EXTENDS Uploads, TLC

\* Sessions are only compared for equality.
Symmetry == Permutations(Uploads)
=============================================================================
