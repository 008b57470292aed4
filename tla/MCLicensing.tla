----------------------------- MODULE MCLicensing -----------------------------
(***************************************************************************)
(* Model-checking instances of Licensing.                                  *)
(***************************************************************************)
EXTENDS Licensing, TLC

\* Ids of requests, nonces and tokens are only compared for equality.
Symmetry ==
    Permutations(Requests) \cup Permutations(Nonces) \cup Permutations(Tokens)
=============================================================================
