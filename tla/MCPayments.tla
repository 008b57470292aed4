----------------------------- MODULE MCPayments -----------------------------
(***************************************************************************)
(* Model-checking instances of Payments.                                   *)
(***************************************************************************)
EXTENDS Payments, TLC

\* Ids of rows, wallets and requests are only compared for equality.
Symmetry ==
    Permutations(Issuances) \cup Permutations(Accounts)
        \cup Permutations(Builders) \cup Permutations(Verifiers)
=============================================================================
