----------------------------- MODULE MCRenderers ------------------------------
(* Instances of Renderers for TLC. *)
EXTENDS Renderers, TLC

CONSTANTS A, B, f1, f2, f3

MCKindOf ==
  A :> (f1 :> "pdf" @@ f2 :> "xlsx" @@ f3 :> "image")
  @@ B :> (f1 :> "pdf" @@ f2 :> "xlsx" @@ f3 :> "docx")
=============================================================================
