------------------------------ MODULE MCSession -------------------------------
(* Instances of Session for TLC. *)
EXTENDS Session, TLC

MCSkews == {-2, -1, 0, 2}
=============================================================================
