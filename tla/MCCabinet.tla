----------------------------- MODULE MCCabinet -----------------------------
(***************************************************************************)
(* One account that may log in twice, and prices of every kind the form and  *)
(* the API's doubles tell apart.  A double has 8 bits here: it holds the cents *)
(* of a price below 2, and toFixed(2) writes one below 4 with decimals.        *)
(***************************************************************************)
EXTENDS Cabinet

\* "", "free", "0.00" and "1.239", which are turned down; "1.99", whose cents a
\* double holds, "2.01", of which it makes 2.02, and "4".
Prices ==
    { [form |-> "required", digits |-> 0, decimals |-> 0],
      [form |-> "format", digits |-> 0, decimals |-> 0],
      Number(0, 2), Number(1239, 3), Number(199, 2), Number(201, 2), Number(4, 0) }

PowersOfTwo == {2 ^ k : k \in 0 .. 8}
=============================================================================
