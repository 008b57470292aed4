------------------------------ MODULE Purchase ------------------------------
(***************************************************************************)
(* What buying one archive promises the buyer, whatever the wallet, the     *)
(* network and the server do.  The buyer is offered transactions to sign;   *)
(* each ends charged or void.  There is never more than one that may still  *)
(* be charged; the purchase is granted at most once, for an offer that was  *)
(* charged; and from then on nothing more is charged for it.                *)
(*                                                                         *)
(* It does not promise that a charge is granted: see ReplacedNeverPaid in   *)
(* Payments.                                                               *)
(***************************************************************************)
CONSTANT Offers     \* the transactions a buyer may be offered

VARIABLES
    offer,          \* what became of each transaction
    granted         \* the transaction the purchase was granted for, if any

Outcome == {"none", "open", "charged", "void"}

Init ==
    /\ offer = [o \in Offers |-> "none"]
    /\ granted = {}

NothingOpen == \A o \in Offers : offer[o] # "open"

\* An offer may be late: its window has closed when the buyer gets it.
Propose(o) ==
    /\ offer[o] = "none"
    /\ NothingOpen
    /\ granted = {}
    /\ \E r \in {"open", "void"} : offer' = [offer EXCEPT ![o] = r]
    /\ UNCHANGED granted

Settle(o) ==
    /\ offer[o] = "open"
    /\ \E r \in {"charged", "void"} : offer' = [offer EXCEPT ![o] = r]
    /\ UNCHANGED granted

Grant(o) ==
    /\ offer[o] = "charged"
    /\ NothingOpen
    /\ granted = {}
    /\ granted' = {o}
    /\ UNCHANGED offer

Next == \E o \in Offers : Propose(o) \/ Settle(o) \/ Grant(o)

Spec == Init /\ [][Next]_<<offer, granted>>
=============================================================================
