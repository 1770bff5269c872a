------------------------------- MODULE Escrow -------------------------------
(***************************************************************************)
(* What the ledger promises about money that is set aside for a purchase   *)
(* whose outcome is not known yet: it is taken from the customer once, and *)
(* then it is either earned once or given back once, never both and never  *)
(* twice.  Number orders (reserve, settle, refund) implement it.           *)
(***************************************************************************)
CONSTANT Items              \* the purchases

VARIABLE money              \* where the price of each purchase is

Places == {"customer", "held", "earned", "returned"}

TypeOK == money \in [Items -> Places]

Init == money = [i \in Items |-> "customer"]

Move(i, from, to) ==
    /\ money[i] = from
    /\ money' = [money EXCEPT ![i] = to]

Hold(i)   == Move(i, "customer", "held")
Earn(i)   == Move(i, "held", "earned")
Return(i) == Move(i, "held", "returned")

Next == \E i \in Items : Hold(i) \/ Earn(i) \/ Return(i)

Spec == Init /\ [][Next]_money
=============================================================================
