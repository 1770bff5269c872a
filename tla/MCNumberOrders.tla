--------------------------- MODULE MCNumberOrders ---------------------------
(* Small instances of NumberOrders for TLC. *)
EXTENDS NumberOrders, TLC

CONSTANTS o1, o2, u1, a1, a2, t1, t2

Handlers == Permutations({t1, t2})

\* One order, its price within the balance.
OneOwner == o1 :> u1
OnePrice == o1 :> 2
OneFund  == u1 :> 3

\* Two orders of one customer who can pay for one of them at a time.
TwoOwners == o1 :> u1 @@ o2 :> u1
TwoPrices == o1 :> 2 @@ o2 :> 1
TightFund == u1 :> 2

\* Two orders of one customer who can pay for both.
AmpleFund == u1 :> 3
=============================================================================
