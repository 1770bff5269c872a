--------------------------- MODULE MCNairaAccount ---------------------------
(* Small instances of NairaAccount for TLC. *)
EXTENDS NairaAccount, TLC

CONSTANTS i1, i2,       \* top-ups
          c1, c2,       \* their keys
          r1, r2,       \* payouts
          k1, k2,       \* keys the client made
          t1, t2

Handlers == Permutations({t1, t2})

Amounts == i1 :> 2 @@ i2 :> 1

Credits == i1 :> c1 @@ i2 :> c2

Payouts == r1 :> 2 @@ r2 :> 1

Headers == r1 :> k1 @@ r2 :> k2
=============================================================================
