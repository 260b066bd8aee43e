----------------------------- MODULE MCCaseSync -----------------------------
(* Small instances of CaseSync: one case that may move, with an order that *)
(* is there from the start and a note a user may add, and one that stays.  *)
EXTENDS CaseSync, TLC

CONSTANTS k1, k2, d1, d2, order, note, w1, w2

Symmetry == Permutations({w1, w2})

OwnCase == order :> k1 @@ note :> k1
OwnPart == order :> "orders" @@ note :> "cases"
=============================================================================
