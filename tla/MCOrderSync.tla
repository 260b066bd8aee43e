---------------------------- MODULE MCOrderSync ----------------------------
(* Small instances of OrderSync.                                           *)
EXTENDS OrderSync, TLC

CONSTANTS x, y, u1, u2

Symmetry == Permutations({x, y}) \cup Permutations({u1, u2})
=============================================================================
