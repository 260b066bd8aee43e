------------------------ MODULE MCVerificationRemap ------------------------
(* Small instances of VerificationRemap.                                   *)
EXTENDS VerificationRemap, TLC

CONSTANTS c1, c2, t1, t2, u1, u2

Symmetry == Permutations({c1, c2})
=============================================================================
