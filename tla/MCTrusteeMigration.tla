------------------------- MODULE MCTrusteeMigration -------------------------
(* Small instances of TrusteeMigration. *)
EXTENDS TrusteeMigration, TLC

CONSTANTS ann, bob, w1, w2

(* Ann is on both pages, twice on the first, and the second page is full.  *)
Ats  == <<ann, ann, bob, ann>>

(* Two pages; the second professional is nobody CAMS knows. *)
Acms == <<ann, NoTrustee, bob>>

Symmetry == Permutations({w1, w2})
=============================================================================
