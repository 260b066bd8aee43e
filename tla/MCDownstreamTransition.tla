----------------------- MODULE MCDownstreamTransition -----------------------
(* Small instances of DownstreamTransition. *)
EXTENDS DownstreamTransition, TLC

CONSTANTS t1, t2

Symmetry == Permutations({t1, t2})
=============================================================================
