-------------------------- MODULE MCConsolidations --------------------------
(* Small instances of Consolidations: two jobs with a case in common.      *)
EXTENDS Consolidations, TLC

CONSTANTS c1, c2, c3, j1, j2, a1, a2, r1, r2

Symmetry == Permutations({r1, r2})

JobMembers   == j1 :> {c1, c2, c3} @@ j2 :> {c2, c3}
TrialAtFirst == c1 :> {a1} @@ c2 :> {a2} @@ c3 :> {}
LeadAtFirst  == c1 :> {a1} @@ c2 :> {} @@ c3 :> {}

Approve(job, included, lead) ==
  [status |-> "approved", job |-> job, included |-> included, lead |-> lead]
Reject(job, included) ==
  [status |-> "rejected", job |-> job, included |-> included, lead |-> NoCase]

(* With and without the lead case among the included ones, in part and as  *)
(* a whole, for either lead.                                               *)
Decisions ==
  {Approve(j1, {c2}, c1), Approve(j1, {c1, c2, c3}, c1), Approve(j1, {c3}, c1),
   Approve(j1, {c1, c3}, c2), Approve(j2, {c3}, c2), Approve(j2, {c1, c3}, c2),
   Reject(j1, {c2}), Reject(j1, {c1, c3}), Reject(j2, {c2, c3})}
=============================================================================
