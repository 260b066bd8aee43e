-------------------------- MODULE MCCaseAssignment --------------------------
(* Small instances of CaseAssignment: a lead case and its member.          *)
EXTENDS CaseAssignment, TLC

CONSTANTS lead, member, a1, a2

LeadAndMember == lead :> {member} @@ member :> {}

(* The earlier assignments; one was made twice. *)
GivenAtFirst ==
  <<[case |-> lead, who |-> a1, role |-> "TrialAttorney"],
   [case |-> lead, who |-> a1, role |-> "TrialAttorney"],
   [case |-> lead, who |-> a1, role |-> "LeadTrialAttorney"],
   [case |-> member, who |-> a2, role |-> "LeadTrialAttorney"]>>

(* Trial attorneys and leads of the lead case, and a lead of the member.   *)
(* A list may name somebody twice, as that of an approved consolidation    *)
(* does for whoever holds two roles on its lead case.                      *)
AskedOf(c, list, role) == [case |-> c, list |-> list, role |-> role]

Questions ==
  {AskedOf(lead, <<a1, a2>>, "TrialAttorney"), AskedOf(lead, <<a2, a2>>, "TrialAttorney"),
   AskedOf(lead, <<>>, "LeadTrialAttorney"), AskedOf(lead, <<a2>>, "LeadTrialAttorney"),
   AskedOf(member, <<a1>>, "LeadTrialAttorney")}

(* Requests differ in nothing but what they are asked. *)
Symmetry == Permutations(Requests)
=============================================================================
