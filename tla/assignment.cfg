SPECIFICATION Spec
CONSTANTS
  lead = lead
  member = member
  a1 = a1
  a2 = a2
  Cases = {lead, member}
  Attorneys = {a1, a2}
  Roles = {"TrialAttorney", "LeadTrialAttorney"}
  Lead = "LeadTrialAttorney"
  MembersOf <- LeadAndMember
  Given <- GivenAtFirst
  q1 = q1
  q2 = q2
  Requests = {q1, q2}
  Asked <- Questions
  Faults = {"error", "crash"}
  MaxFaults = 1
INVARIANTS
  RemovedIsGone
  HeldAsListed
  OneLead
  AuditTells
  LastListStands
PROPERTIES
  EndedStaysEnded
SYMMETRY Symmetry
CHECK_DEADLOCK FALSE
