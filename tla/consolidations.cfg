SPECIFICATION Spec
CONSTANTS
  c1 = c1
  c2 = c2
  c3 = c3
  j1 = j1
  j2 = j2
  a1 = a1
  a2 = a2
  r1 = r1
  r2 = r2
  Cases = {c1, c2, c3}
  NoCase = NoCase
  Jobs = {j1, j2}
  MembersOf <- JobMembers
  Attorneys = {a1, a2}
  TrialOf <- TrialAtFirst
  LeadOf <- LeadAtFirst
  Requests = {r1, r2}
  Asked <- Decisions
  MaxFaults = 2
INVARIANTS
  NoCaseLost
  MemberFirst
  OneConsolidation
  OneOrderPerId
  ApprovalIsComplete
SYMMETRY Symmetry
CHECK_DEADLOCK FALSE
