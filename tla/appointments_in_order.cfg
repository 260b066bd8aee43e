SPECIFICATION Spec
CONSTANTS
  e1 = e1
  e2 = e2
  e3 = e3
  f1 = f1
  f2 = f2
  t1 = t1
  t2 = t2
  NoDate = NoDate
  NoKey = NoKey
  Trustees = {t1, t2}
  Fingerprints = {f1, f2}
  Dates = {1, 2, 3}
  Events = {e1, e2, e3}
  EventOf <- ReassignBack
  ResolvedTo <- Resolve
  Matched = {f1, f2}
  Unmatched = {}
  Handlers = {h1}
  CaseLife = {"missing", "synced", "moved"}
  Faults = {"transient", "permanent", "crash"}
  SharedPages = TRUE
  MaxDeliveries = 3
INVARIANTS
  PartitionsAgree
  LatestEventWins
  SettledHasActive
ACTION_CONSTRAINTS
  InOrder
  Reported
CHECK_DEADLOCK FALSE
