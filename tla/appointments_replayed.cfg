SPECIFICATION Spec
CONSTANTS
  e1 = e1
  e2 = e2
  e3 = e3
  f1 = f1
  f2 = f2
  t1 = t1
  t2 = t2
  NoDate = NoDate
  NoKey = NoKey
  Trustees = {t1, t2}
  Fingerprints = {f1, f2}
  Dates = {1, 2, 3}
  Events = {e1, e2, e3}
  EventOf <- ReassignBack
  ResolvedTo <- Resolve
  Matched = {f1, f2}
  Unmatched = {f1}
  Handlers = {h1}
  CaseLife = {"synced"}
  Faults = {"crash"}
  SharedPages = FALSE
  MaxDeliveries = 2
INVARIANTS
  TrusteeCopiesHaveCaseCopy
  LinkedIsListed
  OneSurrogatePerMismatch
PROPERTIES
  SurrogateSurvives
  AnnouncedAsStored
  ImplementsActiveAppointment
CHECK_DEADLOCK FALSE
