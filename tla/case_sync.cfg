SPECIFICATION Spec
CONSTANTS
  k1 = k1
  k2 = k2
  d1 = d1
  d2 = d2
  order = order
  note = note
  w1 = w1
  w2 = w2
  Cases = {k1, k2}
  Divisions = {d1, d2}
  MayMove = {k1}
  NoId = NoId
  Items = {order, note}
  CaseOf <- OwnCase
  PartOf <- OwnPart
  Early = {order}
  Workers = {w1, w2}
  PageSize = 2
  MaxDequeue = 2
  MaxChanges = 3
  MaxStarts = 2
  MaxFaults = 1
INVARIANTS
  NothingMissed
  MovedLeavesNothing
  OrphanIsCleaned
PROPERTIES
  NoDocumentLost
SYMMETRY Symmetry
CHECK_DEADLOCK FALSE
