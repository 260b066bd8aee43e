SPECIFICATION Spec
CONSTANTS
  t1 = t1
  t2 = t2
  Trustees = {t1, t2}
  Nobody = Nobody
  Seqs = {1, 2}
  DayLength = 3
  Cutover = 1
  LastDay = 2
  MaxEvents = 2
  MaxAcmsChanges = 1
SYMMETRY Symmetry
INVARIANTS
  YoungestEventStays
PROPERTIES
  OwnedRowsFollowCams
CHECK_DEADLOCK FALSE
