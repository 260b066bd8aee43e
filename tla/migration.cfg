SPECIFICATION AloneSpec
CONSTANTS
  ann = ann
  bob = bob
  w1 = w1
  w2 = w2
  TrusteeNames = {ann, bob}
  NoTrustee = NoTrustee
  TrusteeOf <- Ats
  HolderOf <- Acms
  AtsPageSize = 2
  HealPageSize = 2
  Workers = {w1, w2}
  MaxDeliveries = 2
  MaxStarts = 3
  MaxEscapes = 1
  MaxFailures = 2
SYMMETRY Symmetry
INVARIANTS
  CompletedIsMigrated
  HealLosesNothing
  HealedIsHealed
CHECK_DEADLOCK FALSE
