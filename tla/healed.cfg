SPECIFICATION AloneSpec
CONSTANTS
  ann = ann
  bob = bob
  w1 = w1
  w2 = w2
  TrusteeNames = {ann, bob}
  NoTrustee = NoTrustee
  TrusteeOf <- Ats
  HolderOf <- Acms
  AtsPageSize = 2
  HealPageSize = 2
  Workers = {w1, w2}
  MaxDeliveries = 2
  MaxStarts = 2
  MaxEscapes = 0
  MaxFailures = 0
SYMMETRY Symmetry
INVARIANTS
  HealConverges
CHECK_DEADLOCK FALSE
