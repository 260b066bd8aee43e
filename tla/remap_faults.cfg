SPECIFICATION FairSpec
CONSTANTS
  c1 = c1
  c2 = c2
  t1 = t1
  t2 = t2
  u1 = u1
  u2 = u2
  NoTrustee = NoTrustee
  Cases = {c1, c2}
  Trustees = {t1, t2}
  Earlier = t2
  Users = {u1}
  Syncs = {s1}
  Remaps = {r1}
  PageSize = 1
  RetryLimit = 1
  MaxDequeueCount = 2
  Faults = {"transient", "permanent", "crash"}
  MaxDeliveries = 1
  MaxFaults = 2
INVARIANTS
  NeverForgotten
  NoMarkSkipped
PROPERTIES
  RemapClears
CHECK_DEADLOCK FALSE
