SPECIFICATION CommittedSpec
CONSTANTS
  e1 = e1
  e2 = e2
  e3 = e3
  Events = {e1, e2, e3}
  Source <- LastIsPetition
  TxDate <- Dates
  Oversized = {e3}
  Starters = {s1}
  Handlers = {h1}
  PageSize = 2
  UnsyncedLimit = 1
  TransientLimit = 1
  MaxDequeueCount = 2
  MaxRuns = 1
  MaxFaults = 1
  MaxTransients = 1
INVARIANTS
  NothingLost
  OversizedIsReported
  UnsyncedGetsItsRetries
PROPERTIES
  QueueDrains
CHECK_DEADLOCK FALSE
