SPECIFICATION Spec
CONSTANTS
  x = x
  y = y
  u1 = u1
  u2 = u2
  Seeds = {8, 11}
  Targets = {x, y}
  NoTarget = NoTarget
  Tens = {1, 10, 100, 1000}
  Width = 1000
  Users = {u1, u2}
  MaxCommits = 2
  MaxSyncs = 3
  MaxFaults = 1
INVARIANTS
  CursorCovers
  ImportedOnce
  OnePendingOrder
  TransferRecorded
SYMMETRY Symmetry
CHECK_DEADLOCK FALSE
