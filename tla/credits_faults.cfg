CONSTANTS
  g1 = g1
  g2 = g2
  Generates = {g1}
  Profiles = {}
  Verifies = {v1, v2}
  Cost <- MCCost
  FreeCredits = 3
  FreeLife = 2
  RefundLife = 2
  StartRows <- MCNoRows
  Second = 1
  NoKey = NoKey
  MaxNow = 2
  MaxFaults = 2
SPECIFICATION Spec
INVARIANTS OkMeansPaid QueuedMeansPaid
PROPERTIES LedgerSpec
