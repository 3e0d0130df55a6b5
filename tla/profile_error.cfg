CONSTANTS
  g1 = g1
  g2 = g2
  Generates = {}
  Profiles = {p1}
  Verifies = {}
  Cost <- MCCost
  FreeCredits = 4
  FreeLife = 3
  RefundLife = 4
  StartRows <- MCRows
  Second = 2
  NoKey = NoKey
  MaxNow = 5
  MaxFaults = 0
SPECIFICATION Spec
INVARIANT ProfileAnswers
