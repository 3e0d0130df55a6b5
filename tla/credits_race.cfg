CONSTANTS
  g1 = g1
  g2 = g2
  Generates = {g1, g2}
  Profiles = {}
  Verifies = {}
  Cost <- MCCost
  FreeCredits = 4
  FreeLife = 3
  RefundLife = 4
  StartRows <- MCRows
  Second = 2
  NoKey = NoKey
  MaxNow = 6
  MaxFaults = 0
SPECIFICATION Spec
INVARIANTS TypeOK ChargedMeansJob CacheCoherentWhenSerial
PROPERTIES LedgerSpec NextFetchHonest
