CONSTANTS
  Creator = creator
  Workers = {w1, w2}
  Retries = {r1}
  Deletes = {d1}
  Gets = {}
  Kinds = {"paper", "invalid", "panic"}
  NoOne = NoOne
  DeletesOnReturn = TRUE
  MaxFaults = 1
SPECIFICATION FairSpec
PROPERTY JobFinishes
