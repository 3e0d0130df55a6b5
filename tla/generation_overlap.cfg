CONSTANTS
  Creator = creator
  Workers = {w1, w2}
  Retries = {r1}
  Deletes = {d1}
  Gets = {}
  Kinds = {"paper", "invalid", "panic"}
  NoOne = NoOne
  DeletesOnReturn = FALSE
  MaxFaults = 1
SPECIFICATION FairSpec
INVARIANTS TypeOK UnfinishedHasMessage
PROPERTIES DeletedStaysDeleted QueueDrains
