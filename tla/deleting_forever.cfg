CONSTANTS
  Creator = creator
  Workers = {w1}
  Retries = {}
  Deletes = {d1}
  Gets = {}
  Kinds = {"paper"}
  NoOne = NoOne
  DeletesOnReturn = FALSE
  MaxFaults = 0
SPECIFICATION FairSpec
PROPERTY DeletingIsDeleted
