CONSTANTS
  Creator = creator
  Workers = {w1}
  Retries = {r1, r2}
  Deletes = {d1, d2}
  Gets = {g1}
  Kinds = {"paper", "invalid", "panic"}
  NoOne = NoOne
  DeletesOnReturn = TRUE
  MaxFaults = 1
SPECIFICATION Spec
INVARIANT RowMatchesObject
PROPERTY StatusMoves
