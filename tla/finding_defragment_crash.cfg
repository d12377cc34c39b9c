SPECIFICATION Spec
CONSTANTS
  Keys = {k1, k2}
  Values = {v1}
  NoKey = NoKey
  NoValue = NoValue
  MaxCells = 9
  MaxLsn = 12
  MaxFails = 1
  Faults = {"maintain"}
PROPERTIES OpenRestoresCommitted
