SPECIFICATION Spec
CONSTANTS
  Keys = {k1, k2}
  Values = {v1}
  NoKey = NoKey
  NoValue = NoValue
  MaxCells = 7
  MaxLsn = 10
  MaxFails = 3
  Faults = {"crash", "write", "header", "maintain", "tear"}
PROPERTIES PrefixOrCorrupt
SYMMETRY KeySymmetry
