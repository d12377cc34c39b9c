SPECIFICATION FairSpec
CONSTANTS
  Keys = {k1}
  Values = {v1}
  NoKey = NoKey
  NoValue = NoValue
  MaxCells = 6
  MaxLsn = 9
  MaxFails = 2
  Faults = {"crash", "write", "end", "header", "maintain", "tear", "read"}
PROPERTIES CallsReturn
