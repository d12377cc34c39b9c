SPECIFICATION BothSpec
CONSTANTS
  Apps = {a}
  Keys = {1, 2}
  Values = {plain, piped, precise}
  NoValue = NoValue
  Piped = {piped}
  Kept <- MCKept
  plain = plain
  piped = piped
  precise = precise
  Cap = 1
  Faults = {"crash", "map", "sync", "dump"}
  MaxFails = 3
  Names = {"", "t"}
  NoName = ""
  Columns = {"a", "x"}
  Layouts <- MCLayouts
  Literals <- MCLiterals
  Lists <- MCLists
  Wheres <- MCWheres
  MaxRows = 3
PROPERTIES OkReadsBack
