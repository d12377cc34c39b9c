SPECIFICATION BothSpec
CONSTANTS
  Apps = {a, b}
  Keys = {1, 2}
  Values = {plain, piped}
  NoValue = NoValue
  Piped = {piped}
  Kept <- MCKept
  plain = plain
  piped = piped
  precise = precise
  Cap = 1
  Faults = {"crash", "map", "sync", "dump"}
  MaxFails = 1
  Names = {"", "t"}
  NoName = ""
  Columns = {"a", "x"}
  Layouts <- MCLayouts
  Literals <- MCLiterals
  Lists <- MCLists
  Wheres <- MCWheres
  MaxRows = 3
SYMMETRY AppSymmetry
INVARIANTS MemInv MappedAgrees ComparesNumbers ReadsBack
PROPERTIES OpenAllOrNothing OkIsOnFile LoadsWhatWasDumped ThrownChangesOneRow AffectsWhatItSelects
