SPECIFICATION CacheSpec
CONSTANTS
  Ids = {1, 2, 3}
  Limits = {0, 2}
PROPERTY EvictsOldest
CHECK_DEADLOCK FALSE
