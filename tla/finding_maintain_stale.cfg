SPECIFICATION CliSpec
CONSTANTS
  schema_key = schema_key
  task_key = task_key
  tasks = tasks
  task = task
  NoKey = NoKey
  NoValue = NoValue
  Apps = {a}
  SchemaKey = schema_key
  Keys <- MCCliKeys
  Values <- MCCliValues
  TableOf <- MCTableOf
  Schemas <- MCCliSchemas
  RowValues <- MCRowValues
  MaxCells = 9
  MaxLsn = 12
INVARIANTS SoleUserCanReopen
CHECK_DEADLOCK FALSE
