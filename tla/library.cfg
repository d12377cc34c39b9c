SPECIFICATION Spec
CONSTANTS
  Tables <- MCTables
  Data <- MCData
  Kinds = {"text", "integer"}
  Columns <- MCColumns
  GivenSchemas <- MCSchemas
  Inputs <- MCInputs
  Patches <- MCPatches
  Order <- MCOrder
  NoRecord = NoRecord
  MaxFails = 1
  schema_key = schema_key
  task_key = task_key
  tasks = tasks
  task = task
  NoKey = NoKey
  NoValue = NoValue
  Apps = {app1, app2}
  SchemaKey = schema_key
  Keys <- MCCliKeys
  Values <- MCCliValues
  TableOf <- MCTableOf
  Schemas <- MCCliSchemas
  RowValues <- MCRowValues
  MaxCells = 10
  MaxLsn = 14
  StoredValues = {1, 2}
  Ids = {1, 2, 3}
  Limits = {0, 2}
  Lengths = {0, 4, 8}
  PageSizes = {0, 4}
  Fds = {3, 4}
  Addresses = {1, 2}
  Options <- MCOptions
  LowerOf <- MCLowerOf
  CharOrder <- MCCharOrder
  Endings <- MCEndings
  Stopwords <- MCStopwords
  StringOrder <- MCStringOrder
  NumberOf <- MCNumberOf
  VaultKeys <- MCVaultKeys
  Plains <- MCPlains
  Masters = {"good", "short"}
  ValidMaster = "good"
  Overhead = 2
  MaxNonce = 3
  CommandWords = {"", "a", "b"}
  NoWord = ""
  Arguments <- MCArguments
  CommandSpecs <- MCCommandSpecs
  ArgvTokens <- MCArgvTokens
  CommandLines <- MCCommandLines
  Executed <- MCExecuted
  PluginTurn <- MCPluginTurn
  HitsFor <- MCHitsFor
  Spelled <- MCSpelled
  Idents = {"x"}
  Quoted = {"'q'", "'r'"}
  WholeOf <- MCWholeOf
  DoubleOf <- MCDoubleOf
  DoubleText <- MCDoubleText
  JsonNumbers <- MCJsonNumbers
  Escapes <- MCEscapes
  EscapeOf <- MCEscapeOf
  KeyOrder <- MCKeyOrder
  HalvesOf <- MCHalvesOf
  MaxSize = 5
  IndexOf <- MCIndexOf
  MustHave <- MCMustHave
  KnownSections <- MCKnownSections
  Backends <- MCBackends
  BinaryBackends = {"BSON"}
  Alphabet <- MCAlphabet
  MaxIterations = 100
  RuleCount = 3
  Fires <- MCFires
  Transformed <- MCTransformed
  IpcWords <- MCIpcWords
  IntegerText <- MCIntegerText
  RealText <- MCRealText
  NumberIn <- MCNumberIn
  TextOrder <- MCTextOrder
  KnownCommands <- MCKnownCommands
  ExitCommand <- MCExitCommand
  ResultOf <- MCResultOf
  MaxInteger = 100
  LowerWords <- MCLowerWords
  DirectoryTree <- MCDirectoryTree
  KEY_BYTES = 1
  NONCE_BYTES = 1
  ZEROBYTES = 3
  BOXZEROBYTES = 1
  KeyByte <- MCKeyByte
  OneTimeAuth <- MCOneTimeAuth
  Letters = {"a", " "}
  Room = 3
  MaxLine = 5
  HistoryMaxLen = 3
  MaxKeys = 5
  Histories <- MCHistories
  CombiningChars <- MCCombiningChars
  WideChars <- MCWideChars
SYMMETRY AppSymmetry
INVARIANTS RowsInPlace ScanFindsItsTable PagesAreSlices TurnsAreSafe WholeOrNothing WindowOwnsAll IndexKeepsTheWords QueryFindsTheWords VaultReadsBack NamesResolve NothingIsLost TextsReadBack CodesReadBack FormatsReadBack VerdictsAgree CombinatorsReadRight QueriesAreAnswered
PROPERTIES StoredRowFitsFile SchemaSurvives MaintainKeepsContents LastWriterWins DirtyUntilEvicted OnlyCommandsTakeOver KeysDoWhatTheySay
CHECK_DEADLOCK FALSE
