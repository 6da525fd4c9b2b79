SPECIFICATION Spec
CONSTANTS
  None = None
  Throws = Throws
  Aborts = Aborts
  Undefined = Undefined
  Characters <- MCCharacters
  Columns <- MCColumns
  Values <- MCValues
  MaxRows = 3
  ChunkSize = 2
  SourceTables <- MCSourceTables
  Replies <- MCReplies
  MaxCalls = 6
  NoQuery = NoQuery
  Rejected = Rejected
  Default = "d"
  Exits = Exits
  SizeLimit = 65536
  LineLimit = 100
  IntLimit = 8
  Widths <- MCWidths
  UintLimit = 8
  NumberOfText <- MCNumberOfText
  PartsOf <- MCPartsOf
  NumberOf <- MCNumberOf
INVARIANTS TablesReadBack ChunksArriveWhole QueriesParsed InputsTaken TextsShown
CHECK_DEADLOCK FALSE
