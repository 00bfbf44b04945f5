\* One client, no fault: a transaction with a statement SQLite refuses.
CONSTANTS
  main = main
  h1 = h1
  h2 = h2
  NoHandler = NoHandler
  Texts <- MCTexts
  Params <- MCParams
  NoParams <- MCNoParams
  DBState <- MCDBState
  EmptyDB <- MCEmptyDB
  Exec <- MCExec
  SqlError <- MCSqlError
  Rows <- MCRows
  Databases = {main}
  Requests <- MCRequests
  Handlers = {h1}
  MaxRequests = 2
  MaxRows = 5
  Faults = {}
  MaxFaults = 0
SPECIFICATION PrimarySpec
INVARIANT TransactionAtomic
