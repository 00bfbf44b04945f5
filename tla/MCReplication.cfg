\* A primary that serves one request at a time, without faults of its own,
\* over a bad network.
CONSTANTS
  main = main
  other = other
  h1 = h1
  h2 = h2
  NoHandler = NoHandler
  Texts <- MCTexts
  Params <- MCParams
  NoParams <- MCNoParams
  DBState <- MCDBState
  EmptyDB <- MCEmptyDB
  Exec <- MCExec
  SqlError <- MCSqlError
  Rows <- MCRows
  Handlers = {h1}
  Databases = {main, other}
  Requests <- TwoDatabases
  MaxRequests = 2
  MaxRows = 7
  BatchLimit = 2
  Faults = {"lost", "short", "replicaOpen", "replicaSql", "checkpoint", "load", "replicaCrash", "stop"}
  MaxFaults = 3
SPECIFICATION Spec
INVARIANTS
  TypeOK
  EveryEntryInTurn
  ProgressIsDone
  ConvergesIfOnce
PROPERTIES
  ShipsTheLog
  ProgressNeverBack
CHECK_DEADLOCK FALSE
