\* Faults that come to an end: the whole log arrives.
CONSTANTS
  main = main
  other = other
  h1 = h1
  h2 = h2
  NoHandler = NoHandler
  Texts <- MCTexts
  Params <- MCParams
  NoParams <- MCNoParams
  DBState <- MCDBState
  EmptyDB <- MCEmptyDB
  Exec <- MCExec
  SqlError <- MCSqlError
  Rows <- MCRows
  Handlers = {h1}
  Databases = {main}
  Requests <- OneDatabase
  MaxRequests = 2
  MaxRows = 7
  BatchLimit = 2
  Faults = {"log", "open", "cancel", "primaryCrash",
            "lost", "short", "replicaOpen", "replicaSql", "replicaCrash", "stop"}
  MaxFaults = 2
SPECIFICATION LiveSpec
PROPERTIES
  EveryRowArrives
  EveryRowIsSaved
