\* Two clients writing the same database, no fault.
CONSTANTS
  main = main
  other = other
  h1 = h1
  h2 = h2
  NoHandler = NoHandler
  Texts <- MCTexts
  Params <- MCParams
  NoParams <- MCNoParams
  DBState <- MCDBState
  EmptyDB <- MCEmptyDB
  Exec <- MCExec
  SqlError <- MCSqlError
  Rows <- MCRows
  Handlers = {h1, h2}
  Databases = {main}
  Requests <- TwoWrites
  MaxRequests = 2
  MaxRows = 3
  BatchLimit = 2
  Faults = {}
  MaxFaults = 0
SPECIFICATION Spec
INVARIANT Convergence
