\* Each kind of file beside one request of another client, under every fault but a
\* failed insert into replication_log.
CONSTANTS
  main = main
  h1 = h1
  h2 = h2
  NoHandler = NoHandler
  Texts <- MCTexts
  Params <- MCParams
  NoParams <- MCNoParams
  DBState <- MCDBState
  EmptyDB <- MCEmptyDB
  Exec <- MCExec
  SqlError <- MCSqlError
  Rows <- MCRows
  Databases = {main}
  Requests <- MCRequests
  ClientRequests <- MCClientRequests
  Handlers = {h1, h2}
  MaxRequests = 2
  MaxRows = 4
  Files <- MCFiles
  JobDb = main
  JobRoles = {"developer", "readonly"}
  TextOf <- MCTextOf
  Copies <- MCCopies
  BatchSize = 2
  MaxRuns = 2
  Faults = {"open", "sql", "cancel", "primaryCrash", "send", "answer"}
  MaxFaults = 1
SPECIFICATION ImportLive
INVARIANTS
  EveryWriteLogged
  LockHasTransaction
  FileIsIn
  InAsOftenAsSent
PROPERTIES
  EveryRequestEnds
  CommandEnds
CHECK_DEADLOCK FALSE
