\* Signals, POST /shutdown, slow handlers, and every fault of the audit worker.
CONSTANTS
  h1 = h1
  h2 = h2
  f1 = f1
  main = main
  api1 = api1
  Capacity = 2
  Flushers = {f1}
  AuditFaults = {"prepare", "insert"}
  Handlers = {h1, h2}
  APIClosers = {api1}
  Main = main
  Signals = TRUE
  Slow = TRUE
  MaxRequests = 4
SPECIFICATION FairServer
INVARIANTS
  NothingLost
  FlushIsDone
  ExitWritesAudit
  ClosedWhenDrained
  CrashNeedsTwo
PROPERTY SignalEnds
CHECK_DEADLOCK FALSE
