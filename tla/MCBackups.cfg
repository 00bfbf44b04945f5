\* Every operation, traffic, checkpoints and crashes, on one database.
CONSTANTS
  h1 = h1
  main_db = main_db
  scheduler = scheduler
  Databases = {main_db}
  Main = main_db
  Handlers = {h1}
  Scheduler = scheduler
  Operations = {"backup", "restore", "delete", "commit", "crash"}
  KeepCount = 1
  MaxCommits = 2
  MaxRequests = 2
  MaxSeconds = 1
  MaxFiles = 2
SPECIFICATION BackupsSpec
INVARIANTS
  BackupIsWhole
  BackupIsCurrent
  RestoredIsBackup
  NewestAreKept
CHECK_DEADLOCK FALSE
