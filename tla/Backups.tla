------------------------------ MODULE Backups ------------------------------
(***************************************************************************)
(* Backup and restore: Manager of internal/backup/backup.go, the scheduler *)
(* of internal/server/server.go and the handlers of                        *)
(* internal/server/routes.go, without encryption and in WAL mode.          *)
(*                                                                         *)
(* A database is a file of two pages and a write-ahead log.  Every         *)
(* transaction writes both pages, so a state of the database is named by   *)
(* the number of the last transaction, and a file whose pages disagree is  *)
(* torn.  Files are copied page by page while other requests run.          *)
(***************************************************************************)
EXTENDS Naturals, FiniteSets, FiniteSetsExt

CONSTANTS
  Databases, Main,  \* names of databases; the one the scheduler backs up
  Handlers,         \* goroutines that serve requests
  Scheduler,        \* the goroutine of scheduledBackupLoop
  Operations,       \* what handlers are asked for
  KeepCount,        \* backup.keep_count
  MaxCommits,       \* bound: transactions
  MaxRequests,      \* bound: requests to back up, restore or delete, and crashes
  MaxSeconds,       \* bound: the clock stops there
  MaxFiles          \* bound: files that CreateBackup makes

ASSUME BackupsAssumption ==
  /\ Main \in Databases /\ Scheduler \notin Handlers
  /\ Operations \subseteq {"backup", "restore", "delete", "commit", "crash"}
  /\ KeepCount \in Nat \ {0}
  /\ MaxCommits \in Nat /\ MaxRequests \in Nat /\ MaxSeconds \in Nat /\ MaxFiles \in Nat

VARIABLES
  now,        \* time.Now(), in seconds
  requests,   \* bound: requests and crashes so far
  commits,    \* the last transaction of each database
  main,       \* the pages in the database file; 0 is a page that is missing
  wal,        \* the last transaction in the write-ahead log; 0 if it is empty
  opened,     \* the dbs of database.Manager
  file,       \* the pages of the files that CreateBackup made
  made,       \* how many it made
  modTime,    \* in which order they were written last
  tmp,        \* which of them has the name, with .tmp
  backups,    \* which of them has the name
  pc, job,    \* what a goroutine does
  doomed,     \* names that the scheduler is about to remove
  finished,   \* history: files that were given their name, and what their job met
  pruned      \* history: files that the scheduler removed

filesVars == <<file, made, modTime, tmp, backups, finished>>
backupsVars == <<now, requests, commits, main, wal, opened, filesVars, pc, job, doomed, pruned>>

Pages == 1..2
Content == [Pages -> Nat]
Missing == [p \in Pages |-> 0]
BackupName == [db : Databases, at : 0..MaxSeconds]
FileIds == 1..MaxFiles
Jobs == Handlers \cup {Scheduler}

\* History, what a job met: a database file that a crash had left torn; a file that
\* SQLite wrote between the copies of two pages; a connection in use, so that the
\* log was not emptied; a request that used the database during the restore; a log
\* that was there though this process had not opened the database; another job on
\* the database; a name that the scheduler was about to remove.
Causes == {"torn", "written", "busy", "used", "left", "overlap", "doomed"}

\* held and since are history as well: the transaction that the database showed,
\* and the last one, when a backup was asked for or a restore had copied its file.
Job == [name : BackupName, db : Databases, file : 0..MaxFiles, held : Nat, since : Nat,
        met : SUBSET Causes]
Finished == [name : BackupName, file : FileIds, met : SUBSET Causes]

BackupsTypeOK ==
  /\ now \in 0..MaxSeconds /\ requests \in 0..MaxRequests
  /\ commits \in [Databases -> Nat]
  /\ main \in [Databases -> Content]
  /\ wal \in [Databases -> Nat]
  /\ opened \in [Databases -> BOOLEAN]
  /\ file \in [FileIds -> Content]
  /\ made \in 0..MaxFiles
  /\ modTime \in [FileIds -> Nat]
  /\ tmp \in [BackupName -> 0..MaxFiles]
  /\ backups \in [BackupName -> 0..MaxFiles]
  /\ pc \in [Jobs -> {"idle", "checkpoint", "create", "copy 1", "copy 2", "rename", "list",
                      "prune", "close", "truncate", "restore 1", "restore 2", "open"}]
  /\ job \in [Jobs -> Job]
  /\ doomed \in SUBSET BackupName
  /\ finished \in SUBSET Finished
  /\ pruned \in SUBSET FileIds

NoJob == [name |-> [db |-> Main, at |-> 0], db |-> Main, file |-> 0, held |-> 1, since |-> 1,
          met |-> {}]

BackupsInit ==
  /\ now = 0 /\ requests = 0
  /\ commits = [d \in Databases |-> 1]
  /\ main = [d \in Databases |-> [p \in Pages |-> 1]]
  /\ wal = [d \in Databases |-> 0]
  /\ opened = [d \in Databases |-> FALSE]
  /\ file = [f \in FileIds |-> Missing]
  /\ made = 0
  /\ modTime = [f \in FileIds |-> 0]
  /\ tmp = [n \in BackupName |-> 0]
  /\ backups = [n \in BackupName |-> 0]
  /\ pc = [j \in Jobs |-> "idle"]
  /\ job = [j \in Jobs |-> NoJob]
  /\ doomed = {}
  /\ finished = {} /\ pruned = {}

Goto(j, step) == pc' = [pc EXCEPT ![j] = step]
\* The call returns, and its local variables are gone.
Forget(j) == job' = [job EXCEPT ![j] = NoJob]
KeepFiles == UNCHANGED filesVars
KeepDatabases == UNCHANGED <<commits, main, wal, opened>>
KeepWorld == UNCHANGED <<now, requests, doomed, pruned>>
Count == requests < MaxRequests /\ requests' = requests + 1
KeepLists == UNCHANGED <<now, doomed, pruned>>

-----------------------------------------------------------------------------
(* The database manager and SQLite.                                        *)

Opens(d) == opened' = [opened EXCEPT ![d] = TRUE]

\* What a query of database d finds.
Holds(d) == IF wal[d] > 0 THEN [p \in Pages |-> wal[d]] ELSE main[d]

\* The pages in the log go to the file, and the log is empty.
Checkpointed(d) ==
  /\ main' = [main EXCEPT ![d] = Holds(d)]
  /\ wal' = [wal EXCEPT ![d] = 0]

\* The file is one that SQLite opens.
Readable(d) == \A p \in Pages : main[d][p] > 0
Whole(content) == \E c \in 1..MaxCommits : \A p \in Pages : content[p] = c

Working(j, d) == pc[j] \notin {"idle", "list", "prune"} /\ job[j].db = d
Meets(j, cause) == [job[j] EXCEPT !.met = @ \cup {cause}]

\* The jobs on database d that are at one of the steps meet the cause.
JobsMeet(d, steps, cause) ==
  job' = [j \in Jobs |-> IF Working(j, d) /\ pc[j] \in steps THEN Meets(j, cause) ELSE job[j]]

\* A checkpoint that must empty the log, in job j: it gives up when a connection
\* is in use.
TryCheckpoint(j, d) ==
  \/ Checkpointed(d) /\ UNCHANGED job
  \/ job' = [job EXCEPT ![j] = Meets(j, "busy")] /\ UNCHANGED <<main, wal>>

\* A request writes.
Commit(d) ==
  /\ "commit" \in Operations /\ commits[d] < MaxCommits
  /\ Readable(d)
  /\ commits' = [commits EXCEPT ![d] = @ + 1]
  /\ wal' = [wal EXCEPT ![d] = commits[d] + 1]
  /\ Opens(d)
  /\ JobsMeet(d, {"truncate", "restore 1", "restore 2"}, "used")
  /\ KeepFiles /\ KeepWorld /\ UNCHANGED <<main, pc>>

\* SQLite checkpoints when the log is long.
AutoCheckpoint(d) ==
  /\ opened[d] /\ wal[d] > 0 /\ Readable(d)
  /\ Checkpointed(d)
  /\ JobsMeet(d, {"copy 2"}, "written")
  /\ KeepFiles /\ KeepWorld /\ UNCHANGED <<commits, opened, pc>>

-----------------------------------------------------------------------------
(* CreateBackup.                                                           *)

\* Job j starts on database d, with the other jobs on it that are under way.
Start(j, d, new) ==
  LET others == {i \in Jobs \ {j} : Working(i, d)}
  IN  job' = [i \in Jobs |->
                CASE i = j -> [new EXCEPT !.met = @ \cup {c \in {"overlap"} : others # {}}]
                  [] i \in others -> Meets(i, "overlap")
                  [] OTHER -> job[i]]

\* The name carries the database and the second.
CreateBackup(j, d) ==
  /\ pc[j] = "idle"
  /\ Start(j, d, [name |-> [db |-> d, at |-> now], db |-> d, file |-> 0,
                  held |-> Holds(d)[1], since |-> commits[d],
                  met |-> {c \in {"torn"} : ~Whole(main[d])}])
  /\ Goto(j, "checkpoint")
  /\ KeepFiles /\ KeepDatabases /\ KeepLists

\* Mutant: the file is copied as it is.
CheckpointFirst_Skipped(j) ==
  /\ pc[j] = "checkpoint"
  /\ Goto(j, "create")
  /\ KeepFiles /\ KeepDatabases /\ KeepWorld /\ UNCHANGED job

\* dbManager.Open, and PRAGMA wal_checkpoint(TRUNCATE), whose answer nobody reads.
CheckpointFirst(j) ==
  /\ pc[j] = "checkpoint"
  /\ Opens(job[j].db)
  /\ TryCheckpoint(j, job[j].db)
  /\ Goto(j, "create")
  /\ KeepFiles /\ KeepWorld /\ UNCHANGED commits

\* os.Create empties the file that has the name, or makes one.
Create(n, f) == IF tmp[n] > 0 THEN f = tmp[n] /\ UNCHANGED made
                              ELSE f = made + 1 /\ made' = f

\* Mutant: the file is made under its final name.
CreateTmp_Final(j, f) ==
  LET n == job[j].name
  IN  /\ pc[j] = "create"
      /\ Create(n, f)
      /\ tmp' = [tmp EXCEPT ![n] = f] /\ backups' = [backups EXCEPT ![n] = f]
      /\ file' = [file EXCEPT ![f] = Missing]
      /\ job' = [job EXCEPT ![j].file = f]
      /\ Goto(j, "copy 1")
      /\ KeepDatabases /\ KeepWorld /\ UNCHANGED <<modTime, finished>>

CreateTmp(j, f) ==
  LET n == job[j].name
  IN  /\ pc[j] = "create"
      /\ Create(n, f)
      /\ tmp' = [tmp EXCEPT ![n] = f]
      /\ file' = [file EXCEPT ![f] = Missing]
      /\ job' = [job EXCEPT ![j].file = f]
      /\ Goto(j, "copy 1")
      /\ KeepDatabases /\ KeepWorld /\ UNCHANGED <<modTime, backups, finished>>

\* io.Copy reads the database file, not its log.
CopyPage(j, p) ==
  LET f == job[j].file
  IN  /\ pc[j] = IF p = 1 THEN "copy 1" ELSE "copy 2"
      /\ file' = [file EXCEPT ![f][p] = main[job[j].db][p]]
      /\ modTime' = [modTime EXCEPT ![f] = 1 + Max({modTime[g] : g \in FileIds \ {f}} \cup {0})]
      /\ Goto(j, IF p = 1 THEN "copy 2" ELSE "rename")
      /\ KeepDatabases /\ KeepWorld /\ UNCHANGED <<made, tmp, backups, finished, job>>

\* os.Rename replaces a file that has the name, and fails without a tmp file.
\* The scheduler goes on and prunes, whatever came out.
Rename(j) ==
  LET n == job[j].name
      met == job[j].met \cup {c \in {"doomed"} : n \in doomed}
  IN  /\ pc[j] = "rename"
      /\ IF tmp[n] > 0
         THEN /\ backups' = [backups EXCEPT ![n] = tmp[n]]
              /\ tmp' = [tmp EXCEPT ![n] = 0]
              /\ finished' = finished \cup {[name |-> n, file |-> tmp[n], met |-> met]}
         ELSE UNCHANGED <<backups, tmp, finished>>
      /\ Goto(j, IF j = Scheduler THEN "list" ELSE "idle")
      /\ Forget(j)
      /\ KeepDatabases /\ KeepWorld /\ UNCHANGED <<file, made, modTime>>

-----------------------------------------------------------------------------
(* The other handlers and the scheduler.                                   *)

HandleBackup(h, d) == "backup" \in Operations /\ CreateBackup(h, d) /\ Count

HandleDeleteBackup(h, n) ==
  /\ "delete" \in Operations /\ pc[h] = "idle"
  /\ backups[n] > 0
  /\ backups' = [backups EXCEPT ![n] = 0]
  /\ Count
  /\ KeepDatabases /\ KeepLists /\ UNCHANGED <<file, made, modTime, tmp, finished, pc, job>>

ScheduledBackup == CreateBackup(Scheduler, Main) /\ UNCHANGED requests

Listed == {n \in BackupName : backups[n] > 0}
Newer(n) == {m \in Listed : modTime[backups[m]] > modTime[backups[n]]}

\* Mutant: the list is taken for one that is sorted the other way round.
PruneOldBackups_Newest ==
  /\ pc[Scheduler] = "list"
  /\ doomed' = {n \in Listed : Cardinality(Listed) - Cardinality(Newer(n)) > KeepCount}
  /\ Goto(Scheduler, "prune")
  /\ KeepFiles /\ KeepDatabases /\ UNCHANGED <<now, requests, job, pruned>>

\* pruneOldBackups counts the backups of all databases ...
PruneOldBackups ==
  /\ pc[Scheduler] = "list"
  /\ doomed' = {n \in Listed : Cardinality(Newer(n)) >= KeepCount}
  /\ Goto(Scheduler, "prune")
  /\ KeepFiles /\ KeepDatabases /\ UNCHANGED <<now, requests, job, pruned>>

\* ... and removes what has the name by then.
PruneOne(n) ==
  /\ pc[Scheduler] = "prune" /\ n \in doomed
  /\ doomed' = doomed \ {n}
  /\ pruned' = pruned \cup ({backups[n]} \ {0})
  /\ backups' = [backups EXCEPT ![n] = 0]
  /\ KeepDatabases /\ UNCHANGED <<now, requests, file, made, modTime, tmp, finished, pc, job>>

PruneEnds ==
  /\ pc[Scheduler] = "prune" /\ doomed = {}
  /\ Goto(Scheduler, "idle")
  /\ KeepFiles /\ KeepDatabases /\ KeepWorld /\ UNCHANGED job

-----------------------------------------------------------------------------
(* RestoreBackup.                                                          *)

\* os.Stat
HandleRestore(h, n, d) ==
  /\ "restore" \in Operations /\ pc[h] = "idle"
  /\ backups[n] > 0
  /\ Start(h, d, [name |-> n, db |-> d, file |-> 0, held |-> 1, since |-> 1, met |-> {}])
  /\ Goto(h, "close")
  /\ Count
  /\ KeepFiles /\ KeepDatabases /\ KeepLists

\* Mutant: the database stays open.
CloseDatabase_Stays(h) ==
  /\ pc[h] = "close"
  /\ Goto(h, "truncate")
  /\ KeepFiles /\ KeepDatabases /\ KeepWorld /\ UNCHANGED job

\* dbManager.Close: the last connection checkpoints.  A connection that is in use
\* stays open, and the next request opens the database again.  A database that
\* this process has not opened is left as it is.
CloseDatabase(h) ==
  LET d == job[h].db
  IN  /\ pc[h] = "close"
      /\ \/ opened[d] /\ TryCheckpoint(h, d)
         \/ /\ ~opened[d]
            /\ job' = IF wal[d] > 0 THEN [job EXCEPT ![h] = Meets(h, "left")] ELSE job
            /\ UNCHANGED <<main, wal>>
      /\ opened' = [opened EXCEPT ![d] = FALSE]
      /\ Goto(h, "truncate")
      /\ KeepFiles /\ KeepWorld /\ UNCHANGED commits

\* copyFile opens the backup and empties the database file ...
TruncateDatabase(h) ==
  LET n == job[h].name
      d == job[h].db
  IN  /\ pc[h] = "truncate"
      /\ IF backups[n] > 0
         THEN /\ job' = [job EXCEPT ![h].file = backups[n]]
              /\ main' = [main EXCEPT ![d] = Missing]
              /\ Goto(h, "restore 1")
         ELSE /\ Goto(h, "idle")
              /\ Forget(h)
              /\ UNCHANGED main
      /\ KeepFiles /\ KeepWorld /\ UNCHANGED <<commits, wal, opened>>

\* ... and copies it.
RestorePage(h, p) ==
  LET d == job[h].db
  IN  /\ pc[h] = IF p = 1 THEN "restore 1" ELSE "restore 2"
      /\ main' = [main EXCEPT ![d][p] = file[job[h].file][p]]
      /\ job' = [job EXCEPT ![h].since = commits[d]]
      /\ Goto(h, IF p = 1 THEN "restore 2" ELSE "open")
      /\ KeepFiles /\ KeepWorld /\ UNCHANGED <<commits, wal, opened>>

\* dbManager.Open, and the answer.
ReopenDatabase(h) ==
  /\ pc[h] = "open"
  /\ Opens(job[h].db)
  /\ Goto(h, "idle")
  /\ Forget(h)
  /\ KeepFiles /\ KeepWorld /\ UNCHANGED <<commits, main, wal>>

-----------------------------------------------------------------------------
\* The process dies and starts again.  (Connections of a dead process are gone;
\* what is left in the log stays.)
BackupsCrash ==
  /\ "crash" \in Operations /\ Count
  /\ pc' = [j \in Jobs |-> "idle"] /\ job' = [j \in Jobs |-> NoJob] /\ doomed' = {}
  /\ opened' = [d \in Databases |-> FALSE]
  /\ KeepFiles /\ UNCHANGED <<now, commits, main, wal, pruned>>

NextSecond ==
  /\ now < MaxSeconds
  /\ now' = now + 1
  /\ KeepFiles /\ KeepDatabases /\ UNCHANGED <<requests, pc, job, doomed, pruned>>

BackupStep(j) ==
  \/ CheckpointFirst(j)
  \/ \E f \in FileIds : CreateTmp(j, f)
  \/ \E p \in Pages : CopyPage(j, p)
  \/ Rename(j)

HandlerStep(h) ==
  \/ \E d \in Databases : HandleBackup(h, d)
  \/ BackupStep(h)
  \/ \E n \in BackupName : HandleDeleteBackup(h, n)
  \/ \E n \in BackupName, d \in Databases : HandleRestore(h, n, d)
  \/ CloseDatabase(h) \/ TruncateDatabase(h) \/ ReopenDatabase(h)
  \/ \E p \in Pages : RestorePage(h, p)

SchedulerStep ==
  \/ ScheduledBackup
  \/ BackupStep(Scheduler)
  \/ PruneOldBackups
  \/ \E n \in BackupName : PruneOne(n)
  \/ PruneEnds

BackupsNext ==
  \/ \E h \in Handlers : HandlerStep(h)
  \/ SchedulerStep
  \/ \E d \in Databases : Commit(d) \/ AutoCheckpoint(d)
  \/ BackupsCrash
  \/ NextSecond

BackupsSpec == BackupsInit /\ [][BackupsNext]_backupsVars

-----------------------------------------------------------------------------
(* Properties.                                                             *)

\* A file that GET /backups lists is a whole copy of one state of the database,
\* unless its job met a torn or a written file or another job: neither
\* transactions that commit meanwhile nor a crash halfway show.
BackupIsWhole ==
  \A n \in Listed :
    \/ Whole(file[backups[n]])
    \/ \E done \in finished : /\ done.file = backups[n]
                             /\ done.met \cap {"torn", "written", "overlap"} # {}

\* A backup holds what the database showed when it was asked for, or later
\* transactions, unless a connection in use kept the log from being emptied, the
\* database's file was torn, or another job wrote to the backup: nothing else leaves
\* out a transaction that was acknowledged before.
BackupIsCurrent ==
  \A j \in Jobs : pc[j] = "rename" /\ job[j].met \cap {"torn", "busy", "overlap"} = {} =>
    \A p \in Pages : file[job[j].file][p] = job[j].held \/ file[job[j].file][p] > job[j].since

\* Two jobs wrote the file: one may still be at it when it has its name.
Shared(f) == \E done \in finished : done.file = f /\ "overlap" \in done.met

\* When a restore is through, the database shows the backup, or what was written
\* since, unless the database was in use or had a log that nobody had opened, or
\* two jobs wrote the backup: nothing else brings back what was there before.
RestoredIsBackup ==
  \A h \in Handlers :
    /\ pc[h] = "open" /\ job[h].met \cap {"busy", "used", "left", "overlap"} = {}
    /\ ~Shared(job[h].file)
    => \A p \in Pages : \/ Holds(job[h].db)[p] = file[job[h].file][p]
                        \/ Holds(job[h].db)[p] > job[h].since

\* The scheduler removes a backup only if KeepCount newer ones were finished, also
\* when backups are made and deleted between its listing and its removals, unless
\* two jobs wrote the file or it got the name of one that was listed before: names
\* carry the second, and the removals go by name.
NewestAreKept ==
  \A old \in finished : old.file \in pruned /\ old.met \cap {"overlap", "doomed"} = {} =>
    Cardinality({done \in finished : modTime[done.file] > modTime[old.file]}) >= KeepCount
=============================================================================
