---------------------------- MODULE DatabaseFiles ----------------------------
(***************************************************************************)
(* The file of one database: Manager of internal/database/sqlite.go, with  *)
(* and without the cipher of internal/encryption/cipher.go, beside the     *)
(* backups and restores of internal/backup/backup.go, which go by the      *)
(* file's name.                                                            *)
(*                                                                         *)
(* An encrypted database is decrypted to a file of its own when it is      *)
(* opened, and that file loses its name before Open returns, so a file is  *)
(* not the same as its name here: connections hold files, and new ones are *)
(* opened by name.  Closing a database seals it: the bytes are read, the   *)
(* file is emptied, and the sealed bytes are written.                      *)
(*                                                                         *)
(* Backups has the pages, the write-ahead log and the names of backups;    *)
(* here one backup is kept and a file is copied in one step.               *)
(***************************************************************************)
EXTENDS Integers

CONSTANTS
  Conns,        \* connections of a pool (MaxConns)
  MayFail,      \* the process may die without CloseAll, and a disk may be full
  MaxCommits,   \* bound: transactions
  MaxFiles,     \* bound: files, the one in the data directory included
  MaxStarts,    \* bound: starts of the process
  Nothing       \* no content

ASSUME FilesAssumption ==
  /\ MayFail \in BOOLEAN
  /\ MaxCommits \in Nat /\ MaxFiles \in Nat \ {0} /\ MaxStarts \in Nat \ {0}

VARIABLES
  encrypted,  \* encryption.enabled: part of the configuration, which stays
  files,      \* what is in every file ever made; file 1 is in the data directory
  made,       \* how many there are
  decrypted,  \* the file with the name in decDir; 0 if there is none
  opened,     \* the database in dbs, by the path it was opened with
  conns,      \* the file that a connection holds; 0 if it is not open
  sealing,    \* what Close is about to write to file 1, or Nothing
  starts,     \* how often the process was started
  process,    \* "runs", "ends" in CloseAll, or is "down"
  backup,     \* the backup that is kept, or Nothing
  copying,    \* CreateBackup has opened the database
  restoring,  \* where RestoreBackup is
  count,      \* how many transactions there were
  committed,  \* history: those the database should have
  refused,    \* history: the last attempt to open the database failed
  causes      \* history: what happened that does harm

managerVars == <<files, made, decrypted, opened, conns, sealing>>
backupVars == <<backup, copying, restoring>>
processVars == <<starts, process>>
filesVars == <<encrypted, managerVars, backupVars, processVars, count, committed, refused, causes>>

Path == {"data", "decrypted"}
FileIds == 1..MaxFiles

\* seals is how often the bytes were encrypted, commits what is underneath.
Content == [seals : Nat, commits : SUBSET (1..MaxCommits)]
ASSUME NothingAssumption == Nothing \notin Content
Empty == [seals |-> 0, commits |-> {}]
\* Bytes of which one decryption makes no database, whatever they are.
Broken == [seals |-> 2, commits |-> {}]

Causes ==
  { "dropped",   \* a database was given up while its pool had two copies of it
    "crashed",   \* a process died without CloseAll
    "cut",       \* a file was emptied and not written again
    "resealed",  \* sealed bytes were sealed
    "early",     \* a backup was made of an encrypted database before its first Close
    "laid",      \* a backup that is not sealed just once was laid over the database
    "used" }     \* the database was open, or being closed, when a restore copied its file

FilesTypeOK ==
  /\ encrypted \in BOOLEAN
  /\ files \in [FileIds -> Content]
  /\ made \in FileIds
  /\ decrypted \in 0..MaxFiles
  /\ opened \in Path \cup {"no"}
  /\ conns \in [Conns -> 0..MaxFiles]
  /\ sealing \in Content \cup {Nothing}
  /\ starts \in 1..MaxStarts
  /\ process \in {"runs", "ends", "down"}
  /\ backup \in Content \cup {Nothing}
  /\ copying \in BOOLEAN
  /\ restoring \in {"no", "closed", "copied"}
  /\ count \in 0..MaxCommits /\ committed \in SUBSET (1..MaxCommits)
  /\ refused \in BOOLEAN
  /\ causes \in SUBSET Causes

FilesInit ==
  /\ encrypted \in BOOLEAN
  /\ files = [f \in FileIds |-> Empty]
  /\ made = 1 /\ decrypted = 0 /\ opened = "no"
  /\ conns = [c \in Conns |-> 0]
  /\ sealing = Nothing
  /\ starts = 1 /\ process = "runs"
  /\ backup = Nothing /\ copying = FALSE /\ restoring = "no"
  /\ count = 0 /\ committed = {}
  /\ refused = FALSE /\ causes = {}

Harm(kinds) == causes' = causes \cup kinds
Harmed(kinds) == causes \cap kinds # {}
KeepCommits == UNCHANGED <<encrypted, count, committed>>

\* Mutant: every file that is there counts.
Filled_Exists(content) == TRUE

\* Size() > 0: isEncrypted takes that for encrypted.
Filled(content) == content # Empty

\* The bytes are a database.
IsDatabase(content) == content.seals = 0
Sealed(content) == [content EXCEPT !.seals = @ + 1]
Unsealed(content) == [content EXCEPT !.seals = @ - 1]

-----------------------------------------------------------------------------
(* Open.                                                                   *)

\* The manager's lock is free and the database is not in dbs.
MayOpen == process = "runs" /\ opened = "no" /\ sealing = Nothing

Opens(path, c, f) ==
  /\ opened' = path
  /\ conns' = [conns EXCEPT ![c] = f]
  /\ refused' = FALSE
  /\ Harm({h \in {"used"} : restoring = "closed"})
  /\ KeepCommits /\ UNCHANGED <<sealing, backupVars, processVars>>

OpenPlain(c) ==
  /\ MayOpen /\ ~(encrypted /\ Filled(files[1])) /\ IsDatabase(files[1])
  /\ Opens("data", c, 1)
  /\ UNCHANGED <<files, made, decrypted>>

\* Open would return no error.
Openable == IF encrypted /\ Filled(files[1]) THEN files[1].seals = 1 ELSE IsDatabase(files[1])

\* DecryptCopy fails on bytes that are not sealed.  Those that are sealed twice
\* are no database then, which the PRAGMA that reads the file finds out.
OpenRefused ==
  /\ MayOpen /\ ~Openable
  /\ refused' = TRUE
  /\ KeepCommits /\ UNCHANGED <<managerVars, backupVars, processVars, causes>>

\* Mutant: os.Remove is left to Close.
OpenEncrypted_KeepsName(c) ==
  /\ MayOpen /\ encrypted /\ files[1].seals = 1
  /\ made < MaxFiles /\ made' = made + 1
  /\ files' = [files EXCEPT ![made + 1] = Unsealed(files[1])]
  /\ decrypted' = made + 1
  /\ Opens("decrypted", c, made + 1)

\* Mutant: os.Remove is not deferred, and sql.Open opens nothing yet.
OpenEncrypted_RemovesFirst(c) ==
  /\ MayOpen /\ encrypted /\ files[1].seals = 1
  /\ made < MaxFiles /\ made' = made + 1
  /\ decrypted' = made + 1
  /\ Opens("decrypted", c, made + 1)
  /\ UNCHANGED files

\* The first connection holds the decrypted file; its name is removed.
OpenEncrypted(c) ==
  /\ MayOpen /\ encrypted /\ files[1].seals = 1
  /\ made < MaxFiles /\ made' = made + 1
  /\ files' = [files EXCEPT ![made + 1] = Unsealed(files[1])]
  /\ Opens("decrypted", c, made + 1)
  /\ UNCHANGED decrypted

-----------------------------------------------------------------------------
(* database/sql and SQLite.                                                *)

\* The pool opens one more connection, by name: SQLite makes a file that is not
\* there.
Connect(c) ==
  /\ opened # "no" /\ conns[c] = 0
  /\ IF opened = "data" \/ decrypted > 0
     THEN /\ conns' = [conns EXCEPT ![c] = IF opened = "data" THEN 1 ELSE decrypted]
          /\ UNCHANGED <<made, decrypted>>
     ELSE /\ made < MaxFiles /\ made' = made + 1
          /\ decrypted' = made + 1
          /\ conns' = [conns EXCEPT ![c] = made + 1]
  /\ KeepCommits /\ UNCHANGED <<files, opened, sealing, backupVars, processVars, refused, causes>>

\* SQLite refuses to write to a file that has lost its name (READONLY_DBMOVED).
Writable(f) == f = (IF opened = "data" THEN 1 ELSE decrypted)

Commit(c) ==
  /\ conns[c] > 0 /\ Writable(conns[c])
  /\ count < MaxCommits /\ count' = count + 1
  /\ files' = [files EXCEPT ![conns[c]].commits = @ \cup {count + 1}]
  /\ committed' = committed \cup {count + 1}
  /\ UNCHANGED <<encrypted, made, decrypted, opened, conns, sealing, backupVars, processVars,
                 refused, causes>>

-----------------------------------------------------------------------------
(* Close and CloseAll.                                                     *)

\* Mutant: a file that was not decrypted stays as it is.
Reencrypted_CopyOnly ==
  IF encrypted /\ opened # "no" /\ decrypted > 0 THEN Sealed(files[decrypted]) ELSE Nothing

\* What reencrypt writes to the data directory: the decrypted file, sealed, if it
\* has its name still, and what is there, sealed, if not.
Reencrypted ==
  IF ~encrypted \/ opened = "no" THEN Nothing
  ELSE IF decrypted > 0 THEN Sealed(files[decrypted])
  ELSE IF Filled(files[1]) THEN Sealed(files[1]) ELSE Nothing

\* A connection holds a file beside the decrypted one that has the name, and goes.
Dropped == {h \in {"dropped"} : decrypted > 0 /\ \E c \in Conns : conns[c] \notin {0, decrypted}}

\* Up to os.WriteFile's first step.
CloseDatabase ==
  /\ sealing' = Reencrypted
  /\ files' = [files EXCEPT ![1] = IF Reencrypted = Nothing THEN @ ELSE Empty]
  /\ decrypted' = 0 /\ opened' = "no" /\ conns' = [c \in Conns |-> 0]
  /\ Harm({h \in {"resealed"} : Reencrypted # Nothing /\ Reencrypted.seals > 1} \cup Dropped)
  /\ KeepCommits /\ UNCHANGED <<made, starts, refused>>

CloseAll ==
  /\ process = "runs" /\ sealing = Nothing /\ restoring = "no"
  /\ process' = IF Reencrypted = Nothing THEN "down" ELSE "ends"
  /\ CloseDatabase
  /\ copying' = FALSE /\ UNCHANGED <<backup, restoring>>

\* The sealed bytes are written, or the disk is full: what went in is no database,
\* which the server prints and leaves at that.
SealEnds ==
  /\ sealing # Nothing
  /\ sealing' = Nothing
  /\ process' = IF process = "ends" THEN "down" ELSE process
  /\ \/ files' = [files EXCEPT ![1] = sealing] /\ UNCHANGED causes
     \/ /\ MayFail
        /\ \E torn \in {Empty, Broken} : files' = [files EXCEPT ![1] = torn]
        /\ Harm({"cut"})
  /\ KeepCommits /\ UNCHANGED <<made, decrypted, opened, conns, backupVars, starts, refused>>

-----------------------------------------------------------------------------
(* Backup and restore.                                                     *)

\* CreateBackup, through Open.
BackupOpens ==
  /\ opened # "no" /\ ~copying
  /\ copying' = TRUE
  /\ KeepCommits /\ UNCHANGED <<managerVars, processVars, backup, restoring, refused, causes>>

\* ActivePath: the decrypted file if it has a name.
ActiveContent == IF encrypted /\ decrypted > 0 THEN files[decrypted] ELSE files[1]

\* Nobody holds off a Close that empties and fills the file meanwhile.
BackupCopies ==
  /\ copying /\ copying' = FALSE
  /\ backup' = ActiveContent
  /\ Harm({h \in {"early"} : encrypted /\ opened = "data"})
  /\ KeepCommits /\ UNCHANGED <<managerVars, processVars, restoring, refused>>

RestoreCloses ==
  /\ process = "runs" /\ sealing = Nothing /\ backup # Nothing /\ restoring = "no"
  /\ restoring' = "closed"
  /\ CloseDatabase
  /\ UNCHANGED <<process, backup, copying>>

\* The backup is laid over the file: the database has what the backup has.
RestoreCopies ==
  /\ restoring = "closed" /\ sealing = Nothing
  /\ restoring' = "copied"
  /\ files' = [files EXCEPT ![1] = backup]
  /\ committed' = backup.commits
  /\ refused' = FALSE
  /\ Harm({h \in {"laid"} : encrypted /\ Filled(backup) /\ backup.seals # 1})
  /\ UNCHANGED <<encrypted, made, decrypted, opened, conns, sealing, processVars, backup, copying, count>>

\* Open has returned the database (its own or a request's) or an error.
RestoreEnds ==
  /\ restoring = "copied"
  /\ opened # "no" \/ refused
  /\ restoring' = "no"
  /\ KeepCommits /\ UNCHANGED <<managerVars, processVars, backup, copying, refused, causes>>

-----------------------------------------------------------------------------
(* Commands with a manager of their own, which asks nobody for a lock: they *)
(* have ended before the server does its next step, and have no CloseAll.  *)

\* create-db, for a name that is there: Close seals the file once more.
CreateDb ==
  /\ encrypted /\ files[1].seals = 1
  /\ files' = [files EXCEPT ![1] = Sealed(@)]
  /\ Harm({"resealed"})
  /\ KeepCommits
  /\ UNCHANGED <<made, decrypted, opened, conns, sealing, backupVars, processVars, refused>>

BackupCommand ==
  /\ Openable
  /\ backup' = files[1]
  /\ KeepCommits /\ UNCHANGED <<managerVars, processVars, copying, restoring, refused, causes>>

RestoreCommand ==
  /\ backup # Nothing
  /\ files' = [files EXCEPT ![1] = backup]
  /\ committed' = backup.commits
  /\ refused' = FALSE
  /\ Harm({h \in {"laid", "used"} :
             \/ h = "laid" /\ encrypted /\ Filled(backup) /\ backup.seals # 1
             \/ h = "used" /\ (opened # "no" \/ sealing # Nothing)})
  /\ UNCHANGED <<encrypted, made, decrypted, opened, conns, sealing, processVars, backupVars, count>>

-----------------------------------------------------------------------------
(* The process.                                                            *)

\* Also in the middle of a seal, or of the copy of a restore.
FilesCrash ==
  /\ MayFail /\ process # "down" /\ process' = "down"
  /\ \/ /\ files' = files
        /\ Harm({"crashed"} \cup {h \in {"cut"} : sealing # Nothing} \cup Dropped)
     \/ /\ sealing # Nothing \/ restoring = "closed"
        /\ \E torn \in {Empty, Broken} : files' = [files EXCEPT ![1] = torn]
        /\ Harm({"crashed", "cut"} \cup Dropped)
  /\ decrypted' = 0 /\ opened' = "no" /\ sealing' = Nothing
  /\ conns' = [c \in Conns |-> 0]
  /\ copying' = FALSE /\ restoring' = "no"
  /\ KeepCommits /\ UNCHANGED <<made, starts, backup, refused>>

\* NewEncryptedManager makes a decDir of its own.
StartManager ==
  /\ process = "down" /\ process' = "runs"
  /\ starts < MaxStarts /\ starts' = starts + 1
  /\ KeepCommits /\ UNCHANGED <<managerVars, backupVars, refused, causes>>

FilesNext ==
  \/ \E c \in Conns : OpenPlain(c) \/ OpenEncrypted(c) \/ Connect(c) \/ Commit(c)
  \/ OpenRefused
  \/ CloseAll \/ SealEnds
  \/ BackupOpens \/ BackupCopies
  \/ RestoreCloses \/ RestoreCopies \/ RestoreEnds
  \/ CreateDb \/ BackupCommand \/ RestoreCommand
  \/ FilesCrash
  \/ StartManager

FilesSpec == FilesInit /\ [][FilesNext]_filesVars

-----------------------------------------------------------------------------
(* Properties.                                                             *)

\* A database that is closed has every transaction that was acknowledged (or that
\* the restored backup has), under however many layers of encryption, unless it was
\* given up while its pool had two copies of it, a process ended while it wrote the
\* file, or a restore wrote under an open database (Backups has what SQLite makes of
\* that): no other order of closes, backups, restores, crashes and starts loses one.
NothingDestroyed ==
  opened = "no" /\ sealing = Nothing /\ ~Harmed({"dropped", "cut", "used"})
    => files[1].commits = committed

\* While a database is open every transaction is in the file of one of its
\* connections, whatever files the pool made for the others; and as long as it made
\* none, every connection sees them all.  Not so after a database was given up with
\* two copies, or a write of its file was cut short, which lose transactions, or
\* when it was opened before a restore had copied its backup.
ConnectionsAgree ==
  opened # "no" /\ ~Harmed({"dropped", "cut", "used"}) =>
    /\ \A t \in committed : \E c \in Conns : conns[c] > 0 /\ t \in files[conns[c]].commits
    /\ decrypted = 0 => \A c \in Conns : conns[c] > 0 => files[conns[c]].commits = committed

\* When the server is down the database cannot be read without the key, unless a
\* process died without CloseAll or a backup that is not sealed once was laid over
\* it.  A backup cannot either, unless it is of a database of these, or was made
\* before the first Close, or while the pool had made a decrypted file with a name
\* (which the end of that pool counts as "dropped").
SealedAtRest ==
  encrypted /\ process = "down" /\ ~Harmed({"crashed", "laid"}) =>
    /\ Filled(files[1]) => files[1].seals > 0
    /\ backup # Nothing /\ Filled(backup) /\ ~Harmed({"early", "dropped"}) => backup.seals > 0

\* A database opens again, after whatever it went through, unless sealed bytes were
\* sealed, a process ended before the database was sealed or while it wrote the file,
\* a restore wrote under an open database, or a backup came back that was not sealed
\* once.
OpensAgain ==
  refused => Harmed({"cut", "used"}) \/ (encrypted /\ Harmed({"resealed", "crashed", "laid"}))
=============================================================================
