# SparkDB in TLA+

Specifications, model-checking runs and machine-checked proofs for SparkDB, the
SQLite server of this repository.  The specifications are translated from the
Go sources; documentation enters only where a run compares it with them.

## 1. The system

One process (`cmd/sparkdb`, `internal/server/server.go`) serves HTTP.  Its parts:

| part | state it keeps | operations | who calls it |
|---|---|---|---|
| **Statement gate** (`rbac/rbac.go`, `query/validator.go`, `replication.IsWriteQuery`) | none (tables) | classify a statement, ask for a permission, refuse dangerous phrases | the handlers of `/query` and `/transaction` |
| **Write path** (`server/routes.go` 41-166, `database/executor.go`) | one goroutine per request; SQLite's transactions and write locks | gate, log every write, run the statements | HTTP clients |
| **Replication** (`replication/replication.go`; `replication_log`, `replication_state` in `database/system.go`) | the primary's log; the replica's cursor `lastID`, its row `last_applied_id` | poll, apply, save progress | a ticker; `GET /replication/log` on the primary |
| **Server life cycle** (`server/server.go`) | listener, `stopCh`, `stopSched`, the quit channel | start, stop by a signal, stop by `POST /shutdown` | operating system, an admin |
| **Audit log** (`database/system.go` 434-477) | channel of 1024 entries, one worker, table `audit_logs` | `LogAudit` (drops when full), `FlushAuditLog`, `Close` | every handler |
| **System database** (`database/system.go`) | users, API keys, sessions, migrations; one connection | CRUD, `migrate` at start | authenticator, handlers, replication |
| **Authentication** (`auth/*.go`) | per-name login failures; tokens | `Login`, `AuthenticateRequest`, password and key management | middleware, handlers |
| **Request limiter** (`query/validator.go` 118-169, `server/middleware.go`) | sliding window of times per key | `Allow` | middleware |
| **Database manager** (`database/sqlite.go`, `encryption/cipher.go`) | open handles; decrypted copies | `Open`, `Close`, `CloseAll`, `ActivePath`, `reencrypt` | executor, backups, shutdown |
| **First start** (`migrate` in `database/system.go`, `EnsureDefaultAdmin`, `encryption/tls.go`) | schema, `schema_migrations`, the first admin, certificate and key | migrate, create, write the pair | `server.New`; the commands `create-user` and `gen-cert` |
| **Backups** (`backup/backup.go`, `server/server.go` 241-297) | the backup directory | create, list, delete, restore, prune | handlers, the scheduler |
| **Monitor** (`monitor/monitor.go`) | counters | `RecordQuery`, `Stats` | executor, `/stats`, `/metrics` |
| **Import and shell** (`commands/import.go`, `shell.go`, `client/client.go`) | the place in a file | one statement after the other over `POST /query` | users |
| **Other commands, console** (`cmd/`, `web/`, `format/`, `config/`) | none of the server's; `create-db`, `backup` and `restore` open the server's files | HTTP calls, files, configuration | users |

Components meet in four ways: direct calls inside a request's goroutine, two
tables of the system database (`replication_log` is written by handlers and
read by other servers' loops), Go channels (audit entries, stop signals), and
files (databases, decrypted copies, backups) that several goroutines touch
under different locks or under none.

What is hard about it:

* **Two writes that belong together and are not atomic.**  A write goes to
  `replication_log` in one database and then runs in another; the replica runs
  an entry in one database and notes it in another; a password reset is two
  updates; a migration is a script and then a row.
* **Concurrency of the handlers**: log order against execution order, SQLite's
  one write lock per database, check-then-act around the login limiter.
* **Restarts**: of the primary between log and execution, of the replica
  between execution and `last_applied_id`, and a shutdown that waits for some
  of the goroutines only.
* **Unreliable delivery**: polls that get no answer, a short one, or answers
  whose entries cannot be applied.
* **Steps half done that a later start or call builds on**: a script of which one
  column exists, a certificate without its key, a file that is being sealed over
  itself, an import that stopped in the middle.
* **Several processes on the same files**, without a lock: commands beside the
  server.
* **Limits**: 500 entries a poll, 1024 audit entries, sliding windows,
  `keep_count`.

## 2. Modules and how they correspond to the code

| module | models | state | actions |
|---|---|---|---|
| `AccessControl` | `rbac.go`, `validator.go`, `IsWriteQuery` | none: tables and predicates over a statement's first word and the dangerous phrases in it | `StatementAllowed` is what a handler asks before it does anything |
| `WriteLog` | the table `replication_log`; the faults the environment may still cause | `log`, `faults` | `LogReplication` and `GetReplicationLog` as operators the two sides use |
| `Primary` | `HandleQuery`, `HandleTransaction`, `ExecuteContext`, `ExecuteTransactionContext`; SQLite's write lock | per handler: where it is, its request, the statement it is at, the ids it logged; per database: committed and uncommitted contents, lock | `Refuse`, `Accept` (`Take`), `LogStatement`, `OpenDatabase`, `RunQuery`, `TxStatement`, `TxCommit`, `TxRollback`, `PrimaryCrash` |
| `Replica` | `replicaLoop`, `pollOnce`, `applyEntry`, `replication_state`, the replica's stop | `loop`, `lastID`, the answer it works on, `appliedID`, the replica's databases; `attempts`, `failed` (history) | `StartReplica`, `Tick`, `Poll`, `PollFails`, `Apply`, `ApplyFails`, `BatchEnded`, `SaveProgress`, `StopReplica`, `CloseDatabases`, `CloseSystemDB`, `Exit`, `ReplicaCrash` |
| `LogShipping` | abstract: what replication promises | `log`, `delivered`, `cursor`, `checkpoint` | append, deliver in turn, save, fall back to what was saved |
| `Replication` | `Primary` and `Replica` over one `WriteLog` | theirs | interleaves them; implements `LogShipping` with `delivered <- attempts, cursor <- lastID, checkpoint <- appliedID` |
| `Login` | `Authenticator.Login`, `LoginRateLimiter` | the limiter's map, a clock, what each goroutine is verifying; `fails` (history) | `Refused`, `Attempt`, `Fails`, `Succeeds`, `Tick`: lookup, Argon2 and `RecordFail` are separate steps |
| `RequestLimiter` | `RateLimiter`, `rateLimitMiddleware` | the two lists of times per key, as sets of numbered attempts (`Allow` never looks at the order); `served`, `last` (history) | `AskIP`, `AskUser`, `LimiterTick` |
| `AuditLog` | `LogAudit`, `auditWorker`, `FlushAuditLog`, the closing of the channel | channel, worker, table; `accepted`, `refused` (history) | one action per channel operation |
| `Lifecycle` | `Start`, `Shutdown`, `POST /shutdown`, handlers that log | process, listener, quit, handlers, every goroutine that closes the server down; extends `AuditLog` | `Receive`, `Audit`, `HandleShutdown`, `Signal`, `StopListening`, `Drain`, `CloseAudit`, `AwaitAudit`, `TakeSignal`, `ServerClosed`, `FlusherPanics` |
| `Accounts` | handlers under `/auth` and `/admin/users`, `users`, `api_keys`, JWTs, `EnsureDefaultAdmin` | rows, tokens that clients hold, requests under way; `cut` (history) | one action per SQL statement of a handler |
| `Backups` | `backup.Manager`, the scheduler, `/backup`, `/restore`, pruning | database file and write-ahead log by page, backup files and their names, jobs | one action per system call: checkpoint, create, copy of a page, rename, remove, close, truncate, reopen |
| `DatabaseFiles` | `database.Manager`'s files, plain and encrypted; backups, restores and commands that go by their names | files apart from their names, connections, seals, what `Close` is about to write, one backup; `causes` (history) | `OpenPlain`, `OpenEncrypted`, `OpenRefused`, `Connect`, `Commit`, `CloseAll`, `SealEnds`, `BackupOpens`, `BackupCopies`, `RestoreCloses`, `RestoreCopies`, `RestoreEnds`, `CreateDb`, `BackupCommand`, `RestoreCommand`, `StartManager`, `FilesCrash` |
| `ImportJob` | the commands `import` and `shell` and `client.Query`, over `Primary` | the file, the statement the command is at, the handler that has its request; `missed` (history) | `Send`, `SendRefused`, `SendFails`, `Answered`, `LostAnswer`, `Rerun`; the handlers' steps are `Primary`'s |
| `Startup` | what `server.New` writes before it listens: `migrate`, `EnsureDefaultAdmin`, `EnsureCertFiles`; `create-user` and `gen-cert` beside it | schema, recorded versions, the admin, the two files, where every process is; `cut` (history) | one action per SQL statement or file operation, `ProcessFails` at each |
| `*_proofs` | theorems about the module they name; `Server_proofs` about `Lifecycle` (with `AuditLog`), `Startup` and `RequestLimiter`, `ImportJob_proofs` about `Primary` as well | | |
| `MC*` | instances for TLC; `MCStatements` is a small SQL whose databases are the sequences of writes that had an effect | | |

Conventions.  A definition has the name of the function it translates where
there is one.  A definition named `X_Something` is a *mutant* of `X`: a
plausible mistake in that code, used to see that a property notices it.
Variables marked *history* are read by properties only; no guard depends on
them.  Constants marked *bound* stop counters, and a guard names each of them.

## 3. Runs

Every run ends with a complete search.  "Violation" runs refute one sentence of the
documentation; the counterexample is the reading of the code.  The type invariants
of the modules are proved (section 4).  Every invariant that a run checks is proved as
well, for every value of the constants; the run shows that the case happens, and the
mutants that the property notices when it goes wrong.

| configuration | states | shows |
|---|---|---|
| `MCImport` | 266 239 | a CSV file of three rows, a script or what is typed into the shell, beside another client's transactions, every fault but a failed insert into `replication_log`, two runs: `EveryWriteLogged`, `LockHasTransaction`, `FileIsIn`, `InAsOftenAsSent`, and `EveryRequestEnds` and `CommandEnds` under fairness |
| `MCPrimary_atomic` | violation | `TransactionAtomic`: a transaction with a refused statement commits the others |
| `MCReplication` | 1 427 112 | two databases, blank statements, batches of 2, three faults of network or replica, statements that fail there included: the refinement `ShipsTheLog`, `EveryEntryInTurn`, `ProgressIsDone`, `ProgressNeverBack`, `ConvergesIfOnce` |
| `MCReplication_arrival` | 177 207 | every entry arrives and is noted once faults have ended, under fairness |
| `MCReplication_order` | violation | `Convergence` with two handlers and no fault |
| `MCLogin` | 42 468 | three attempts side by side against limit 2, six lockouts' worth of time: `GuessBound`, `GuessesPerLockout`, `LockIsEarned`, `LockNeverExtended` |
| `MCRequestLimiter` | 1 970 080 | two requests through both limiters: `WindowBound`, `UserRefusalEarned` |
| `MCLifecycle` | 48 035 | signal, `POST /shutdown` or both, slow handlers, flushes, a channel of 2, a failing worker: `NothingLost`, `FlushIsDone`, `ExitWritesAudit`, `ClosedWhenDrained`, `CrashNeedsTwo`, `SignalEnds` |
| `MCAccounts` | 2 894 414 | all operations, two requests side by side, a restart: `CredentialsKeepTheirAccount`, `RequestsKeepTheirAccount`, `AdminPasswordIsFlagged` |
| `MCBackups` | 3 000 958 | handler and scheduler, transactions, checkpoints, crashes: `BackupIsWhole`, `BackupIsCurrent`, `RestoredIsBackup`, `NewestAreKept` |
| `MCDatabaseFiles` | 1 399 124 | plain and encrypted, two connections, closes in two steps, backups, restores, commands beside the server, a full disk, crashes, starts: `OpensAgain`, `NothingDestroyed`, `ConnectionsAgree`, `SealedAtRest` |
| `MCStartup` | 318 079 | a server, `create-user` and `gen-cert` on a database of any version, two faults at any step: `RecordedIsThere`, and `ServerComesUp` under fairness |

Several properties are *conditional on a cause*: the code has a known weak spot
(section 6), and the property says that nothing but this cause leads to the bad
state.  The condition is a history variable set by exactly the step that is the
cause, so dropping it from the property gives the counterexample.

**Why the bounds are enough.**
* `MCImport`: two handlers contend for one lock: the command's and another client's
  (a handler whose client has gone counts as the other one).  Four rows of the log
  and two requests of others; batches of 2 make a full and a short batch, the scripts
  have a comment, a statement of two lines and one without a semicolon.  One fault:
  two pass as well (1.34 million states, five minutes).
* `MCReplication`: two requests of up to two statements over batches of 2 give
  logs of up to four rows, hence full, short and empty answers and a batch that
  ends inside a transaction; three faults suffice for a stop or a crash, one before
  it that leaves the row behind, and one after it.
* `MCLogin`: `MaxTime` 6 with `Lockout` 1 lets an entry of the limiter be made,
  run out and be made again three times; `Limit` 2 separates the first failure
  from the one that locks; three goroutines can all be past the check.
* `MCRequestLimiter`: `MaxTime` 3 > `Window` 2, so that requests fall out of
  the window; limits 2 and 3 differ, so that each limiter refuses on its own.
* `MCLifecycle`: a channel of 2 with four requests is full and has entries
  dropped; two handlers suffice for one to be inside `LogAudit` while another
  is drained.
* `MCAccounts`: two rows suffice to confuse two accounts, and an id is reused by
  the mutant `FreshId_Largest` within them; one restart renews the secret.
* `MCBackups`: two pages are the least that can disagree, `KeepCount` 1 and two
  files make pruning act.  (`MaxRequests` 3 passes as well: 12.4 million states.)
  Two causes lie outside these bounds and are covered by the proofs: `"doomed"` of
  `NewestAreKept` needs three files, and `Shared` of `RestoredIsBackup` a second
  database.  Smaller instances reach both (section 6).
* `MCDatabaseFiles`: two connections, three starts and four files allow a seal on
  top of a seal and a file for each connection; two transactions separate a backup
  from what it is laid over (three pass as well: 7.4 million states).
* `MCStartup`: a process of each kind, so that at most two migrate the database or
  write the pair of files at once; a third can only do again what the second does.
  Two faults allow a start to fail on what an earlier one left.

**Fairness.**  `ImportLive`: weak fairness of each handler's steps and of the
command's, as the Go scheduler runs every goroutine and SQLite's `busy_timeout` ends every wait with
an error (fault `"sql"` or `"cancel"`, not assumed).  `LiveSpec`: the same
for the handlers of the primary, for the replica's goroutine and its ticker, and
for a process that is stopping or down (its service manager starts it again);
the environment's faults are bounded, and nothing is fair about them.  The faults
`"load"` and `"checkpoint"` are not in that run: after the first the loop ends for
good, by design of the code; the second is in the safety run.
`StartupLive`: a process that runs goes on, and a server that ended is started
again (`docs/deployment.md` recommends `Restart=always`); nobody has to run a
command, and failures are bounded.
`FairServer`: the worker, the main goroutine and the goroutines that close the
server; *nothing* makes a handler end, which is why `SignalEnds` says something
about the ten seconds of `Shutdown`.

`CHECK_DEADLOCK FALSE` stands where the system may stop: a process that exited
(`Lifecycle`), or a model whose bounds are used up while nothing is under way.

## 4. Proofs

Checked by TLAPS, for every value of the constants that the named assumptions allow:
any number of handlers, databases, files, commands, and no bound of a run.  Each
invariant below is one that a run checks, followed by the inductive invariant it
needs and the reason why it is not inductive by itself.

* `LogShipping_proofs`.  `LSCorrect`: the abstract specification's own invariant.
* `Replication_proofs`.
  * `TypeCorrect`; then `InTurn` (with `TypeOK`): the entries of the answer at hand
    are those that follow `lastID` in the log, the next to be applied is the one after
    the last attempt, and `appliedID <= lastID <= Len(log)`.  `EveryEntryInTurn` alone
    says nothing of an answer that is half applied.  With it each step of
    `Replication` maps to a step of `LogShipping` or to a stutter, which gives
    `ShippingCorrect` (the refinement), `EveryEntryInTurnCorrect`,
    `ProgressIsDoneCorrect` and `ProgressNeverBackCorrect`.
  * `ConvergesIfOnceCorrect`, under `OneByOne`: one handler, no fault among those that
    make the primary's log and its databases disagree (`"log"`, `"open"`, `"sql"`,
    `"cancel"`, `"primaryCrash"`), and requests without arguments.  Every fault of
    network and replica is allowed.  An entry whose statement fails at the replica for
    a reason of its own is passed over by the code; that is what `failed` in the
    property stands for, and a stop can do it, too (section 6).  The
    invariant is `Mirror`: there is a function `f` from numbers to databases with
    `f[0]` empty and `f[n]` what entry `n` makes of `f[n-1]`; the replica's databases
    are `f` of the entries it was handed, as long as none was handed to it twice and
    none failed; and
    the primary's are `f` of the log at the place `g` that the handler's statement has
    in it.  `f` replaces induction over the log: it is a witness that grows with it.
    `MCReplication` has constants of this kind, and `MCReplication_order` shows
    what a second handler does.
* `ImportJob_proofs`, the write path and imports.
  * `PrimaryLocksCorrect`, `ImportLocksCorrect`: `LockHasTransaction`, with the types of
    what handlers hold.
  * `PrimaryLogsFirst`, `ImportLogsFirst`: `EveryWriteLogged`, for every `Faults`
    without `"log"`.  The invariant `LoggedFirst` follows a handler through its two
    loops: nothing is accepted before the first is through, and every write it
    has passed has its row.
  * `ImportCountsCorrect` (`InAsOftenAsSent`) and `ImportedIsIn` (`FileIsIn`) from
    `ImportInv`.  The copies of a statement that are *in* and those on their way in
    a handler are together at most as many as it was sent (`CopiesBounded`): a
    request whose answer was lost may still run.  What an open transaction holds adds
    no copy of the file (`DirtyAddsNone`), and what the command went past is in
    (`PassedIsIn`).  Used of SQL: `CopiesAssumption` (a statement adds a copy of what it
    writes and of nothing else), `TextsAssumption` and `ReadAssumption`.
* `Login_proofs`.
  * `LoginTypeCorrect`; `GuessBoundCorrect` from `Slack`: the count of an entry *and*
    the goroutines that are verifying a password for its name make at most the limit
    plus all goroutines less one.  `LockNeverExtendedCorrect`.
  * `LockIsEarnedCorrect` and `GuessesPerLockoutCorrect` from `EntryInv`: the failures
    of a name can be told apart by the entry of the limiter that counted them;
    the entries begin more than a lockout apart, no failure is later than a lockout
    after the beginning of its entry, and the last entry counts its own.  A stretch as
    long as a lockout meets two entries at most.
* `Accounts_proofs`.
  * `AccountsTypeCorrect`; `CredentialsCorrect` and `RequestsCorrect` from
    `IdsWereGiven` (no row, token, key or request mentions an id above `lastId`, so
    that a fresh id is one nobody holds) and `WhoKeepsAccount` (whoever holds an id
    holds the serial of the row that has it).  That `users` is `AUTOINCREMENT` is what
    makes it inductive.
  * `AdminPasswordIsFlaggedCorrect` from `FlagInv`: in every life of the process, a
    row with an admin's password and no flag has a reset between its two updates, or is
    `cut`: the process ended there, and nobody has set that password or its flag since.
* `DatabaseFiles_proofs`.  `FilesInv` gives all four properties, `FilesTypeCorrect`,
  `NothingDestroyedCorrect`, `ConnectionsAgreeCorrect`, `SealedAtRestCorrect` and
  `OpensAgainCorrect`.  It says where the pieces are (`Placed`), who is at work
  (`Phases`), that the file in the directory, or what `Close` is about to write there,
  and every connection's file have all acknowledged transactions (`One`) or, once the
  pool has made a second file, that each of them is in one of the two (`Two`), and how
  often what is sealed (`SealsFit`), each unless one of the named causes happened.
  Assumed: `Nothing` is no contents of a file (`NothingAssumption`).
* `Backups_proofs`.  `BackupsInv`, for any number of databases, handlers and files:
  every name belongs to a file that was finished (`Records`), two jobs on one database
  know of each other (`Alone`), a file is written by jobs on one database only
  (`Owned`), and each copying job has, page by page, what it should have unless it met
  a cause (`WholeCopy`, `CurrentCopy`, `RestoredCopy`); what the scheduler is about to
  remove has `KeepCount` finished files above it (`Prunable`).  It gives
  `BackupsTypeCorrect`, `BackupIsWholeCorrect`, `BackupIsCurrentCorrect`,
  `RestoredIsBackupCorrect` and `NewestAreKeptCorrect`.  The attempt showed
  two of these properties to be false outside the bounds of `MCBackups`: a restore
  into one database may read a file that two jobs of another one still write (now
  `Shared`), and the scheduler, which removes by name, may remove a backup that
  took a listed name meanwhile (now `"doomed"`).
* `Server_proofs`, what one server process does around its requests.
  * Life cycle: `ClosedWhenDrainedCorrect` from `CloseInv` (a goroutine drains only
    after it closed the listener, `ListenerFirst`; goes on without a timeout only
    when the handlers were idle, `DrainedNext`; and the channel is closed by such a
    goroutine only, `ChannelLast`).
  * Audit log: `NothingLostCorrect` from `LogInv` (what is in the table, in the worker's
    hands and in the channel is what was accepted, in order) and
    `FlushIsDoneCorrect` from `FlushInv` (behind a flusher in the channel stands only
    what was accepted after it).  Three lemmas say what appending, removing and moving a
    message does to the order of the entries.  Then `ExitWritesAuditCorrect` and
    `CrashNeedsTwoCorrect` from `ExitInv`.
  * First start: `StartupTypeCorrect` and `RecordedIsThereCorrect` from `SchemaInv`: who
    may be at a place (`May`), what a process that is there has found or added (`Done`),
    and that one column of version 2 without the other means a process between the two,
    now or when it ended (`Between`).  `PairAssumption` gives a fresh pair of files to
    every writer.
  * Request limiters: `LimiterTypeCorrect`, `WindowBoundCorrect` and
    `UserRefusalEarnedCorrect` from `LimiterInv`: counted from any time within the
    window on, the list of a connection has as many attempts as requests of it
    were served (`ListCounts`).  For that a new attempt must be one the set does not
    have (`NumberedFromZero`).

*What is only model-checked.*  The six liveness properties, `EveryRequestEnds`,
`CommandEnds`, `EveryRowArrives` and `EveryRowIsSaved`, `SignalEnds` and `ServerComesUp`:
fairness and `ENABLED` are out of the prover's reach.  What a recursive definition
computes for every input is out of its reach, too; where a proof needs induction over
numbers, it goes by a least counterexample.  That the small SQL of
`MCStatements` and the file formats of `MCImport` meet the assumptions on the constants
is checked by TLC, which evaluates each `ASSUME`.

## 5. What is not modelled, and why

*Parts.*  The monitor, read-only handlers, console, configuration and table
formatting keep no state that another part depends on, or only parse and format.
Of the commands, `export`, `list-backups`, `health` and `stop` make one HTTP call or
read; `init` writes one file once; `encrypt` and `decrypt` do to a file what they are
told.

*Inside the modelled parts.*
* `PRAGMA`s that write, and `BEGIN`/`COMMIT` sent as plain queries
  (`ReadAssumption`); writers on the replica beside its loop.
* SQLite is external: one write lock per database, a transaction sees its own
  writes, `BUSY` after the timeout is the fault `"sql"`.  A refused statement of
  a transaction takes no lock.  The branch at `executor.go` 98-103 cannot be
  reached (the helper returns no error) and is not in the model.
* A stop of the replica by `POST /shutdown` leaves `stopCh` open (`server.go` 165):
  the loop goes on beside the closing of the databases, as it may after a signal, where
  nobody waits for it.  The model has one action for both.
* `/restore` is not logged for replicas.  The sealed copy of an API key, from which it
  can be shown again, is not in `Accounts`.
* Expiry of JWTs and API keys, sessions (`SessionManager.Generate` is called by
  tests only), `LockUser`, `UnlockUser`, `RecordFailedLogin`, `FlushAuditLog`,
  `CleanReplicationLog` and `RateLimiter.Reset` have no caller in the server; of
  these `FlushAuditLog` is modelled, because `Close` competes with it.
* In `ImportJob`: the quoting of values and the types of columns; a semicolon inside
  a string or behind a comment on the same line; meta-commands of the shell, which
  read or name another database.
* In `DatabaseFiles`: a copy is one step (`Backups` has its pages), one database, and
  what SQLite makes of a file that is replaced under its connections: the
  properties exempt it.  `ListAll`, and a `CloseAll` of which one database fails.
  A command is one step beside the server's.
* In `Startup`: the busy wait of SQLite is the fault `ProcessFails`.

## 6. Observations on the code

Two disagreements have runs of their own:

* `POST /transaction` commits what is left when SQLite refuses one statement
  (`executor.go` 225; `docs/api.md` 81) -- `MCPrimary_atomic`.
* Two handlers log in one order and run in the other, and the replica ends with
  another database (`routes.go` 80; `docs/replication.md` 3) --
  `MCReplication_order`.

The others are seen by a change to a configuration or a property:

| what the code does | where | how to see it |
|---|---|---|
| The lockout counts from the *first* failure, so a name locked late in its window is free soon (`docs/security.md` 56) | `password.go` 84 | add `LockLasts` to `MCLogin.cfg` |
| The "user" limiter keys by connection, since nobody is authenticated yet (`docs/security.md` 54) | `middleware.go` 92 | add `PerUser` to `MCRequestLimiter.cfg` |
| The IP limiter's key has the port in it (`docs/security.md` 55) | `middleware.go` 88 | add `PerIPAddress` |
| After `POST /shutdown` the process may exit before the audit log is written (`docs/api.md` 201) | `server.go` 217 | drop the condition on `closer` from `ExitWritesAudit` |
| A signal beside `POST /shutdown` closes two channels twice: a panic | `server.go` 170, `system.go` 102 | replace `CrashNeedsTwo` by `process # "crashed"` |
| A flush that comes when the audit channel is closed, or waits for room until it is, panics | `system.go` 450 | drop the second disjunct of `CrashNeedsTwo` |
| A write runs though its row could not be logged (`docs/replication.md` 3) | `routes.go` 81 | add `"log"` to `Faults` of `MCImport.cfg` |
| Arguments of a query are not logged; the replica runs it without | `routes.go` 86 | `Requests <- WithArguments` in `MCReplication.cfg` |
| A replica that restarts applies entries again, which is no harm for `LogShipping` and is for `INSERT` (`docs/replication.md` 63) | `replication.go` 142 | `Convergence` in place of `ConvergesIfOnce` |
| A stop of the replica closes its databases, maybe between the `Open` and the `Exec` of an entry: the statement fails, the error is in a result nobody looks at, and the cursor that is saved claims an entry that never ran (`docs/replication.md` 52); so does every statement that fails at the replica alone | `server.go` 232, `replication.go` 152 | add `AppliedHasRun` to `MCReplication.cfg` |
| A reset is two updates; a crash between leaves the admin's password unflagged (`docs/api.md` 123) | `auth.go` 242 | drop `u \in cut` from `AdminPasswordIsFlagged` |
| A change of one's own password that was verified before a reset overwrites it | `auth.go` 249, 264 | the states are in `MCAccounts`; the owner's password wins |
| A renamed or deleted default admin comes back with the default password at the next start (`README.md` 23) | `auth.go` 362 | the states are in `MCAccounts` |
| A backup is torn by a checkpoint during the copy, or by a second job of the same second | `backup.go` 62, 45 | drop `"written"` or `"overlap"` from `BackupIsWhole` |
| A backup lacks transactions when a reader keeps the log from being emptied | `backup.go` 54 | drop `"busy"` from `BackupIsCurrent` |
| A backup made while the scheduler removes old ones is removed itself if it has a name of the list: names carry the second | `server.go` 289 | drop `"doomed"` from `NewestAreKept`, with `Operations = {"backup"}`, `MaxCommits = 1`, `MaxFiles = 4` |
| A restore into another database reads a backup that two jobs still write | `backup.go` 45, 108 | drop `~Shared(..)` from `RestoredIsBackup`, with `Operations = {"backup", "restore"}` and two `Databases` |
| A restore is undone by traffic, or by a log of an earlier process | `backup.go` 103, `sqlite.go` 110 | drop `"used"` or `"left"` from `RestoredIsBackup` |
| An encrypted database that was closed twice cannot be opened again: the name of the decrypted copy is gone, so `Close` seals the sealed file once more (`database_test.go` 835-838 reopens once) | `sqlite.go` 66, 273 | drop `"resealed"` from `OpensAgain` |
| `create-db` for an encrypted database that exists does the same to it | `admin.go` 40 | the same |
| A pool that opens a second connection to a decrypted database makes an empty file with its name: the two connections show different data | `sqlite.go` 66 | drop `decrypted = 0` from `ConnectionsAgree` |
| Closing that database seals one of the two files over it, and what is in the other is lost | `sqlite.go` 262 | drop `"dropped"` from `NothingDestroyed` |
| `Close` seals a file over itself: a crash or a full disk in between leaves neither | `cipher.go` 90, 126 | drop `"cut"` from `NothingDestroyed` |
| A restore by the command, beside a server that has the database open, is written over or sealed again by the server | `commands/backup.go` 88 | drop `"used"` from `NothingDestroyed` |
| A crash leaves a database that was not sealed yet in plain text (`README.md` 28) | `sqlite.go` 61 | drop `"crashed"` from `SealedAtRest` |
| A backup of an encrypted database before its first `Close` is in plain text, and restored it cannot be opened | `backup.go` 57 | drop `"early"` from `SealedAtRest`, `"laid"` from `OpensAgain` |
| So is a backup after the first `Close`, when the pool has made a decrypted file with a name: `ActivePath` finds it | `sqlite.go` 250 | drop `"dropped"` from `SealedAtRest` |
| Version 2 is recorded with one of its columns if a process died between them | `system.go` 207 | replace `"alters" \in cut` by `FALSE` in `RecordedIsThere` |
| A process that died between the column of version 3 and its row keeps every later start from coming up | `system.go` 206-211 | drop the disjunct of `StuckSchema` from `ServerComesUp` |
| So does half a pair of certificate and key, or two processes that wrote it | `tls.go` 50-73, 92 | drop `"pair"` or `"mixed"` from `ServerComesUp` |
| An import that stopped and is run again has its first rows twice | `import.go` 142 | add `InDb(u) <= 1` to `InAsOftenAsSent` |
| In the shell a comment swallows the statement that follows it, and the answer is "Query OK" | `shell.go` 115 | replace `u \in Swallowed(file.lines)` by `FALSE` in `FileIsIn` |

Without a run: `pruneOldBackups` counts the backups of all databases together.
`HandleLogin` answers a lockout with 401.  Without a configured secret a restart makes
the sealed copies of API keys unreadable (`auth.go` 290, `jwt.go` 26;
`docs/security.md` 49).  `docs/security.md` 69
lists `ALTER TABLE` among the blocked statements; the table in `validator.go` does
not.  The account handlers never call `logAudit`.  `init` in a directory that has been
initialised overwrites `config.json`: with `--gen-key` the only copy of the key that
the databases beside it are sealed with.

## 7. Plan

Done, in this order: the write path and replication with their abstraction
and proofs; login; audit log and life cycle; accounts; backups; database files;
request limiter; start-up with migrations and certificates; imports over the write
path; database files with backups, restores and commands; the proofs of every
invariant of the runs.

Next:
1. `OneByOne` piece by piece: convergence of each database when the handlers that
   write it are one at a time, whatever others do, instead of one handler for all;
   and a transaction that is refused as a whole.
2. An abstract audit log (a queue that may refuse, never loses) that `Lifecycle`
   implements, and an abstract write path (log, then run) for `Primary`.
3. What a run that dies leaves: the safety half of `ServerComesUp` (a start is stuck
   only behind `StuckSchema` or `StuckFiles`) as an invariant.

Left for the models: two databases under one `keep_count`, sessions and expiry, a
second primary that a replica is pointed at.
