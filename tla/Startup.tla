------------------------------- MODULE Startup -------------------------------
(***************************************************************************)
(* What a start of the server writes before it listens, and what the next  *)
(* start finds of it: server.New with migrate (internal/database/          *)
(* system.go), EnsureDefaultAdmin (internal/auth/auth.go) and the files of *)
(* internal/encryption/tls.go.                                             *)
(*                                                                         *)
(* Two commands of the command line do parts of the same in processes of   *)
(* their own, with no lock between: create-user opens and migrates the     *)
(* system database, gen-cert writes the certificate.                       *)
(*                                                                         *)
(* SQLite runs the statements of a script one by one and commits each.  A  *)
(* process may die between any two of them, or between two writes to a     *)
(* file.                                                                   *)
(***************************************************************************)
EXTENDS Naturals, Sequences, FiniteSets

CONSTANTS
  Servers, UserCommands, CertCommands,  \* processes, by what they run
  Pairs,                                \* pairs of a certificate and its key
  Missing, Blank,                       \* a file that is not there, or has nothing in it
  MaxFaults                             \* bound: deaths and failed statements

Migrators == Servers \cup UserCommands
Writers == Servers \cup CertCommands
Processes == Servers \cup UserCommands \cup CertCommands

ASSUME ProcessAssumption ==
  /\ Servers \cap UserCommands = {}
  /\ Servers \cap CertCommands = {}
  /\ UserCommands \cap CertCommands = {}
ASSUME PairAssumption ==
  /\ Missing \notin Pairs /\ Blank \notin Pairs /\ Missing # Blank
  \* a pair for every process that writes one and for each of the files
  /\ IsFiniteSet(Writers)
  /\ IsFiniteSet(Pairs) => Cardinality(Pairs) >= Cardinality(Writers) + 2
ASSUME StartupBound == MaxFaults \in Nat

VARIABLES
  tls,        \* tls.enabled, with auto_cert
  schema,     \* tables and added columns of the system database
  recorded,   \* schema_migrations
  admin,      \* there is a user named admin
  cert, key,  \* the two files
  at,         \* where a process is
  faults,     \* the bound of MaxFaults
  cut         \* history: what a process left half done

databaseVars == <<schema, recorded, admin>>
fileVars == <<cert, key>>
startupVars == <<tls, databaseVars, fileVars, at, faults, cut>>

Versions == 1..3
Scripts == << <<"users", "api_keys", "others">>,
              <<"prefix", "encrypted_key">>,
              <<"password_change_required">> >>
Items == {"users", "api_keys", "others", "prefix", "encrypted_key", "password_change_required"}
Adds(v) == {Scripts[v][i] : i \in DOMAIN Scripts[v]}

MigrateSteps == {"check", "script", "record", "note"}
LaterSteps == {"admin", "insert", "state", "user"}
WriteSteps == {"create cert", "fill cert", "create key", "fill key"}
Steps == MigrateSteps \cup LaterSteps \cup WriteSteps \cup {"off", "stat", "load", "up", "done"}
Cuts == {"alters", "row", "pair", "mixed"}
File == Pairs \cup {Missing, Blank}

\* A place outside the migrations and the writing of files.
Place(step) == [step |-> step, version |-> 1, statement |-> 1, pair |-> Missing]

StartupTypeOK ==
  /\ tls \in BOOLEAN
  /\ schema \in SUBSET Items
  /\ recorded \in SUBSET Versions
  /\ admin \in BOOLEAN
  /\ cert \in File /\ key \in File
  /\ at \in [Processes -> [step : Steps, version : Versions, statement : 1..3,
                             pair : Pairs \cup {Missing}]]
  /\ faults \in 0..MaxFaults
  /\ cut \in SUBSET Cuts

\* No database yet, or one that a build with fewer migrations left; the files may
\* be there or not.
StartupInit ==
  /\ tls \in BOOLEAN
  /\ \E n \in 0..3 : /\ recorded = 1..n
                     /\ schema = UNION {Adds(v) : v \in 1..n}
                     /\ admin \in BOOLEAN /\ (n = 0 => ~admin)
  /\ LET q == CHOOSE q \in Pairs : TRUE IN cert \in {Missing, q} /\ key \in {Missing, q}
  /\ at = [p \in Processes |-> Place("off")]
  /\ faults = 0 /\ cut = {}

Is(p, step) == at[p].step = step
Goto(p, step) == at' = [at EXCEPT ![p] = Place(step)]
NoFault == UNCHANGED <<tls, faults, cut>>
Fault == faults < MaxFaults /\ faults' = faults + 1

-----------------------------------------------------------------------------
(* Ends of a process.                                                      *)

\* What is half done when process p ends here: version 2 between its two
\* columns, version 3 without its row, a pair of files that is not whole.
HalfDone(p) ==
  {c \in Cuts :
     \/ c = "alters" /\ Is(p, "script") /\ at[p].version = 2 /\ at[p].statement = 2
     \/ c = "row" /\ Is(p, "record") /\ at[p].version = 3
     \/ c = "pair" /\ at[p].step \in {"fill cert", "create key", "fill key"}}

\* A start that fails, or a process that dies, is started again; a command is not.
Ends(p) ==
  /\ Goto(p, IF p \in Servers THEN "off" ELSE "done")
  /\ cut' = cut \cup HalfDone(p)

Fails(p) == Ends(p) /\ UNCHANGED <<tls, faults>>

\* The process dies, or the disk is full, or SQLite answers that the database is
\* busy with another process's statement: New returns the error.
ProcessFails(p) ==
  /\ at[p].step \notin {"off", "done"}
  /\ Fault
  /\ Ends(p)
  /\ UNCHANGED <<tls, databaseVars, fileVars>>

\* Signal or POST /shutdown.
StopServer(p) ==
  /\ Is(p, "up")
  /\ Goto(p, "off")
  /\ NoFault /\ UNCHANGED <<databaseVars, fileVars>>

-----------------------------------------------------------------------------
(* migrate.                                                                *)

\* NewSystemDB, up to the table schema_migrations, which every start makes if it
\* is not there.
OpenSystemDB(p) ==
  /\ Is(p, "off") /\ p \in Migrators
  /\ Goto(p, "check")
  /\ NoFault /\ UNCHANGED <<databaseVars, fileVars>>

\* On to the next migration, or past the last one.
NextVersion(p) ==
  IF at[p].version = 3 THEN Goto(p, IF p \in Servers THEN "admin" ELSE "user")
  ELSE at' = [at EXCEPT ![p] = [Place("check") EXCEPT !.version = at[p].version + 1]]

\* SELECT COUNT(*)
CheckVersion(p) ==
  /\ Is(p, "check")
  /\ IF at[p].version \in recorded THEN NextVersion(p)
     ELSE at' = [at EXCEPT ![p].step = "script"]
  /\ NoFault /\ UNCHANGED <<databaseVars, fileVars>>

Item(p) == Scripts[at[p].version][at[p].statement]
Last(p) == at[p].statement = Len(Scripts[at[p].version])

\* The statement succeeds; after the last one comes the row.
StatementDone(p) ==
  /\ schema' = schema \cup {Item(p)}
  /\ at' = IF Last(p) THEN [at EXCEPT ![p].step = "record", ![p].statement = 1]
           ELSE [at EXCEPT ![p].statement = @ + 1]
  /\ NoFault

\* Mutant: a column that is there is an error in every version.
RunStatement_Strict(p) ==
  /\ Is(p, "script")
  /\ IF at[p].version = 1 \/ Item(p) \notin schema THEN StatementDone(p)
     ELSE Fails(p) /\ UNCHANGED schema
  /\ UNCHANGED <<recorded, admin, fileVars>>

\* Mutant: the script counts as run after its first statement.
RunStatement_FirstOnly(p) ==
  /\ Is(p, "script")
  /\ schema' = schema \cup {Item(p)}
  /\ at' = [at EXCEPT ![p].step = "record", ![p].statement = 1]
  /\ NoFault /\ UNCHANGED <<recorded, admin, fileVars>>

\* One statement of a script.  Version 1 makes what is not there.  A column that
\* is there is an error, which is taken for a migration that ran in version 2.
RunStatement(p) ==
  /\ Is(p, "script")
  /\ IF at[p].version = 1 \/ Item(p) \notin schema THEN StatementDone(p)
     ELSE /\ IF at[p].version = 2 THEN at' = [at EXCEPT ![p].step = "note", ![p].statement = 1] /\ NoFault
             ELSE Fails(p)
          /\ UNCHANGED schema
  /\ UNCHANGED <<recorded, admin, fileVars>>

\* The version is the primary key of schema_migrations.
Record(p) ==
  /\ Is(p, "record")
  /\ IF at[p].version \notin recorded
     THEN recorded' = recorded \cup {at[p].version} /\ NextVersion(p) /\ NoFault
     ELSE Fails(p) /\ UNCHANGED recorded
  /\ UNCHANGED <<schema, admin, fileVars>>

\* The row of version 2 after the error: nobody asks whether it went in.
Note(p) ==
  /\ Is(p, "note")
  /\ \/ recorded' = recorded \cup {at[p].version} /\ UNCHANGED faults
     \/ Fault /\ UNCHANGED recorded
  /\ NextVersion(p)
  /\ UNCHANGED <<tls, schema, admin, fileVars, cut>>

-----------------------------------------------------------------------------
(* Users and replication_state.                                            *)

\* create-user, for the name admin; a name that is taken is an error, and the
\* command has ended either way.
CreateUser(p) ==
  /\ Is(p, "user")
  /\ admin' = TRUE
  /\ Goto(p, "done")
  /\ NoFault /\ UNCHANGED <<schema, recorded, fileVars>>

\* EnsureDefaultAdmin takes every error of the SELECT for a name that is not there.
FindAdmin(p) ==
  /\ Is(p, "admin")
  /\ \/ Goto(p, IF admin THEN "state" ELSE "insert") /\ UNCHANGED faults
     \/ Fault /\ Goto(p, "insert")
  /\ UNCHANGED <<tls, databaseVars, fileVars, cut>>

InsertAdmin(p) ==
  /\ Is(p, "insert")
  /\ IF admin THEN Fails(p) ELSE Goto(p, "state") /\ NoFault
  /\ admin' = TRUE
  /\ UNCHANGED <<schema, recorded, fileVars>>

\* InitReplicationState: a row that Replica is about.
InitState(p) ==
  /\ Is(p, "state")
  /\ Goto(p, IF tls THEN "stat" ELSE "up")
  /\ NoFault /\ UNCHANGED <<databaseVars, fileVars>>

-----------------------------------------------------------------------------
(* The certificate and its key.                                            *)

\* Another pair than those in the files and those that are being written.
NewPair == CHOOSE q \in Pairs : q \notin {cert, key} \cup {at[p].pair : p \in Writers}

\* GenerateSelfSignedCert, up to the first file.
DrawPair(p, step) == at' = [at EXCEPT ![p] = [Place(step) EXCEPT !.pair = NewPair]]

\* EnsureCertFiles
StatFiles(p) ==
  /\ Is(p, "stat")
  /\ IF Missing \in {cert, key} THEN DrawPair(p, "create cert") ELSE Goto(p, "load")
  /\ NoFault /\ UNCHANGED <<databaseVars, fileVars>>

\* gen-cert does not look.
GenCert(p) ==
  /\ Is(p, "off") /\ p \in CertCommands
  /\ DrawPair(p, "create cert")
  /\ NoFault /\ UNCHANGED <<databaseVars, fileVars>>

Writing(p) == at[p].step \in WriteSteps

\* os.Create empties a file that is there.  (Two processes that write at once are
\* noted.)
CreateCert(p) ==
  /\ Is(p, "create cert")
  /\ cert' = Blank
  /\ at' = [at EXCEPT ![p].step = "fill cert"]
  /\ cut' = cut \cup {c \in {"mixed"} : \E q \in Writers \ {p} : Writing(q)}
  /\ UNCHANGED <<tls, databaseVars, key, faults>>

FillCert(p) ==
  /\ Is(p, "fill cert")
  /\ cert' = at[p].pair
  /\ at' = [at EXCEPT ![p].step = "create key"]
  /\ NoFault /\ UNCHANGED <<databaseVars, key>>

CreateKey(p) ==
  /\ Is(p, "create key")
  /\ key' = Blank
  /\ at' = [at EXCEPT ![p].step = "fill key"]
  /\ NoFault /\ UNCHANGED <<databaseVars, cert>>

FillKey(p) ==
  /\ Is(p, "fill key")
  /\ key' = at[p].pair
  /\ Goto(p, IF p \in Servers THEN "load" ELSE "done")
  /\ NoFault /\ UNCHANGED <<databaseVars, cert>>

\* TLSServerConfig: the key must be that of the certificate.
LoadPair(p) ==
  /\ Is(p, "load")
  /\ IF cert = key /\ cert \in Pairs THEN Goto(p, "up") /\ NoFault ELSE Fails(p)
  /\ UNCHANGED <<databaseVars, fileVars>>

-----------------------------------------------------------------------------
Works(p) ==
  \/ CheckVersion(p) \/ RunStatement(p) \/ Record(p) \/ Note(p)
  \/ CreateUser(p) \/ FindAdmin(p) \/ InsertAdmin(p) \/ InitState(p)
  \/ StatFiles(p) \/ CreateCert(p) \/ FillCert(p) \/ CreateKey(p) \/ FillKey(p) \/ LoadPair(p)

StartupNext ==
  \E p \in Processes :
    \/ OpenSystemDB(p) \/ GenCert(p)
    \/ Works(p)
    \/ ProcessFails(p) \/ StopServer(p)

StartupSpec == StartupInit /\ [][StartupNext]_startupVars

\* A process that runs goes on, and the service manager starts a server that has
\* ended (docs/deployment.md: Restart=always).  Nobody has to run a command, or to
\* stop a server.
StartupLive ==
  /\ StartupSpec
  /\ \A p \in Processes : WF_startupVars(Works(p))
  /\ \A p \in Servers : WF_startupVars(OpenSystemDB(p))

-----------------------------------------------------------------------------
(* Properties.                                                             *)

\* What schema_migrations says is there is there, although scripts are not atomic,
\* run again and run in two processes at once, unless a process ended between the
\* two columns of version 2 (or is about to add the second).
RecordedIsThere ==
  \A v \in recorded :
    \/ Adds(v) \subseteq schema
    \/ /\ v = 2
       /\ \/ "alters" \in cut
          \/ \E p \in Migrators : Is(p, "script") /\ at[p].version = 2 /\ at[p].statement = 2

\* States that no start gets over: a column that version 3 wants to add, or two
\* files that do not belong together, and nobody at work on them.
StuckSchema ==
  /\ 3 \notin recorded /\ Adds(3) \cap schema # {}
  /\ \A p \in Migrators : ~(Is(p, "record") /\ at[p].version = 3)
StuckFiles ==
  /\ Missing \notin {cert, key}
  /\ cert # key \/ cert = Blank
  /\ \A p \in Writers : ~Writing(p)

\* Starts that died, met errors or got into the way of a command are made up for:
\* the server comes up, unless it is stuck.  That takes a process that ended between
\* the column of version 3 and its row, or between the first write to the pair of
\* files and the last, or two processes that wrote the pair at once.
ServerComesUp ==
  \A p \in Servers :
    Is(p, "off") ~> \/ Is(p, "up")
                    \/ StuckSchema /\ "row" \in cut
                    \/ StuckFiles /\ cut \cap {"pair", "mixed"} # {}
=============================================================================
