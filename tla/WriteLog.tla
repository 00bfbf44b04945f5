------------------------------ MODULE WriteLog ------------------------------
(***************************************************************************)
(* What the primary's handlers and the replica's loop have in common: the  *)
(* user databases as the SQL executor sees them, the replication_log table *)
(* of the primary, and the faults a run admits.                            *)
(*                                                                         *)
(* SQLite itself is external.  Exec and SqlError say all that this project *)
(* assumes of it: a statement is a function of the database it runs in, a  *)
(* statement SQLite refuses leaves the database as it was.                 *)
(***************************************************************************)
EXTENDS Naturals, Sequences

CONSTANTS
  Databases,          \* names of the user databases
  Texts,              \* statement texts, as AccessControl describes them
  Params,             \* argument lists a client may send along with a text
  NoParams,           \* the empty argument list
  DBState,            \* contents a user database can have
  EmptyDB,            \* contents of a database nobody wrote to
  Exec(_, _, _),      \* Exec(q, p, s): contents after q with arguments p ran in s
  SqlError(_, _, _),  \* SqlError(q, p, s): SQLite answers that run with an error
  Faults,             \* kinds of fault this system can meet, out of FaultKinds
  MaxFaults           \* bound: how many faults one behaviour may contain

FaultKinds ==
  { "log",             \* LogReplication: the insert into replication_log fails
    "open",            \* Manager.Open fails under a handler of the primary
    "sql",             \* a statement fails on the primary for a reason outside its text
    "cancel",          \* the client of a transaction goes away before the commit
    "primaryCrash",    \* the primary's process dies and is started again
    "send", "answer",  \* a client's request, or the answer to it, does not arrive
    "lost",            \* a poll gets no usable answer
    "short",           \* the primary's scan of replication_log ends early
    "replicaOpen",     \* Manager.Open fails under the replica's loop
    "replicaSql",      \* a statement fails on the replica for a reason outside its text
    "checkpoint",      \* the update of replication_state fails
    "load",            \* the read of replication_state fails when the loop starts
    "replicaCrash",    \* the replica's process dies
    "stop" }           \* the replica's server is shut down by a signal

ASSUME DatabaseAssumption ==
  /\ NoParams \in Params
  /\ EmptyDB \in DBState
  /\ \A q \in Texts, p \in Params, s \in DBState :
        /\ Exec(q, p, s) \in DBState
        /\ SqlError(q, p, s) \in BOOLEAN
        /\ SqlError(q, p, s) => Exec(q, p, s) = s

ASSUME FaultAssumption == Faults \subseteq FaultKinds /\ MaxFaults \in Nat

VARIABLES
  log,      \* replication_log on the primary: a sequence, in the order of its ids
  faults    \* how many faults have happened (the bound of MaxFaults)

\* The rows of replication_log.  id is AUTOINCREMENT and no caller deletes rows.
LogEntry == [id : Nat, db : Databases, q : Texts]

\* LogReplication(databaseName, query).  The arguments of the statement are
\* not a column of the table.
LogReplication(db, q) ==
  log' = Append(log, [id |-> Len(log) + 1, db |-> db, q |-> q])

\* The row is appended last, so its place in the sequence is its id.
IdsAreIndexes == \A i \in DOMAIN log : log[i].id = i

\* GetReplicationLog(since, limit) when the scan reaches the row with id upto.
GetReplicationLog(since, upto) == SubSeq(log, since + 1, upto)

Fault(kind) ==
  /\ kind \in Faults
  /\ faults < MaxFaults
  /\ faults' = faults + 1

NoFault == UNCHANGED faults

WriteLogInit == log = <<>> /\ faults = 0
=============================================================================
