---------------------------- MODULE Replication ----------------------------
(***************************************************************************)
(* One primary and one replica.  They share the log the primary writes and *)
(* the replica reads; everything else happens between the two without      *)
(* either seeing the other.                                                *)
(***************************************************************************)
EXTENDS Primary, Replica

vars == <<primaryVars, replicaVars, log, faults>>

Init == WriteLogInit /\ PrimaryInit /\ ReplicaInit

Next ==
  \/ PrimaryNext /\ UNCHANGED replicaVars
  \/ ReplicaNext /\ UNCHANGED primaryVars

Spec == Init /\ [][Next]_vars

TypeOK ==
  /\ log \in Seq(LogEntry)
  /\ faults \in Nat
  /\ PrimaryTypeOK
  /\ ReplicaTypeOK

\* The handlers run; the replica's goroutine runs, its ticker ticks, a server
\* that was stopped comes to its end and one that is down is started again.
\* The environment meets a handler with at most MaxFaults faults.
LiveSpec ==
  /\ Spec
  /\ \A h \in Handlers : WF_vars(HandlerStep(h) /\ UNCHANGED replicaVars)
  /\ WF_vars(ReplicaLoop /\ UNCHANGED primaryVars)
  /\ WF_vars((StartReplica \/ CloseDatabases \/ CloseSystemDB \/ Exit) /\ UNCHANGED primaryVars)

-----------------------------------------------------------------------------
(* Replication implements LogShipping.                                     *)

LS == INSTANCE LogShipping
        WITH Entries <- LogEntry, delivered <- attempts, cursor <- lastID, checkpoint <- appliedID

\* Whatever the network, the two processes and their databases do, the replica
\* takes the log in order, falls back only to the row it saved, and never moves
\* past an entry it has not handed to its executor.
ShipsTheLog == LS!LSSpec

\* What LogShipping says of its variables, here of the loop and its row.
EveryEntryInTurn == LS!NoGap /\ LS!Complete

\* replication_state never claims an entry the replica's databases have not
\* been given, not even across a crash between the databases and the row.
ProgressIsDone == \A n \in 1..appliedID : \E k \in DOMAIN attempts : attempts[k] = n

\* The row never goes back, whoever restarts when.
ProgressNeverBack == [][appliedID' >= appliedID]_vars

-----------------------------------------------------------------------------
(* What the databases hold.                                                *)

Quiet ==
  /\ \A h \in Handlers : pc[h] = "idle"
  /\ lastID = Len(log)

\* The replica has the databases of the primary once it has caught up with a
\* primary that is at rest (docs/replication.md: replicas apply the changes).
Convergence == Quiet => rstate = pstate

\* Lost and short answers, databases that do not open, rows that are not saved,
\* crashes and restarts do no harm as long as every entry was handed to the executor
\* once, and no statement failed there for a reason of its own.  A stop can do both:
\* it repeats what was not saved, and CloseAll makes the statement fail that has the
\* handle of a database it closes.
ConvergesIfOnce ==
  attempts = [n \in 1..Len(log) |-> n] /\ failed = {} => Convergence

\* replication_state is the progress of the replica (docs/replication.md): an entry
\* that it claims has run, or was handed to the executor once more after it failed.
AppliedHasRun ==
  \A n \in failed \cap 1..appliedID :
    \E j, k \in DOMAIN attempts : j < k /\ attempts[j] = n /\ attempts[k] = n

-----------------------------------------------------------------------------
(* Liveness.                                                               *)

\* A bound of the runs: no log is longer.
LongestRequest ==
  CHOOSE n \in {Len(r.stmts) : r \in Requests} : \A r \in Requests : Len(r.stmts) <= n
LogBound == MaxRequests * LongestRequest

\* Every row of the log is handed to the replica's executor in the end, through
\* lost polls, failed opens, restarts of the replica and crashes of the primary.
EveryRowArrives ==
  \A n \in 1..LogBound : (Len(log) >= n) ~> (\E k \in DOMAIN attempts : attempts[k] = n)

\* And replication_state says so in the end.
EveryRowIsSaved == \A n \in 1..LogBound : (Len(log) >= n) ~> (appliedID >= n)
=============================================================================
