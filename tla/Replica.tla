------------------------------ MODULE Replica ------------------------------
(***************************************************************************)
(* The replica's side of replication: Engine.replicaLoop, pollOnce and     *)
(* applyEntry of internal/replication/replication.go, the row of           *)
(* replication_state they keep (internal/database/system.go), and the      *)
(* shutdown of the server around them (internal/server/server.go).         *)
(*                                                                         *)
(* The loop is one goroutine:                                              *)
(*   "wait"   blocked in the select on the ticker and stopCh               *)
(*   "poll"   the GET of the primary's log is under way                    *)
(*   "apply"  in the loop over the entries of the answer                   *)
(*   "ended"  returned (or no process)                                     *)
(* While it applies, the primary's log grows; what it applies is the       *)
(* answer it was given.                                                    *)
(***************************************************************************)
EXTENDS WriteLog

CONSTANT BatchLimit   \* the limit=500 of the poll

ASSUME BatchAssumption == BatchLimit \in Nat \ {0}

VARIABLES
  process,      \* the server process: "up", "stopping" (stopCh closed),
                \* "dbsClosed" (CloseAll done), "closed" (system database closed), "down"
  loop,         \* where the loop is
  lastID,       \* the loop's local variable
  batch,        \* the entries of the last answer
  next,         \* the place in batch the loop is at
  appliedID,    \* last_applied_id in replication_state, on disk
  rstate,       \* contents of the replica's databases
  attempts,     \* history: ids handed to the executor, in order
  failed        \* history: ids whose statement failed for a reason outside its text

replicaVars == <<process, loop, lastID, batch, next, appliedID, rstate, attempts, failed>>

ReplicaTypeOK ==
  /\ process \in {"up", "stopping", "dbsClosed", "closed", "down"}
  /\ loop \in {"wait", "poll", "apply", "ended"}
  /\ lastID \in Nat
  /\ batch \in Seq(LogEntry)
  /\ next \in Nat \ {0}
  /\ appliedID \in Nat
  /\ rstate \in [Databases -> DBState]
  /\ attempts \in Seq(Nat)
  /\ failed \subseteq Nat

ReplicaInit ==
  /\ process = "down"
  /\ loop = "ended"
  /\ lastID = 0
  /\ batch = <<>>
  /\ next = 1
  /\ appliedID = 0
  /\ rstate = [d \in Databases |-> EmptyDB]
  /\ attempts = <<>>
  /\ failed = {}

Least(a, b) == IF a < b THEN a ELSE b

\* Mutant: places in an answer are counted from 0.
Return_FromZero(where) == loop' = where /\ batch' = <<>> /\ next' = 0

\* pollOnce returns: its answer is gone, what it did to lastID stays.
Return(where) == loop' = where /\ batch' = <<>> /\ next' = 1

-----------------------------------------------------------------------------
(* The loop.                                                               *)

\* Mutant: a replica that starts takes the log from its present end.
StartReplica_FromEnd ==
  /\ process = "down"
  /\ process' = "up"
  /\ lastID' = Len(log)
  /\ loop' = "poll"
  /\ NoFault
  /\ UNCHANGED <<batch, next, appliedID, rstate, attempts, failed, log>>

\* Mutant: InitReplicationState overwrites the row that is there.
StartReplica_Reset ==
  /\ process = "down"
  /\ process' = "up"
  /\ appliedID' = 0
  /\ lastID' = 0
  /\ loop' = "poll"
  /\ NoFault
  /\ UNCHANGED <<batch, next, rstate, attempts, failed, log>>

\* New and Start: InitReplicationState keeps the last_applied_id that is there,
\* replicaLoop reads it and polls at once.  If the read fails the loop returns
\* for good and the server runs on without it.
StartReplica ==
  /\ process = "down"
  /\ process' = "up"
  /\ \/ /\ lastID' = appliedID
        /\ loop' = "poll"
        /\ NoFault
     \/ /\ Fault("load")
        /\ UNCHANGED <<lastID, loop>>
  /\ UNCHANGED <<batch, next, appliedID, rstate, attempts, failed, log>>

\* The select: a tick, or the closed stopCh; when both are ready, either.
Tick ==
  /\ loop = "wait"
  /\ loop' = "poll"
  /\ NoFault
  /\ UNCHANGED <<process, lastID, batch, next, appliedID, rstate, attempts, failed, log>>

LoopEnds ==
  /\ loop = "wait"
  /\ process \in {"stopping", "dbsClosed", "closed"}
  /\ loop' = "ended"
  /\ NoFault
  /\ UNCHANGED <<process, lastID, batch, next, appliedID, rstate, attempts, failed, log>>

\* Mutant: the progress is saved when the answer comes in.
Poll_SavesFirst ==
  /\ loop = "poll"
  /\ LET upto == Least(lastID + BatchLimit, Len(log))
     IN  /\ batch' = GetReplicationLog(lastID, upto)
         /\ loop' = IF upto = lastID THEN "wait" ELSE "apply"
         /\ appliedID' = upto
  /\ next' = 1
  /\ NoFault
  /\ UNCHANGED <<process, lastID, rstate, attempts, failed, log>>

\* The GET.  The primary answers with the rows after lastID, at most BatchLimit
\* of them.  GetReplicationLog does not look at rows.Err, so a scan that breaks
\* off is answered like a short log.
Poll ==
  /\ loop = "poll"
  /\ \E upto \in lastID..Least(lastID + BatchLimit, Len(log)) :
       /\ IF upto = Least(lastID + BatchLimit, Len(log)) THEN NoFault ELSE Fault("short")
       /\ batch' = GetReplicationLog(lastID, upto)
       /\ loop' = IF upto = lastID THEN "wait" ELSE "apply"
  /\ next' = 1
  /\ UNCHANGED <<process, lastID, appliedID, rstate, attempts, failed, log>>

\* No connection, a timeout, a status other than 200, a body that is not JSON.
PollFails ==
  /\ loop = "poll"
  /\ Fault("lost")
  /\ Return("wait")
  /\ UNCHANGED <<process, lastID, appliedID, rstate, attempts, failed, log>>

BatchEnded == next > Len(batch)

\* applyEntry: Execute without arguments.  It fails only when the database does
\* not open; an error of the statement is in the result, which nobody looks at.
\* CloseAll may close the handle between Manager.Open and the statement, which then
\* fails ("sql: database is closed"): it is the last one that has an old handle.
Apply ==
  /\ loop = "apply"
  /\ ~BatchEnded
  /\ \/ /\ rstate' = [rstate EXCEPT ![batch[next].db] = Exec(batch[next].q, NoParams, @)]
        /\ NoFault
        /\ UNCHANGED <<process, failed>>
     \/ /\ \/ Fault("replicaSql") /\ UNCHANGED process
           \/ process = "stopping" /\ process' = "dbsClosed" /\ NoFault
        /\ failed' = failed \cup {batch[next].id}
        /\ UNCHANGED rstate
  /\ attempts' = Append(attempts, batch[next].id)
  /\ lastID' = batch[next].id
  /\ next' = next + 1
  /\ UNCHANGED <<loop, batch, appliedID, log>>

\* Mutant: an entry whose database does not open is passed over.
ApplyFails_Continue ==
  /\ loop = "apply"
  /\ ~BatchEnded
  /\ Fault("replicaOpen")
  /\ next' = next + 1
  /\ UNCHANGED <<process, loop, lastID, batch, appliedID, rstate, attempts, failed, log>>

\* Mutant: the loop itself returns.
ApplyFails_EndsLoop ==
  /\ loop = "apply"
  /\ ~BatchEnded
  /\ Fault("replicaOpen")
  /\ Return("ended")
  /\ UNCHANGED <<process, lastID, appliedID, rstate, attempts, failed, log>>

\* pollOnce gives up.  lastID stays where the entries before this one moved it,
\* last_applied_id is not written.
ApplyFails ==
  /\ loop = "apply"
  /\ ~BatchEnded
  /\ Fault("replicaOpen")
  /\ Return("wait")
  /\ UNCHANGED <<process, lastID, appliedID, rstate, attempts, failed, log>>

\* Mutant: the progress is saved after full answers only.
SaveProgress_FullOnly ==
  /\ loop = "apply"
  /\ BatchEnded
  /\ appliedID' = IF Len(batch) >= BatchLimit /\ process # "closed" THEN lastID ELSE appliedID
  /\ NoFault
  /\ Return(IF Len(batch) >= BatchLimit THEN "poll" ELSE "wait")
  /\ UNCHANGED <<process, lastID, rstate, attempts, failed, log>>

\* UpdateReplicationAppliedID after the last entry of the answer, whose error is
\* only logged; a full answer is followed by another poll without a look at stopCh.
SaveProgress ==
  /\ loop = "apply"
  /\ BatchEnded
  /\ \/ /\ process # "closed"
        /\ appliedID' = lastID
        /\ NoFault
     \/ /\ process = "closed"
        /\ NoFault
        /\ UNCHANGED appliedID
     \/ /\ Fault("checkpoint")
        /\ UNCHANGED appliedID
  /\ Return(IF Len(batch) >= BatchLimit THEN "poll" ELSE "wait")
  /\ UNCHANGED <<process, lastID, rstate, attempts, failed, log>>

-----------------------------------------------------------------------------
(* The process around the loop.                                            *)

\* Shutdown, on a signal: close(stopCh), then CloseAll and systemDB.Close
\* without waiting for the loop, then the process exits.  (POST /shutdown leaves
\* stopCh open: the loop goes on, as it may here.)
StopReplica ==
  /\ process = "up"
  /\ Fault("stop")
  /\ process' = "stopping"
  /\ UNCHANGED <<loop, lastID, batch, next, appliedID, rstate, attempts, failed, log>>

\* Manager.CloseAll, with no statement between Open and its execution (Apply has
\* the other case).  An entry applied later opens its database again.
CloseDatabases ==
  /\ process = "stopping"
  /\ process' = "dbsClosed"
  /\ NoFault
  /\ UNCHANGED <<loop, lastID, batch, next, appliedID, rstate, attempts, failed, log>>

CloseSystemDB ==
  /\ process = "dbsClosed"
  /\ process' = "closed"
  /\ NoFault
  /\ UNCHANGED <<loop, lastID, batch, next, appliedID, rstate, attempts, failed, log>>

Exit ==
  /\ process = "closed"
  /\ process' = "down"
  /\ Return("ended")
  /\ NoFault
  /\ UNCHANGED <<lastID, appliedID, rstate, attempts, failed, log>>

\* What Execute has committed and the row of replication_state survive.
ReplicaCrash ==
  /\ process # "down"
  /\ Fault("replicaCrash")
  /\ process' = "down"
  /\ Return("ended")
  /\ UNCHANGED <<lastID, appliedID, rstate, attempts, failed, log>>

ReplicaLoop == Tick \/ LoopEnds \/ Poll \/ PollFails \/ Apply \/ ApplyFails \/ SaveProgress

ReplicaProcess == StartReplica \/ StopReplica \/ CloseDatabases \/ CloseSystemDB \/ Exit \/ ReplicaCrash

ReplicaNext == ReplicaLoop \/ ReplicaProcess
=============================================================================
