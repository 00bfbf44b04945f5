------------------------ MODULE Replication_proofs -------------------------
(***************************************************************************)
(* Replication, for every set of handlers, databases, statements and       *)
(* faults and every batch size: its variables keep their types, the        *)
(* replica ships the log as LogShipping says, and it has the primary's     *)
(* databases once it has caught up, as long as it repeats nothing and the  *)
(* primary serves its requests one by one.                                 *)
(***************************************************************************)
EXTENDS Replication, SequenceTheorems, TLAPS

-----------------------------------------------------------------------------
(* Parts of well typed states.                                             *)

LEMMA ExceptType ==
  ASSUME NEW S, NEW T, NEW f \in [S -> T], NEW x, NEW y \in T
  PROVE  [f EXCEPT ![x] = y] \in [S -> T]
OBVIOUS

LEMMA LengthIsNat ==
  ASSUME NEW S, NEW s \in Seq(S)
  PROVE  Len(s) \in Nat
OBVIOUS

LEMMA RequestParts ==
  ASSUME NEW r \in Requests
  PROVE  /\ r.kind \in {"query", "tx"}
         /\ r.db \in Databases
         /\ r.stmts \in Seq(Texts)
         /\ r.params \in Params
         /\ r.kind = "query" => Len(r.stmts) = 1
BY RequestAssumption DEF RequestType

\* A statement a loop of a handler is at is one of the texts.
LEMMA StatementParts ==
  ASSUME PrimaryTypeOK, NEW h \in Handlers, ~LoopEnded(h)
  PROVE  Stmt(h) \in Texts
<1>1. req[h] \in Requests /\ pos[h] \in Nat \ {0}
  BY DEF PrimaryTypeOK
<1>2. req[h].stmts \in Seq(Texts)
  BY <1>1, RequestParts
<1>3. pos[h] \in 1..Len(req[h].stmts)
  BY <1>1, <1>2 DEF LoopEnded
<1>. QED
  BY <1>2, <1>3 DEF Stmt

\* What a poll is answered: the rows after since, with their types.
LEMMA AnswerParts ==
  ASSUME log \in Seq(LogEntry), NEW since \in Nat, NEW upto \in since..Len(log)
  PROVE  /\ GetReplicationLog(since, upto) \in Seq(LogEntry)
         /\ Len(GetReplicationLog(since, upto)) = upto - since
         /\ \A i \in 1..(upto - since) : GetReplicationLog(since, upto)[i] = log[since + i]
<1>1. Len(log) \in Nat /\ since + 1 \in 1..(Len(log) + 1) /\ upto \in (since + 1 - 1)..Len(log)
  OBVIOUS
<1>. QED
  BY <1>1, SubSeqProperties DEF GetReplicationLog

-----------------------------------------------------------------------------
(* Types.                                                                  *)

\* RunQuery reads the statement at pos without looking at the length of the
\* request; it may, because the executor starts again at the first.
QueryAtFirst == \A h \in Handlers : pc[h] = "exec" /\ req[h].kind = "query" => pos[h] = 1

TypeInv == TypeOK /\ QueryAtFirst

LEMMA TypeInit == Init => TypeInv
BY DatabaseAssumption, FaultAssumption, RequestAssumption
   DEF Init, WriteLogInit, PrimaryInit, ReplicaInit, TypeInv, TypeOK, PrimaryTypeOK,
       ReplicaTypeOK, QueryAtFirst

\* Steps of the primary.
LEMMA PrimaryTypes ==
  ASSUME TypeInv, PrimaryNext, UNCHANGED replicaVars
  PROVE  TypeInv'
<1> USE DEF TypeInv, TypeOK
<1>1. ReplicaTypeOK'
  BY DEF replicaVars, ReplicaTypeOK
<1>2. ASSUME NEW h \in Handlers, NEW r \in Requests, Refuse(h, r)
      PROVE  TypeInv'
  BY <1>1, <1>2 DEF Refuse, NoFault, storeVars, PrimaryTypeOK, QueryAtFirst
<1>3. ASSUME NEW h \in Handlers, NEW r \in Requests, Accept(h, r)
      PROVE  TypeInv'
  BY <1>1, <1>3 DEF Accept, Take, NoFault, storeVars, PrimaryTypeOK, QueryAtFirst
<1>4. ASSUME NEW h \in Handlers, LogStatement(h)
      PROVE  TypeInv'
  <2>1. Stmt(h) \in Texts /\ Db(h) \in Databases
    BY <1>4, StatementParts, RequestParts DEF LogStatement, PrimaryTypeOK, Db
  <2>2. Len(log) + 1 \in Nat
    OBVIOUS
  <2>3. log' \in Seq(LogEntry)
    <3>1. [id |-> Len(log) + 1, db |-> Db(h), q |-> Stmt(h)] \in LogEntry
      BY <2>1, <2>2 DEF LogEntry
    <3>2. log' = log \/ log' = Append(log, [id |-> Len(log) + 1, db |-> Db(h), q |-> Stmt(h)])
      BY <1>4 DEF LogStatement, LogReplication
    <3>. QED
      BY <3>1, <3>2
  <2>4. ids' \in [Handlers -> Seq(Nat)]
    <3>1. PICK x \in Nat : ids' = [ids EXCEPT ![h] = Append(@, x)]
      BY <1>4, <2>2 DEF LogStatement
    <3>2. ids[h] \in Seq(Nat)
      BY DEF PrimaryTypeOK
    <3>3. Append(ids[h], x) \in Seq(Nat)
      BY <3>2
    <3>. QED
      BY <3>1, <3>3 DEF PrimaryTypeOK
  <2>5. faults' \in Nat
    BY <1>4 DEF LogStatement, NoFault, Fault
  <2>6. pos' \in [Handlers -> Nat \ {0}]
    BY <1>4 DEF LogStatement, PrimaryTypeOK
  <2>7. UNCHANGED <<pc, req, took, reply, pstate, lock, dirty, accepted>>
    BY <1>4 DEF LogStatement, storeVars
  <2>8. QueryAtFirst'
    BY <1>4, <2>7 DEF LogStatement, PrimaryTypeOK, QueryAtFirst
  <2>. QED
    BY <1>1, <2>3, <2>4, <2>5, <2>6, <2>7, <2>8 DEF PrimaryTypeOK
<1>5. ASSUME NEW h \in Handlers, OpenDatabase(h)
      PROVE  TypeInv'
  <2>1. UNCHANGED <<req, ids, took, pstate, lock, dirty, accepted, log>>
    BY <1>5 DEF OpenDatabase, storeVars
  <2> DEFINE Types == /\ pc' \in [Handlers -> {"idle", "log", "exec"}]
                      /\ pos' \in [Handlers -> Nat \ {0}]
                      /\ reply' \in [Handlers -> {0, 200, 403, 500}]
                      /\ faults' \in Nat
  <2>2. Types /\ QueryAtFirst'
    <3>1. CASE /\ pc' = [pc EXCEPT ![h] = "exec"]
               /\ pos' = [pos EXCEPT ![h] = 1]
               /\ UNCHANGED <<reply, faults>>
      BY <2>1, <3>1 DEF PrimaryTypeOK, QueryAtFirst
    <3>2. CASE /\ pc' = [pc EXCEPT ![h] = "idle"]
               /\ reply' = [reply EXCEPT ![h] = 500]
               /\ faults' = faults + 1
               /\ UNCHANGED pos
      BY <2>1, <3>2 DEF PrimaryTypeOK, QueryAtFirst
    <3>. QED
      BY <1>5, <3>1, <3>2 DEF OpenDatabase, Answer, NoFault, Fault
  <2>. QED
    BY <1>1, <2>1, <2>2 DEF PrimaryTypeOK
<1>6. ASSUME NEW h \in Handlers, RunQuery(h)
      PROVE  TypeInv'
  <2>1. pos[h] = 1 /\ ~LoopEnded(h) /\ Db(h) \in Databases /\ req[h].params \in Params
    <3>1. pos[h] = 1 /\ req[h].kind = "query" /\ req[h] \in Requests
      <4>1. pc[h] = "exec" /\ req[h].kind = "query"
        BY <1>6 DEF RunQuery
      <4>2. pos[h] = 1
        BY <4>1 DEF QueryAtFirst
      <4>3. req[h] \in Requests
        BY DEF PrimaryTypeOK
      <4>. QED
        BY <4>1, <4>2, <4>3
    <3>2. req[h].db \in Databases /\ req[h].params \in Params /\ Len(req[h].stmts) = 1
      BY <3>1, RequestParts
    <3>. QED
      BY <3>1, <3>2 DEF LoopEnded, Db
  <2>2. Stmt(h) \in Texts
    BY <2>1, StatementParts
  <2>3. pstate' \in [Databases -> DBState]
    <3>1. Exec(Stmt(h), req[h].params, pstate[Db(h)]) \in DBState
      BY <2>1, <2>2, DatabaseAssumption DEF PrimaryTypeOK
    <3>2. pstate' = pstate
          \/ pstate' = [pstate EXCEPT ![Db(h)] = Exec(Stmt(h), req[h].params, pstate[Db(h)])]
      BY <1>6 DEF RunQuery
    <3>3. pstate \in [Databases -> DBState]
      BY DEF PrimaryTypeOK
    <3>. QED
      BY <3>1, <3>2, <3>3, ExceptType
  <2>4. took' \in [Handlers -> SUBSET Nat]
    <3>1. PICK t \in SUBSET {pos[h]} : took' = [took EXCEPT ![h] = t] \/ took' = took
      BY <1>6 DEF RunQuery
    <3>2. t \in SUBSET Nat
      BY <2>1
    <3>3. took \in [Handlers -> SUBSET Nat]
      BY DEF PrimaryTypeOK
    <3>. QED
      BY <3>1, <3>2, <3>3, ExceptType
  <2>5. faults' \in Nat
    BY <1>6 DEF RunQuery, Fault, NoFault
  <2>6. UNCHANGED <<req, pos, ids, lock, dirty, accepted, log>>
    BY <1>6 DEF RunQuery
  <2>7. /\ pc' = [pc EXCEPT ![h] = "idle"]
        /\ reply' = [reply EXCEPT ![h] = 200]
    BY <1>6 DEF RunQuery, Answer
  <2>8. QueryAtFirst'
    BY <2>6, <2>7 DEF PrimaryTypeOK, QueryAtFirst
  <2>. QED
    BY <1>1, <2>3, <2>4, <2>5, <2>6, <2>7, <2>8 DEF PrimaryTypeOK
<1>7. ASSUME NEW h \in Handlers, TxStatement(h)
      PROVE  TypeInv'
  <2>1. Stmt(h) \in Texts /\ Db(h) \in Databases
    BY <1>7, StatementParts, RequestParts DEF TxStatement, PrimaryTypeOK, Db
  <2>2. View(h) \in DBState
    BY <2>1 DEF View, PrimaryTypeOK
  <2>3. dirty' \in [Databases -> DBState]
    <3>1. Exec(Stmt(h), NoParams, View(h)) \in DBState
      BY <2>1, <2>2, DatabaseAssumption
    <3>2. dirty' = dirty \/ dirty' = [dirty EXCEPT ![Db(h)] = Exec(Stmt(h), NoParams, View(h))]
      BY <1>7 DEF TxStatement
    <3>3. dirty \in [Databases -> DBState]
      BY DEF PrimaryTypeOK
    <3>. QED
      BY <3>1, <3>2, <3>3, ExceptType
  <2>4. lock' \in [Databases -> Handlers \cup {NoHandler}]
    <3>1. lock' = lock \/ lock' = [lock EXCEPT ![Db(h)] = h]
      BY <1>7 DEF TxStatement
    <3>2. lock \in [Databases -> Handlers \cup {NoHandler}]
      BY DEF PrimaryTypeOK
    <3>. QED
      BY <3>1, <3>2, ExceptType
  <2>5. took' \in [Handlers -> SUBSET Nat]
    <3>1. PICK t \in SUBSET Nat : took' = [took EXCEPT ![h] = t] \/ took' = took
      <4>1. took[h] \cup {pos[h]} \in SUBSET Nat
        BY DEF PrimaryTypeOK
      <4>. QED
        BY <1>7, <4>1 DEF TxStatement
    <3>2. took \in [Handlers -> SUBSET Nat]
      BY DEF PrimaryTypeOK
    <3>. QED
      BY <3>1, <3>2, ExceptType
  <2>6. faults' \in Nat
    BY <1>7 DEF TxStatement, Fault, NoFault
  <2>7. /\ pos' = [pos EXCEPT ![h] = @ + 1]
        /\ UNCHANGED <<pc, reply, req, ids, pstate, accepted, log>>
    BY <1>7 DEF TxStatement, NextStatement
  <2>8. QueryAtFirst'
    BY <1>7, <2>7 DEF TxStatement, PrimaryTypeOK, QueryAtFirst
  <2>. QED
    BY <1>1, <2>3, <2>4, <2>5, <2>6, <2>7, <2>8 DEF PrimaryTypeOK
<1>8. ASSUME NEW h \in Handlers, TxCommit(h)
      PROVE  TypeInv'
  BY <1>1, <1>8, DatabaseAssumption
     DEF TxCommit, Release, Answer, NoFault, PrimaryTypeOK, QueryAtFirst
<1>9. ASSUME NEW h \in Handlers, TxRollback(h)
      PROVE  TypeInv'
  BY <1>1, <1>9, DatabaseAssumption, FaultAssumption
     DEF TxRollback, Release, Answer, Fault, PrimaryTypeOK, QueryAtFirst
<1>10. ASSUME PrimaryCrash
       PROVE  TypeInv'
  BY <1>1, <1>10, DatabaseAssumption, FaultAssumption
     DEF PrimaryCrash, Fault, PrimaryTypeOK, QueryAtFirst
<1>. QED
  BY <1>2, <1>3, <1>4, <1>5, <1>6, <1>7, <1>8, <1>9, <1>10 DEF PrimaryNext, Serve, HandlerStep

\* Steps of the replica.
LEMMA ReplicaTypes ==
  ASSUME TypeInv, ReplicaNext, UNCHANGED primaryVars
  PROVE  TypeInv'
<1> USE DEF TypeInv, TypeOK
<1>1. PrimaryTypeOK' /\ QueryAtFirst'
  BY DEF primaryVars, handlerVars, storeVars, PrimaryTypeOK, QueryAtFirst
<1>2. faults' \in Nat /\ log' = log
  BY DEF ReplicaNext, ReplicaLoop, ReplicaProcess, Tick, LoopEnds, Poll, PollFails, Apply,
         ApplyFails, SaveProgress, StartReplica, StopReplica, CloseDatabases, CloseSystemDB, Exit, ReplicaCrash,
         Fault, NoFault
<1>3. CASE Poll
  <2>1. PICK upto \in lastID..Least(lastID + BatchLimit, Len(log)) :
           /\ batch' = GetReplicationLog(lastID, upto)
           /\ loop' = IF upto = lastID THEN "wait" ELSE "apply"
    BY <1>3 DEF Poll
  <2>2. lastID \in Nat /\ upto \in lastID..Len(log)
    BY <2>1, BatchAssumption DEF ReplicaTypeOK, Least
  <2>3. batch' \in Seq(LogEntry)
    BY <2>1, <2>2, AnswerParts
  <2>. QED
    BY <1>1, <1>2, <1>3, <2>1, <2>3 DEF Poll, ReplicaTypeOK
<1>4. CASE Apply
  <2>1. next \in 1..Len(batch) /\ batch[next] \in LogEntry
    BY <1>4 DEF Apply, BatchEnded, ReplicaTypeOK
  <2>2. /\ batch[next].id \in Nat
        /\ batch[next].db \in Databases
        /\ batch[next].q \in Texts
    BY <2>1 DEF LogEntry
  <2>3. rstate' \in [Databases -> DBState]
    <3>1. Exec(batch[next].q, NoParams, rstate[batch[next].db]) \in DBState
      BY <2>2, DatabaseAssumption DEF ReplicaTypeOK
    <3>2. \/ rstate' = rstate
          \/ rstate' = [rstate EXCEPT ![batch[next].db] =
                          Exec(batch[next].q, NoParams, rstate[batch[next].db])]
      BY <1>4 DEF Apply
    <3>3. rstate \in [Databases -> DBState]
      BY DEF ReplicaTypeOK
    <3>. QED
      BY <3>1, <3>2, <3>3, ExceptType
  <2>4. /\ attempts' \in Seq(Nat) /\ lastID' \in Nat /\ next' \in Nat \ {0}
        /\ failed' \subseteq Nat /\ process' \in {process, "dbsClosed"}
    <3>1. lastID' = batch[next].id /\ next' = next + 1 /\ attempts' = Append(attempts, batch[next].id)
      BY <1>4 DEF Apply
    <3>2. attempts \in Seq(Nat) /\ next \in Nat /\ failed \subseteq Nat
      BY DEF ReplicaTypeOK
    <3>3. failed' \in {failed, failed \cup {batch[next].id}} /\ process' \in {process, "dbsClosed"}
      BY <1>4 DEF Apply
    <3>. QED
      BY <2>2, <3>1, <3>2, <3>3
  <2>. QED
    BY <1>1, <1>2, <1>4, <2>3, <2>4 DEF Apply, ReplicaTypeOK
<1>5. CASE Tick \/ LoopEnds \/ PollFails \/ ApplyFails
  <2>1. CASE Tick \/ LoopEnds
    BY <1>1, <1>2, <2>1 DEF Tick, LoopEnds, ReplicaTypeOK
  <2>2. CASE PollFails
    BY <1>1, <1>2, <2>2 DEF PollFails, Return, ReplicaTypeOK
  <2>3. CASE ApplyFails
    BY <1>1, <1>2, <2>3 DEF ApplyFails, Return, ReplicaTypeOK
  <2>. QED
    BY <1>5, <2>1, <2>2, <2>3
<1>6. CASE SaveProgress
  BY <1>1, <1>2, <1>6 DEF SaveProgress, Return, ReplicaTypeOK
<1>7. CASE StartReplica
  BY <1>1, <1>2, <1>7 DEF StartReplica, ReplicaTypeOK
<1>8. CASE StopReplica \/ CloseDatabases \/ CloseSystemDB \/ Exit \/ ReplicaCrash
  <2>1. CASE StopReplica \/ CloseDatabases \/ CloseSystemDB
    BY <1>1, <1>2, <2>1 DEF StopReplica, CloseDatabases, CloseSystemDB, ReplicaTypeOK
  <2>2. CASE Exit
    BY <1>1, <1>2, <2>2 DEF Exit, Return, ReplicaTypeOK
  <2>3. CASE ReplicaCrash
    BY <1>1, <1>2, <2>3 DEF ReplicaCrash, Return, ReplicaTypeOK
  <2>. QED
    BY <1>8, <2>1, <2>2, <2>3
<1>. QED
  BY <1>3, <1>4, <1>5, <1>6, <1>7, <1>8 DEF ReplicaNext, ReplicaLoop, ReplicaProcess

LEMMA TypeStep == TypeInv /\ [Next]_vars => TypeInv'
<1>1. ASSUME TypeInv, UNCHANGED vars PROVE TypeInv'
  BY <1>1 DEF vars, primaryVars, handlerVars, storeVars, replicaVars, TypeInv, TypeOK,
              PrimaryTypeOK, ReplicaTypeOK, QueryAtFirst
<1>. QED
  BY <1>1, PrimaryTypes, ReplicaTypes DEF Next

LEMMA TypeAlways == Spec => []TypeInv
BY TypeInit, TypeStep, PTL DEF Spec

\* Every variable of the primary, the log and the replica keeps its type, under
\* every interleaving of handlers, loop and faults.
THEOREM TypeCorrect == Spec => []TypeOK
<1>1. TypeInv => TypeOK
  BY DEF TypeInv
<1>. QED
  BY <1>1, TypeAlways, PTL

-----------------------------------------------------------------------------
(* The replica ships the log.                                              *)

\* Why the loop takes the log in turn: ids are places in the log, and what is
\* left of the answer it works on are the rows right after lastID, although
\* the log has grown since and although lastID moves without being saved.
InTurn ==
  /\ IdsAreIndexes
  /\ lastID <= Len(log)
  /\ appliedID <= lastID
  /\ loop = "apply" =>
       \A i \in DOMAIN batch :
         i >= next => /\ batch[i].id = lastID + 1 + (i - next)
                      /\ batch[i].id <= Len(log)

LEMMA InTurnInit == Init => InTurn
BY DEF Init, WriteLogInit, ReplicaInit, InTurn, IdsAreIndexes

\* The primary appends a row or leaves the log alone.
LEMMA PrimaryWrites ==
  ASSUME TypeInv, PrimaryNext
  PROVE  \/ log' = log
         \/ \E e \in LogEntry : e.id = Len(log) + 1 /\ log' = Append(log, e)
<1> SUFFICES ASSUME log' # log
             PROVE  \E e \in LogEntry : e.id = Len(log) + 1 /\ log' = Append(log, e)
  OBVIOUS
<1>1. PICK h \in Handlers : LogStatement(h)
  BY DEF PrimaryNext, Serve, HandlerStep, Refuse, Accept, Take, OpenDatabase, RunQuery, TxStatement,
         TxCommit, TxRollback, PrimaryCrash
<1>2. LogReplication(Db(h), Stmt(h))
  BY <1>1 DEF LogStatement
<1>3. Stmt(h) \in Texts /\ Db(h) \in Databases
  BY <1>1, StatementParts, RequestParts DEF LogStatement, TypeInv, TypeOK, PrimaryTypeOK, Db
<1>4. [id |-> Len(log) + 1, db |-> Db(h), q |-> Stmt(h)] \in LogEntry
  BY <1>3 DEF LogEntry, TypeInv, TypeOK
<1>. QED
  BY <1>2, <1>4 DEF LogReplication

LEMMA InTurnStep == TypeInv /\ InTurn /\ [Next]_vars => InTurn'
<1> SUFFICES ASSUME TypeInv, InTurn, [Next]_vars PROVE InTurn'
  OBVIOUS
<1>1. /\ log \in Seq(LogEntry) /\ Len(log) \in Nat
      /\ batch \in Seq(LogEntry) /\ Len(batch) \in Nat
      /\ lastID \in Nat /\ appliedID \in Nat /\ next \in Nat \ {0}
  BY DEF TypeInv, TypeOK, ReplicaTypeOK
<1>2. CASE PrimaryNext /\ UNCHANGED replicaVars
  <2>1. CASE log' = log
    BY <1>2, <2>1 DEF InTurn, IdsAreIndexes, replicaVars
  <2>2. CASE log' # log
    <3>1. PICK e \in LogEntry : e.id = Len(log) + 1 /\ log' = Append(log, e)
      BY <1>2, <2>2, PrimaryWrites
    <3>2. /\ Len(log') = Len(log) + 1
          /\ \A i \in 1..Len(log) : log'[i] = log[i]
          /\ log'[Len(log) + 1] = e
      BY <1>1, <3>1
    <3>3. IdsAreIndexes'
      BY <1>1, <3>1, <3>2 DEF InTurn, IdsAreIndexes
    <3>4. \A i \in DOMAIN batch : batch[i].id \in Nat
      <4>1. \A i \in DOMAIN batch : batch[i] \in LogEntry
        BY <1>1
      <4>. QED
        BY <4>1 DEF LogEntry
    <3>. QED
      BY <1>1, <1>2, <3>2, <3>3, <3>4 DEF InTurn, replicaVars
  <2>. QED
    BY <2>1, <2>2
<1>3. CASE ReplicaNext /\ UNCHANGED primaryVars
  <2>1. log' = log
    BY <1>3 DEF ReplicaNext, ReplicaLoop, ReplicaProcess, Tick, LoopEnds, Poll, PollFails, Apply,
                ApplyFails, SaveProgress, StartReplica, StopReplica, CloseDatabases, CloseSystemDB, Exit,
                ReplicaCrash
  <2>2. IdsAreIndexes'
    BY <2>1 DEF InTurn, IdsAreIndexes
  <2>3. CASE Poll
    <3>1. PICK upto \in lastID..Least(lastID + BatchLimit, Len(log)) :
             batch' = GetReplicationLog(lastID, upto)
      BY <2>3 DEF Poll
    <3>2. upto \in lastID..Len(log)
      BY <3>1, <1>1, BatchAssumption DEF Least
    <3>3. /\ DOMAIN batch' = 1..(upto - lastID)
          /\ \A i \in 1..(upto - lastID) : batch'[i] = log[lastID + i]
      <4>1. /\ batch' \in Seq(LogEntry) /\ Len(batch') = upto - lastID
            /\ \A i \in 1..(upto - lastID) : batch'[i] = log[lastID + i]
        BY <3>1, <3>2, <1>1, AnswerParts
      <4>. QED
        BY <4>1
    <3>4. \A i \in 1..(upto - lastID) : batch'[i].id = lastID + i
      BY <3>2, <3>3, <1>1 DEF InTurn, IdsAreIndexes
    <3>5. next' = 1 /\ lastID' = lastID /\ appliedID' = appliedID
      BY <2>3 DEF Poll
    <3>. QED
      BY <1>1, <2>1, <2>2, <3>2, <3>3, <3>4, <3>5 DEF InTurn
  <2>4. CASE Apply
    <3>0. loop = "apply" /\ next \in DOMAIN batch
      BY <2>4, <1>1 DEF Apply, BatchEnded
    <3>1. next \in DOMAIN batch /\ batch[next].id = lastID + 1 /\ lastID + 1 <= Len(log)
      BY <3>0, <1>1 DEF InTurn
    <3>2. /\ lastID' = lastID + 1 /\ next' = next + 1
          /\ UNCHANGED <<loop, batch, appliedID>>
      BY <2>4, <3>1 DEF Apply
    <3>3. ASSUME NEW i \in DOMAIN batch', i >= next'
          PROVE  batch'[i].id = lastID' + 1 + (i - next') /\ batch'[i].id <= Len(log)
      <4>1. i \in DOMAIN batch /\ i \in Nat /\ i >= next
        BY <3>2, <3>3, <1>1
      <4>2. batch[i].id = lastID + 1 + (i - next) /\ batch[i].id <= Len(log)
        BY <4>1, <2>4 DEF Apply, InTurn
      <4>3. lastID + 1 + 1 + (i - (next + 1)) = lastID + 1 + (i - next)
        BY <1>1, <4>1
      <4>. QED
        BY <4>2, <4>3, <3>2
    <3>4. appliedID' <= lastID' /\ lastID' <= Len(log')
      BY <3>1, <3>2, <2>1, <1>1 DEF InTurn
    <3>. QED
      BY <2>1, <2>2, <3>3, <3>4 DEF InTurn
  <2>5. CASE SaveProgress \/ PollFails \/ ApplyFails
    <3>1. /\ loop' # "apply" /\ lastID' = lastID
          /\ appliedID' \in {appliedID, lastID}
      BY <2>5 DEF SaveProgress, PollFails, ApplyFails, Return
    <3>. QED
      BY <1>1, <2>1, <2>2, <3>1 DEF InTurn
  <2>6. CASE StartReplica
    <3>1. appliedID' = appliedID /\ lastID' \in {lastID, appliedID} /\ batch' = batch
          /\ (loop' = "apply" => loop = "apply" /\ lastID' = lastID) /\ next' = next
      BY <2>6 DEF StartReplica
    <3>. QED
      BY <1>1, <2>1, <2>2, <3>1 DEF InTurn
  <2>7. CASE Tick \/ LoopEnds \/ Exit \/ ReplicaCrash
    <3>1. loop' # "apply" /\ UNCHANGED <<lastID, appliedID>>
      BY <2>7 DEF Tick, LoopEnds, Exit, ReplicaCrash, Return
    <3>. QED
      BY <1>1, <2>1, <2>2, <3>1 DEF InTurn
  <2>8. CASE StopReplica \/ CloseDatabases \/ CloseSystemDB
    BY <2>1, <2>2, <2>8 DEF StopReplica, CloseDatabases, CloseSystemDB, InTurn
  <2>. QED
    BY <1>3, <2>3, <2>4, <2>5, <2>6, <2>7, <2>8 DEF ReplicaNext, ReplicaLoop, ReplicaProcess
<1>4. CASE UNCHANGED vars
  BY <1>4 DEF vars, replicaVars, InTurn, IdsAreIndexes
<1>. QED
  BY <1>2, <1>3, <1>4 DEF Next

LEMMA InTurnAlways == Spec => []InTurn
BY InTurnInit, InTurnStep, TypeAlways, PTL DEF Spec

\* Every step of the two servers is a step of LogShipping or invisible to it.
LEMMA ShippingStep ==
  TypeInv /\ TypeInv' /\ InTurn /\ [Next]_vars => [LS!LSNext]_(LS!lsVars)
<1> SUFFICES ASSUME TypeInv, TypeInv', InTurn, [Next]_vars PROVE [LS!LSNext]_(LS!lsVars)
  OBVIOUS
<1> USE DEF LS!lsVars
<1>1. /\ log \in Seq(LogEntry) /\ Len(log) \in Nat /\ log' \in Seq(LogEntry)
      /\ batch \in Seq(LogEntry) /\ lastID \in Nat /\ next \in Nat \ {0}
  BY DEF TypeInv, TypeOK, ReplicaTypeOK
<1>2. CASE PrimaryNext /\ UNCHANGED replicaVars
  <2>1. UNCHANGED <<attempts, lastID, appliedID>>
    BY <1>2 DEF replicaVars
  <2>2. CASE log' = log
    BY <2>1, <2>2
  <2>3. CASE log' # log
    <3>1. PICK e \in LogEntry : log' = Append(log, e)
      BY <1>2, <2>3, PrimaryWrites
    <3>2. Len(log') = Len(log) + 1 /\ SubSeq(log', 1, Len(log)) = log
      BY <1>1, <3>1
    <3>3. LS!Write
      BY <1>1, <2>1, <3>2 DEF LS!Write
    <3>. QED
      BY <3>3 DEF LS!LSNext
  <2>. QED
    BY <2>2, <2>3
<1>3. CASE ReplicaNext /\ UNCHANGED primaryVars
  <2>1. CASE Apply
    <3>1. next \in DOMAIN batch /\ batch[next].id = lastID + 1 /\ lastID + 1 <= Len(log)
      BY <2>1, <1>1 DEF Apply, BatchEnded, InTurn
    <3>2. LS!Deliver
      BY <2>1, <3>1, <1>1 DEF Apply, LS!Deliver
    <3>. QED
      BY <3>2 DEF LS!LSNext
  <2>2. CASE SaveProgress
    BY <2>2 DEF SaveProgress, LS!Checkpoint, LS!LSNext
  <2>3. CASE StartReplica
    BY <2>3 DEF StartReplica, LS!FallBack, LS!LSNext
  <2>4. CASE ~Apply /\ ~SaveProgress /\ ~StartReplica
    BY <1>3, <2>4 DEF ReplicaNext, ReplicaLoop, ReplicaProcess, Tick, LoopEnds, Poll, PollFails,
                      ApplyFails, StopReplica, CloseDatabases, CloseSystemDB, Exit, ReplicaCrash
  <2>. QED
    BY <2>1, <2>2, <2>3, <2>4
<1>4. CASE UNCHANGED vars
  BY <1>4 DEF vars, replicaVars
<1>. QED
  BY <1>2, <1>3, <1>4 DEF Next

\* Replication implements LogShipping: the replica's loop, its row of
\* replication_state and the log of the primary behave like a reader that takes
\* the entries in order and may fall back to its checkpoint, whatever is lost,
\* fails, stops or crashes.
THEOREM ShippingCorrect == Spec => ShipsTheLog
<1>1. Init => LS!LSInit
  BY DEF Init, WriteLogInit, ReplicaInit, LS!LSInit
<1>. QED
  BY <1>1, ShippingStep, TypeAlways, InTurnAlways, PTL DEF Spec, ShipsTheLog, LS!LSSpec

Reader == INSTANCE LogShipping_proofs
            WITH Entries <- LogEntry, delivered <- attempts, cursor <- lastID,
                 checkpoint <- appliedID

\* The replica's executor is given the rows of the log in turn and every row up
\* to lastID, in spite of every fault: what LogShipping promises, inherited.
THEOREM EveryEntryInTurnCorrect == Spec => []EveryEntryInTurn
<1>1. ShipsTheLog => []Reader!LSInv
  BY Reader!LSCorrect, PTL
     DEF ShipsTheLog, LS!LSSpec, LS!LSInit, LS!LSNext, LS!lsVars, LS!Write, LS!Deliver,
         LS!Checkpoint, LS!FallBack, Reader!LSSpec, Reader!LSInit, Reader!LSNext, Reader!lsVars,
         Reader!Write, Reader!Deliver, Reader!Checkpoint, Reader!FallBack
<1>2. Reader!LSInv => EveryEntryInTurn
  BY DEF Reader!LSInv, Reader!NoGap, Reader!Complete, EveryEntryInTurn, LS!NoGap, LS!Complete
<1>. QED
  BY <1>1, <1>2, ShippingCorrect, PTL

\* replication_state claims only rows the executor has been given.
THEOREM ProgressIsDoneCorrect == Spec => []ProgressIsDone
<1>1. TypeInv /\ InTurn /\ EveryEntryInTurn => ProgressIsDone
  BY DEF TypeInv, TypeOK, ReplicaTypeOK, InTurn, EveryEntryInTurn, LS!Complete, ProgressIsDone
<1>. QED
  BY <1>1, TypeAlways, InTurnAlways, EveryEntryInTurnCorrect, PTL

\* last_applied_id never goes back.
THEOREM ProgressNeverBackCorrect == Spec => ProgressNeverBack
<1>1. TypeInv /\ InTurn /\ [Next]_vars => [appliedID' >= appliedID]_vars
  <2> SUFFICES ASSUME TypeInv, InTurn, Next PROVE appliedID' >= appliedID
    BY DEF vars
  <2>1. appliedID \in Nat /\ lastID \in Nat /\ appliedID <= lastID
    BY DEF TypeInv, TypeOK, ReplicaTypeOK, InTurn
  <2>2. appliedID' \in {appliedID, lastID}
    BY DEF Next, ReplicaNext, ReplicaLoop, ReplicaProcess, Tick, LoopEnds, Poll, PollFails, Apply,
           ApplyFails, SaveProgress, StartReplica, StopReplica, CloseDatabases, CloseSystemDB, Exit,
           ReplicaCrash, replicaVars
  <2>. QED
    BY <2>1, <2>2
<1>. QED
  BY <1>1, TypeAlways, InTurnAlways, PTL DEF Spec, ProgressNeverBack

-----------------------------------------------------------------------------
(* The replica has what the primary has.                                   *)

\* A primary that serves its requests one by one, without a fault of its own and
\* without arguments (the log does not keep them).
OneByOne ==
  /\ \E h : Handlers = {h}
  /\ Faults \cap {"log", "open", "sql", "cancel", "primaryCrash"} = {}
  /\ \A r \in Requests : r.params = NoParams

\* The databases after an entry of the log.
After(e, s) == [s EXCEPT ![e.db] = Exec(e.q, NoParams, @)]

\* f[n] is what the first n entries of the log make of empty databases.
Replays(f) ==
  /\ f \in [Nat -> [Databases -> DBState]]
  /\ f[0] = [d \in Databases |-> EmptyDB]
  /\ \A n \in DOMAIN log : f[n] = After(log[n], f[n - 1])

\* The log had g[i] entries before the handler came to statement i, and its first m
\* statements are the last entries.
LoggedFrom(g, h, m) ==
  /\ g[1] <= Len(log) /\ g[m + 1] = Len(log)
  /\ \A i \in 1..m :
       IF IsWriteQuery(req[h].stmts[i])
       THEN /\ g[i + 1] = g[i] + 1 /\ g[i] + 1 \in DOMAIN log
            /\ log[g[i] + 1].db = Db(h) /\ log[g[i] + 1].q = req[h].stmts[i]
       ELSE g[i + 1] = g[i]

\* The primary's databases are those of the log without the statements that the
\* handler has yet to run.
HandlerAt(f, g, h) ==
  /\ pc[h] = "idle" => pstate = f[Len(log)]
  /\ pc[h] # "idle" => pos[h] \in 1..(Len(req[h].stmts) + 1)
  /\ pc[h] = "log" => LoggedFrom(g, h, pos[h] - 1) /\ pstate = f[g[1]]
  /\ pc[h] = "exec" => /\ LoggedFrom(g, h, Len(req[h].stmts))
                       /\ f[g[pos[h]]] = [pstate EXCEPT ![Db(h)] = View(h)]
  /\ \A d \in Databases :
       lock[d] # NoHandler => /\ lock[d] = h /\ d = Db(h)
                              /\ pc[h] = "exec" /\ req[h].kind = "tx"

\* An answer holds rows of the log.
RowsAreRows ==
  loop = "apply" => \A i \in DOMAIN batch : batch[i].id \in DOMAIN log /\ batch[i] = log[batch[i].id]

\* The replica's databases are those of the entries it was handed, if it was handed
\* none a second time and none of them failed there for a reason of its own.
Once == \A k \in DOMAIN attempts : attempts[k] = k
ReplicaAt(f) == Once /\ failed = {} => Len(attempts) <= Len(log) /\ rstate = f[Len(attempts)]

Mirror ==
  /\ RowsAreRows
  /\ \E f \in [Nat -> [Databases -> DBState]], g \in [Nat -> Nat], h \in Handlers :
       Replays(f) /\ HandlerAt(f, g, h) /\ ReplicaAt(f)

LEMMA MirrorInit ==
  ASSUME OneByOne, Init
  PROVE  Mirror
<1>1. PICK h \in Handlers : Handlers = {h}
  BY DEF OneByOne
<1>2. PICK f : f = [n \in Nat |-> [d \in Databases |-> EmptyDB]]
  OBVIOUS
<1>3. PICK g : g = [n \in Nat |-> 0]
  OBVIOUS
<1>4. f \in [Nat -> [Databases -> DBState]] /\ g \in [Nat -> Nat]
  BY <1>2, <1>3, DatabaseAssumption
<1>5. /\ log = <<>> /\ pc[h] = "idle" /\ pstate = [d \in Databases |-> EmptyDB]
      /\ lock = [d \in Databases |-> NoHandler] /\ attempts = <<>>
      /\ rstate = [d \in Databases |-> EmptyDB] /\ loop = "ended"
  BY DEF Init, WriteLogInit, PrimaryInit, ReplicaInit
<1>6. Replays(f)
  <2>1. DOMAIN log = {}
    BY <1>5
  <2>2. f[0] = [d \in Databases |-> EmptyDB]
    BY <1>2
  <2>. QED
    BY <1>4, <2>1, <2>2 DEF Replays
<1>7. HandlerAt(f, g, h)
  BY <1>2, <1>5 DEF HandlerAt
<1>8. ReplicaAt(f)
  BY <1>2, <1>5 DEF ReplicaAt
<1>. QED
  BY <1>4, <1>5, <1>6, <1>7, <1>8 DEF Mirror, RowsAreRows

\* A statement does to the handler's view of its database what its place in the log
\* does to the contents of the log.
LEMMA StatementReplayed ==
  ASSUME OneByOne, TypeInv, NEW h \in Handlers,
         NEW f \in [Nat -> [Databases -> DBState]], NEW g \in [Nat -> Nat], Replays(f),
         LoggedFrom(g, h, Len(req[h].stmts)), ~LoopEnded(h),
         f[g[pos[h]]] = [pstate EXCEPT ![Db(h)] = View(h)]
  PROVE  f[g[pos[h] + 1]] = [pstate EXCEPT ![Db(h)] = Exec(Stmt(h), NoParams, View(h))]
<1>1. PICK i, q, d, v : i = pos[h] /\ q = Stmt(h) /\ d = Db(h) /\ v = View(h)
  OBVIOUS
<1>2. /\ q \in Texts /\ d \in Databases /\ i \in 1..Len(req[h].stmts) /\ q = req[h].stmts[i]
      /\ i \in Nat /\ pstate \in [Databases -> DBState]
  <2>1. q \in Texts
    BY <1>1, StatementParts DEF TypeInv, TypeOK
  <2>2. req[h] \in Requests /\ pos[h] \in Nat \ {0} /\ pstate \in [Databases -> DBState]
    BY DEF TypeInv, TypeOK, PrimaryTypeOK
  <2>3. d \in Databases /\ Len(req[h].stmts) \in Nat
    <3>1. req[h].db \in Databases /\ req[h].stmts \in Seq(Texts)
      BY <2>2, RequestParts
    <3>2. Len(req[h].stmts) \in Nat
      BY <3>1, LengthIsNat
    <3>. QED
      BY <1>1, <3>1, <3>2 DEF Db
  <2>4. i \in 1..Len(req[h].stmts)
    <3>1. PICK m \in Nat : m = Len(req[h].stmts)
      BY <2>3
    <3>2. i \in Nat \ {0} /\ ~(i > m)
      BY <1>1, <2>2, <3>1 DEF LoopEnded
    <3>. QED
      BY <3>1, <3>2
  <2>. QED
    BY <1>1, <2>1, <2>2, <2>3, <2>4 DEF Stmt
<1>3. v \in DBState
  BY <1>1, <1>2 DEF View, TypeInv, TypeOK, PrimaryTypeOK
<1>4. PICK s \in [Databases -> DBState] : s = f[g[i]]
  BY <1>2
<1>5. s = [pstate EXCEPT ![d] = v] /\ s[d] = v
  BY <1>1, <1>2, <1>4
<1>6. NoParams \in Params
  BY DatabaseAssumption
<1>7. CASE IsWriteQuery(q)
  <2>1. PICK n \in Nat : n = g[i] + 1
    BY <1>2
  <2>2. g[i + 1] = n /\ n \in DOMAIN log /\ log[n].db = d /\ log[n].q = q
    BY <1>1, <1>2, <1>7, <2>1 DEF LoggedFrom
  <2>3. f[n] = After(log[n], f[n - 1]) /\ n - 1 = g[i]
    <3>1. n - 1 = g[i]
      BY <1>2, <2>1
    <3>2. f[n] = After(log[n], f[n - 1])
      BY <2>2 DEF Replays
    <3>. QED
      BY <3>1, <3>2
  <2>4. f[n] = [s EXCEPT ![d] = Exec(q, NoParams, v)]
    BY <1>4, <1>5, <2>2, <2>3 DEF After
  <2>5. f[n] = [pstate EXCEPT ![d] = Exec(q, NoParams, v)]
    BY <1>2, <1>5, <2>4
  <2>. QED
    BY <1>1, <2>2, <2>5
<1>8. CASE ~IsWriteQuery(q)
  <2>1. g[i + 1] = g[i]
    BY <1>1, <1>2, <1>8 DEF LoggedFrom
  <2>2. Exec(q, NoParams, v) = v
    BY <1>2, <1>3, <1>6, <1>8, ReadAssumption
  <2>. QED
    BY <1>1, <1>4, <1>5, <2>1, <2>2
<1>. QED
  BY <1>7, <1>8

\* Places of a loop over m statements.
LEMMA Places ==
  ASSUME NEW m \in Nat
  PROVE  /\ 1 \in 1..(m + 1)
         /\ \A p \in 1..(m + 1) : p > m => p = m + 1 /\ p - 1 = m
         /\ \A p \in 1..(m + 1) : ~(p > m) => p \in 1..m /\ p + 1 \in 1..(m + 1)
OBVIOUS

\* What a step that is not a logging one makes of the handler's place.
LEMMA OtherStepsMirror ==
  ASSUME OneByOne, TypeInv, NEW h \in Handlers, Handlers = {h},
         NEW f \in [Nat -> [Databases -> DBState]], NEW g \in [Nat -> Nat],
         Replays(f), HandlerAt(f, g, h), PrimaryNext, ~LogStatement(h)
  PROVE  log' = log /\ \E k \in [Nat -> Nat] : HandlerAt(f, k, h)'
<1>1. /\ pc \in [Handlers -> {"idle", "log", "exec"}] /\ req \in [Handlers -> Requests]
      /\ pos \in [Handlers -> Nat \ {0}] /\ pstate \in [Databases -> DBState]
      /\ lock \in [Databases -> Handlers \cup {NoHandler}] /\ dirty \in [Databases -> DBState]
      /\ Len(log) \in Nat
  <2>1. PrimaryTypeOK
    BY DEF TypeInv, TypeOK
  <2>2. Len(log) \in Nat
    BY <2>1, LengthIsNat DEF PrimaryTypeOK
  <2>. QED
    BY <2>1, <2>2 DEF PrimaryTypeOK
<1>2. /\ NoHandler \notin Handlers /\ NoHandler # h
      /\ \A kind \in {"log", "open", "sql", "cancel", "primaryCrash"} : ~Fault(kind)
  BY RequestAssumption DEF OneByOne, Fault
<1>3. /\ req[h] \in Requests /\ req[h].stmts \in Seq(Texts) /\ Len(req[h].stmts) \in Nat
      /\ Db(h) \in Databases /\ req[h].params = NoParams
      /\ (req[h].kind = "query" => Len(req[h].stmts) = 1) /\ req[h].kind \in {"query", "tx"}
  BY <1>1, RequestParts DEF OneByOne, Db
<1>4. pc[h] # "exec" => \A d \in Databases : lock[d] = NoHandler
  BY DEF HandlerAt
<1>5. ASSUME NEW r \in Requests, Refuse(h, r)
      PROVE  log' = log /\ HandlerAt(f, g, h)'
  <2>1. /\ log' = log /\ pc' = pc /\ pc[h] = "idle" /\ pstate' = pstate /\ lock' = lock
    BY <1>5 DEF Refuse, storeVars
  <2>. QED
    BY <1>4, <2>1 DEF HandlerAt
<1>6. ASSUME NEW r \in Requests, Accept(h, r)
      PROVE  log' = log /\ \E k \in [Nat -> Nat] : HandlerAt(f, k, h)'
  <2>1. /\ log' = log /\ pc[h] = "idle" /\ pc'[h] = "log" /\ pstate' = pstate /\ lock' = lock
        /\ pos'[h] = 1 /\ req'[h] = r
    BY <1>1, <1>6 DEF Accept, Take, storeVars
  <2>2. Len(r.stmts) \in Nat
    BY RequestParts
  <2>3. PICK k : k = [i \in Nat |-> Len(log)]
    OBVIOUS
  <2>4. k \in [Nat -> Nat] /\ k[1] = Len(log)
    BY <1>1, <2>3
  <2>5. 1 \in 1..(Len(r.stmts) + 1)
    BY <2>2
  <2>6. pstate = f[k[1]]
    BY <2>1, <2>4 DEF HandlerAt
  <2>7. LoggedFrom(k, h, 0)'
    BY <2>1, <2>4 DEF LoggedFrom
  <2>8. HandlerAt(f, k, h)'
    BY <1>4, <2>1, <2>4, <2>5, <2>6, <2>7 DEF HandlerAt
  <2>. QED
    BY <2>1, <2>4, <2>8
<1>7. CASE OpenDatabase(h)
  <2>1. /\ log' = log /\ pc[h] = "log" /\ pc'[h] = "exec" /\ pstate' = pstate /\ lock' = lock
        /\ pos'[h] = 1 /\ req' = req /\ dirty' = dirty /\ LoopEnded(h)
    BY <1>1, <1>2, <1>7 DEF OpenDatabase, storeVars
  <2>2. pos[h] = Len(req[h].stmts) + 1 /\ pos[h] - 1 = Len(req[h].stmts)
    BY <1>3, <2>1, Places DEF HandlerAt, LoopEnded
  <2>3. LoggedFrom(g, h, Len(req[h].stmts)) /\ pstate = f[g[1]]
    BY <2>1, <2>2 DEF HandlerAt
  <2>4. lock[Db(h)] = NoHandler /\ View(h)' = pstate[Db(h)]
    BY <1>2, <1>3, <1>4, <2>1 DEF View, Db
  <2>5. [pstate EXCEPT ![Db(h)] = pstate[Db(h)]] = pstate
    BY <1>1, <1>3
  <2>6. LoggedFrom(g, h, Len(req[h].stmts))'
    BY <2>1, <2>3 DEF LoggedFrom, Db
  <2>7. f[g[1]] = [pstate EXCEPT ![Db(h)] = View(h)']
    BY <2>3, <2>4, <2>5
  <2>8. 1 \in 1..(Len(req[h].stmts) + 1)
    BY <1>3, Places
  <2>9. HandlerAt(f, g, h)'
    BY <1>4, <2>1, <2>6, <2>7, <2>8 DEF HandlerAt, Db
  <2>. QED
    BY <2>1, <2>9
<1>8. CASE RunQuery(h)
  <2>1. /\ log' = log /\ pc[h] = "exec" /\ pc'[h] = "idle" /\ lock' = lock /\ req[h].kind = "query"
        /\ pstate' = [pstate EXCEPT ![Db(h)] = Exec(Stmt(h), req[h].params, @)]
    BY <1>1, <1>2, <1>8 DEF RunQuery, Answer
  <2>2. \A d \in Databases : lock[d] = NoHandler
    BY <2>1 DEF HandlerAt
  <2>3. View(h) = pstate[Db(h)]
    BY <1>2, <1>3, <2>2 DEF View
  <2>4. pos[h] = 1 /\ Len(req[h].stmts) = 1
    BY <1>3, <2>1 DEF TypeInv, QueryAtFirst
  <2>5. ~LoopEnded(h)
    BY <2>4 DEF LoopEnded
  <2>6. LoggedFrom(g, h, Len(req[h].stmts)) /\ f[g[pos[h]]] = [pstate EXCEPT ![Db(h)] = View(h)]
    BY <2>1 DEF HandlerAt
  <2>7. f[g[pos[h] + 1]] = [pstate EXCEPT ![Db(h)] = Exec(Stmt(h), NoParams, View(h))]
    BY <2>5, <2>6, StatementReplayed
  <2>8. g[pos[h] + 1] = Len(log)
    BY <2>4, <2>6 DEF LoggedFrom
  <2>9. pstate' = f[Len(log)]
    BY <1>3, <2>1, <2>3, <2>7, <2>8
  <2>10. HandlerAt(f, g, h)'
    BY <2>1, <2>2, <2>9 DEF HandlerAt
  <2>. QED
    BY <2>1, <2>10
<1>9. CASE TxStatement(h)
  <2>1. /\ log' = log /\ pc[h] = "exec" /\ pc'[h] = "exec" /\ pc' = pc /\ req' = req /\ pstate' = pstate
        /\ pos' = [pos EXCEPT ![h] = @ + 1] /\ req[h].kind = "tx" /\ ~LoopEnded(h)
    BY <1>9 DEF TxStatement, NextStatement
  <2>2. LoggedFrom(g, h, Len(req[h].stmts)) /\ f[g[pos[h]]] = [pstate EXCEPT ![Db(h)] = View(h)]
        /\ pos[h] \in 1..(Len(req[h].stmts) + 1)
    BY <2>1 DEF HandlerAt
  <2>3. f[g[pos[h] + 1]] = [pstate EXCEPT ![Db(h)] = Exec(Stmt(h), NoParams, View(h))]
    BY <2>1, <2>2, StatementReplayed
  <2>4. pos'[h] = pos[h] + 1 /\ pos[h] + 1 \in 1..(Len(req[h].stmts) + 1)
    <3>1. pos'[h] = pos[h] + 1 /\ ~(pos[h] > Len(req[h].stmts))
      BY <1>1, <2>1 DEF LoopEnded
    <3>. QED
      BY <1>3, <2>2, <3>1, Places
  <2>5. Stmt(h) \in Texts /\ NoParams \in Params /\ View(h) \in DBState
    <3>1. Stmt(h) \in Texts
      BY <2>1, StatementParts DEF TypeInv, TypeOK
    <3>. QED
      BY <1>1, <1>3, <3>1, DatabaseAssumption DEF View
  <2>6. /\ View(h)' = Exec(Stmt(h), NoParams, View(h))
        /\ \A d \in Databases : lock'[d] # NoHandler => lock'[d] = h /\ d = Db(h)
    <3>1. CASE /\ lock' = [lock EXCEPT ![Db(h)] = h]
               /\ dirty' = [dirty EXCEPT ![Db(h)] = Exec(Stmt(h), NoParams, View(h))]
      <4>1. lock'[Db(h)] = h /\ dirty'[Db(h)] = Exec(Stmt(h), NoParams, View(h))
        BY <1>1, <1>3, <3>1
      <4>2. \A d \in Databases : lock'[d] # NoHandler => lock'[d] = h /\ d = Db(h)
        BY <1>1, <1>3, <3>1 DEF HandlerAt
      <4>. QED
        BY <2>1, <4>1, <4>2 DEF View, Db
    <3>2. CASE /\ IsWriteQuery(Stmt(h)) => SqlError(Stmt(h), NoParams, View(h))
               /\ lock' = lock /\ dirty' = dirty
      <4>1. Exec(Stmt(h), NoParams, View(h)) = View(h)
        BY <2>5, <3>2, DatabaseAssumption, ReadAssumption
      <4>2. View(h)' = View(h)
        BY <2>1, <3>2 DEF View, Db
      <4>. QED
        BY <3>2, <4>1, <4>2 DEF HandlerAt
    <3>. QED
      BY <1>2, <1>9, <3>1, <3>2 DEF TxStatement
  <2>7. LoggedFrom(g, h, Len(req[h].stmts))'
    BY <2>1, <2>2 DEF LoggedFrom, Db
  <2>8. f[g[pos[h] + 1]] = [pstate EXCEPT ![Db(h)] = View(h)']
    BY <2>3, <2>6
  <2>9. HandlerAt(f, g, h)'
    BY <2>1, <2>4, <2>6, <2>7, <2>8 DEF HandlerAt, Db
  <2>. QED
    BY <2>1, <2>9
<1>10. CASE TxCommit(h)
  <2>1. /\ log' = log /\ pc[h] = "exec" /\ pc'[h] = "idle" /\ req[h].kind = "tx" /\ LoopEnded(h)
        /\ pstate' = [d \in Databases |-> IF lock[d] = h THEN dirty[d] ELSE pstate[d]]
        /\ lock' = [d \in Databases |-> IF lock[d] = h THEN NoHandler ELSE lock[d]]
    BY <1>1, <1>10 DEF TxCommit, Answer, Release
  <2>2. /\ LoggedFrom(g, h, Len(req[h].stmts)) /\ f[g[pos[h]]] = [pstate EXCEPT ![Db(h)] = View(h)]
        /\ pos[h] \in 1..(Len(req[h].stmts) + 1)
        /\ \A d \in Databases : lock[d] # NoHandler => lock[d] = h /\ d = Db(h)
    BY <2>1 DEF HandlerAt
  <2>3. pos[h] = Len(req[h].stmts) + 1
    BY <1>3, <2>1, <2>2, Places DEF LoopEnded
  <2>4. f[Len(log)] = [pstate EXCEPT ![Db(h)] = View(h)]
    BY <2>2, <2>3 DEF LoggedFrom
  <2>5. pstate' = [pstate EXCEPT ![Db(h)] = View(h)]
    BY <1>1, <1>2, <1>3, <2>1, <2>2 DEF View
  <2>6. \A d \in Databases : lock'[d] = NoHandler
    BY <1>1, <2>1, <2>2
  <2>7. HandlerAt(f, g, h)'
    BY <2>1, <2>4, <2>5, <2>6 DEF HandlerAt
  <2>. QED
    BY <2>1, <2>7
<1>11. ~TxRollback(h) /\ ~PrimaryCrash
  BY <1>2 DEF TxRollback, PrimaryCrash
<1>12. \/ \E r \in Requests : Refuse(h, r) \/ Accept(h, r)
       \/ OpenDatabase(h) \/ RunQuery(h) \/ TxStatement(h) \/ TxCommit(h)
  BY <1>11 DEF PrimaryNext, Serve, HandlerStep
<1>. QED
  BY <1>5, <1>6, <1>7, <1>8, <1>9, <1>10, <1>12

LEMMA StepOn ==
  ASSUME NEW m \in Nat, NEW p \in 1..m
  PROVE  \A x, y : x = p + 1 /\ y = m => x - 1 = p /\ x \in 1..(y + 1)
OBVIOUS

LEMMA Counting ==
  ASSUME NEW m \in Nat, NEW l \in Nat, NEW p \in 1..m
  PROVE  /\ p \in Nat /\ p + 1 \in 1..(m + 1) /\ p - 1 + 1 = p /\ p + 1 - 1 = p
         /\ p + 1 \in Nat /\ l + 1 \in Nat /\ 1 \in 1..p
         /\ \A i \in 1..p :
              i + 1 # 1 /\ i # p + 1 /\ (i = p \/ (i \in 1..(p - 1) /\ i + 1 \in 1..p))
OBVIOUS

\* One more row: the contents go on from the last.
LEMMA ReplaysOn ==
  ASSUME log \in Seq(LogEntry), NEW e \in LogEntry, log' = Append(log, e),
         NEW f \in [Nat -> [Databases -> DBState]], Replays(f)
  PROVE  \E k \in [Nat -> [Databases -> DBState]] :
           Replays(k)' /\ \A n \in 0..Len(log) : k[n] = f[n]
<1>1. PICK m \in Nat : m = Len(log)
  OBVIOUS
<1>2. /\ DOMAIN log = 1..m /\ DOMAIN log' = 1..(m + 1) /\ log'[m + 1] = e
      /\ \A n \in 1..m : log'[n] = log[n]
  BY <1>1
<1>3. f[m] \in [Databases -> DBState]
  OBVIOUS
<1>4. e.db \in Databases /\ e.q \in Texts
  BY DEF LogEntry
<1>5. PICK s : s = After(e, f[m])
  OBVIOUS
<1>6. s \in [Databases -> DBState]
  <2>1. Exec(e.q, NoParams, f[m][e.db]) \in DBState
    BY <1>3, <1>4, DatabaseAssumption
  <2>. QED
    BY <1>3, <1>4, <1>5, <2>1, ExceptType DEF After
<1>7. m + 1 \in Nat
  BY <1>1
<1>13. PICK k : k = [f EXCEPT ![m + 1] = s]
  OBVIOUS
<1>8. k \in [Nat -> [Databases -> DBState]]
  BY <1>6, <1>7, <1>13, ExceptType
<1>9. k[m + 1] = s /\ \A n \in 0..m : k[n] = f[n]
  BY <1>1, <1>7, <1>13
<1>10. ASSUME NEW n \in 1..(m + 1) PROVE k[n] = After(log'[n], k[n - 1])
  <2>1. CASE n \in 1..m
    <3>1. k[n] = f[n] /\ k[n - 1] = f[n - 1] /\ log'[n] = log[n]
      BY <1>2, <1>9, <2>1
    <3>2. f[n] = After(log[n], f[n - 1])
      BY <1>2, <2>1 DEF Replays
    <3>. QED
      BY <3>1, <3>2
  <2>2. CASE n = m + 1
    <3>1. n - 1 = m /\ k[n - 1] = f[m]
      BY <1>9, <2>2
    <3>. QED
      BY <1>2, <1>5, <1>9, <2>2, <3>1
  <2>3. n \in 1..m \/ n = m + 1
    BY <1>1
  <2>. QED
    BY <2>1, <2>2, <2>3
<1>11. k[0] = [d \in Databases |-> EmptyDB]
  BY <1>9 DEF Replays
<1>12. Replays(k)'
  BY <1>2, <1>8, <1>10, <1>11 DEF Replays
<1>. QED
  BY <1>1, <1>8, <1>9, <1>12

\* The logging loop leaves behind where its statement is in the log.
LEMMA LogStepMirrors ==
  ASSUME OneByOne, TypeInv, NEW h \in Handlers, Handlers = {h},
         NEW f \in [Nat -> [Databases -> DBState]], NEW g \in [Nat -> Nat],
         Replays(f), HandlerAt(f, g, h), LogStatement(h)
  PROVE  \E k \in [Nat -> [Databases -> DBState]], j \in [Nat -> Nat] :
           Replays(k)' /\ HandlerAt(k, j, h)' /\ \A n \in 0..Len(log) : k[n] = f[n]
<1>1. /\ pos \in [Handlers -> Nat \ {0}] /\ log \in Seq(LogEntry) /\ Len(log) \in Nat
      /\ req[h] \in Requests
  BY DEF TypeInv, TypeOK, PrimaryTypeOK
<1>2. ~Fault("log")
  BY DEF OneByOne, Fault
<1>3. /\ pc[h] = "log" /\ pc' = pc /\ req' = req /\ pstate' = pstate /\ lock' = lock
      /\ pos'[h] = pos[h] + 1 /\ ~(pos[h] > Len(req[h].stmts))
  BY <1>1 DEF LogStatement, storeVars, LoopEnded
<1>4. PICK p, m, l : p = pos[h] /\ m = Len(req[h].stmts) /\ l = Len(log)
  OBVIOUS
<1>5. /\ p \in 1..(m + 1) /\ LoggedFrom(g, h, p - 1) /\ pstate = f[g[1]]
      /\ \A d \in Databases : lock[d] = NoHandler
  BY <1>3, <1>4 DEF HandlerAt
<1>6. /\ m \in Nat /\ l \in Nat /\ p \in Nat /\ p \in 1..m /\ p + 1 \in 1..(m + 1)
      /\ p - 1 + 1 = p /\ p + 1 - 1 = p /\ p + 1 \in Nat /\ l + 1 \in Nat /\ 1 \in 1..p
      /\ \A i \in 1..p : i + 1 # 1 /\ i # p + 1 /\ (i = p \/ (i \in 1..(p - 1) /\ i + 1 \in 1..p))
  <2>1. req[h].stmts \in Seq(Texts) /\ Len(log) \in Nat
    BY <1>1, RequestParts
  <2>2. m \in Nat /\ l \in Nat
    <3>1. Len(req[h].stmts) \in Nat
      BY <2>1, LengthIsNat
    <3>. QED
      BY <1>4, <2>1, <3>1
  <2>3. p \in 1..(m + 1) /\ ~(p > m)
    BY <1>3, <1>4, <1>5
  <2>4. p \in 1..m
    BY <2>2, <2>3
  <2>. QED
    BY <2>2, <2>4, Counting
<1>7. \A i \in 1..(p - 1) :
         IF IsWriteQuery(req[h].stmts[i])
         THEN /\ g[i + 1] = g[i] + 1 /\ g[i] + 1 \in DOMAIN log
              /\ log[g[i] + 1].db = Db(h) /\ log[g[i] + 1].q = req[h].stmts[i]
         ELSE g[i + 1] = g[i]
  BY <1>5 DEF LoggedFrom
<1>11. g[p] = l /\ g[1] <= l
  BY <1>4, <1>5, <1>6 DEF LoggedFrom
<1>12. /\ p \in 1..p /\ l + 1 \in 1..(l + 1)
       /\ \A x \in 1..l : x \in 1..(l + 1)
  <2>1. p \in Nat /\ l \in Nat /\ p \in 1..m
    BY <1>6
  <2>. QED
    BY <2>1
<1>13. /\ pc'[h] = "log" /\ pos'[h] - 1 = p /\ pos'[h] \in 1..(Len(req'[h].stmts) + 1)
       /\ \A d \in Databases : lock'[d] = NoHandler
  <2>1. pos'[h] = p + 1 /\ Len(req'[h].stmts) = m /\ p + 1 - 1 = p /\ p + 1 \in 1..(m + 1)
    BY <1>3, <1>4, <1>6
  <2>2. pc'[h] = "log" /\ \A d \in Databases : lock'[d] = NoHandler
    BY <1>3, <1>5
  <2>3. \A x, y : x = p + 1 /\ y = m => x - 1 = p /\ x \in 1..(y + 1)
    BY <1>6, StepOn
  <2>4. pos'[h] - 1 = p /\ pos'[h] \in 1..(Len(req'[h].stmts) + 1)
    BY <2>1, <2>3, Zenon
  <2>. QED
    BY <2>2, <2>4
<1>8. Stmt(h) \in Texts /\ Db(h) \in Databases /\ Stmt(h) = req[h].stmts[p]
  <2>1. Stmt(h) \in Texts
    BY <1>3, StatementParts DEF LoopEnded, TypeInv, TypeOK
  <2>2. Db(h) \in Databases
    BY <1>1, RequestParts DEF Db
  <2>. QED
    BY <1>4, <2>1, <2>2 DEF Stmt
<1>9. CASE IsWriteQuery(Stmt(h)) /\ LogReplication(Db(h), Stmt(h))
  <2>1. PICK e : e = [id |-> l + 1, db |-> Db(h), q |-> Stmt(h)]
    OBVIOUS
  <2>2. e \in LogEntry /\ e.db = Db(h) /\ e.q = Stmt(h)
    <3>1. l + 1 \in Nat
      BY <1>6
    <3>. QED
      BY <1>8, <2>1, <3>1 DEF LogEntry
  <2>3. log' = Append(log, e)
    BY <1>4, <1>9, <2>1 DEF LogReplication
  <2>4. log \in Seq(LogEntry)
    BY <1>1
  <2>5. PICK k \in [Nat -> [Databases -> DBState]] :
          Replays(k)' /\ \A n \in 0..Len(log) : k[n] = f[n]
    BY <2>2, <2>3, <2>4, ReplaysOn
  <2>6. PICK j : j = [g EXCEPT ![p + 1] = l + 1]
    OBVIOUS
  <2>7. /\ j \in [Nat -> Nat] /\ j[p + 1] = l + 1 /\ \A i \in 1..p : j[i] = g[i]
    <3>1. p + 1 \in Nat /\ l + 1 \in Nat
      BY <1>6
    <3>2. j \in [Nat -> Nat] /\ j[p + 1] = l + 1
      BY <2>6, <3>1
    <3>3. \A i \in 1..p : i \in Nat /\ i # p + 1
      BY <1>6
    <3>. QED
      BY <2>6, <3>2, <3>3
  <2>8. /\ Len(log') = l + 1 /\ DOMAIN log' = 1..(l + 1) /\ DOMAIN log = 1..l /\ log'[l + 1] = e
        /\ \A n \in 1..l : log'[n] = log[n]
    BY <1>1, <1>4, <2>3
  <2>9. ASSUME NEW i \in 1..p
        PROVE  IF IsWriteQuery(req[h].stmts[i])
               THEN /\ j[i + 1] = j[i] + 1 /\ j[i] + 1 \in DOMAIN log'
                    /\ log'[j[i] + 1].db = Db(h) /\ log'[j[i] + 1].q = req[h].stmts[i]
               ELSE j[i + 1] = j[i]
    <3>1. CASE i = p
      <4>1. j[i] = l /\ j[i + 1] = l + 1 /\ l + 1 \in DOMAIN log'
        BY <1>11, <1>12, <2>7, <2>8, <3>1
      <4>. QED
        BY <1>8, <1>9, <2>2, <2>8, <3>1, <4>1
    <3>2. CASE i # p
      <4>1. i \in 1..(p - 1) /\ i + 1 \in 1..p
        BY <1>6, <3>2
      <4>2. j[i] = g[i] /\ j[i + 1] = g[i + 1]
        BY <2>7, <4>1
      <4>3. g[i] + 1 \in DOMAIN log => g[i] + 1 \in DOMAIN log' /\ log'[g[i] + 1] = log[g[i] + 1]
        BY <1>12, <2>8
      <4>. QED
        BY <1>7, <4>1, <4>2, <4>3
    <3>. QED
      BY <3>1, <3>2
  <2>10. j[1] = g[1] /\ j[1] \in 0..l /\ j[1] <= l + 1
    <3>1. 1 \in 1..p /\ 1 \in Nat
      BY <1>4, <1>6
    <3>2. j[1] = g[1] /\ g[1] \in Nat
      BY <2>7, <3>1
    <3>. QED
      BY <1>4, <1>6, <1>11, <3>2
  <2>11. LoggedFrom(j, h, p)'
    BY <1>3, <2>7, <2>8, <2>9, <2>10 DEF LoggedFrom, Db
  <2>12. pstate = k[j[1]]
    BY <1>4, <1>5, <2>5, <2>10
  <2>13. HandlerAt(k, j, h)'
    <3>1. pstate' = k[j[1]]
      BY <1>3, <2>12
    <3>2. LoggedFrom(j, h, pos[h] - 1)'
      BY <1>13, <2>11
    <3>. QED
      BY <1>13, <3>1, <3>2 DEF HandlerAt
  <2>. QED
    BY <2>5, <2>7, <2>13
<1>10. CASE ~IsWriteQuery(Stmt(h)) /\ log' = log
  <2>1. PICK j : j = [g EXCEPT ![p + 1] = l]
    OBVIOUS
  <2>2. /\ j \in [Nat -> Nat] /\ j[p + 1] = l /\ \A i \in 1..p : j[i] = g[i]
    <3>1. p + 1 \in Nat /\ l \in Nat
      BY <1>6
    <3>2. j \in [Nat -> Nat] /\ j[p + 1] = l
      BY <2>1, <3>1
    <3>3. \A i \in 1..p : i \in Nat /\ i # p + 1
      BY <1>6
    <3>. QED
      BY <2>1, <3>2, <3>3
  <2>3. ASSUME NEW i \in 1..p
        PROVE  IF IsWriteQuery(req[h].stmts[i])
               THEN /\ j[i + 1] = j[i] + 1 /\ j[i] + 1 \in DOMAIN log
                    /\ log[j[i] + 1].db = Db(h) /\ log[j[i] + 1].q = req[h].stmts[i]
               ELSE j[i + 1] = j[i]
    <3>1. CASE i = p
      BY <1>8, <1>10, <1>11, <1>12, <2>2, <3>1
    <3>2. CASE i # p
      <4>1. i \in 1..(p - 1) /\ i + 1 \in 1..p
        BY <1>6, <3>2
      <4>2. j[i] = g[i] /\ j[i + 1] = g[i + 1]
        BY <2>2, <4>1
      <4>. QED
        BY <1>7, <4>1, <4>2
    <3>. QED
      BY <3>1, <3>2
  <2>4. j[1] = g[1]
    <3>1. 1 \in 1..p
      BY <1>4, <1>6
    <3>. QED
      BY <2>2, <3>1
  <2>5. LoggedFrom(j, h, p)'
    BY <1>3, <1>4, <1>10, <1>11, <2>2, <2>3, <2>4 DEF LoggedFrom, Db
  <2>6. HandlerAt(f, j, h)'
    <3>1. pstate' = f[j[1]]
      BY <1>3, <1>5, <2>4
    <3>2. LoggedFrom(j, h, pos[h] - 1)'
      BY <1>13, <2>5
    <3>. QED
      BY <1>13, <3>1, <3>2 DEF HandlerAt
  <2>7. Replays(f)'
    BY <1>10 DEF Replays
  <2>. QED
    BY <2>2, <2>6, <2>7
<1>. QED
  BY <1>2, <1>9, <1>10 DEF LogStatement

\* The replica works on rows of the log, however much the log has grown since.
LEMMA RowsStep ==
  ASSUME TypeInv, InTurn, RowsAreRows, [Next]_vars
  PROVE  RowsAreRows'
<1>1. log \in Seq(LogEntry) /\ Len(log) \in Nat /\ lastID \in Nat
  BY DEF TypeInv, TypeOK, ReplicaTypeOK
<1>2. CASE PrimaryNext /\ UNCHANGED replicaVars
  <2>1. loop' = loop /\ batch' = batch
    BY <1>2 DEF replicaVars
  <2>2. CASE log' = log
    BY <2>1, <2>2 DEF RowsAreRows
  <2>3. CASE log' # log
    <3>1. PICK e \in LogEntry : log' = Append(log, e)
      BY <1>2, <2>3, PrimaryWrites
    <3>2. \A n \in DOMAIN log : n \in DOMAIN log' /\ log'[n] = log[n]
      BY <1>1, <3>1
    <3>. QED
      BY <2>1, <3>2 DEF RowsAreRows
  <2>. QED
    BY <2>2, <2>3
<1>3. CASE Poll
  <2>1. PICK upto \in lastID..Least(lastID + BatchLimit, Len(log)) :
           batch' = GetReplicationLog(lastID, upto)
    BY <1>3 DEF Poll
  <2>2. upto \in lastID..Len(log)
    BY <1>1, <2>1, BatchAssumption DEF Least
  <2>3. /\ batch' \in Seq(LogEntry) /\ Len(batch') = upto - lastID
        /\ \A i \in 1..(upto - lastID) : batch'[i] = log[lastID + i]
    BY <1>1, <2>1, <2>2, AnswerParts
  <2>4. DOMAIN batch' = 1..(upto - lastID) /\ log' = log
    BY <1>3, <2>3 DEF Poll
  <2>5. \A i \in 1..(upto - lastID) : lastID + i \in DOMAIN log
    BY <1>1, <2>2
  <2>6. \A n \in DOMAIN log : log[n].id = n
    BY DEF InTurn, IdsAreIndexes
  <2>. QED
    BY <2>3, <2>4, <2>5, <2>6 DEF RowsAreRows
<1>4. CASE ReplicaNext /\ ~Poll
  <2>1. log' = log
    BY <1>4 DEF ReplicaNext, ReplicaLoop, ReplicaProcess, Tick, LoopEnds, PollFails, Apply, ApplyFails,
                SaveProgress, StartReplica, StopReplica, CloseDatabases, CloseSystemDB, Exit, ReplicaCrash
  <2>2. loop' = "apply" => loop = "apply" /\ batch' = batch
    BY <1>4 DEF ReplicaNext, ReplicaLoop, ReplicaProcess, Tick, LoopEnds, PollFails, Apply, ApplyFails,
                SaveProgress, StartReplica, StopReplica, CloseDatabases, CloseSystemDB, Exit, ReplicaCrash, Return
  <2>. QED
    BY <2>1, <2>2 DEF RowsAreRows
<1>5. CASE UNCHANGED vars
  BY <1>5 DEF vars, replicaVars, RowsAreRows
<1>. QED
  BY <1>2, <1>3, <1>4, <1>5 DEF Next

\* An entry handed to the executor in its turn does to the databases what it does to
\* the contents of the log.
LEMMA ApplyMirrors ==
  ASSUME OneByOne, TypeInv, RowsAreRows,
         NEW f \in [Nat -> [Databases -> DBState]], Replays(f), ReplicaAt(f), Apply
  PROVE  ReplicaAt(f)'
<1>1. /\ batch \in Seq(LogEntry) /\ next \in Nat \ {0} /\ attempts \in Seq(Nat)
      /\ Len(attempts) \in Nat /\ Len(log) \in Nat /\ DOMAIN log = 1..Len(log)
  BY DEF TypeInv, TypeOK, ReplicaTypeOK
<1>2. next \in DOMAIN batch
  BY <1>1 DEF Apply, BatchEnded
<1>3. PICK e, a : e = batch[next] /\ a = Len(attempts)
  OBVIOUS
<1>4. e \in LogEntry /\ e.id \in DOMAIN log /\ e = log[e.id]
  BY <1>1, <1>2, <1>3 DEF Apply, RowsAreRows
<1>5. e.id \in Nat
  BY <1>4 DEF LogEntry
<1>6. attempts' = Append(attempts, e.id) /\ log' = log
  BY <1>3 DEF Apply
<1>7. /\ Len(attempts') = a + 1 /\ DOMAIN attempts' = 1..(a + 1) /\ DOMAIN attempts = 1..a
      /\ attempts'[a + 1] = e.id /\ \A n \in 1..a : attempts'[n] = attempts[n]
  BY <1>1, <1>3, <1>5, <1>6
<1>8. failed' = {} => failed = {} /\ rstate' = After(e, rstate)
  BY <1>3 DEF Apply, After
<1>9. SUFFICES ASSUME Once', failed' = {} PROVE Len(attempts') <= Len(log) /\ rstate' = f[Len(attempts')]
  BY <1>6 DEF ReplicaAt
<1>10. a \in Nat /\ a + 1 \in 1..(a + 1) /\ a + 1 - 1 = a /\ \A n \in 1..a : n \in 1..(a + 1)
  BY <1>1, <1>3
<1>11. Once /\ e.id = a + 1
  BY <1>7, <1>9, <1>10 DEF Once
<1>12. rstate = f[a]
  BY <1>3, <1>8, <1>9, <1>11 DEF ReplicaAt
<1>13. f[a + 1] = After(log[a + 1], f[a])
  <2>1. ASSUME NEW n \in DOMAIN log, NEW m, m = n - 1
        PROVE  f[n] = After(log[n], f[m])
    BY <2>1 DEF Replays
  <2>2. a + 1 \in DOMAIN log
    BY <1>4, <1>11
  <2>. QED
    BY <1>10, <2>1, <2>2
<1>14. rstate' = f[a + 1]
  BY <1>4, <1>8, <1>9, <1>11, <1>12, <1>13
<1>15. a + 1 <= Len(log)
  BY <1>1, <1>4, <1>11
<1>. QED
  BY <1>7, <1>14, <1>15

LEMMA MirrorStep ==
  ASSUME OneByOne, TypeInv, InTurn, Mirror, [Next]_vars
  PROVE  Mirror'
<1>1. PICK f \in [Nat -> [Databases -> DBState]], g \in [Nat -> Nat], h \in Handlers :
         Replays(f) /\ HandlerAt(f, g, h) /\ ReplicaAt(f)
  BY DEF Mirror
<1>2. RowsAreRows'
  BY RowsStep DEF Mirror
<1>3. Handlers = {h}
  BY DEF OneByOne
<1>4. log \in Seq(LogEntry) /\ Len(log) \in Nat /\ attempts \in Seq(Nat)
  BY DEF TypeInv, TypeOK, ReplicaTypeOK
<1>5. Len(attempts) \in Nat
  BY <1>4, LengthIsNat
<1>6. CASE PrimaryNext /\ UNCHANGED replicaVars
  <2>1. attempts' = attempts /\ rstate' = rstate /\ failed' = failed
    BY <1>6 DEF replicaVars
  <2>2. CASE ~LogStatement(h)
    <3>1. PICK k \in [Nat -> Nat] : log' = log /\ HandlerAt(f, k, h)'
      BY <1>1, <1>3, <1>6, <2>2, OtherStepsMirror
    <3>2. Replays(f)'
      BY <1>1, <3>1 DEF Replays
    <3>3. ReplicaAt(f)'
      BY <1>1, <2>1, <3>1 DEF ReplicaAt, Once
    <3>. QED
      BY <1>2, <3>1, <3>2, <3>3 DEF Mirror
  <2>3. CASE LogStatement(h)
    <3>1. PICK k \in [Nat -> [Databases -> DBState]], j \in [Nat -> Nat] :
            Replays(k)' /\ HandlerAt(k, j, h)' /\ \A n \in 0..Len(log) : k[n] = f[n]
      BY <1>1, <1>3, <2>3, LogStepMirrors
    <3>2. Len(log') >= Len(log) /\ Len(log') \in Nat
      <4>1. CASE log' = log
        BY <1>4, <4>1
      <4>2. CASE log' # log
        <5>1. PICK e \in LogEntry : log' = Append(log, e)
          BY <1>6, <4>2, PrimaryWrites
        <5>2. Len(log') = Len(log) + 1
          BY <1>4, <5>1
        <5>. QED
          BY <1>4, <5>2
      <4>. QED
        BY <4>1, <4>2
    <3>3. ReplicaAt(k)'
      <4>1. SUFFICES ASSUME Once, failed = {} PROVE Len(attempts) <= Len(log') /\ rstate = k[Len(attempts)]
        BY <2>1 DEF ReplicaAt, Once
      <4>2. Len(attempts) <= Len(log) /\ rstate = f[Len(attempts)]
        BY <1>1, <4>1 DEF ReplicaAt
      <4>3. Len(attempts) <= Len(log') /\ Len(attempts) \in 0..Len(log)
        BY <1>4, <1>5, <3>2, <4>2
      <4>. QED
        BY <3>1, <4>2, <4>3
    <3>. QED
      BY <1>2, <3>1, <3>3 DEF Mirror
  <2>. QED
    BY <2>2, <2>3
<1>7. CASE ReplicaNext /\ UNCHANGED primaryVars
  <2>1. log' = log
    BY <1>7 DEF ReplicaNext, ReplicaLoop, ReplicaProcess, Tick, LoopEnds, Poll, PollFails, Apply,
                ApplyFails, SaveProgress, StartReplica, StopReplica, CloseDatabases, CloseSystemDB, Exit,
                ReplicaCrash
  <2>2. Replays(f)'
    BY <1>1, <2>1 DEF Replays
  <2>3. HandlerAt(f, g, h)'
    <3>1. pc' = pc /\ pos' = pos /\ req' = req /\ pstate' = pstate /\ lock' = lock /\ dirty' = dirty
      BY <1>7 DEF primaryVars, handlerVars, storeVars
    <3>. QED
      BY <1>1, <2>1, <3>1 DEF HandlerAt, LoggedFrom, Db, View
  <2>4. ReplicaAt(f)'
    <3>1. CASE Apply
      BY <1>1, <3>1, ApplyMirrors DEF Mirror
    <3>2. CASE ~Apply
      <4>1. attempts' = attempts /\ rstate' = rstate /\ failed' = failed
        BY <1>7, <3>2
           DEF ReplicaNext, ReplicaLoop, ReplicaProcess, Tick, LoopEnds, Poll, PollFails,
               ApplyFails, SaveProgress, StartReplica, StopReplica, CloseDatabases, CloseSystemDB, Exit,
               ReplicaCrash
      <4>. QED
        BY <1>1, <2>1, <4>1 DEF ReplicaAt, Once
    <3>. QED
      BY <3>1, <3>2
  <2>. QED
    BY <1>1, <1>2, <2>2, <2>3, <2>4 DEF Mirror
<1>8. CASE UNCHANGED vars
  <2>1. /\ log' = log /\ pc' = pc /\ pos' = pos /\ req' = req /\ pstate' = pstate /\ lock' = lock
        /\ dirty' = dirty /\ attempts' = attempts /\ rstate' = rstate /\ failed' = failed
    BY <1>8 DEF vars, replicaVars, primaryVars, handlerVars, storeVars
  <2>2. Replays(f)' /\ ReplicaAt(f)'
    BY <1>1, <2>1 DEF Replays, ReplicaAt, Once
  <2>3. HandlerAt(f, g, h)'
    BY <1>1, <2>1 DEF HandlerAt, LoggedFrom, Db, View
  <2>. QED
    BY <1>1, <1>2, <2>2, <2>3 DEF Mirror
<1>. QED
  BY <1>6, <1>7, <1>8 DEF Next

\* A replica none of whose entries was handed to the executor twice, or failed there
\* for a reason outside its text, has, when it has caught up with a primary at rest,
\* the primary's databases: lost and short answers, databases that do not open,
\* progress that is not saved, crashes and stops do no harm as long as they make the
\* loop repeat nothing and leave every statement its database.
THEOREM ConvergesIfOnceCorrect ==
  ASSUME OneByOne
  PROVE  Spec => []ConvergesIfOnce
<1>1. TypeInv /\ Mirror => ConvergesIfOnce
  <2> SUFFICES ASSUME TypeInv, Mirror, attempts = [n \in 1..Len(log) |-> n], failed = {}, Quiet
               PROVE  rstate = pstate
    BY DEF ConvergesIfOnce, Convergence
  <2>1. PICK f \in [Nat -> [Databases -> DBState]], g \in [Nat -> Nat], h \in Handlers :
           Replays(f) /\ HandlerAt(f, g, h) /\ ReplicaAt(f)
    BY DEF Mirror
  <2>2. pc[h] = "idle" /\ pstate = f[Len(log)]
    BY <2>1 DEF Quiet, HandlerAt
  <2>3. attempts \in Seq(Nat) /\ DOMAIN attempts = 1..Len(log) /\ Len(log) \in Nat
    BY DEF TypeInv, TypeOK, ReplicaTypeOK
  <2>4. Once /\ Len(attempts) = Len(log)
    BY <2>3 DEF Once
  <2>. QED
    BY <2>1, <2>2, <2>4 DEF ReplicaAt
<1>2. Spec => []Mirror
  BY MirrorInit, MirrorStep, TypeAlways, InTurnAlways, PTL DEF Spec
<1>. QED
  BY <1>1, <1>2, TypeAlways, PTL
=============================================================================
