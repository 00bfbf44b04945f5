------------------------------ MODULE Primary ------------------------------
(***************************************************************************)
(* The write path of a server: POST /query and POST /transaction           *)
(* (HandleQuery, HandleTransaction in internal/server/routes.go) down to   *)
(* ExecuteContext and ExecuteTransactionContext of                         *)
(* internal/database/executor.go.                                          *)
(*                                                                         *)
(* Every element of Handlers is one goroutine of net/http.  A handler      *)
(* takes a request through                                                 *)
(*    "idle"  -- the gate --> "log" -- every write logged --> "exec"       *)
(* and back to "idle" when it has answered.  The statements are written to *)
(* replication_log, one at a time, before the first of them runs; between  *)
(* any two of these steps another handler, or a crash, may come in.        *)
(*                                                                         *)
(* SQLite gives one connection at a time the right to write a database: a  *)
(* transaction holds it from its first write to its end, its changes are   *)
(* in dirty until it commits.                                              *)
(***************************************************************************)
EXTENDS WriteLog, AccessControl

CONSTANTS
  Handlers,      \* goroutines serving requests
  Requests,      \* requests clients send
  MaxRequests,   \* bound: how many requests pass the gate
  NoHandler      \* "nobody holds the write lock"

\* What the handlers read of a decoded body: HandleQuery has one statement and
\* its arguments, HandleTransaction statements without arguments, of which it
\* skips the blank ones.
RequestType ==
  [kind : {"query", "tx"}, db : Databases, stmts : Seq(Texts), params : Params, role : Roles]

ASSUME RequestAssumption ==
  /\ Requests \subseteq RequestType
  /\ \A r \in Requests :
        /\ r.kind = "query" => Len(r.stmts) = 1
        /\ r.kind = "tx" => /\ r.params = NoParams
                            /\ \A i \in DOMAIN r.stmts : ~IsBlank(r.stmts[i])
  /\ MaxRequests \in Nat
  /\ NoHandler \notin Handlers

\* The executor sends what starts with SELECT, PRAGMA or EXPLAIN down a path for
\* queries.  A PRAGMA that writes is left out of this model.  To SQLite a blank
\* statement is none.
ASSUME ReadAssumption ==
  \A q \in Texts, p \in Params, s \in DBState :
     ~IsWriteQuery(q) \/ IsBlank(q) => Exec(q, p, s) = s

VARIABLES
  pc,        \* where the handler is
  req,       \* the request it serves, or served last
  pos,       \* the statement its loop is at
  ids,       \* what LogReplication returned for each statement; 0 when not logged
  took,      \* the statements SQLite has accepted from it
  reply,     \* the status of its last answer; 0 while it has none
  pstate,    \* committed contents of the primary's databases
  lock,      \* who may write a database
  dirty,     \* what the holder of the lock will commit
  accepted   \* how many requests passed the gate (the bound of MaxRequests)

handlerVars == <<pc, req, pos, ids, took, reply>>
storeVars   == <<pstate, lock, dirty>>
primaryVars == <<handlerVars, storeVars, accepted>>

Stmt(h)    == req[h].stmts[pos[h]]
Db(h)      == req[h].db
LoopEnded(h) == pos[h] > Len(req[h].stmts)

\* Allowed before the handlers write anything: every statement of the request.
RequestAllowed(r) == \A i \in DOMAIN r.stmts : StatementAllowed(r.role, r.stmts[i])

PrimaryTypeOK ==
  /\ pc \in [Handlers -> {"idle", "log", "exec"}]
  /\ req \in [Handlers -> Requests]
  /\ pos \in [Handlers -> Nat \ {0}]
  /\ ids \in [Handlers -> Seq(Nat)]
  /\ took \in [Handlers -> SUBSET Nat]
  /\ reply \in [Handlers -> {0, 200, 403, 500}]
  /\ pstate \in [Databases -> DBState]
  /\ lock \in [Databases -> Handlers \cup {NoHandler}]
  /\ dirty \in [Databases -> DBState]
  /\ accepted \in Nat

PrimaryInit ==
  /\ pc = [h \in Handlers |-> "idle"]
  /\ \E r \in Requests : req = [h \in Handlers |-> r]
  /\ pos = [h \in Handlers |-> 1]
  /\ ids = [h \in Handlers |-> <<>>]
  /\ took = [h \in Handlers |-> {}]
  /\ reply = [h \in Handlers |-> 0]
  /\ pstate = [d \in Databases |-> EmptyDB]
  /\ lock = [d \in Databases |-> NoHandler]
  /\ dirty = [d \in Databases |-> EmptyDB]
  /\ accepted = 0

-----------------------------------------------------------------------------
(* The handlers, up to the executor.                                       *)

\* A statement of the request is dangerous or beyond the user's role: 403,
\* before anything is logged or run.
Refuse(h, r) ==
  /\ pc[h] = "idle"
  /\ ~RequestAllowed(r)
  /\ req' = [req EXCEPT ![h] = r]
  /\ ids' = [ids EXCEPT ![h] = <<>>]
  /\ took' = [took EXCEPT ![h] = {}]
  /\ reply' = [reply EXCEPT ![h] = 403]
  /\ NoFault
  /\ UNCHANGED <<pc, pos, storeVars, accepted, log>>

\* The gate lets the request through.
Take(h, r) ==
  /\ pc[h] = "idle"
  /\ RequestAllowed(r)
  /\ pc' = [pc EXCEPT ![h] = "log"]
  /\ req' = [req EXCEPT ![h] = r]
  /\ pos' = [pos EXCEPT ![h] = 1]
  /\ ids' = [ids EXCEPT ![h] = <<>>]
  /\ took' = [took EXCEPT ![h] = {}]
  /\ reply' = [reply EXCEPT ![h] = 0]
  /\ NoFault
  /\ UNCHANGED <<storeVars, log>>

\* A request of the clients that MaxRequests bounds.
Accept(h, r) ==
  /\ accepted < MaxRequests
  /\ accepted' = accepted + 1
  /\ Take(h, r)

\* Mutant: the handler of a transaction logs its first statement only.
LogStatement_FirstOnly(h) ==
  /\ pc[h] = "log"
  /\ ~LoopEnded(h)
  /\ pos' = [pos EXCEPT ![h] = @ + 1]
  /\ IF IsWriteQuery(Stmt(h)) /\ pos[h] = 1
     THEN /\ LogReplication(Db(h), Stmt(h))
          /\ ids' = [ids EXCEPT ![h] = Append(@, Len(log) + 1)]
     ELSE /\ ids' = [ids EXCEPT ![h] = Append(@, 0)]
          /\ UNCHANGED log
  /\ NoFault
  /\ UNCHANGED <<pc, req, took, reply, storeVars, accepted>>

\* One turn of the logging loop.  When LogReplication fails the handlers note
\* it in the audit log and go on.
LogStatement(h) ==
  /\ pc[h] = "log"
  /\ ~LoopEnded(h)
  /\ pos' = [pos EXCEPT ![h] = @ + 1]
  /\ \/ /\ IsWriteQuery(Stmt(h))
        /\ LogReplication(Db(h), Stmt(h))
        /\ ids' = [ids EXCEPT ![h] = Append(@, Len(log) + 1)]
        /\ NoFault
     \/ /\ IsWriteQuery(Stmt(h))
        /\ Fault("log")
        /\ ids' = [ids EXCEPT ![h] = Append(@, 0)]
        /\ UNCHANGED log
     \/ /\ ~IsWriteQuery(Stmt(h))
        /\ ids' = [ids EXCEPT ![h] = Append(@, 0)]
        /\ UNCHANGED log
        /\ NoFault
  /\ UNCHANGED <<pc, req, took, reply, storeVars, accepted>>

-----------------------------------------------------------------------------
(* The executor.                                                           *)

Answer(h, status) ==
  /\ pc' = [pc EXCEPT ![h] = "idle"]
  /\ reply' = [reply EXCEPT ![h] = status]

NextStatement(h) ==
  /\ pos' = [pos EXCEPT ![h] = @ + 1]
  /\ UNCHANGED <<pc, reply>>

\* The handler gives the write lock back, if it has it.
Release(h) ==
  /\ lock' = [d \in Databases |-> IF lock[d] = h THEN NoHandler ELSE lock[d]]
  /\ dirty' = [d \in Databases |-> IF lock[d] = h THEN EmptyDB ELSE dirty[d]]

MayWrite(h) == lock[Db(h)] \in {h, NoHandler}

\* The database as the handler's transaction sees it.
View(h) == IF lock[Db(h)] = h THEN dirty[Db(h)] ELSE pstate[Db(h)]

\* Mutant: the executor is called before the logging loop is through.
OpenDatabase_Early(h) ==
  /\ pc[h] = "log"
  /\ pc' = [pc EXCEPT ![h] = "exec"]
  /\ pos' = [pos EXCEPT ![h] = 1]
  /\ NoFault
  /\ UNCHANGED <<reply, req, ids, took, storeVars, accepted, log>>

\* ExecuteContext and ExecuteTransactionContext both begin with Manager.Open.
OpenDatabase(h) ==
  /\ pc[h] = "log"
  /\ LoopEnded(h)
  /\ \/ /\ pc' = [pc EXCEPT ![h] = "exec"]
        /\ pos' = [pos EXCEPT ![h] = 1]
        /\ NoFault
        /\ UNCHANGED reply
     \/ /\ Answer(h, 500)
        /\ Fault("open")
        /\ UNCHANGED pos
  /\ UNCHANGED <<req, ids, took, storeVars, accepted, log>>

\* ExecuteContext: one statement, committed by SQLite when it succeeds.  An
\* error SQLite reports goes into the body of an answer with status 200.
RunQuery(h) ==
  /\ pc[h] = "exec"
  /\ req[h].kind = "query"
  /\ \/ /\ IsWriteQuery(Stmt(h)) /\ ~IsBlank(Stmt(h)) => lock[Db(h)] = NoHandler
        /\ pstate' = [pstate EXCEPT ![Db(h)] = Exec(Stmt(h), req[h].params, @)]
        /\ took' = [took EXCEPT ![h] =
                      {i \in {pos[h]} : ~SqlError(Stmt(h), req[h].params, pstate[Db(h)])}]
        /\ NoFault
     \/ /\ Fault("sql")
        /\ UNCHANGED <<pstate, took>>
  /\ Answer(h, 200)
  /\ UNCHANGED <<req, pos, ids, lock, dirty, accepted, log>>

\* One turn of the loop of ExecuteTransactionContext.  The statement runs in
\* the transaction; the helper puts an error of SQLite into the result it
\* returns and never returns one, so the loop goes on whatever happened.
TxStatement(h) ==
  /\ pc[h] = "exec"
  /\ req[h].kind = "tx"
  /\ ~LoopEnded(h)
  /\ \/ /\ IsWriteQuery(Stmt(h))
        /\ MayWrite(h)
        /\ ~SqlError(Stmt(h), NoParams, View(h))
        /\ lock' = [lock EXCEPT ![Db(h)] = h]
        /\ dirty' = [dirty EXCEPT ![Db(h)] = Exec(Stmt(h), NoParams, View(h))]
        /\ took' = [took EXCEPT ![h] = @ \cup {pos[h]}]
        /\ NoFault
     \/ /\ IsWriteQuery(Stmt(h)) => MayWrite(h) /\ SqlError(Stmt(h), NoParams, View(h))
        /\ NoFault
        /\ UNCHANGED <<lock, dirty, took>>
     \/ /\ Fault("sql")
        /\ UNCHANGED <<lock, dirty, took>>
  /\ NextStatement(h)
  /\ UNCHANGED <<req, ids, pstate, accepted, log>>

\* Mutant: the transaction is neither committed nor rolled back.
TxCommit_LeftOpen(h) ==
  /\ pc[h] = "exec"
  /\ req[h].kind = "tx"
  /\ LoopEnded(h)
  /\ Answer(h, 200)
  /\ NoFault
  /\ UNCHANGED <<req, pos, ids, took, storeVars, accepted, log>>

TxCommit(h) ==
  /\ pc[h] = "exec"
  /\ req[h].kind = "tx"
  /\ LoopEnded(h)
  /\ pstate' = [d \in Databases |-> IF lock[d] = h THEN dirty[d] ELSE pstate[d]]
  /\ Release(h)
  /\ Answer(h, 200)
  /\ NoFault
  /\ UNCHANGED <<req, pos, ids, took, accepted, log>>

\* Mutant: the deferred Rollback is missing.
TxRollback_NoDefer(h) ==
  /\ pc[h] = "exec"
  /\ req[h].kind = "tx"
  /\ Fault("cancel")
  /\ Answer(h, 500)
  /\ UNCHANGED <<req, pos, ids, took, storeVars, accepted, log>>

\* The request's context is cancelled, or the commit fails: database/sql rolls
\* the transaction back, Commit returns an error and the client gets a 500.
TxRollback(h) ==
  /\ pc[h] = "exec"
  /\ req[h].kind = "tx"
  /\ Fault("cancel")
  /\ Release(h)
  /\ took' = [took EXCEPT ![h] = {}]
  /\ Answer(h, 500)
  /\ UNCHANGED <<req, pos, ids, pstate, accepted, log>>

\* The process dies and is started again.  Handlers and open transactions are
\* gone; replication_log and what was committed are on disk.
PrimaryCrash ==
  /\ Fault("primaryCrash")
  /\ \E h \in Handlers : pc[h] # "idle"
  /\ pc' = [h \in Handlers |-> "idle"]
  /\ took' = [h \in Handlers |-> IF pc[h] = "idle" THEN took[h] ELSE {}]
  /\ lock' = [d \in Databases |-> NoHandler]
  /\ dirty' = [d \in Databases |-> EmptyDB]
  /\ UNCHANGED <<req, pos, ids, reply, pstate, accepted, log>>

HandlerStep(h) ==
  \/ LogStatement(h)
  \/ OpenDatabase(h)
  \/ RunQuery(h)
  \/ TxStatement(h)
  \/ TxCommit(h)

\* What happens to requests once they are there.
Serve ==
  \/ \E h \in Handlers : HandlerStep(h) \/ TxRollback(h)
  \/ PrimaryCrash

PrimaryNext ==
  \/ \E h \in Handlers, r \in Requests : Refuse(h, r) \/ Accept(h, r)
  \/ Serve

PrimaryStart == WriteLogInit /\ PrimaryInit

PrimarySpec == PrimaryStart /\ [][PrimaryNext]_<<primaryVars, log, faults>>

\* The Go scheduler runs every handler, and net/http cuts none of them short.
PrimaryLive ==
  PrimarySpec /\ \A h \in Handlers : WF_<<primaryVars, log, faults>>(HandlerStep(h))

-----------------------------------------------------------------------------
(* Properties.                                                             *)

Writes(h) == {i \in DOMAIN req[h].stmts : IsWriteQuery(req[h].stmts[i])}

\* Every write the executor runs with success has its row in replication_log
\* already, with the same text, for the same database, and the rows of one
\* request stand in the order of its statements (the two logging loops come
\* before the calls of the executor).
EveryWriteLogged ==
  \A h \in Handlers :
    /\ \A i \in took[h] \cap Writes(h) :
         /\ i \in DOMAIN ids[h]
         /\ ids[h][i] \in DOMAIN log
         /\ log[ids[h][i]] = [id |-> ids[h][i], db |-> Db(h), q |-> req[h].stmts[i]]
    /\ \A i, j \in DOMAIN ids[h] :
         i < j /\ ids[h][i] # 0 /\ ids[h][j] # 0 => ids[h][i] < ids[h][j]

\* A transaction that has been answered has had the effect of all of its
\* writes or of none (docs/api.md on POST /transaction).
TransactionAtomic ==
  \A h \in Handlers :
    pc[h] = "idle" /\ req[h].kind = "tx" /\ reply[h] # 0
       => took[h] \cap Writes(h) \in {{}, Writes(h)}

\* Nobody keeps the right to write a database without a transaction that is
\* still running on it: every way out of ExecuteTransactionContext gives it up.
LockHasTransaction ==
  \A d \in Databases :
    lock[d] # NoHandler => /\ pc[lock[d]] = "exec"
                           /\ req[lock[d]].kind = "tx"
                           /\ req[lock[d]].db = d
                           /\ took[lock[d]] \cap Writes(lock[d]) # {}

\* Every request that passes the gate is answered: a handler never waits for
\* ever on another one's transaction (a crash answers nobody, and leaves idle).
EveryRequestEnds == \A h \in Handlers : (pc[h] # "idle") ~> (pc[h] = "idle")
=============================================================================
