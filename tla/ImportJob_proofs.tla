-------------------------- MODULE ImportJob_proofs --------------------------
(***************************************************************************)
(* Proofs about the write path, for every number of handlers, every set of *)
(* requests and every fault: Primary alone, and with the import of a file  *)
(* beside its other clients (ImportJob).                                   *)
(***************************************************************************)
EXTENDS ImportJob, FiniteSetTheorems, WellFoundedInduction, TLAPS

-----------------------------------------------------------------------------
(* Parts of well typed states.                                             *)

LEMMA RequestParts ==
  ASSUME NEW r \in Requests
  PROVE  /\ r.kind \in {"query", "tx"}
         /\ r.db \in Databases
         /\ r.stmts \in Seq(Texts)
         /\ Len(r.stmts) \in Nat
         /\ DOMAIN r.stmts = 1..Len(r.stmts)
         /\ r.params \in Params
         /\ r.kind = "query" => Len(r.stmts) = 1
BY RequestAssumption DEF RequestType

LEMMA ExceptType ==
  ASSUME NEW S, NEW T, NEW f \in [S -> T], NEW x, NEW y \in T
  PROVE  [f EXCEPT ![x] = y] \in [S -> T]
OBVIOUS

\* RunQuery reads the statement at pos without a look at the length of the request.
QueryAtFirst == \A h \in Handlers : pc[h] = "exec" /\ req[h].kind = "query" => pos[h] = 1

StoreTypes == PrimaryTypeOK /\ log \in Seq(LogEntry) /\ QueryAtFirst

\* The statement a loop of a handler is at is one of the texts.
LEMMA StatementParts ==
  ASSUME PrimaryTypeOK, NEW h \in Handlers, ~LoopEnded(h)
  PROVE  /\ Stmt(h) \in Texts /\ Db(h) \in Databases
         /\ pos[h] \in DOMAIN req[h].stmts
<1>1. req[h] \in Requests /\ pos[h] \in Nat \ {0}
  BY DEF PrimaryTypeOK
<1>2. pos[h] \in DOMAIN req[h].stmts
  BY <1>1, RequestParts DEF LoopEnded
<1>. QED
  BY <1>1, <1>2, RequestParts DEF Stmt, Db

-----------------------------------------------------------------------------
(* Types, one lemma for each way the executor goes.                        *)

LEMMA LogStatementTypes ==
  ASSUME StoreTypes, NEW h \in Handlers, LogStatement(h)
  PROVE  StoreTypes'
<1>. USE DEF StoreTypes
<1>1. Stmt(h) \in Texts /\ Db(h) \in Databases /\ Len(log) + 1 \in Nat
  BY StatementParts DEF LogStatement
<1>2. log' \in Seq(LogEntry)
  <2>1. [id |-> Len(log) + 1, db |-> Db(h), q |-> Stmt(h)] \in LogEntry
    BY <1>1 DEF LogEntry
  <2>. QED
    BY <2>1 DEF LogStatement, LogReplication
<1>3. ids' \in [Handlers -> Seq(Nat)]
  <2>1. PICK x \in Nat : ids' = [ids EXCEPT ![h] = Append(@, x)]
    BY <1>1 DEF LogStatement
  <2>2. Append(ids[h], x) \in Seq(Nat)
    BY DEF PrimaryTypeOK
  <2>. QED
    BY <2>1, <2>2 DEF PrimaryTypeOK
<1>4. pos' \in [Handlers -> Nat \ {0}]
  BY DEF LogStatement, PrimaryTypeOK
<1>5. UNCHANGED <<pc, req, took, reply, pstate, lock, dirty, accepted>>
  BY DEF LogStatement, storeVars
<1>6. QueryAtFirst'
  BY <1>5 DEF LogStatement, PrimaryTypeOK, QueryAtFirst
<1>. QED
  BY <1>2, <1>3, <1>4, <1>5, <1>6 DEF PrimaryTypeOK

LEMMA OpenDatabaseTypes ==
  ASSUME StoreTypes, NEW h \in Handlers, OpenDatabase(h)
  PROVE  StoreTypes'
<1>. USE DEF StoreTypes
<1>1. UNCHANGED <<req, ids, took, pstate, lock, dirty, accepted, log>>
  BY DEF OpenDatabase, storeVars
<1>2. CASE pc' = [pc EXCEPT ![h] = "exec"] /\ pos' = [pos EXCEPT ![h] = 1] /\ UNCHANGED reply
  BY <1>1, <1>2 DEF PrimaryTypeOK, QueryAtFirst
<1>3. CASE Answer(h, 500) /\ UNCHANGED pos
  BY <1>1, <1>3 DEF Answer, PrimaryTypeOK, QueryAtFirst
<1>. QED
  BY <1>2, <1>3 DEF OpenDatabase

LEMMA RunQueryTypes ==
  ASSUME StoreTypes, NEW h \in Handlers, RunQuery(h)
  PROVE  StoreTypes'
<1>. USE DEF StoreTypes
<1>1. /\ pos[h] = 1 /\ ~LoopEnded(h)
      /\ Stmt(h) \in Texts /\ Db(h) \in Databases /\ req[h].params \in Params
  <2>1. pos[h] = 1 /\ req[h].kind = "query" /\ req[h] \in Requests
    BY DEF RunQuery, QueryAtFirst, PrimaryTypeOK
  <2>2. Len(req[h].stmts) = 1 /\ req[h].params \in Params
    BY <2>1, RequestParts
  <2>3. ~LoopEnded(h)
    BY <2>1, <2>2 DEF LoopEnded
  <2>. QED
    BY <2>1, <2>2, <2>3, StatementParts
<1>2. pstate' \in [Databases -> DBState]
  <2>1. Exec(Stmt(h), req[h].params, pstate[Db(h)]) \in DBState
    BY <1>1, DatabaseAssumption DEF PrimaryTypeOK
  <2>2. pstate' = pstate
        \/ pstate' = [pstate EXCEPT ![Db(h)] = Exec(Stmt(h), req[h].params, pstate[Db(h)])]
    BY DEF RunQuery
  <2>3. pstate \in [Databases -> DBState]
    BY DEF PrimaryTypeOK
  <2>. QED
    BY <2>1, <2>2, <2>3, ExceptType
<1>3. took' \in [Handlers -> SUBSET Nat]
  <2>1. PICK t \in SUBSET {pos[h]} : took' = [took EXCEPT ![h] = t] \/ took' = took
    BY DEF RunQuery
  <2>2. t \in SUBSET Nat
    BY <1>1
  <2>3. took \in [Handlers -> SUBSET Nat]
    BY DEF PrimaryTypeOK
  <2>. QED
    BY <2>1, <2>2, <2>3, ExceptType
<1>4. UNCHANGED <<req, pos, ids, lock, dirty, accepted, log>>
  BY DEF RunQuery
<1>5. pc' = [pc EXCEPT ![h] = "idle"] /\ reply' = [reply EXCEPT ![h] = 200]
  BY DEF RunQuery, Answer
<1>6. QueryAtFirst'
  BY <1>4, <1>5 DEF PrimaryTypeOK, QueryAtFirst
<1>. QED
  BY <1>2, <1>3, <1>4, <1>5, <1>6 DEF PrimaryTypeOK

LEMMA TxStatementTypes ==
  ASSUME StoreTypes, NEW h \in Handlers, TxStatement(h)
  PROVE  StoreTypes'
<1>. USE DEF StoreTypes
<1>1. Stmt(h) \in Texts /\ Db(h) \in Databases
  BY StatementParts DEF TxStatement
<1>2. dirty' \in [Databases -> DBState]
  <2>1. View(h) \in DBState
    BY <1>1 DEF View, PrimaryTypeOK
  <2>2. Exec(Stmt(h), NoParams, View(h)) \in DBState
    BY <1>1, <2>1, DatabaseAssumption
  <2>3. dirty' = dirty \/ dirty' = [dirty EXCEPT ![Db(h)] = Exec(Stmt(h), NoParams, View(h))]
    BY DEF TxStatement
  <2>4. dirty \in [Databases -> DBState]
    BY DEF PrimaryTypeOK
  <2>. QED
    BY <2>2, <2>3, <2>4, ExceptType
<1>3. lock' \in [Databases -> Handlers \cup {NoHandler}]
  BY ExceptType DEF TxStatement, PrimaryTypeOK
<1>4. took' \in [Handlers -> SUBSET Nat]
  <2>1. took[h] \cup {pos[h]} \in SUBSET Nat
    BY DEF PrimaryTypeOK
  <2>. QED
    BY <2>1, ExceptType DEF TxStatement, PrimaryTypeOK
<1>5. /\ pos' = [pos EXCEPT ![h] = @ + 1]
      /\ UNCHANGED <<pc, reply, req, ids, pstate, accepted, log>>
  BY DEF TxStatement, NextStatement
<1>6. QueryAtFirst'
  BY <1>5 DEF TxStatement, PrimaryTypeOK, QueryAtFirst
<1>. QED
  BY <1>2, <1>3, <1>4, <1>5, <1>6 DEF PrimaryTypeOK

\* What happens to requests keeps the types of what they work on.
LEMMA ServeTypes ==
  ASSUME StoreTypes, Serve
  PROVE  StoreTypes'
<1>1. ASSUME NEW h \in Handlers, TxCommit(h) PROVE StoreTypes'
  BY <1>1, DatabaseAssumption
     DEF TxCommit, Release, Answer, PrimaryTypeOK, QueryAtFirst, StoreTypes
<1>2. ASSUME NEW h \in Handlers, TxRollback(h) PROVE StoreTypes'
  BY <1>2, DatabaseAssumption
     DEF TxRollback, Release, Answer, PrimaryTypeOK, QueryAtFirst, StoreTypes
<1>3. CASE PrimaryCrash
  BY <1>3, DatabaseAssumption DEF PrimaryCrash, PrimaryTypeOK, QueryAtFirst, StoreTypes
<1>. QED
  BY <1>1, <1>2, <1>3, LogStatementTypes, OpenDatabaseTypes, RunQueryTypes, TxStatementTypes
     DEF Serve, HandlerStep

\* What comes to an idle handler: a request, a request that is refused, or the end
\* of its connection.
Begins(h, r) ==
  /\ pc[h] = "idle"
  /\ \/ Take(h, r)
     \/ Refuse(h, r)
     \/ r = NoRequest /\ Forget(h) /\ UNCHANGED <<pc, storeVars, log>>

LEMMA BeginsTypes ==
  ASSUME StoreTypes, NEW h \in Handlers, NEW r \in Requests, Begins(h, r), accepted' \in Nat
  PROVE  StoreTypes'
<1>. USE DEF StoreTypes, PrimaryTypeOK, QueryAtFirst, storeVars
<1>1. CASE Take(h, r)
  BY <1>1 DEF Take
<1>2. CASE Refuse(h, r)
  BY <1>2 DEF Refuse
<1>3. CASE r = NoRequest /\ Forget(h) /\ UNCHANGED <<pc, storeVars, log>>
  BY <1>3 DEF Forget, Begins
<1>. QED
  BY <1>1, <1>2, <1>3 DEF Begins

-----------------------------------------------------------------------------
(* The write locks.                                                        *)

\* A step that gives nobody a lock and leaves alone whoever keeps one.
LEMMA LockKept ==
  ASSUME LockHasTransaction,
         \A d \in Databases : lock'[d] # NoHandler =>
           /\ lock'[d] = lock[d]
           /\ pc'[lock[d]] = pc[lock[d]]
           /\ req'[lock[d]] = req[lock[d]]
           /\ took[lock[d]] \subseteq took'[lock[d]]
  PROVE  LockHasTransaction'
BY DEF LockHasTransaction, Writes

\* Who holds a lock is a handler in the middle of a transaction.
LEMMA HolderParts ==
  ASSUME StoreTypes, LockHasTransaction, NEW d \in Databases, lock[d] # NoHandler
  PROVE  lock[d] \in Handlers /\ pc[lock[d]] = "exec" /\ req[lock[d]].kind = "tx"
BY DEF StoreTypes, PrimaryTypeOK, LockHasTransaction

LEMMA LockServe ==
  ASSUME StoreTypes, LockHasTransaction, Serve
  PROVE  LockHasTransaction'
<1>. USE DEF StoreTypes, PrimaryTypeOK
<1>1. ASSUME NEW h \in Handlers, LogStatement(h) PROVE LockHasTransaction'
  BY <1>1, LockKept DEF LogStatement, storeVars
<1>2. ASSUME NEW h \in Handlers, OpenDatabase(h) PROVE LockHasTransaction'
  <2>1. pc[h] = "log" /\ \A g \in Handlers \ {h} : pc'[g] = pc[g]
    BY <1>2 DEF OpenDatabase, Answer
  <2>. QED
    BY <1>2, <2>1, LockKept, HolderParts DEF OpenDatabase, storeVars
<1>3. ASSUME NEW h \in Handlers, RunQuery(h) PROVE LockHasTransaction'
  <2>1. /\ req[h].kind = "query" /\ UNCHANGED <<req, lock>>
        /\ \A g \in Handlers \ {h} : pc'[g] = pc[g] /\ took'[g] = took[g]
    BY <1>3 DEF RunQuery, Answer
  <2>. QED
    BY <2>1, LockKept, HolderParts
<1>4. ASSUME NEW h \in Handlers, TxStatement(h) PROVE LockHasTransaction'
  <2>1. UNCHANGED <<pc, req>> /\ pc[h] = "exec" /\ req[h].kind = "tx"
    BY <1>4 DEF TxStatement, NextStatement
  <2>2. CASE UNCHANGED <<lock, dirty, took>>
    BY <2>1, <2>2, LockKept
  <2>3. CASE /\ IsWriteQuery(Stmt(h))
             /\ lock' = [lock EXCEPT ![Db(h)] = h]
             /\ took' = [took EXCEPT ![h] = @ \cup {pos[h]}]
    <3>1. pos[h] \in Writes(h)
      BY <1>4, <2>3, StatementParts DEF TxStatement, Stmt, Writes
    <3>2. pos[h] \in took'[h] /\ \A g \in Handlers : took[g] \subseteq took'[g]
      BY <2>3
    <3>. SUFFICES ASSUME NEW d \in Databases, lock'[d] # NoHandler
                  PROVE  (/\ pc[lock[d]] = "exec"
                          /\ req[lock[d]].kind = "tx"
                          /\ req[lock[d]].db = d
                          /\ took[lock[d]] \cap Writes(lock[d]) # {})'
      BY DEF LockHasTransaction
    <3>3. CASE d = Db(h)
      <4>1. lock'[d] = h /\ req[h].db = d
        BY <2>3, <3>3 DEF Db
      <4>. QED
        BY <2>1, <3>1, <3>2, <4>1 DEF Writes
    <3>4. CASE d # Db(h)
      <4>1. lock'[d] = lock[d] /\ lock[d] \in Handlers /\ lock[d] # NoHandler
        BY <2>3, <3>4, HolderParts
      <4>2. PICK o : o = lock[d]
        OBVIOUS
      <4>3. /\ pc[o] = "exec" /\ req[o].kind = "tx" /\ req[o].db = d
            /\ took[o] \cap Writes(o) # {}
        BY <4>1, <4>2 DEF LockHasTransaction
      <4>4. Writes(o)' = Writes(o) /\ pc'[o] = pc[o] /\ req'[o] = req[o] /\ took[o] \subseteq took'[o]
        BY <2>1, <3>2, <4>1, <4>2 DEF Writes
      <4>5. lock'[d] = o
        BY <4>1, <4>2
      <4>6. pc'[o] = "exec" /\ req'[o].kind = "tx" /\ req'[o].db = d /\ took'[o] \cap Writes(o)' # {}
        BY <4>3, <4>4
      <4>. QED
        BY <4>5, <4>6, Zenon
    <3>. QED
      BY <3>3, <3>4
  <2>. QED
    BY <1>4, <2>2, <2>3 DEF TxStatement
<1>5. ASSUME NEW h \in Handlers, TxCommit(h) \/ TxRollback(h) PROVE LockHasTransaction'
  <2>1. /\ req' = req /\ lock' = [d \in Databases |-> IF lock[d] = h THEN NoHandler ELSE lock[d]]
        /\ \A g \in Handlers \ {h} : pc'[g] = pc[g] /\ took'[g] = took[g]
    BY <1>5 DEF TxCommit, TxRollback, Release, Answer
  <2>. QED
    BY <2>1, LockKept, HolderParts
<1>6. CASE PrimaryCrash
  BY <1>6, LockKept DEF PrimaryCrash
<1>. QED
  BY <1>1, <1>2, <1>3, <1>4, <1>5, <1>6 DEF Serve, HandlerStep

\* An idle handler has no lock that its next request could lose.
LEMMA LockBegins ==
  ASSUME StoreTypes, LockHasTransaction, NEW h \in Handlers, NEW r, Begins(h, r)
  PROVE  LockHasTransaction'
<1>1. /\ pc[h] = "idle" /\ lock' = lock
      /\ \A g \in Handlers \ {h} : pc'[g] = pc[g] /\ req'[g] = req[g] /\ took'[g] = took[g]
  BY DEF Begins, Take, Refuse, Forget, storeVars, StoreTypes, PrimaryTypeOK
<1>. QED
  BY <1>1, LockKept, HolderParts

-----------------------------------------------------------------------------
(* The log before the database.                                            *)

\* What one handler has done, from where it is: l is the log, c the place, r the
\* request, p the statement it is at, x what LogReplication returned, t what SQLite
\* has accepted.  Nothing is accepted before the logging loop is through, and
\* every write that the loop has passed has its row.
RowsIn(l, r, x) ==
  \A i \in DOMAIN x : i \in DOMAIN r.stmts /\ IsWriteQuery(r.stmts[i]) =>
    /\ x[i] \in DOMAIN l
    /\ l[x[i]] = [id |-> x[i], db |-> r.db, q |-> r.stmts[i]]
IdsGrow(l, x) ==
  /\ \A i \in DOMAIN x : x[i] <= Len(l)
  /\ \A i, j \in DOMAIN x : i < j /\ x[i] # 0 /\ x[j] # 0 => x[i] < x[j]
Logged(l, c, r, p, x, t) ==
  /\ c = "log" => t = {} /\ Len(x) = p - 1 /\ p <= Len(r.stmts) + 1
  /\ c = "exec" \/ t # {} => Len(x) = Len(r.stmts)
  /\ RowsIn(l, r, x) /\ IdsGrow(l, x)

LoggedFirst == \A h \in Handlers : Logged(log, pc[h], req[h], pos[h], ids[h], took[h])

\* A row more in the log leaves those a handler knows of where they are.
LEMMA LoggedGrows ==
  ASSUME NEW l \in Seq(LogEntry), NEW e \in LogEntry,
         NEW c, NEW r, NEW p, NEW x \in Seq(Nat), NEW t, Logged(l, c, r, p, x, t)
  PROVE  Logged(Append(l, e), c, r, p, x, t)
<1>1. /\ Len(l) \in Nat /\ Len(Append(l, e)) = Len(l) + 1
      /\ DOMAIN l = 1..Len(l) /\ DOMAIN Append(l, e) = 1..(Len(l) + 1)
      /\ \A i \in 1..Len(l) : Append(l, e)[i] = l[i]
  OBVIOUS
<1>2. \A i \in DOMAIN x : x[i] \in Nat
  OBVIOUS
<1>. QED
  BY <1>1, <1>2 DEF Logged, RowsIn, IdsGrow

\* What there is to show of a handler that logs.
LEMMA LoggedSoFar ==
  ASSUME NEW l, NEW r, NEW p, NEW x, NEW t,
         t = {}, Len(x) = p - 1, p <= Len(r.stmts) + 1, RowsIn(l, r, x), IdsGrow(l, x)
  PROVE  Logged(l, "log", r, p, x, t)
BY DEF Logged

\* What a turn of the logging loop makes of what its handler has done.
LEMMA LoggedTurn ==
  ASSUME "log" \notin Faults, StoreTypes, NEW h \in Handlers, LogStatement(h),
         Logged(log, pc[h], req[h], pos[h], ids[h], took[h])
  PROVE  Logged(log', "log", req[h], pos[h] + 1, ids'[h], took[h])
<1> DEFINE x == ids[h]
<1>1. /\ pc[h] = "log" /\ took[h] = {}
      /\ pos[h] \in Nat /\ Len(x) = pos[h] - 1
      /\ x \in Seq(Nat) /\ Len(log) \in Nat /\ log \in Seq(LogEntry)
      /\ pos[h] \in DOMAIN req[h].stmts /\ Len(req[h].stmts) \in Nat
      /\ DOMAIN req[h].stmts = 1..Len(req[h].stmts)
  BY StatementParts, RequestParts DEF LogStatement, StoreTypes, PrimaryTypeOK, Logged, RowsIn, IdsGrow
<1>2. \/ /\ IsWriteQuery(Stmt(h)) /\ ids'[h] = Append(x, Len(log) + 1)
         /\ log' = Append(log, [id |-> Len(log) + 1, db |-> Db(h), q |-> Stmt(h)])
      \/ ~IsWriteQuery(Stmt(h)) /\ ids'[h] = Append(x, 0) /\ log' = log
  BY DEF LogStatement, Fault, LogReplication, StoreTypes, PrimaryTypeOK
<1>3. /\ Len(ids'[h]) = pos[h] /\ DOMAIN ids'[h] = 1..pos[h]
      /\ \A i \in 1..(pos[h] - 1) : ids'[h][i] = x[i] /\ x[i] \in Nat
      /\ DOMAIN x = 1..(pos[h] - 1)
  <2>1. PICK k \in Nat : ids'[h] = Append(x, k)
    BY <1>1, <1>2
  <2>2. /\ Len(ids'[h]) = Len(x) + 1 /\ DOMAIN ids'[h] = 1..(Len(x) + 1)
        /\ DOMAIN x = 1..Len(x) /\ \A i \in 1..Len(x) : ids'[h][i] = x[i] /\ x[i] \in Nat
    <3>1. x \in Seq(Nat)
      BY <1>1
    <3> HIDE DEF x
    <3>. QED
      BY <2>1, <3>1
  <2>3. Len(x) + 1 = pos[h] /\ Len(x) = pos[h] - 1
    BY <1>1
  <2>. QED
    BY <2>2, <2>3, Zenon
<1>4. /\ Len(log') >= Len(log) /\ Len(log') \in Nat
      /\ DOMAIN log = 1..Len(log) /\ DOMAIN log' = 1..Len(log')
      /\ \A i \in 1..Len(log) : log'[i] = log[i]
  <2>1. CASE log' = log
    BY <1>1, <2>1
  <2>2. CASE log' = Append(log, [id |-> Len(log) + 1, db |-> Db(h), q |-> Stmt(h)])
    <3> DEFINE e == [id |-> Len(log) + 1, db |-> Db(h), q |-> Stmt(h)]
    <3>1. log' = Append(log, e)
      BY <2>2
    <3> HIDE DEF e
    <3>2. log \in Seq(LogEntry)
      BY <1>1
    <3>3. /\ Len(log') = Len(log) + 1 /\ DOMAIN log = 1..Len(log)
          /\ DOMAIN log' = 1..(Len(log) + 1)
          /\ \A i \in 1..Len(log) : log'[i] = log[i]
      BY <3>1, <3>2
    <3>. QED
      BY <1>1, <3>3
  <2>. QED
    BY <1>2, <2>1, <2>2
<1>7. /\ took[h] = {}
      /\ Len(ids'[h]) = (pos[h] + 1) - 1 /\ pos[h] + 1 <= Len(req[h].stmts) + 1
  BY <1>1, <1>3
<1>5. CASE ~IsWriteQuery(Stmt(h))
  <2>1. ids'[h][pos[h]] = 0 /\ log' = log
    BY <1>1, <1>2, <1>5
  <2>2. ASSUME NEW i \in DOMAIN ids'[h]
        PROVE  \/ i = pos[h] /\ ids'[h][i] = 0
               \/ i \in DOMAIN ids[h] /\ i # pos[h] /\ ids'[h][i] = ids[h][i]
    BY <1>1, <1>3, <2>1
  <2>3. ~IsWriteQuery(req[h].stmts[pos[h]])
    BY <1>5 DEF Stmt
  <2>4. ASSUME NEW i \in DOMAIN ids'[h], i \in DOMAIN req[h].stmts, IsWriteQuery(req[h].stmts[i])
        PROVE  /\ ids'[h][i] \in DOMAIN log'
               /\ log'[ids'[h][i]] = [id |-> ids'[h][i], db |-> req[h].db, q |-> req[h].stmts[i]]
    BY <2>1, <2>2, <2>3, <2>4 DEF Logged, RowsIn, IdsGrow
  <2>5. ASSUME NEW i \in DOMAIN ids'[h] PROVE ids'[h][i] <= Len(log')
    <3>1. i \in DOMAIN x => x[i] <= Len(log)
      BY DEF Logged, RowsIn, IdsGrow
    <3>2. Len(log) \in Nat
      BY <1>1
    <3>. QED
      BY <2>1, <2>2, <3>1, <3>2
  <2>6. ASSUME NEW i \in DOMAIN ids'[h], NEW j \in DOMAIN ids'[h],
               i < j, ids'[h][i] # 0, ids'[h][j] # 0
        PROVE  ids'[h][i] < ids'[h][j]
    BY <2>2, <2>6 DEF Logged, RowsIn, IdsGrow
  <2>. QED
    <3>1. RowsIn(log', req[h], ids'[h])
      BY <2>4 DEF RowsIn
    <3>2. IdsGrow(log', ids'[h])
      BY <2>5, <2>6 DEF IdsGrow
    <3>. QED
      BY <1>7, <3>1, <3>2, LoggedSoFar, Zenon
<1>6. CASE IsWriteQuery(Stmt(h))
  <2> DEFINE n == Len(log) + 1
  <2>1. /\ ids'[h][pos[h]] = n /\ n \in Nat /\ n \in DOMAIN log' /\ Len(log') = n
        /\ log'[n] = [id |-> n, db |-> req[h].db, q |-> req[h].stmts[pos[h]]]
    <3>1. /\ ids'[h] = Append(x, n)
          /\ log' = Append(log, [id |-> n, db |-> req[h].db, q |-> req[h].stmts[pos[h]]])
      BY <1>2, <1>6 DEF Db, Stmt
    <3>2. n \in Nat /\ Len(x) + 1 = pos[h]
      BY <1>1
    <3>3. ids'[h][Len(x) + 1] = n
      BY <1>1, <3>1
    <3>4. PICK e : e = [id |-> n, db |-> req[h].db, q |-> req[h].stmts[pos[h]]]
      OBVIOUS
    <3>5. log' = Append(log, e)
      BY <3>1, <3>4
    <3>6. Len(log') = n /\ log'[n] = e /\ n \in DOMAIN log'
      BY <1>1, <3>2, <3>5
    <3>. QED
      BY <3>2, <3>3, <3>4, <3>6
  <2>7. \A i \in DOMAIN ids'[h] : i \in 1..pos[h] /\ (i # pos[h] => i \in 1..(pos[h] - 1))
    BY <1>1, <1>3
  <2>2. ASSUME NEW i \in DOMAIN ids'[h], IsWriteQuery(req[h].stmts[i])
        PROVE  /\ ids'[h][i] \in DOMAIN log'
               /\ log'[ids'[h][i]] = [id |-> ids'[h][i], db |-> req[h].db, q |-> req[h].stmts[i]]
    <3>1. CASE i = pos[h]
      BY <2>1, <3>1
    <3>2. CASE i # pos[h]
      <4>1. i \in DOMAIN ids[h] /\ i \in DOMAIN req[h].stmts /\ ids'[h][i] = ids[h][i]
        <5>1. i \in DOMAIN ids[h] /\ ids'[h][i] = ids[h][i]
          BY <1>3, <2>7, <3>2
        <5>2. i \in DOMAIN req[h].stmts
          BY <1>1, <1>3, <2>7
        <5>. QED
          BY <5>1, <5>2
      <4>2. ids[h][i] \in 1..Len(log)
        BY <1>4, <2>2, <4>1 DEF Logged, RowsIn, IdsGrow
      <4>3. log[ids[h][i]] = [id |-> ids[h][i], db |-> req[h].db, q |-> req[h].stmts[i]]
        BY <2>2, <4>1 DEF Logged, RowsIn, IdsGrow
      <4>4. log'[ids[h][i]] = log[ids[h][i]] /\ ids[h][i] \in DOMAIN log'
        BY <1>4, <4>2
      <4>. QED
        BY <4>1, <4>3, <4>4
    <3>. QED
      BY <3>1, <3>2
  <2>3. ASSUME NEW i \in DOMAIN ids'[h]
        PROVE  ids'[h][i] \in Nat /\ ids'[h][i] <= n /\ (i # pos[h] => ids'[h][i] < n)
    <3>1. CASE i = pos[h]
      BY <2>1, <3>1
    <3>2. CASE i # pos[h]
      <4>1. i \in DOMAIN ids[h] /\ ids'[h][i] = ids[h][i] /\ ids[h][i] \in Nat
        BY <1>3, <2>7, <3>2
      <4>2. ids[h][i] <= Len(log)
        BY <4>1 DEF Logged, RowsIn, IdsGrow
      <4>. QED
        BY <1>1, <4>1, <4>2
    <3>. QED
      BY <3>1, <3>2
  <2>4. ASSUME NEW i \in DOMAIN ids'[h], NEW j \in DOMAIN ids'[h],
               i < j, ids'[h][i] # 0, ids'[h][j] # 0
        PROVE  ids'[h][i] < ids'[h][j]
    <3>1. i \in 1..(pos[h] - 1) /\ i # pos[h]
      BY <1>1, <1>3, <2>4
    <3>2. CASE j = pos[h]
      BY <2>1, <2>3, <3>1, <3>2
    <3>3. CASE j # pos[h]
      <4>1. j \in 1..(pos[h] - 1)
        BY <1>1, <1>3, <3>3
      <4>. QED
        BY <1>3, <2>4, <3>1, <4>1 DEF Logged, RowsIn, IdsGrow
    <3>. QED
      BY <3>2, <3>3
  <2>5. \A i \in DOMAIN ids'[h] : ids'[h][i] <= Len(log')
    BY <2>1, <2>3
  <2>. QED
    <3>1. RowsIn(log', req[h], ids'[h])
      BY <2>2 DEF RowsIn
    <3>2. IdsGrow(log', ids'[h])
      BY <2>4, <2>5 DEF IdsGrow
    <3>. QED
      BY <1>7, <3>1, <3>2, LoggedSoFar, Zenon
<1>. QED
  BY <1>5, <1>6

\* A step of handler h that leaves the log and the other handlers alone.
LEMMA LoggedKept ==
  ASSUME LoggedFirst, NEW h \in Handlers, log' = log,
         \A g \in Handlers \ {h} :
           /\ pc'[g] = pc[g] /\ req'[g] = req[g] /\ pos'[g] = pos[g]
           /\ ids'[g] = ids[g] /\ took'[g] = took[g],
         Logged(log, pc'[h], req'[h], pos'[h], ids'[h], took'[h])
  PROVE  LoggedFirst'
BY DEF LoggedFirst

LEMMA LoggedServe ==
  ASSUME "log" \notin Faults, StoreTypes, LoggedFirst, Serve
  PROVE  LoggedFirst'
<1>. USE DEF StoreTypes, PrimaryTypeOK
<1>1. ASSUME NEW h \in Handlers, LogStatement(h) PROVE LoggedFirst'
  <2>1. /\ UNCHANGED <<pc, req, took>> /\ pc[h] = "log"
        /\ pos'[h] = pos[h] + 1
        /\ \A g \in Handlers \ {h} : pos'[g] = pos[g] /\ ids'[g] = ids[g]
    BY <1>1 DEF LogStatement
  <2>2. Logged(log, pc[h], req[h], pos[h], ids[h], took[h])
    BY DEF LoggedFirst
  <2>3. Logged(log', pc'[h], req'[h], pos'[h], ids'[h], took'[h])
    BY <1>1, <2>1, <2>2, LoggedTurn
  <2>4. ASSUME NEW g \in Handlers \ {h}
        PROVE  Logged(log', pc[g], req[g], pos[g], ids[g], took[g])
    <3>1. Logged(log, pc[g], req[g], pos[g], ids[g], took[g])
      BY DEF LoggedFirst
    <3>2. \/ log' = log
          \/ log' = Append(log, [id |-> Len(log) + 1, db |-> Db(h), q |-> Stmt(h)])
      BY <1>1 DEF LogStatement, LogReplication
    <3>3. [id |-> Len(log) + 1, db |-> Db(h), q |-> Stmt(h)] \in LogEntry
      BY <1>1, StatementParts DEF LogStatement, LogEntry
    <3>4. ids[g] \in Seq(Nat)
      OBVIOUS
    <3>5. CASE log' = log
      BY <3>1, <3>5
    <3>6. CASE log' = Append(log, [id |-> Len(log) + 1, db |-> Db(h), q |-> Stmt(h)])
      BY <3>1, <3>3, <3>4, <3>6, LoggedGrows
    <3>. QED
      BY <3>2, <3>5, <3>6
  <2>. QED
    BY <2>1, <2>3, <2>4 DEF LoggedFirst
<1>2. ASSUME NEW h \in Handlers, OpenDatabase(h) PROVE LoggedFirst'
  <2>1. Logged(log, pc[h], req[h], pos[h], ids[h], took[h]) /\ pc[h] = "log"
    BY <1>2 DEF LoggedFirst, OpenDatabase
  <2>2. /\ UNCHANGED <<req, ids, took, log>> /\ pc'[h] \in {"exec", "idle"}
        /\ \A g \in Handlers \ {h} : pc'[g] = pc[g] /\ pos'[g] = pos[g]
    BY <1>2 DEF OpenDatabase, Answer
  <2>3. Len(ids[h]) = Len(req[h].stmts)
    <3>1. pos[h] > Len(req[h].stmts) /\ pos[h] \in Nat /\ Len(req[h].stmts) \in Nat
      BY <1>2, RequestParts DEF OpenDatabase, LoopEnded
    <3>. QED
      BY <2>1, <3>1 DEF Logged, RowsIn, IdsGrow
  <2>4. Logged(log, pc'[h], req'[h], pos'[h], ids'[h], took'[h])
    BY <2>1, <2>2, <2>3 DEF Logged, RowsIn, IdsGrow
  <2>. QED
    BY <2>2, <2>4, LoggedKept
<1>3. ASSUME NEW h \in Handlers, RunQuery(h) \/ TxStatement(h) \/ TxCommit(h) \/ TxRollback(h)
      PROVE  LoggedFirst'
  <2>1. Logged(log, pc[h], req[h], pos[h], ids[h], took[h]) /\ pc[h] = "exec"
    BY <1>3 DEF LoggedFirst, RunQuery, TxStatement, TxCommit, TxRollback
  <2>2. /\ UNCHANGED <<req, ids, log>> /\ pc'[h] \in {"exec", "idle"}
        /\ \A g \in Handlers \ {h} : pc'[g] = pc[g] /\ pos'[g] = pos[g] /\ took'[g] = took[g]
    BY <1>3 DEF RunQuery, TxStatement, TxCommit, TxRollback, Answer, NextStatement
  <2>3. Logged(log, pc'[h], req'[h], pos'[h], ids'[h], took'[h])
    BY <2>1, <2>2 DEF Logged, RowsIn, IdsGrow
  <2>. QED
    BY <2>2, <2>3, LoggedKept
<1>4. CASE PrimaryCrash
  <2>1. /\ UNCHANGED <<req, pos, ids, log>>
        /\ \A h \in Handlers : pc'[h] = "idle" /\ took'[h] \in {took[h], {}}
    BY <1>4 DEF PrimaryCrash
  <2>2. ASSUME NEW h \in Handlers
        PROVE  Logged(log', pc'[h], req'[h], pos'[h], ids'[h], took'[h])
    <3>1. Logged(log, pc[h], req[h], pos[h], ids[h], took[h])
      BY DEF LoggedFirst
    <3>2. /\ log' = log /\ req'[h] = req[h] /\ pos'[h] = pos[h] /\ ids'[h] = ids[h]
          /\ pc'[h] = "idle" /\ took'[h] \in {took[h], {}}
      BY <2>1
    <3>. QED
      BY <3>1, <3>2 DEF Logged, RowsIn, IdsGrow
  <2>. QED
    BY <2>2 DEF LoggedFirst
<1>. QED
  BY <1>1, <1>2, <1>3, <1>4 DEF Serve, HandlerStep

LEMMA LoggedBegins ==
  ASSUME StoreTypes, LoggedFirst, NEW h \in Handlers, NEW r \in Requests, Begins(h, r)
  PROVE  LoggedFirst'
<1>1. /\ log' = log /\ pc'[h] \in {"idle", "log"} /\ (pc'[h] = "log" => pos'[h] = 1)
      /\ req'[h] = r /\ ids'[h] = <<>> /\ took'[h] = {}
      /\ \A g \in Handlers \ {h} :
           /\ pc'[g] = pc[g] /\ req'[g] = req[g] /\ pos'[g] = pos[g]
           /\ ids'[g] = ids[g] /\ took'[g] = took[g]
  BY DEF Begins, Take, Refuse, Forget, storeVars, StoreTypes, PrimaryTypeOK
<1>2. Logged(log, pc'[h], req'[h], pos'[h], ids'[h], took'[h])
  BY <1>1, RequestParts DEF Logged, RowsIn, IdsGrow
<1>. QED
  BY <1>1, <1>2, LoggedKept

LEMMA LoggedIsEnough == StoreTypes /\ LoggedFirst => EveryWriteLogged
<1>. SUFFICES ASSUME StoreTypes, LoggedFirst, NEW h \in Handlers
              PROVE  /\ \A i \in took[h] \cap Writes(h) :
                          /\ i \in DOMAIN ids[h]
                          /\ ids[h][i] \in DOMAIN log
                          /\ log[ids[h][i]] = [id |-> ids[h][i], db |-> Db(h), q |-> req[h].stmts[i]]
                     /\ \A i, j \in DOMAIN ids[h] :
                          i < j /\ ids[h][i] # 0 /\ ids[h][j] # 0 => ids[h][i] < ids[h][j]
  BY DEF EveryWriteLogged
<1>1. Logged(log, pc[h], req[h], pos[h], ids[h], took[h])
  BY DEF LoggedFirst
<1>2. req[h] \in Requests /\ ids[h] \in Seq(Nat)
  BY DEF StoreTypes, PrimaryTypeOK
<1>3. ASSUME NEW i \in took[h] \cap Writes(h)
      PROVE  i \in DOMAIN ids[h] /\ i \in DOMAIN req[h].stmts /\ IsWriteQuery(req[h].stmts[i])
  <2>1. Len(ids[h]) = Len(req[h].stmts)
    BY <1>1, <1>3 DEF Logged, RowsIn, IdsGrow
  <2>. QED
    BY <1>2, <1>3, <2>1, RequestParts DEF Writes
<1>. QED
  BY <1>1, <1>3 DEF Logged, RowsIn, IdsGrow, Db

-----------------------------------------------------------------------------
(* The server alone.                                                       *)

PrimaryInv == StoreTypes /\ LockHasTransaction

LEMMA StartIsSound == PrimaryStart => PrimaryInv /\ LoggedFirst
<1>. SUFFICES ASSUME PrimaryStart PROVE PrimaryInv /\ LoggedFirst
  OBVIOUS
<1>. USE DEF PrimaryStart, PrimaryInit, WriteLogInit
<1>1. StoreTypes
  BY DatabaseAssumption DEF StoreTypes, PrimaryTypeOK, QueryAtFirst
<1>2. LockHasTransaction
  BY DEF LockHasTransaction
<1>3. LoggedFirst
  BY DEF LoggedFirst, Logged, RowsIn, IdsGrow
<1>. QED
  BY <1>1, <1>2, <1>3 DEF PrimaryInv

\* A request that comes in, whoever sent it.
LEMMA PrimaryInvBegins ==
  ASSUME PrimaryInv, NEW h \in Handlers, NEW r \in Requests, Refuse(h, r) \/ Accept(h, r)
  PROVE  PrimaryInv' /\ (LoggedFirst => LoggedFirst')
<1>1. Begins(h, r) /\ accepted' \in Nat
  BY DEF Begins, Refuse, Accept, Take, PrimaryInv, StoreTypes, PrimaryTypeOK
<1>. QED
  BY <1>1, BeginsTypes, LockBegins, LoggedBegins DEF PrimaryInv

LEMMA PrimaryInvStep == PrimaryInv /\ [PrimaryNext]_<<primaryVars, log, faults>> => PrimaryInv'
<1>. SUFFICES ASSUME PrimaryInv, [PrimaryNext]_<<primaryVars, log, faults>>
              PROVE  PrimaryInv'
  OBVIOUS
<1>1. CASE Serve
  BY <1>1, ServeTypes, LockServe DEF PrimaryInv
<1>2. CASE UNCHANGED <<primaryVars, log, faults>>
  BY <1>2 DEF PrimaryInv, StoreTypes, PrimaryTypeOK, QueryAtFirst, LockHasTransaction, Writes,
              primaryVars, handlerVars, storeVars
<1>. QED
  BY <1>1, <1>2, PrimaryInvBegins DEF PrimaryNext

\* Every way out of a transaction gives its write lock up, for any number of handlers,
\* databases and requests, and under every fault (ExecuteTransactionContext).
THEOREM PrimaryLocksCorrect == PrimarySpec => []LockHasTransaction
<1>1. PrimaryStart => PrimaryInv
  BY StartIsSound
<1>2. PrimaryInv => LockHasTransaction
  BY DEF PrimaryInv
<1>. QED
  BY <1>1, <1>2, PrimaryInvStep, PTL DEF PrimarySpec

\* As long as the insert into replication_log does not fail, every write that SQLite
\* accepts from a handler has its row, and the rows of a request are in order.
THEOREM PrimaryLogsFirst ==
  ASSUME "log" \notin Faults
  PROVE  PrimarySpec => []EveryWriteLogged
<1>1. PrimaryStart => PrimaryInv /\ LoggedFirst
  BY StartIsSound
<1>2. ASSUME PrimaryInv, LoggedFirst, [PrimaryNext]_<<primaryVars, log, faults>>
      PROVE  LoggedFirst'
  <2>1. CASE Serve
    BY <1>2, <2>1, LoggedServe DEF PrimaryInv
  <2>2. CASE UNCHANGED <<primaryVars, log, faults>>
    BY <1>2, <2>2 DEF LoggedFirst, primaryVars, handlerVars
  <2>. QED
    BY <1>2, <2>1, <2>2, PrimaryInvBegins DEF PrimaryNext
<1>3. PrimaryInv /\ LoggedFirst => EveryWriteLogged
  BY LoggedIsEnough DEF PrimaryInv
<1>. QED
  BY <1>1, <1>2, <1>3, PrimaryInvStep, PTL DEF PrimarySpec

-----------------------------------------------------------------------------
(* How a file is cut.                                                      *)

LEMMA Least ==
  ASSUME NEW S \in SUBSET Nat, S # {}
  PROVE  \E n \in S : \A m \in S : n <= m
<1> DEFINE R == OpToRel(<, Nat)
<1>1. PICK n \in S : \A m \in S : <<m, n>> \notin R
  <2>1. IsWellFoundedOn(R, Nat)
    BY NatLessThanWellFounded
  <2> HIDE DEF R
  <2>. QED
    BY <2>1, WFMin
<1>2. \A m \in S : ~(m < n)
  BY <1>1 DEF OpToRel
<1>. QED
  BY <1>2

\* Statements are what kept is cut into: every line goes into one of them.
IsCut(cut, kept) ==
  /\ cut \in Seq(SUBSET kept)
  /\ \A u \in kept : \E i \in DOMAIN cut : u \in cut[i]
  /\ \A i, j \in DOMAIN cut : cut[i] \cap cut[j] # {} => i = j

\* As many batches as n rows need hold them.
LEMMA BatchesSuffice ==
  ASSUME NEW n \in Nat, NEW size \in Nat \ {0}
  PROVE  /\ (n + size - 1) \div size \in Nat
         /\ n <= ((n + size - 1) \div size) * size
<1>1. PICK m \in Nat : m = n + size - 1
  OBVIOUS
<1>2. PICK q \in Int, r \in Int : q = m \div size /\ r = m % size
  OBVIOUS
<1>3. m = size * q + r /\ 0 <= r /\ r < size
  BY <1>2, Z3T(30)
<1>4. q >= 0
  <2>1. SUFFICES ASSUME q <= -1 PROVE FALSE
    BY <1>2
  <2>2. size * q <= -size
    BY <1>2, <2>1, Z3T(30)
  <2>. QED
    BY <1>1, <1>2, <1>3, <2>2
<1>5. size * q = q * size
  BY <1>2
<1>6. n <= q * size
  BY <1>1, <1>2, <1>3, <1>5
<1>. QED
  BY <1>1, <1>2, <1>4, <1>6

LEMMA BatchesCut ==
  ASSUME NEW n \in Nat
  PROVE  IsCut(Batches(n), 1..n)
<1> DEFINE k == (n + BatchSize - 1) \div BatchSize
           row == [b \in 1..k |-> {u \in 1..n : (b - 1) * BatchSize < u /\ u <= b * BatchSize}]
<1>1. BatchSize \in Nat \ {0} /\ k \in Nat /\ n <= k * BatchSize
  <2>1. BatchSize \in Nat \ {0}
    BY ImportAssumption
  <2>. QED
    BY <2>1, BatchesSuffice
<1>2. /\ Batches(n) = << {} >> \o row
      /\ row \in Seq(SUBSET (1..n)) /\ Len(row) = k
  BY <1>1 DEF Batches
<1>3. /\ Len(Batches(n)) = k + 1 /\ DOMAIN Batches(n) = 1..(k + 1)
      /\ Batches(n)[1] = {}
      /\ \A i \in 2..(k + 1) : Batches(n)[i] = row[i - 1]
  BY <1>1, <1>2
<1>4. ASSUME NEW i \in 1..(k + 1), NEW u \in Batches(n)[i]
      PROVE  u \in 1..n /\ i \in 2..(k + 1) /\ (i - 2) * BatchSize < u /\ u <= (i - 1) * BatchSize
  <2>1. i \in 2..(k + 1) /\ i - 1 \in 1..k /\ u \in row[i - 1]
    <3>1. i # 1
      BY <1>3, <1>4
    <3>2. i \in 2..(k + 1) /\ i - 1 \in 1..k
      BY <1>1, <3>1
    <3> HIDE DEF k, row
    <3>. QED
      BY <1>3, <1>4, <3>2
  <2>2. u \in 1..n /\ ((i - 1) - 1) * BatchSize < u /\ u <= (i - 1) * BatchSize
    BY <2>1
  <2>3. (i - 1) - 1 = i - 2
    BY <2>1
  <2>. QED
    BY <2>1, <2>2, <2>3
<1>5. ASSUME NEW u \in 1..n
      PROVE  \E i \in 1..(k + 1) : u \in Batches(n)[i]
  <2> DEFINE S == {b \in Nat : u <= b * BatchSize}
  <2>1. k \in S
    BY <1>1
  <2>2. PICK b \in S : \A m \in S : b <= m
    <3> HIDE DEF S
    <3>1. S \in SUBSET Nat
      BY DEF S
    <3>. QED
      BY <2>1, <3>1, Least
  <2>3. b \in Nat \ {0} /\ b <= k /\ u <= b * BatchSize
    BY <1>1, <2>1, <2>2
  <2>4. (b - 1) * BatchSize < u
    <3>1. b - 1 \notin S
      BY <2>2, <2>3
    <3>2. (b - 1) * BatchSize \in Nat
      BY <1>1, <2>3
    <3>. QED
      BY <2>3, <3>1, <3>2
  <2>5. b + 1 \in 2..(k + 1) /\ (b + 1) - 1 = b /\ u \in row[b]
    BY <1>1, <2>3, <2>4
  <2>6. Batches(n)[b + 1] = row[b]
    BY <1>3, <2>5
  <2>. QED
    BY <2>5, <2>6
<1>6. ASSUME NEW i \in 1..(k + 1), NEW j \in 1..(k + 1), Batches(n)[i] \cap Batches(n)[j] # {}
      PROVE  i = j
  <2>1. PICK u : u \in Batches(n)[i] /\ u \in Batches(n)[j]
    BY <1>6
  <2>2. ASSUME NEW a \in 2..(k + 1), NEW b \in 2..(k + 1), a < b,
               u <= (a - 1) * BatchSize, (b - 2) * BatchSize < u
        PROVE  FALSE
    <3>1. (a - 1) * BatchSize <= (b - 2) * BatchSize
      BY <1>1, <2>2
    <3>2. (a - 1) * BatchSize \in Nat /\ (b - 2) * BatchSize \in Nat /\ u \in Nat
      BY <1>1, <1>4, <2>1, <2>2
    <3>. QED
      BY <2>2, <3>1, <3>2
  <2>3. /\ i \in 2..(k + 1) /\ j \in 2..(k + 1)
        /\ (i - 2) * BatchSize < u /\ u <= (i - 1) * BatchSize
        /\ (j - 2) * BatchSize < u /\ u <= (j - 1) * BatchSize
    BY <1>4, <2>1
  <2>4. ~(i < j) /\ ~(j < i)
    BY <2>2, <2>3
  <2>. QED
    BY <1>1, <2>3, <2>4
<1> HIDE DEF k, row
<1>8. Batches(n) \in Seq(SUBSET (1..n)) /\ DOMAIN Batches(n) = 1..(k + 1)
  BY <1>2, <1>3
<1>. QED
  BY <1>5, <1>6, <1>8 DEF IsCut

LEMMA EndedType ==
  ASSUME NEW n \in Nat, NEW lines, NEW u \in 1..(n + 1)
  PROVE  Ended(lines, u) \in Nat /\ Ended(lines, u) <= Ended(lines, n + 1)
<1> DEFINE C(v) == {w \in 1..v-1 : lines[w] = "closed"}
<1>1. ASSUME NEW v \in 1..(n + 1) PROVE IsFiniteSet(C(v)) /\ Cardinality(C(v)) \in Nat
  <2>1. IsFiniteSet(1..v-1)
    BY FS_Interval
  <2>. QED
    BY <2>1, FS_Subset, FS_CardinalityType
<1>2. C(u) \subseteq C(n + 1)
  OBVIOUS
<1> HIDE DEF C
<1>3. Cardinality(C(u)) <= Cardinality(C(n + 1))
  <2>1. IsFiniteSet(C(n + 1)) /\ C(u) \in SUBSET C(n + 1)
    BY <1>1, <1>2
  <2>. QED
    BY <2>1, FS_Subset
<1>. QED
  BY <1>1, <1>3 DEF Ended, C

LEMMA LinesCut ==
  ASSUME NEW lines, Len(lines) \in Nat, DOMAIN lines = 1..Len(lines),
         NEW kept \in SUBSET DOMAIN lines
  PROVE  IsCut(CutAtSemicolons(lines, kept), kept)
<1> DEFINE closed == Ended(lines, Len(lines) + 1)
           rest == IF \E u \in kept : Ended(lines, u) = closed THEN 1 ELSE 0
           cut == CutAtSemicolons(lines, kept)
<1>1. closed \in Nat /\ \A u \in kept : Ended(lines, u) \in Nat /\ Ended(lines, u) <= closed
  BY EndedType
<1> HIDE DEF closed
<1>2. rest \in Nat /\ \A u \in kept : Ended(lines, u) + 1 \in 1..(closed + rest)
  BY <1>1
<1>3. cut = [i \in 1..closed + rest |-> {u \in kept : Ended(lines, u) + 1 = i}]
  BY DEF CutAtSemicolons, closed
<1> HIDE DEF rest
<1>4. cut \in Seq(SUBSET kept)
  BY <1>1, <1>2, <1>3
<1>. QED
  BY <1>1, <1>2, <1>3, <1>4 DEF IsCut

\* What of a file is sent.
Kept(f) == IF f.format = "shell" THEN Units(f) \ Swallowed(f.lines) ELSE Units(f)

LEMMA PlanParts ==
  ASSUME NEW f \in Files
  PROVE  /\ IsCut(Plans[f], Kept(f))
         /\ Plans[f] # <<>>
<1>1. Plans[f] # <<>> /\ Plans[f] = Plan(f) /\ f \in FileType
  BY ImportAssumption DEF Plans
<1>2. CASE f.format = "rows"
  <2>1. f.size \in Nat
    BY <1>1, <1>2 DEF FileType
  <2>. QED
    BY <1>1, <1>2, <2>1, BatchesCut DEF Plan, Kept, Units
<1>3. CASE f.format \in {"sql", "shell"}
  <2> DEFINE l == f.lines
  <2>1. Len(l) \in Nat /\ DOMAIN l = 1..Len(l)
    BY <1>1, <1>3 DEF FileType
  <2>2. CASE f.format = "sql"
    <3>1. SqlLines(l) \in SUBSET DOMAIN l
      BY DEF SqlLines
    <3>2. IsCut(CutAtSemicolons(l, SqlLines(l)), SqlLines(l))
      BY <2>1, <3>1, LinesCut
    <3>. QED
      BY <1>1, <2>2, <3>2 DEF Plan, SplitSQL, Kept, Units
  <2>3. CASE f.format = "shell"
    <3> DEFINE cut == CutAtSemicolons(l, DOMAIN l)
               sent == [i \in DOMAIN cut |-> cut[i] \ Swallowed(l)]
    <3>1. IsCut(cut, DOMAIN l)
      BY <2>1, LinesCut
    <3>2. Plans[f] = sent
      BY <1>1, <2>3 DEF Plan, ShellStatements
    <3>3. Kept(f) = DOMAIN l \ Swallowed(l)
      <4>1. ASSUME NEW u \in DOMAIN l, l[u] = "comment" PROVE u \in Swallowed(l)
        BY <2>1, <4>1 DEF Swallowed
      <4>. QED
        BY <2>3, <4>1 DEF Kept, Units, SqlLines
    <3>4. /\ cut \in Seq(SUBSET DOMAIN l) /\ DOMAIN cut = 1..Len(cut) /\ Len(cut) \in Nat
          /\ \A i \in DOMAIN cut : cut[i] \subseteq DOMAIN l
      BY <3>1 DEF IsCut
    <3> HIDE DEF cut
    <3>5. sent \in Seq(SUBSET Kept(f))
      BY <3>3, <3>4
    <3>6. /\ \A u \in Kept(f) : \E i \in DOMAIN sent : u \in sent[i]
          /\ \A i, j \in DOMAIN sent : sent[i] \cap sent[j] # {} => i = j
      BY <3>1, <3>3 DEF IsCut
    <3>. QED
      BY <1>1, <3>2, <3>5, <3>6 DEF IsCut
  <2>. QED
    BY <1>3, <2>2, <2>3
<1>. QED
  BY <1>1, <1>2, <1>3 DEF FileType

-----------------------------------------------------------------------------
(* The command and the server.                                             *)

\* The request has unit u of the file in it.
Carries(r, u) == \E i \in DOMAIN plan : u \in plan[i] /\ r = JobRequest(file, i, role)

\* The requests on their way into the database that have unit u in them.
InFlight(u) == {h \in Handlers : pc[h] # "idle" /\ Carries(req[h], u)}

\* What a handler works on is the command's, or of a client that carries no unit.
KnownRequests ==
  \A h \in Handlers : pc[h] # "idle" =>
     \/ req[h] \in ClientRequests
     \/ \E i \in DOMAIN plan : req[h] = JobRequest(file, i, role)

\* A query has nothing accepted before its answer.
QueryFresh == \A h \in Handlers : pc[h] # "idle" /\ req[h].kind = "query" => took[h] = {}

\* No transaction adds a unit to what it found, and nobody else writes meanwhile.
DirtyAddsNone ==
  lock[JobDb] # NoHandler =>
    \A u \in Units(file) : Copies(u, dirty[JobDb]) = Copies(u, pstate[JobDb])

\* A good answer to what was sent last means that it is in.
SentIsIn ==
  job = "sent" =>
    /\ conn \in Handlers
    /\ req[conn] = JobRequest(file, at, role)
    /\ pc[conn] = "idle" /\ reply[conn] = 200 /\ took[conn] # {} =>
         \A u \in plan[at] : InDb(u) > 0

\* Where the command is in its file.
PlaceInPlan ==
  /\ job # "ended" => at <= Len(plan)
  /\ job = "ended" => at = Len(plan) + 1
  /\ file.format # "shell" => missed = {}

\* How often the runs have sent statement i.
SentTimes(i) == IF i > at \/ (i = at /\ job = "ready") THEN runs - 1 ELSE runs

\* Each time a statement was sent stands for at most one copy: one that is in the
\* database, or one on its way.
CopiesBounded ==
  \A i \in DOMAIN plan : \A u \in plan[i] :
    /\ IsFiniteSet(InFlight(u))
    /\ InDb(u) + Cardinality(InFlight(u)) <= SentTimes(i)

PassedIsIn ==
  \A i \in DOMAIN plan : \A u \in plan[i] : i < at /\ i \notin missed => InDb(u) > 0

ImportInv ==
  /\ StoreTypes /\ ImportTypeOK
  /\ KnownRequests /\ QueryFresh /\ DirtyAddsNone
  /\ SentIsIn /\ PlaceInPlan
  /\ CopiesBounded /\ PassedIsIn

LEMMA FileParts ==
  ASSUME ImportTypeOK
  PROVE  /\ plan = Plans[file] /\ Len(plan) \in Nat \ {0} /\ DOMAIN plan = 1..Len(plan)
         /\ \A i \in DOMAIN plan : plan[i] \subseteq Units(file)
         /\ \A i, j \in DOMAIN plan : plan[i] \cap plan[j] # {} => i = j
         /\ \A i \in DOMAIN plan : JobRequest(file, i, role) \in Requests
         /\ JobDb \in Databases
<1>1. file \in Files /\ role \in JobRoles
  BY DEF ImportTypeOK
<1>2. IsCut(plan, Kept(file)) /\ plan # <<>> /\ Kept(file) \subseteq Units(file)
  BY <1>1, PlanParts DEF plan, Kept
<1>3. plan \in Seq(SUBSET Kept(file)) /\ Len(plan) # 0
  BY <1>2 DEF IsCut
<1>4. Len(plan) \in Nat \ {0} /\ DOMAIN plan = 1..Len(plan)
  BY <1>3
<1>5. \A i \in DOMAIN plan : JobRequest(file, i, role) \in Requests
  BY <1>1, ImportAssumption DEF plan
<1>6. JobDb \in Databases
  <2>1. JobRequest(file, 1, role) \in Requests
    BY <1>4, <1>5
  <2>2. JobRequest(file, 1, role).db = JobDb
    BY DEF JobRequest
  <2>. QED
    BY <2>1, <2>2, RequestParts
<1>. QED
  BY <1>2, <1>3, <1>4, <1>5, <1>6 DEF IsCut, plan

\* What a statement of the file does to the units of the database.
LEMMA OwnStatement ==
  ASSUME ImportTypeOK, NEW i \in DOMAIN plan, NEW u \in Units(file), NEW s \in DBState,
         NEW q, q = TextOf(file.format, plan[i])
  PROVE  /\ Copies(u, s) \in Nat
         /\ SqlError(q, NoParams, s) => Exec(q, NoParams, s) = s
         /\ ~SqlError(q, NoParams, s) =>
              Copies(u, Exec(q, NoParams, s)) = Copies(u, s) + (IF u \in plan[i] THEN 1 ELSE 0)
<1>1. file \in Files /\ role \in JobRoles
  BY DEF ImportTypeOK
<1>2. q \in Texts /\ NoParams \in Params
  <2>1. /\ JobRequest(file, i, role) \in Requests
        /\ JobRequest(file, i, role).stmts = <<q>>
    BY FileParts DEF JobRequest, plan
  <2>2. <<q>> \in Seq(Texts)
    BY <2>1, RequestParts
  <2>. QED
    BY <2>2, DatabaseAssumption
<1>. QED
  BY <1>1, <1>2, CopiesAssumption, DatabaseAssumption DEF plan

\* What a query does to the units of the database.
LEMMA QueryCopies ==
  ASSUME ImportInv, NEW h \in Handlers, RunQuery(h), NEW u \in Units(file)
  PROVE  /\ \/ InDb(u)' = InDb(u)
            \/ Carries(req[h], u) /\ InDb(u)' = InDb(u) + 1
         /\ Carries(req[h], u) /\ took'[h] # {} => InDb(u)' = InDb(u) + 1
<1>. USE DEF ImportInv, StoreTypes
<1>1. /\ pc[h] = "exec" /\ req[h].kind = "query" /\ pos[h] = 1 /\ took[h] = {}
      /\ req[h] \in Requests /\ Stmt(h) = req[h].stmts[1] /\ 1 \in DOMAIN req[h].stmts
      /\ file \in Files /\ took \in [Handlers -> SUBSET Nat]
      /\ pstate \in [Databases -> DBState] /\ JobDb \in Databases /\ Db(h) \in Databases
      /\ req[h].params \in Params /\ Stmt(h) \in Texts
  <2>1. /\ pc[h] = "exec" /\ req[h].kind = "query" /\ pos[h] = 1 /\ req[h] \in Requests
        /\ file \in Files /\ took \in [Handlers -> SUBSET Nat]
        /\ pstate \in [Databases -> DBState]
    BY DEF RunQuery, QueryAtFirst, PrimaryTypeOK, ImportTypeOK
  <2>2. Len(req[h].stmts) = 1 /\ req[h].params \in Params /\ req[h].stmts \in Seq(Texts)
        /\ Db(h) \in Databases
    BY <2>1, RequestParts DEF Db
  <2>. QED
    BY <2>1, <2>2, FileParts DEF QueryFresh, Stmt
<1> DEFINE s == pstate[JobDb]
<1>2. s \in DBState
  BY <1>1
<1>3. CASE UNCHANGED <<pstate, took>>
  BY <1>1, <1>3 DEF InDb
<1>4. CASE /\ pstate' = [pstate EXCEPT ![Db(h)] = Exec(Stmt(h), req[h].params, @)]
           /\ took' = [took EXCEPT ![h] =
                {j \in {pos[h]} : ~SqlError(Stmt(h), req[h].params, pstate[Db(h)])}]
  <2>1. CASE Carries(req[h], u)
    <3>1. PICK i \in DOMAIN plan : u \in plan[i] /\ req[h] = JobRequest(file, i, role)
      BY <2>1 DEF Carries
    <3>2. /\ Stmt(h) = TextOf(file.format, plan[i]) /\ req[h].params = NoParams
          /\ Db(h) = JobDb
      BY <1>1, <3>1 DEF JobRequest, plan, Db
    <3>3. /\ pstate'[JobDb] = Exec(Stmt(h), NoParams, s)
          /\ took'[h] # {} => ~SqlError(Stmt(h), NoParams, s)
      BY <1>1, <1>4, <3>2
    <3>. QED
      BY <1>2, <2>1, <3>1, <3>2, <3>3, OwnStatement DEF InDb
  <2>2. CASE ~Carries(req[h], u) /\ req[h] \in ClientRequests
    <3>1. Copies(u, Exec(Stmt(h), req[h].params, s)) = Copies(u, s)
      BY <1>1, <1>2, <2>2, CopiesAssumption
    <3>2. pstate'[JobDb] \in {s, Exec(Stmt(h), req[h].params, s)}
      BY <1>1, <1>4
    <3>. QED
      BY <2>2, <3>1, <3>2 DEF InDb
  <2>3. CASE ~Carries(req[h], u) /\ \E i \in DOMAIN plan : req[h] = JobRequest(file, i, role)
    <3>1. PICK i \in DOMAIN plan : req[h] = JobRequest(file, i, role)
      BY <2>3
    <3>2. /\ Stmt(h) = TextOf(file.format, plan[i]) /\ req[h].params = NoParams
          /\ Db(h) = JobDb /\ u \notin plan[i]
      BY <1>1, <2>3, <3>1 DEF JobRequest, plan, Db, Carries
    <3>3. pstate'[JobDb] = Exec(Stmt(h), NoParams, s)
      BY <1>1, <1>4, <3>2
    <3>. QED
      BY <1>2, <2>3, <3>2, <3>3, OwnStatement DEF InDb
  <2>. QED
    BY <1>1, <2>1, <2>2, <2>3 DEF KnownRequests
<1>. QED
  BY <1>3, <1>4 DEF RunQuery

\* A transaction is another client's, and adds no unit to what it sees.
LEMMA TxCopies ==
  ASSUME ImportInv, NEW h \in Handlers, TxStatement(h), NEW u \in Units(file), Db(h) = JobDb
  PROVE  Copies(u, Exec(Stmt(h), NoParams, View(h))) = InDb(u)
<1>. USE DEF ImportInv, StoreTypes
<1>1. /\ req[h] \in ClientRequests /\ req[h].params = NoParams
      /\ Stmt(h) = req[h].stmts[pos[h]] /\ pos[h] \in DOMAIN req[h].stmts
      /\ file \in Files /\ JobDb \in Databases
  <2>1. req[h].kind = "tx" /\ pc[h] # "idle" /\ ~LoopEnded(h) /\ req[h] \in Requests
    BY DEF TxStatement, PrimaryTypeOK
  <2>2. req[h] \in ClientRequests
    <3>1. \A i : JobRequest(file, i, role).kind = "query"
      BY DEF JobRequest
    <3>. QED
      BY <2>1, <3>1 DEF KnownRequests
  <2>. QED
    BY <2>1, <2>2, StatementParts, RequestAssumption, FileParts DEF Stmt, ImportTypeOK
<1>2. View(h) \in DBState /\ Copies(u, View(h)) = InDb(u)
  <2>1. CASE lock[JobDb] = h
    <3>1. lock[JobDb] # NoHandler
      BY <2>1, RequestAssumption
    <3>. QED
      BY <1>1, <2>1, <3>1 DEF View, DirtyAddsNone, InDb, PrimaryTypeOK
  <2>2. CASE lock[JobDb] # h
    BY <1>1, <2>2 DEF View, InDb, PrimaryTypeOK
  <2>. QED
    BY <2>1, <2>2
<1>3. Copies(u, Exec(req[h].stmts[pos[h]], req[h].params, View(h))) = Copies(u, View(h))
  BY <1>1, <1>2, CopiesAssumption
<1>. QED
  BY <1>1, <1>2, <1>3

\* What a step of the server does to one unit of the file: a copy that comes into the
\* database was on its way before.
UnitServed(u) ==
  /\ InFlight(u)' \subseteq InFlight(u)
  /\ \/ InDb(u)' = InDb(u)
     \/ InDb(u)' = InDb(u) + 1 /\ InFlight(u) \ InFlight(u)' # {}
  /\ lock'[JobDb] # NoHandler => Copies(u, dirty'[JobDb]) = InDb(u)'

LEMMA UnitServe ==
  ASSUME ImportInv, Serve, UNCHANGED jobVars, NEW u \in Units(file)
  PROVE  UnitServed(u)
<1>. USE DEF ImportInv, StoreTypes
<1>1. /\ req' = req /\ file' = file /\ role' = role
      /\ \A r : Carries(r, u)' <=> Carries(r, u)
  <2>1. req' = req
    BY DEF Serve, HandlerStep, LogStatement, OpenDatabase, RunQuery, TxStatement, TxCommit,
           TxRollback, PrimaryCrash
  <2>. QED
    BY <2>1 DEF jobVars, Carries, plan, JobRequest
<1>2. /\ JobDb \in Databases /\ lock \in [Databases -> Handlers \cup {NoHandler}]
      /\ pstate \in [Databases -> DBState] /\ dirty \in [Databases -> DBState]
      /\ lock[JobDb] # NoHandler => Copies(u, dirty[JobDb]) = InDb(u)
  BY FileParts DEF PrimaryTypeOK, DirtyAddsNone, InDb
<1>3. ASSUME \A g \in Handlers : pc'[g] # "idle" => pc[g] # "idle"
      PROVE  InFlight(u)' \subseteq InFlight(u)
  BY <1>1, <1>3 DEF InFlight
<1>4. ASSUME NEW h \in Handlers, LogStatement(h) \/ OpenDatabase(h)
      PROVE  UnitServed(u)
  <2>1. /\ UNCHANGED storeVars
        /\ \A g \in Handlers : pc'[g] # "idle" => pc[g] # "idle"
    BY <1>4 DEF LogStatement, OpenDatabase, Answer, PrimaryTypeOK
  <2>. QED
    BY <1>2, <1>3, <2>1 DEF storeVars, InDb, UnitServed
<1>5. ASSUME NEW h \in Handlers, RunQuery(h)
      PROVE  UnitServed(u)
  <2>1. /\ pc[h] = "exec" /\ pc'[h] = "idle"
        /\ \A g \in Handlers \ {h} : pc'[g] = pc[g]
        /\ lock' = lock /\ dirty' = dirty
    BY <1>5 DEF RunQuery, Answer, PrimaryTypeOK
  <2>2. InFlight(u)' \subseteq InFlight(u) /\ h \notin InFlight(u)'
    BY <1>3, <2>1 DEF InFlight
  <2>3. Carries(req[h], u) => h \in InFlight(u)
    BY <2>1 DEF InFlight
  <2>4. lock[JobDb] # NoHandler => pstate'[JobDb] = pstate[JobDb]
    <3>1. CASE pstate' = pstate
      BY <3>1
    <3>2. CASE Db(h) # JobDb
      BY <1>2, <1>5, <3>2 DEF RunQuery
    <3>3. CASE Db(h) = JobDb /\ pstate' # pstate
      <4>1. /\ IsWriteQuery(Stmt(h)) /\ ~IsBlank(Stmt(h)) => lock[JobDb] = NoHandler
            /\ pstate'[JobDb] = Exec(Stmt(h), req[h].params, pstate[JobDb])
        BY <1>2, <1>5, <3>3 DEF RunQuery
      <4>2. Stmt(h) \in Texts /\ req[h].params \in Params
        <5>1. pos[h] = 1 /\ req[h] \in Requests /\ req[h].kind = "query"
          BY <1>5 DEF RunQuery, QueryAtFirst, PrimaryTypeOK
        <5>. QED
          BY <5>1, RequestParts DEF Stmt
      <4>3. ~IsWriteQuery(Stmt(h)) \/ IsBlank(Stmt(h)) =>
              Exec(Stmt(h), req[h].params, pstate[JobDb]) = pstate[JobDb]
        BY <1>2, <4>2, ReadAssumption
      <4>. QED
        BY <4>1, <4>3
    <3>. QED
      BY <3>1, <3>2, <3>3
  <2>5. \/ InDb(u)' = InDb(u)
        \/ Carries(req[h], u) /\ InDb(u)' = InDb(u) + 1
    BY <1>5, QueryCopies
  <2>6. lock'[JobDb] # NoHandler => Copies(u, dirty'[JobDb]) = InDb(u)'
    BY <1>2, <2>1, <2>4 DEF InDb
  <2>. QED
    BY <2>2, <2>3, <2>5, <2>6 DEF UnitServed
<1>6. ASSUME NEW h \in Handlers, TxStatement(h)
      PROVE  UnitServed(u)
  <2>1. pc' = pc /\ pstate' = pstate /\ InDb(u)' = InDb(u)
    BY <1>6 DEF TxStatement, NextStatement, InDb
  <2>2. lock'[JobDb] # NoHandler => Copies(u, dirty'[JobDb]) = InDb(u)'
    <3>1. CASE UNCHANGED <<lock, dirty>>
      BY <1>2, <2>1, <3>1
    <3>2. CASE /\ lock' = [lock EXCEPT ![Db(h)] = h]
               /\ dirty' = [dirty EXCEPT ![Db(h)] = Exec(Stmt(h), NoParams, View(h))]
      <4>1. CASE Db(h) = JobDb
        BY <1>2, <1>6, <2>1, <3>2, <4>1, TxCopies
      <4>2. CASE Db(h) # JobDb
        BY <1>2, <2>1, <3>2, <4>2
      <4>. QED
        BY <4>1, <4>2
    <3>. QED
      BY <1>6, <3>1, <3>2 DEF TxStatement
  <2>. QED
    BY <1>3, <2>1, <2>2 DEF UnitServed
<1>7. ASSUME NEW h \in Handlers, TxCommit(h) \/ TxRollback(h)
      PROVE  UnitServed(u)
  <2>1. /\ \A g \in Handlers : pc'[g] # "idle" => pc[g] # "idle"
        /\ Release(h)
        /\ \/ pstate' = pstate
           \/ pstate' = [d \in Databases |-> IF lock[d] = h THEN dirty[d] ELSE pstate[d]]
    BY <1>7 DEF TxCommit, TxRollback, Answer, PrimaryTypeOK
  <2>2. InDb(u)' = InDb(u)
    <3>1. h # NoHandler
      BY RequestAssumption
    <3>. QED
      BY <1>2, <2>1, <3>1 DEF InDb
  <2>3. lock'[JobDb] # NoHandler => Copies(u, dirty'[JobDb]) = InDb(u)'
    BY <1>2, <2>1, <2>2 DEF Release
  <2>. QED
    BY <1>3, <2>1, <2>2, <2>3 DEF UnitServed
<1>8. CASE PrimaryCrash
  <2>1. /\ \A g \in Handlers : pc'[g] # "idle" => pc[g] # "idle"
        /\ lock'[JobDb] = NoHandler /\ pstate' = pstate
    BY <1>2, <1>8 DEF PrimaryCrash
  <2>. QED
    BY <1>3, <2>1 DEF UnitServed, InDb
<1>. QED
  BY <1>4, <1>5, <1>6, <1>7, <1>8 DEF Serve, HandlerStep

\* The count of one unit does not grow by a step of the server.
LEMMA UnitCount ==
  ASSUME ImportInv, NEW u \in Units(file), UnitServed(u), NEW n \in Nat, IsFiniteSet(InFlight(u)),
         InDb(u) + Cardinality(InFlight(u)) <= n
  PROVE  /\ IsFiniteSet(InFlight(u)')
         /\ InDb(u)' + Cardinality(InFlight(u)') <= n
         /\ InDb(u)' \in Nat /\ InDb(u) <= InDb(u)'
<1> DEFINE F == InFlight(u)
           G == InFlight(u)'
<1>1. InDb(u) \in Nat
  BY FileParts, CopiesAssumption DEF ImportInv, ImportTypeOK, PrimaryTypeOK, InDb
<1>2. F \in SUBSET F /\ G \in SUBSET F
  BY DEF UnitServed
<1>3. /\ IsFiniteSet(G) /\ Cardinality(G) \in Nat /\ Cardinality(F) \in Nat
      /\ Cardinality(G) <= Cardinality(F)
      /\ F \ G # {} => Cardinality(G) # Cardinality(F)
  <2> HIDE DEF F, G
  <2>1. /\ IsFiniteSet(G) /\ Cardinality(G) <= Cardinality(F)
        /\ Cardinality(F) = Cardinality(G) => F = G
    BY <1>2, FS_Subset DEF F
  <2>2. Cardinality(G) \in Nat /\ Cardinality(F) \in Nat
    BY <2>1, FS_CardinalityType DEF F
  <2>. QED
    BY <2>1, <2>2
<1>4. \/ InDb(u)' = InDb(u)
      \/ InDb(u)' = InDb(u) + 1 /\ F \ G # {}
  BY DEF UnitServed
<1> HIDE DEF F, G
<1>5. InDb(u)' + Cardinality(G) <= InDb(u) + Cardinality(F)
  BY <1>1, <1>3, <1>4
<1>. QED
  BY <1>1, <1>3, <1>4, <1>5 DEF F, G

\* The server keeps what is known of every unit.
LEMMA ImportServe ==
  ASSUME ImportInv, Serve, UNCHANGED jobVars
  PROVE  ImportInv'
<1>. USE DEF jobVars
<1>1. StoreTypes' /\ ImportTypeOK'
  <2>1. StoreTypes'
    BY ServeTypes DEF ImportInv
  <2>. QED
    BY <2>1 DEF ImportInv, ImportTypeOK, StoreTypes, plan
<1>2. /\ req' = req /\ plan' = plan /\ file' = file
      /\ \A i : JobRequest(file, i, role)' = JobRequest(file, i, role)
      /\ \A g \in Handlers : pc'[g] # "idle" => 
             pc[g] # "idle" /\ (took'[g] = took[g] \/ req[g].kind = "tx")
  <2>1. req' = req
    BY DEF Serve, HandlerStep, LogStatement, OpenDatabase, RunQuery, TxStatement, TxCommit,
           TxRollback, PrimaryCrash
  <2>2. \A g \in Handlers : pc'[g] # "idle" => 
             pc[g] # "idle" /\ (took'[g] = took[g] \/ req[g].kind = "tx")
    BY DEF Serve, HandlerStep, LogStatement, OpenDatabase, RunQuery, TxStatement, TxCommit,
           TxRollback, PrimaryCrash, Answer, NextStatement, ImportInv, StoreTypes, PrimaryTypeOK
  <2>. QED
    BY <2>1, <2>2 DEF plan, JobRequest
<1>3. KnownRequests'
  BY <1>2 DEF ImportInv, KnownRequests
<1>4. QueryFresh'
  BY <1>2 DEF ImportInv, QueryFresh
<1>5. \A u \in Units(file) : UnitServed(u)
  BY UnitServe
<1>6. DirtyAddsNone'
  BY <1>2, <1>5 DEF DirtyAddsNone, UnitServed, InDb
<1>7. PlaceInPlan'
  BY <1>2 DEF ImportInv, PlaceInPlan
<1>8. ASSUME NEW i \in DOMAIN plan, NEW u \in plan[i]
      PROVE  /\ IsFiniteSet(InFlight(u)') /\ InDb(u)' + Cardinality(InFlight(u)') <= SentTimes(i)'
             /\ InDb(u)' \in Nat /\ InDb(u) <= InDb(u)'
  <2>1. u \in Units(file) /\ SentTimes(i) \in Nat /\ SentTimes(i)' = SentTimes(i)
    BY <1>8, FileParts DEF ImportInv, ImportTypeOK, SentTimes
  <2>. QED
    BY <1>5, <1>8, <2>1, UnitCount DEF ImportInv, CopiesBounded
<1>9. CopiesBounded'
  BY <1>2, <1>8 DEF CopiesBounded
<1>10. ASSUME NEW i \in DOMAIN plan, NEW u \in plan[i], InDb(u) > 0
       PROVE  InDb(u)' > 0
  <2>1. InDb(u) \in Nat
    BY <1>10, FileParts, CopiesAssumption DEF ImportInv, ImportTypeOK, PrimaryTypeOK, InDb
  <2>. QED
    BY <1>8, <1>10, <2>1
<1>11. PassedIsIn'
  BY <1>2, <1>10 DEF ImportInv, PassedIsIn
<1>12. SentIsIn'
  <2>. SUFFICES ASSUME job = "sent" PROVE SentIsIn'
    BY DEF SentIsIn
  <2>1. /\ conn \in Handlers /\ conn' = conn /\ req[conn] = JobRequest(file, at, role)
        /\ req[conn].kind = "query"
        /\ at \in DOMAIN plan
    BY FileParts DEF ImportInv, SentIsIn, JobRequest, ImportTypeOK, PlaceInPlan
  <2>. SUFFICES ASSUME pc'[conn] = "idle", reply'[conn] = 200, took'[conn] # {},
                       NEW u \in plan[at]
                PROVE  InDb(u)' > 0
    BY <1>2, <2>1 DEF SentIsIn
  <2>2. CASE pc[conn] = "idle"
    <3>1. reply'[conn] = reply[conn] /\ took'[conn] = took[conn]
      BY <2>1, <2>2
         DEF ImportInv, StoreTypes, PrimaryTypeOK, Serve, HandlerStep, LogStatement,
             OpenDatabase, RunQuery, TxStatement, TxCommit, TxRollback, PrimaryCrash, Answer,
             NextStatement
    <3>. QED
      BY <1>10, <2>1, <2>2, <3>1 DEF ImportInv, SentIsIn
  <2>3. CASE pc[conn] # "idle"
    <3>1. took[conn] = {}
      BY <2>1, <2>3 DEF ImportInv, QueryFresh
    <3>2. RunQuery(conn)
      BY <2>1, <2>3, <3>1
         DEF ImportInv, StoreTypes, PrimaryTypeOK, Serve, HandlerStep, LogStatement,
             OpenDatabase, RunQuery, TxStatement, TxCommit, TxRollback, PrimaryCrash, Answer,
             NextStatement
    <3>3. Carries(req[conn], u) /\ u \in Units(file) /\ InDb(u) \in Nat
      BY <2>1, FileParts, CopiesAssumption
         DEF Carries, ImportInv, ImportTypeOK, PrimaryTypeOK, InDb
    <3>. QED
      BY <2>1, <3>2, <3>3, QueryCopies
  <2>. QED
    BY <2>2, <2>3
<1>. QED
  BY <1>1, <1>3, <1>4, <1>6, <1>7, <1>9, <1>11, <1>12 DEF ImportInv

\* What comes to an idle handler.
LEMMA ImportBegins ==
  ASSUME ImportInv, NEW h \in Handlers, NEW r \in Requests, Begins(h, r), accepted' \in Nat,
         UNCHANGED <<file, role>>,
         pc'[h] = "log" =>
           r \in ClientRequests \/ \E i \in DOMAIN plan : r = JobRequest(file, i, role)
  PROVE  /\ StoreTypes' /\ KnownRequests' /\ QueryFresh' /\ DirtyAddsNone'
         /\ \A u : /\ InDb(u)' = InDb(u)
                   /\ InFlight(u)' = InFlight(u) \/ InFlight(u)' = InFlight(u) \cup {h}
                   /\ pc'[h] = "idle" \/ ~Carries(r, u) => InFlight(u)' = InFlight(u)
         /\ pc[h] = "idle" /\ req'[h] = r
         /\ \A g \in Handlers \ {h} :
              pc'[g] = pc[g] /\ req'[g] = req[g] /\ took'[g] = took[g] /\ reply'[g] = reply[g]
<1>1. StoreTypes'
  BY BeginsTypes DEF ImportInv
<1>2. /\ pc[h] = "idle" /\ pc'[h] \in {"idle", "log"} /\ req'[h] = r /\ took'[h] = {}
      /\ UNCHANGED <<pstate, lock, dirty>>
      /\ \A g \in Handlers \ {h} :
           pc'[g] = pc[g] /\ req'[g] = req[g] /\ took'[g] = took[g] /\ reply'[g] = reply[g]
  BY DEF Begins, Take, Refuse, Forget, storeVars, ImportInv, StoreTypes, PrimaryTypeOK
<1>3. /\ plan' = plan /\ \A x, u : Carries(x, u)' <=> Carries(x, u)
      /\ \A i : JobRequest(file, i, role)' = JobRequest(file, i, role)
  BY DEF plan, Carries, JobRequest
<1>4. KnownRequests'
  BY <1>2, <1>3 DEF ImportInv, KnownRequests
<1>5. QueryFresh'
  BY <1>2 DEF ImportInv, QueryFresh
<1>6. DirtyAddsNone'
  BY <1>2 DEF ImportInv, DirtyAddsNone
<1>7. ASSUME NEW u
      PROVE  /\ InDb(u)' = InDb(u)
             /\ InFlight(u)' = InFlight(u) \/ InFlight(u)' = InFlight(u) \cup {h}
             /\ pc'[h] = "idle" \/ ~Carries(r, u) => InFlight(u)' = InFlight(u)
  <2>1. InDb(u)' = InDb(u)
    BY <1>2 DEF InDb
  <2>2. /\ h \notin InFlight(u)
        /\ h \in InFlight(u)' <=> pc'[h] # "idle" /\ Carries(r, u)
        /\ \A g \in Handlers \ {h} : g \in InFlight(u)' <=> g \in InFlight(u)
    BY <1>2, <1>3 DEF InFlight
  <2>3. InFlight(u) \subseteq Handlers /\ InFlight(u)' \subseteq Handlers
    BY DEF InFlight
  <2>. QED
    BY <2>1, <2>2, <2>3
<1>. QED
  BY <1>1, <1>2, <1>4, <1>5, <1>6, <1>7

CommandInv == ImportTypeOK /\ SentIsIn /\ PlaceInPlan /\ CopiesBounded /\ PassedIsIn

\* The command leaves the statement it is at behind.
LEMMA CommandGoes ==
  ASSUME ImportInv, job \in {"ready", "sent"}, PrimaryTypeOK', UNCHANGED <<file, role, runs>>,
         \A u : InDb(u)' = InDb(u) /\ InFlight(u)' = InFlight(u),
         NoGoodAnswer \/ (GoOn /\ missed' = missed /\ \A u \in plan[at] : InDb(u) > 0)
  PROVE  CommandInv'
<1>0. plan' = plan
  BY DEF plan
<1>1. /\ Len(plan) \in Nat \ {0} /\ DOMAIN plan = 1..Len(plan)
      /\ at \in 1..Len(plan) /\ runs \in Nat \ {0} /\ runs \in 1..MaxRuns
      /\ file \in Files /\ role \in JobRoles /\ missed \subseteq DOMAIN plan
      /\ file.format # "shell" => missed = {}
  BY FileParts, ImportAssumption DEF ImportInv, ImportTypeOK, PlaceInPlan, plan
<1>2. \/ /\ at' = at + 1 /\ job' = (IF at = Len(plan) THEN "ended" ELSE "ready")
         /\ \/ missed' = missed \cup {at} /\ file.format = "shell"
            \/ missed' = missed /\ \A u \in plan[at] : InDb(u) > 0
      \/ at' = at /\ job' = "stopped" /\ missed' = missed
  BY DEF NoGoodAnswer, GoOn
<1>3. conn' = NoHandler
  BY DEF NoGoodAnswer, GoOn
<1>4. ImportTypeOK' /\ PlaceInPlan'
  <2>1. /\ at' \in 1..Len(plan) + 1 /\ missed' \subseteq DOMAIN plan
        /\ job' \in {"ready", "sent", "stopped", "ended"}
        /\ job' # "ended" => at' <= Len(plan)
        /\ job' = "ended" => at' = Len(plan) + 1
        /\ file.format # "shell" => missed' = {}
    BY <1>1, <1>2
  <2>. QED
    BY <1>0, <1>1, <1>3, <2>1 DEF ImportTypeOK, PlaceInPlan
<1>5. SentIsIn'
  BY <1>2 DEF SentIsIn
<1>6. CopiesBounded'
  <2>1. ASSUME NEW i \in DOMAIN plan
        PROVE  SentTimes(i)' \in Nat /\ SentTimes(i) \in Nat /\ SentTimes(i) <= SentTimes(i)'
    <3>1. i \in 1..Len(plan) /\ runs' = runs
      BY <1>1
    <3>2. i > at' \/ (i = at' /\ job' = "ready") => i > at
      <4>1. CASE at' = at + 1 /\ job' = (IF at = Len(plan) THEN "ended" ELSE "ready")
        <5>1. at \in Nat /\ i \in Nat
          BY <1>1, <3>1
        <5>. QED
          BY <4>1, <5>1
      <4>2. CASE at' = at /\ job' = "stopped"
        BY <1>1, <3>1, <4>2
      <4>. QED
        BY <1>2, <4>1, <4>2
    <3>. QED
      BY <1>1, <3>1, <3>2 DEF SentTimes
  <2>2. ASSUME NEW i \in DOMAIN plan, NEW u \in plan[i]
        PROVE  IsFiniteSet(InFlight(u)') /\ InDb(u)' + Cardinality(InFlight(u)') <= SentTimes(i)'
    <3>1. /\ IsFiniteSet(InFlight(u)) /\ Cardinality(InFlight(u)) \in Nat
          /\ InDb(u) + Cardinality(InFlight(u)) <= SentTimes(i)
      BY <2>2, FS_CardinalityType DEF ImportInv, CopiesBounded
    <3>2. InDb(u) \in Nat
      BY <2>2, FileParts, CopiesAssumption DEF ImportInv, ImportTypeOK, PrimaryTypeOK, InDb
    <3>3. InFlight(u)' = InFlight(u) /\ InDb(u)' = InDb(u)
      OBVIOUS
    <3>4. SentTimes(i)' \in Nat /\ SentTimes(i) \in Nat /\ SentTimes(i) <= SentTimes(i)'
      BY <2>1
    <3>. QED
      BY <3>1, <3>2, <3>3, <3>4
  <2>. QED
    BY <1>0, <2>2 DEF CopiesBounded
<1>7. PassedIsIn'
  <2>. SUFFICES ASSUME NEW i \in DOMAIN plan, NEW u \in plan[i], i < at', i \notin missed'
                PROVE  InDb(u)' > 0
    BY <1>0 DEF PassedIsIn
  <2>1. i < at \/ (i = at /\ \A v \in plan[at] : InDb(v) > 0)
    <3>1. i \in 1..Len(plan)
      BY <1>1
    <3>2. CASE at' = at
      BY <3>2
    <3>3. CASE at' = at + 1 /\ i < at
      BY <3>3
    <3>4. CASE at' = at + 1 /\ ~(i < at)
      <4>1. i = at
        BY <1>1, <3>1, <3>4
      <4>2. at \notin missed'
        BY <4>1
      <4>. QED
        BY <1>1, <1>2, <3>4, <4>1, <4>2
    <3>. QED
      BY <1>2, <3>2, <3>3, <3>4
  <2>2. i \notin missed
    BY <1>2
  <2>. QED
    BY <2>1, <2>2 DEF ImportInv, PassedIsIn
<1>. QED
  BY <1>4, <1>5, <1>6, <1>7 DEF CommandInv

LEMMA SendKeeps ==
  ASSUME ImportInv, Send
  PROVE  ImportInv'
<1> DEFINE r == JobRequest(file, at, role)
<1>1. PICK h \in Handlers : Take(h, r) /\ conn' = h
  BY DEF Send
<1>2. /\ job = "ready" /\ job' = "sent" /\ UNCHANGED <<accepted, file, role, at, runs, missed>>
      /\ at \in DOMAIN plan /\ r \in Requests
      /\ pc[h] = "idle" /\ Begins(h, r) /\ accepted' \in Nat
      /\ role \in JobRoles /\ file \in Files /\ runs \in Nat
      /\ UNCHANGED plan
  BY <1>1, FileParts DEF Send, Take, Begins, ImportInv, ImportTypeOK, StoreTypes, PrimaryTypeOK,
                         PlaceInPlan, plan
<1> HIDE DEF r
<1>3. /\ StoreTypes' /\ KnownRequests' /\ QueryFresh' /\ DirtyAddsNone'
      /\ \A u : /\ InDb(u)' = InDb(u)
                /\ InFlight(u)' = InFlight(u) \/ InFlight(u)' = InFlight(u) \cup {h}
                /\ pc'[h] = "idle" \/ ~Carries(r, u) => InFlight(u)' = InFlight(u)
      /\ req'[h] = r
  BY <1>2, ImportBegins DEF r
<1>4. pc'[h] = "log"
  BY <1>1 DEF Take, ImportInv, StoreTypes, PrimaryTypeOK
<1>5. ImportTypeOK' /\ PlaceInPlan'
  BY <1>1, <1>2, <1>3 DEF ImportInv, StoreTypes, ImportTypeOK, PlaceInPlan
<1>6. SentIsIn'
  <2>1. r' = r
    BY <1>2 DEF r, JobRequest
  <2>. QED
    BY <1>1, <1>2, <1>3, <1>4, <2>1 DEF SentIsIn, r
<1>7. ASSUME NEW i \in DOMAIN plan, NEW u \in plan[i]
      PROVE  IsFiniteSet(InFlight(u)') /\ InDb(u)' + Cardinality(InFlight(u)') <= SentTimes(i)'
  <2>1. /\ IsFiniteSet(InFlight(u)) /\ Cardinality(InFlight(u)) \in Nat
        /\ InDb(u) + Cardinality(InFlight(u)) <= SentTimes(i)
    BY <1>7, FS_CardinalityType DEF ImportInv, CopiesBounded
  <2>2. InDb(u) \in Nat /\ i \in Nat /\ at \in Nat
    BY <1>2, <1>7, FileParts, CopiesAssumption DEF ImportInv, ImportTypeOK, PrimaryTypeOK, InDb
  <2>3. CASE i = at
    <3>1. SentTimes(i) = runs - 1 /\ SentTimes(i)' = runs
      BY <1>2, <2>2, <2>3 DEF SentTimes
    <3>2. h \notin InFlight(u)
      BY <1>2 DEF InFlight
    <3>3. /\ IsFiniteSet(InFlight(u) \cup {h})
          /\ Cardinality(InFlight(u) \cup {h}) = Cardinality(InFlight(u)) + 1
      BY <2>1, <3>2, FS_AddElement
    <3>4. InDb(u)' = InDb(u) /\ (InFlight(u)' = InFlight(u) \/ InFlight(u)' = InFlight(u) \cup {h})
      BY <1>3
    <3>5. IsFiniteSet(InFlight(u)') /\ Cardinality(InFlight(u)') \in Nat
          /\ Cardinality(InFlight(u)') <= Cardinality(InFlight(u)) + 1
      BY <2>1, <3>3, <3>4
    <3>. QED
      BY <1>2, <2>1, <2>2, <3>1, <3>4, <3>5
  <2>4. CASE i # at
    <3>1. SentTimes(i)' = SentTimes(i)
      BY <1>2, <2>4 DEF SentTimes
    <3>2. ~Carries(r, u)
      <4>. SUFFICES ASSUME NEW j \in DOMAIN plan, u \in plan[j], r = JobRequest(file, j, role)
                    PROVE  FALSE
        BY DEF Carries
      <4>1. r.stmts = <<TextOf(file.format, plan[j])>> /\ r.stmts = <<TextOf(file.format, plan[at])>>
        BY DEF r, JobRequest, plan
      <4>2. plan[j] = plan[at]
        BY <1>2, <4>1, TextsAssumption DEF plan
      <4>. QED
        BY <1>2, <1>7, <2>4, <4>2, FileParts DEF ImportInv
    <3>3. InDb(u)' = InDb(u) /\ InFlight(u)' = InFlight(u)
      BY <1>3, <3>2
    <3>. QED
      BY <2>1, <3>1, <3>3
  <2>. QED
    BY <2>3, <2>4
<1>8. CopiesBounded'
  BY <1>2, <1>7 DEF CopiesBounded
<1>9. PassedIsIn'
  BY <1>2, <1>3 DEF ImportInv, PassedIsIn
<1>. QED
  BY <1>3, <1>5, <1>6, <1>8, <1>9 DEF ImportInv

\* The other clients' requests have nothing of the file.
LEMMA OthersKeep ==
  ASSUME ImportInv, UNCHANGED jobVars,
         NEW h \in Handlers, NEW r \in ClientRequests, h # conn, Refuse(h, r) \/ Accept(h, r)
  PROVE  ImportInv'
<1>1. /\ r \in Requests /\ Begins(h, r) /\ accepted' \in Nat
      /\ role \in JobRoles /\ file \in Files
      /\ UNCHANGED <<file, role, job, at, conn, runs, missed, plan>>
  BY ImportAssumption
     DEF Refuse, Accept, Take, Begins, ImportInv, ImportTypeOK, StoreTypes, PrimaryTypeOK, jobVars, plan
<1>2. \A u : ~Carries(r, u)
  <2>. SUFFICES ASSUME NEW u, NEW i \in DOMAIN plan, u \in plan[i], r = JobRequest(file, i, role)
                PROVE  FALSE
    BY DEF Carries
  <2>. QED
    BY <1>1, TextsAssumption DEF plan
<1>3. /\ StoreTypes' /\ KnownRequests' /\ QueryFresh' /\ DirtyAddsNone'
      /\ \A u : InDb(u)' = InDb(u) /\ InFlight(u)' = InFlight(u)
      /\ \A g \in Handlers \ {h} :
           pc'[g] = pc[g] /\ req'[g] = req[g] /\ took'[g] = took[g] /\ reply'[g] = reply[g]
  BY <1>1, <1>2, ImportBegins
<1>4. ImportTypeOK' /\ PlaceInPlan' /\ PassedIsIn'
  BY <1>1, <1>3 DEF ImportInv, StoreTypes, ImportTypeOK, PlaceInPlan, PassedIsIn
<1>5. SentIsIn'
  <2>1. \A i : JobRequest(file, i, role)' = JobRequest(file, i, role)
    BY <1>1 DEF JobRequest
  <2>. QED
    BY <1>1, <1>3, <2>1 DEF ImportInv, SentIsIn
<1>6. CopiesBounded'
  BY <1>1, <1>3 DEF ImportInv, CopiesBounded, SentTimes
<1>. QED
  BY <1>3, <1>4, <1>5, <1>6 DEF ImportInv

\* A handler takes nothing from the command when it refuses or is gone.
LEMMA LeavesKeep ==
  ASSUME ImportInv, job \in {"ready", "sent"}, UNCHANGED <<file, role, runs, accepted>>,
         NEW h \in Handlers, NEW r \in Requests,
         Refuse(h, r) \/ (r = NoRequest /\ pc[h] = "idle" /\ Forget(h) /\ UNCHANGED <<pc, storeVars, log>>),
         NoGoodAnswer \/ (GoOn /\ missed' = missed /\ \A u \in plan[at] : InDb(u) > 0)
  PROVE  ImportInv'
<1>1. Begins(h, r) /\ accepted' \in Nat /\ pc'[h] = "idle"
  BY DEF Refuse, Begins, ImportInv, StoreTypes, PrimaryTypeOK
<1>2. /\ StoreTypes' /\ KnownRequests' /\ QueryFresh' /\ DirtyAddsNone'
      /\ \A u : InDb(u)' = InDb(u) /\ InFlight(u)' = InFlight(u)
  BY <1>1, ImportBegins
<1>3. CommandInv'
  BY <1>2, CommandGoes DEF StoreTypes
<1>. QED
  BY <1>2, <1>3 DEF ImportInv, CommandInv

\* The command goes on without the server.
LEMMA AloneKeeps ==
  ASSUME ImportInv, job \in {"ready", "sent"}, UNCHANGED <<file, role, runs, primaryVars, log>>,
         NoGoodAnswer
  PROVE  ImportInv'
<1>1. /\ StoreTypes' /\ KnownRequests' /\ QueryFresh' /\ DirtyAddsNone'
      /\ \A u : InDb(u)' = InDb(u) /\ InFlight(u)' = InFlight(u)
  BY DEF ImportInv, StoreTypes, PrimaryTypeOK, QueryAtFirst, KnownRequests, QueryFresh,
         DirtyAddsNone, InDb, InFlight, Carries, plan, JobRequest,
         primaryVars, handlerVars, storeVars
<1>2. CommandInv'
  BY <1>1, CommandGoes DEF StoreTypes
<1>. QED
  BY <1>1, <1>2 DEF ImportInv, CommandInv

LEMMA RerunKeeps ==
  ASSUME ImportInv, Rerun
  PROVE  ImportInv'
<1>1. /\ StoreTypes' /\ KnownRequests' /\ QueryFresh' /\ DirtyAddsNone'
      /\ \A u : InDb(u)' = InDb(u) /\ InFlight(u)' = InFlight(u)
      /\ plan' = plan
  BY DEF Rerun, ImportInv, StoreTypes, PrimaryTypeOK, QueryAtFirst, KnownRequests, QueryFresh,
         DirtyAddsNone, InDb, InFlight, Carries, plan, JobRequest,
         primaryVars, handlerVars, storeVars
<1>2. /\ runs \in Nat /\ runs' = runs + 1 /\ runs < MaxRuns /\ job' = "ready" /\ at' = 1
      /\ UNCHANGED <<file, role, conn, missed>> /\ MaxRuns \in Nat
  BY ImportAssumption DEF Rerun, ImportInv, ImportTypeOK
<1>3. Len(plan) \in Nat \ {0} /\ DOMAIN plan = 1..Len(plan)
  BY FileParts DEF ImportInv
<1>4. ImportTypeOK' /\ PlaceInPlan' /\ SentIsIn'
  <2>1. at' \in 1..Len(plan) + 1 /\ at' <= Len(plan) /\ runs' \in 1..MaxRuns
    BY <1>2, <1>3
  <2>. QED
    BY <1>1, <1>2, <2>1 DEF ImportInv, StoreTypes, ImportTypeOK, PlaceInPlan, SentIsIn
<1>5. PassedIsIn'
  BY <1>1, <1>2, <1>3 DEF PassedIsIn
<1>6. CopiesBounded'
  <2>1. ASSUME NEW i \in DOMAIN plan
        PROVE  SentTimes(i) \in Int /\ SentTimes(i) <= runs /\ SentTimes(i)' = runs
    <3>1. i \in Nat /\ i >= 1
      BY <1>3
    <3>. QED
      BY <1>2, <3>1 DEF SentTimes
  <2>2. ASSUME NEW i \in DOMAIN plan, NEW u \in plan[i]
        PROVE  IsFiniteSet(InFlight(u)') /\ InDb(u)' + Cardinality(InFlight(u)') <= SentTimes(i)'
    <3>1. /\ IsFiniteSet(InFlight(u)) /\ Cardinality(InFlight(u)) \in Nat
          /\ InDb(u) + Cardinality(InFlight(u)) <= SentTimes(i)
      BY <2>2, FS_CardinalityType DEF ImportInv, CopiesBounded
    <3>2. InDb(u) \in Nat
      BY <2>2, FileParts, CopiesAssumption DEF ImportInv, ImportTypeOK, PrimaryTypeOK, InDb
    <3>3. InFlight(u)' = InFlight(u) /\ InDb(u)' = InDb(u)
      BY <1>1
    <3>. QED
      BY <1>2, <2>1, <3>1, <3>2, <3>3
  <2>. QED
    BY <1>1, <2>2 DEF CopiesBounded
<1>. QED
  BY <1>1, <1>4, <1>5, <1>6 DEF ImportInv

LEMMA RequestsThere ==
  ASSUME ImportInv
  PROVE  NoRequest \in Requests
<1>1. JobRequest(file, 1, role) \in Requests
  BY FileParts DEF ImportInv
<1>. QED
  BY <1>1 DEF NoRequest

LEMMA ImportInvStep == ImportInv /\ [ImportNext]_importVars => ImportInv'
<1>. SUFFICES ASSUME ImportInv, [ImportNext]_importVars PROVE ImportInv'
  OBVIOUS
<1>1. CASE SendRefused
  <2>1. PICK h \in Handlers : Refuse(h, JobRequest(file, at, role))
    BY <1>1 DEF SendRefused
  <2>2. JobRequest(file, at, role) \in Requests /\ accepted' = accepted
    BY <1>1, <2>1, FileParts DEF SendRefused, Refuse, ImportInv, ImportTypeOK, PlaceInPlan
  <2>. QED
    BY <1>1, <2>1, <2>2, LeavesKeep DEF SendRefused
<1>2. CASE Answered
  <2>1. NoRequest \in Requests
    BY RequestsThere
  <2>2. conn \in Handlers /\ pc[conn] = "idle" /\ Forget(conn) /\ UNCHANGED <<pc, storeVars, log, accepted>>
    BY <1>2 DEF Answered, ImportInv, SentIsIn
  <2>3. NoGoodAnswer \/ (GoOn /\ missed' = missed /\ \A u \in plan[at] : InDb(u) > 0)
    BY <1>2 DEF Answered, ImportInv, SentIsIn
  <2>. QED
    BY <1>2, <2>1, <2>2, <2>3, LeavesKeep DEF Answered
<1>3. CASE SendFails \/ LostAnswer
  BY <1>3, AloneKeeps DEF SendFails, LostAnswer
<1>4. CASE (OtherClients \/ Serve) /\ UNCHANGED jobVars
  BY <1>4, OthersKeep, ImportServe DEF OtherClients
<1>5. CASE UNCHANGED importVars
  <2>1. /\ UNCHANGED <<file, role, job, at, conn, runs, missed, log>>
        /\ UNCHANGED <<pc, req, pos, ids, took, reply, pstate, lock, dirty, accepted>>
    BY <1>5 DEF importVars, jobVars, primaryVars, handlerVars, storeVars
  <2>2. StoreTypes' /\ ImportTypeOK'
    BY <2>1 DEF ImportInv, StoreTypes, PrimaryTypeOK, QueryAtFirst, ImportTypeOK, plan
  <2>3. KnownRequests' /\ QueryFresh' /\ DirtyAddsNone' /\ SentIsIn' /\ PlaceInPlan'
    BY <2>1 DEF ImportInv, KnownRequests, QueryFresh, DirtyAddsNone, SentIsIn, PlaceInPlan,
                InDb, JobRequest, plan
  <2>4. CopiesBounded' /\ PassedIsIn'
    BY <2>1 DEF ImportInv, CopiesBounded, PassedIsIn, InDb, InFlight, Carries, SentTimes,
                JobRequest, plan
  <2>. QED
    BY <2>2, <2>3, <2>4 DEF ImportInv
<1>. QED
  BY <1>1, <1>2, <1>3, <1>4, <1>5, SendKeeps, RerunKeeps DEF ImportNext, JobStep

LEMMA ImportInitInv == ImportInit => ImportInv
<1>. SUFFICES ASSUME ImportInit PROVE ImportInv
  OBVIOUS
<1>1. StoreTypes
  BY StartIsSound DEF ImportInit, PrimaryInv
<1>2. /\ file \in Files /\ role \in JobRoles /\ job = "ready" /\ at = 1 /\ runs = 1
      /\ conn = NoHandler /\ missed = {} /\ pc = [h \in Handlers |-> "idle"]
      /\ pstate = [d \in Databases |-> EmptyDB] /\ lock = [d \in Databases |-> NoHandler]
  BY DEF ImportInit, PrimaryStart, PrimaryInit
<1>3. ImportTypeOK
  <2>1. plan \in Seq(SUBSET Kept(file)) /\ Len(plan) \in Nat /\ MaxRuns \in Nat \ {0}
    BY <1>2, PlanParts, ImportAssumption DEF plan, IsCut
  <2>. QED
    BY <1>1, <1>2, <2>1 DEF StoreTypes, ImportTypeOK
<1>4. Len(plan) \in Nat \ {0} /\ DOMAIN plan = 1..Len(plan) /\ JobDb \in Databases
  BY <1>3, FileParts
<1>5. KnownRequests /\ QueryFresh /\ DirtyAddsNone /\ SentIsIn /\ PlaceInPlan
  BY <1>2, <1>4 DEF KnownRequests, QueryFresh, DirtyAddsNone, SentIsIn, PlaceInPlan
<1>6. PassedIsIn
  BY <1>2, <1>4 DEF PassedIsIn
<1>7. CopiesBounded
  <2>. SUFFICES ASSUME NEW i \in DOMAIN plan, NEW u \in plan[i]
                PROVE  IsFiniteSet(InFlight(u)) /\ InDb(u) + Cardinality(InFlight(u)) <= SentTimes(i)
    BY DEF CopiesBounded
  <2>1. InFlight(u) = {}
    BY <1>2 DEF InFlight
  <2>2. InDb(u) = 0
    BY <1>2, <1>3, <1>4, FileParts, CopiesAssumption DEF InDb
  <2>3. SentTimes(i) = 0
    BY <1>2, <1>4 DEF SentTimes
  <2>. QED
    BY <2>1, <2>2, <2>3, FS_EmptySet
<1>. QED
  BY <1>1, <1>3, <1>5, <1>6, <1>7 DEF ImportInv

LEMMA ImportInvCorrect == ImportSpec => []ImportInv
BY ImportInitInv, ImportInvStep, PTL DEF ImportSpec

\* No statement of a file is in the database more often than a run has sent it, and
\* every one that a run went past is in it: for every file, every size of a batch and
\* any number of runs, handlers and other clients, whatever answers are lost (importCSV,
\* importJSON, importSQL, executeQuery).
THEOREM ImportCountsCorrect == ImportSpec => []InAsOftenAsSent
<1>1. ASSUME ImportInv PROVE InAsOftenAsSent
  <2>. SUFFICES ASSUME NEW i \in DOMAIN plan, NEW u \in plan[i]
                PROVE  /\ InDb(u) <= SentTimes(i)
                       /\ i < at /\ i \notin missed => InDb(u) > 0
    BY DEF InAsOftenAsSent, SentTimes
  <2>1. InDb(u) \in Nat /\ i \in Nat /\ at \in Nat /\ runs \in Nat
    BY <1>1, FileParts, CopiesAssumption DEF ImportInv, ImportTypeOK, PrimaryTypeOK, InDb
  <2>2. Cardinality(InFlight(u)) \in Nat /\ SentTimes(i) \in Int
    BY <1>1, <2>1, FS_CardinalityType DEF ImportInv, CopiesBounded, SentTimes
  <2>. QED
    BY <1>1, <2>1, <2>2 DEF ImportInv, CopiesBounded, PassedIsIn
<1>. QED
  BY <1>1, ImportInvCorrect, PTL

\* An import that has ended without an error has its whole file in the database.
THEOREM ImportedIsIn == ImportSpec => []FileIsIn
<1>1. ASSUME ImportInv PROVE FileIsIn
  <2>. SUFFICES ASSUME job = "ended", NEW u \in Units(file)
                PROVE  \/ InDb(u) > 0
                       \/ /\ file.format = "shell"
                          /\ \/ u \in Swallowed(file.lines)
                             \/ \E i \in missed : u \in plan[i]
    BY DEF FileIsIn
  <2>1. CASE u \in Kept(file)
    <3>1. PICK i \in DOMAIN plan : u \in plan[i]
      BY <1>1, <2>1, PlanParts DEF IsCut, plan, ImportInv, ImportTypeOK
    <3>2. i < at
      <4>1. at = Len(plan) + 1
        BY <1>1 DEF ImportInv, PlaceInPlan
      <4>. QED
        BY <1>1, <4>1, FileParts DEF ImportInv
    <3>. QED
      BY <1>1, <3>1, <3>2 DEF ImportInv, PassedIsIn, PlaceInPlan
  <2>2. CASE u \notin Kept(file)
    BY <2>2 DEF Kept
  <2>. QED
    BY <2>1, <2>2
<1>. QED
  BY <1>1, ImportInvCorrect, PTL

\* What a step of the composed system is to the server.
LEMMA ServerMoves ==
  ASSUME ImportInv, [ImportNext]_importVars
  PROVE  \/ Serve
         \/ \E h \in Handlers, r \in Requests : Begins(h, r)
         \/ UNCHANGED <<primaryVars, log>>
<1>1. CASE Send \/ SendRefused
  <2>1. PICK h \in Handlers :
          Take(h, JobRequest(file, at, role)) \/ Refuse(h, JobRequest(file, at, role))
    BY <1>1 DEF Send, SendRefused
  <2>2. JobRequest(file, at, role) \in Requests
    BY <1>1, FileParts DEF Send, SendRefused, ImportInv, ImportTypeOK, PlaceInPlan
  <2>3. Begins(h, JobRequest(file, at, role))
    BY <2>1 DEF Begins, Take, Refuse
  <2>. QED
    BY <2>2, <2>3
<1>2. CASE Answered
  <2>1. NoRequest \in Requests
    BY RequestsThere
  <2>. QED
    BY <1>2, <2>1 DEF Answered, Begins, ImportInv, SentIsIn
<1>3. CASE OtherClients
  BY <1>3, ImportAssumption DEF OtherClients, Begins, Refuse, Accept, Take
<1>. QED
  BY <1>1, <1>2, <1>3
     DEF ImportNext, JobStep, SendFails, LostAnswer, Rerun, importVars

\* Beside an import, too, every write lock has its transaction.
THEOREM ImportLocksCorrect == ImportSpec => []LockHasTransaction
<1>1. ImportInit => LockHasTransaction
  BY StartIsSound DEF ImportInit, PrimaryInv
<1>2. ASSUME ImportInv, LockHasTransaction, [ImportNext]_importVars PROVE LockHasTransaction'
  <2>1. CASE UNCHANGED <<primaryVars, log>>
    BY <1>2, <2>1 DEF LockHasTransaction, Writes, primaryVars, handlerVars, storeVars
  <2>. QED
    BY <1>2, <2>1, ServerMoves, LockServe, LockBegins DEF ImportInv
<1>. QED
  BY <1>1, <1>2, ImportInvCorrect, PTL DEF ImportSpec

\* And every write its row.
THEOREM ImportLogsFirst ==
  ASSUME "log" \notin Faults
  PROVE  ImportSpec => []EveryWriteLogged
<1>1. ImportInit => LoggedFirst
  BY StartIsSound DEF ImportInit
<1>2. ASSUME ImportInv, LoggedFirst, [ImportNext]_importVars PROVE LoggedFirst'
  <2>1. CASE UNCHANGED <<primaryVars, log>>
    BY <1>2, <2>1 DEF LoggedFirst, primaryVars, handlerVars
  <2>. QED
    BY <1>2, <2>1, ServerMoves, LoggedServe, LoggedBegins DEF ImportInv
<1>3. ImportInv /\ LoggedFirst => EveryWriteLogged
  BY LoggedIsEnough DEF ImportInv
<1>. QED
  BY <1>1, <1>2, <1>3, ImportInvCorrect, PTL DEF ImportSpec
=============================================================================
