----------------------------- MODULE ImportJob -----------------------------
(***************************************************************************)
(* A file goes into a database through POST /query: the commands import    *)
(* (cmd/sparkdb/commands/import.go) and shell (shell.go), which cut it     *)
(* into statements and send one after the other (internal/client), beside  *)
(* other clients of the server of Primary.                                 *)
(*                                                                         *)
(* No transaction holds the statements together and the client repeats     *)
(* nothing.  A statement whose answer is lost may still run, while the     *)
(* file is given to import once more, from its first line.                 *)
(*                                                                         *)
(* Not here: how a value is quoted and which type a column gets.           *)
(***************************************************************************)
EXTENDS Primary, FiniteSets

CONSTANTS
  Files,           \* what may be imported
  ClientRequests,  \* what other clients send
  JobDb, JobRoles, \* --db, and the roles of who imports
  TextOf(_, _),    \* the statement of a format that carries some of the file's units
  Copies(_, _),    \* how often a unit's effect is in a database
  BatchSize,       \* rows of an INSERT
  MaxRuns          \* bound: how often the file is given to import

\* A unit is what the file would have in the database: a row of a CSV or JSON
\* file, or a line of SQL.  Of the lines of a script the commands tell apart: a
\* comment (import skips an empty line like one), SQL that ends in a semicolon and
\* SQL that does not.
Lines == {"comment", "open", "closed"}
FileType == [format : {"rows"}, size : Nat \ {0}] \cup [format : {"sql", "shell"}, lines : Seq(Lines)]

\* importCSV, importJSON: CREATE TABLE IF NOT EXISTS, and batches.
Batches(n) ==
  << {} >> \o [b \in 1..(n + BatchSize - 1) \div BatchSize |->
                {u \in 1..n : (b - 1) * BatchSize < u /\ u <= b * BatchSize}]

\* How many statements have ended before line u.
Ended(lines, u) == Cardinality({v \in 1..u-1 : lines[v] = "closed"})

\* A cut after every line that ends in a semicolon; what is left at the end is a
\* statement as well.  kept are the lines that come into a statement.
CutAtSemicolons(lines, kept) ==
  LET closed == Ended(lines, Len(lines) + 1)
      rest   == IF \E u \in kept : Ended(lines, u) = closed THEN 1 ELSE 0
  IN  [i \in 1..closed + rest |-> {u \in kept : Ended(lines, u) + 1 = i}]

SqlLines(lines) == {u \in DOMAIN lines : lines[u] # "comment"}

\* splitSQL leaves comments out.
SplitSQL(lines) == CutAtSemicolons(lines, SqlLines(lines))

\* The shell joins the lines of a statement with blanks: what comes after a comment
\* is part of the comment.
Swallowed(lines) ==
  {u \in DOMAIN lines :
     \E v \in 1..u : lines[v] = "comment" /\ \A w \in v..u-1 : lines[w] # "closed"}
ShellStatements(lines) ==
  LET cut == CutAtSemicolons(lines, DOMAIN lines) IN [i \in DOMAIN cut |-> cut[i] \ Swallowed(lines)]

Plan(f) ==
  CASE f.format = "rows"  -> Batches(f.size)
    [] f.format = "sql"   -> SplitSQL(f.lines)
    [] f.format = "shell" -> ShellStatements(f.lines)

\* The file's units.
Units(f) == IF f.format = "rows" THEN 1..f.size ELSE SqlLines(f.lines)

VARIABLES
  file,    \* the file
  role,    \* of the user who imports
  job,     \* "ready" to send, "sent", "stopped" on an error, "ended"
  at,      \* the statement it is at
  conn,    \* the handler that has its request, or NoHandler
  runs,    \* how often import was started
  missed   \* history: what the shell went past without a good answer

jobVars == <<file, role, job, at, conn, runs, missed>>
importVars == <<primaryVars, log, faults, jobVars>>

Plans == [f \in Files |-> Plan(f)]
plan == Plans[file]
JobRequest(f, i, r) ==
  [kind |-> "query", db |-> JobDb, stmts |-> <<TextOf(f.format, Plans[f][i])>>,
   params |-> NoParams, role |-> r]

ASSUME ImportAssumption ==
  /\ Files \subseteq FileType
  /\ \A f \in Files :
        /\ Plans[f] # <<>>
        \* no comment in the middle of what is typed into the shell as one statement
        /\ f.format = "shell" =>
             \A u \in DOMAIN f.lines : f.lines[u] = "comment" /\ u > 1 => f.lines[u - 1] # "open"
  /\ ClientRequests \subseteq Requests
  /\ \A f \in Files, r \in JobRoles : \A i \in DOMAIN Plans[f] : JobRequest(f, i, r) \in Requests
  /\ BatchSize \in Nat \ {0} /\ MaxRuns \in Nat \ {0}

\* What Copies counts.  A statement of the file, when SQLite accepts it, adds each of
\* its units once, the requests of the other clients carry none.  (Two lines with one
\* text are two units: a text stands for the lines it was made of.)
ASSUME CopiesAssumption ==
  \A f \in Files : \A u \in Units(f) :
    /\ Copies(u, EmptyDB) = 0
    /\ \A s \in DBState :
         /\ Copies(u, s) \in Nat
         /\ \A i \in DOMAIN Plans[f] :
              ~SqlError(TextOf(f.format, Plans[f][i]), NoParams, s) =>
                 Copies(u, Exec(TextOf(f.format, Plans[f][i]), NoParams, s)) =
                   Copies(u, s) + (IF u \in Plans[f][i] THEN 1 ELSE 0)
         /\ \A r \in ClientRequests : \A i \in DOMAIN r.stmts :
              Copies(u, Exec(r.stmts[i], r.params, s)) = Copies(u, s)
ASSUME TextsAssumption ==
  \A f \in Files : \A i \in DOMAIN Plans[f] :
    /\ \A j \in DOMAIN Plans[f] :
         TextOf(f.format, Plans[f][i]) = TextOf(f.format, Plans[f][j]) =>
            Plans[f][i] = Plans[f][j]
    /\ Plans[f][i] # {} => \A r \in JobRoles : JobRequest(f, i, r) \notin ClientRequests

ImportTypeOK ==
  /\ PrimaryTypeOK
  /\ file \in Files /\ role \in JobRoles
  /\ job \in {"ready", "sent", "stopped", "ended"}
  /\ at \in 1..Len(plan) + 1
  /\ conn \in Handlers \cup {NoHandler}
  /\ runs \in 1..MaxRuns
  /\ missed \in SUBSET DOMAIN plan

\* What a handler holds that has nothing to serve.
NoRequest == CHOOSE r \in Requests : TRUE

\* (No handler has served anything yet: which request it holds does not matter.)
ImportInit ==
  /\ PrimaryStart
  /\ req = [h \in Handlers |-> NoRequest]
  /\ file \in Files /\ role \in JobRoles
  /\ job = "ready" /\ at = 1 /\ runs = 1
  /\ conn = NoHandler
  /\ missed = {}

-----------------------------------------------------------------------------
(* The command.                                                            *)

\* The command is through with the statement at hand.
GoOn ==
  /\ conn' = NoHandler
  /\ at' = at + 1
  /\ job' = IF at = Len(plan) THEN "ended" ELSE "ready"

\* No answer, or an error in it: import stops, the shell prints it and goes on.
NoGoodAnswer ==
  IF file.format = "shell" THEN GoOn /\ missed' = missed \cup {at}
  ELSE job' = "stopped" /\ conn' = NoHandler /\ UNCHANGED <<at, missed>>

\* c.Query, on a connection nobody else uses.
Send ==
  /\ job = "ready"
  /\ \E h \in Handlers : /\ Take(h, JobRequest(file, at, role))
                         /\ conn' = h
  /\ job' = "sent"
  /\ UNCHANGED <<accepted, file, role, at, runs, missed>>

\* 403
SendRefused ==
  /\ job = "ready"
  /\ \E h \in Handlers : Refuse(h, JobRequest(file, at, role))
  /\ NoGoodAnswer
  /\ UNCHANGED <<file, role, runs>>

\* 429, or nobody listens: the statement does not reach a handler.
SendFails ==
  /\ job = "ready"
  /\ Fault("send")
  /\ NoGoodAnswer
  /\ UNCHANGED <<primaryVars, log, file, role, runs>>

\* A handler that has answered is gone with all it held.
Forget(h) ==
  /\ req' = [req EXCEPT ![h] = NoRequest]
  /\ pos' = [pos EXCEPT ![h] = 1]
  /\ ids' = [ids EXCEPT ![h] = <<>>]
  /\ took' = [took EXCEPT ![h] = {}]
  /\ reply' = [reply EXCEPT ![h] = 0]

\* Mutant: the error in the answer is not looked at.
Answered_Blind ==
  /\ job = "sent" /\ pc[conn] = "idle"
  /\ GoOn
  /\ Forget(conn)
  /\ UNCHANGED <<pc, storeVars, accepted, log, faults, file, role, runs, missed>>

\* Mutant: a connection that breaks is not noticed.
Answered_GoodOnly ==
  /\ job = "sent" /\ pc[conn] = "idle" /\ reply[conn] # 0
  /\ IF reply[conn] = 200 /\ took[conn] # {} THEN GoOn /\ UNCHANGED missed
     ELSE NoGoodAnswer
  /\ Forget(conn)
  /\ UNCHANGED <<pc, storeVars, accepted, log, faults, file, role, runs>>

\* The handler is done (or its process has died, and the connection breaks).
Answered ==
  /\ job = "sent" /\ pc[conn] = "idle"
  /\ IF reply[conn] = 200 /\ took[conn] # {} THEN GoOn /\ UNCHANGED missed
     ELSE NoGoodAnswer
  /\ Forget(conn)
  /\ UNCHANGED <<pc, storeVars, accepted, log, faults, file, role, runs>>

\* Mutant: a statement without an answer is sent again.
LostAnswer_Again ==
  /\ job = "sent"
  /\ Fault("answer")
  /\ job' = "ready" /\ conn' = NoHandler
  /\ UNCHANGED <<primaryVars, log, file, role, at, runs, missed>>

\* The client's timeout of a minute, or a broken connection.  The handler may go on.
LostAnswer ==
  /\ job = "sent"
  /\ Fault("answer")
  /\ NoGoodAnswer
  /\ UNCHANGED <<primaryVars, log, file, role, runs>>

\* Somebody gives the file to import once more.
Rerun ==
  /\ job = "stopped" /\ runs < MaxRuns
  /\ runs' = runs + 1
  /\ job' = "ready" /\ at' = 1
  /\ UNCHANGED <<primaryVars, log, faults, file, role, conn, missed>>

JobStep == Send \/ SendRefused \/ Answered

\* The other clients have connections of their own.
OtherClients ==
  \E h \in Handlers, r \in ClientRequests :
    /\ h # conn
    /\ Refuse(h, r) \/ Accept(h, r)

ImportNext ==
  \/ JobStep \/ SendFails \/ LostAnswer \/ Rerun
  \/ (OtherClients \/ Serve) /\ UNCHANGED jobVars

ImportSpec == ImportInit /\ [][ImportNext]_importVars

\* The command runs, and the server as in Primary.  Nobody has to start it again.
ImportLive ==
  /\ ImportSpec
  /\ \A h \in Handlers : WF_importVars(HandlerStep(h) /\ UNCHANGED jobVars)
  /\ WF_importVars(JobStep)

-----------------------------------------------------------------------------
(* Properties.                                                             *)

InDb(u) == Copies(u, pstate[JobDb])

\* An import that ends without an error has every row and every line of its file
\* in the database, whatever happened to other requests and whatever earlier runs
\* left behind.  A session of the shell has those that no comment swallowed and that
\* were answered without an error.
FileIsIn ==
  job = "ended" =>
    \A u \in Units(file) :
      \/ InDb(u) > 0
      \/ /\ file.format = "shell"
         /\ \/ u \in Swallowed(file.lines)
            \/ \E i \in missed : u \in plan[i]

\* A run sends no statement twice, and none before the one ahead of it was answered
\* without an error: what is in the database is what the runs have got to.
InAsOftenAsSent ==
  \A i \in DOMAIN plan : \A u \in plan[i] :
    /\ InDb(u) <= (IF i > at \/ (i = at /\ job = "ready") THEN runs - 1 ELSE runs)
    /\ i < at /\ i \notin missed => InDb(u) > 0

\* Whatever errors, lost answers and crashes there are, the command comes to an end.
CommandEnds == (job \in {"ready", "sent"}) ~> (job \in {"stopped", "ended"})
=============================================================================
