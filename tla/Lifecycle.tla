----------------------------- MODULE Lifecycle ------------------------------
(***************************************************************************)
(* The end of a server process: Start, Shutdown and POST /shutdown of      *)
(* internal/server/server.go, over the handlers that still run and the     *)
(* audit log they write to.                                                *)
(*                                                                         *)
(* A signal makes the main goroutine close everything down in turn.  POST  *)
(* /shutdown does so in a goroutine of its own, while the main goroutine   *)
(* waits in Start for a signal or for the end of ListenAndServe.           *)
(***************************************************************************)
EXTENDS AuditLog, FiniteSets

CONSTANTS
  Handlers,     \* goroutines that serve requests
  APIClosers,   \* goroutines started by POST /shutdown
  Main,         \* the main goroutine, which Shutdown runs on
  Signals,      \* whether the process may be sent SIGINT or SIGTERM
  Slow,         \* whether a handler may take longer than the 10 s of Shutdown
  MaxRequests   \* bound: requests that are served

ASSUME LifecycleAssumption == Main \notin APIClosers /\ Signals \in BOOLEAN /\ Slow \in BOOLEAN

VARIABLES
  process,    \* "up", "exited" or "crashed"
  quit,       \* a signal waits in the channel of Start
  listening,  \* the listener is open
  closer,     \* where the goroutines that close the server are
  handler,    \* whether a handler works on a request
  requests,   \* bound: requests that were served
  timedOut    \* history: a Shutdown gave up waiting for handlers

lifecycleVars == <<process, quit, listening, closer, handler, requests, timedOut>>
serverVars == <<auditVars, lifecycleVars>>

Closers == APIClosers \cup {Main}

LifecycleTypeOK ==
  /\ AuditTypeOK
  /\ process \in {"up", "exited", "crashed"}
  /\ quit \in BOOLEAN /\ listening \in BOOLEAN /\ timedOut \in BOOLEAN
  /\ closer \in [Closers -> {"off", "begin", "drain", "close", "wait", "done"}]
  /\ handler \in [Handlers -> {"idle", "busy"}]
  /\ requests \in Nat

ServerInit ==
  /\ AuditInit
  /\ process = "up"
  /\ quit = FALSE
  /\ listening = TRUE
  /\ closer = [c \in Closers |-> "off"]
  /\ handler = [h \in Handlers |-> "idle"]
  /\ requests = 0
  /\ timedOut = FALSE

-----------------------------------------------------------------------------
(* Handlers.                                                               *)

Receive(h) ==
  /\ listening /\ handler[h] = "idle" /\ requests < MaxRequests
  /\ handler' = [handler EXCEPT ![h] = "busy"]
  /\ requests' = requests + 1
  /\ UNCHANGED <<auditVars, process, quit, listening, closer, timedOut>>

\* A handler ends with its audit entry.
Audit(h) ==
  /\ handler[h] = "busy"
  /\ LogAudit
  /\ handler' = [handler EXCEPT ![h] = "idle"]
  /\ UNCHANGED <<process, quit, listening, closer, requests, timedOut>>

\* Most handlers of the accounts write none.
Answer(h) ==
  /\ handler[h] = "busy"
  /\ handler' = [handler EXCEPT ![h] = "idle"]
  /\ UNCHANGED <<auditVars, process, quit, listening, closer, requests, timedOut>>

\* Mutant: without recoveryMiddleware.
AuditPanics_NoRecovery(h) ==
  /\ handler[h] = "busy"
  /\ LogAuditPanics
  /\ process' = "crashed"
  /\ UNCHANGED <<auditVars, quit, listening, closer, handler, requests, timedOut>>

\* The panic of LogAudit ends the request: recoveryMiddleware answers 500.
AuditPanics(h) ==
  /\ handler[h] = "busy"
  /\ LogAuditPanics
  /\ handler' = [handler EXCEPT ![h] = "idle"]
  /\ UNCHANGED <<auditVars, process, quit, listening, closer, requests, timedOut>>

\* POST /shutdown: the answer is written, a goroutine is started.
HandleShutdown(h, c) ==
  /\ handler[h] = "busy"
  /\ closer[c] = "off"
  /\ handler' = [handler EXCEPT ![h] = "idle"]
  /\ closer' = [closer EXCEPT ![c] = "begin"]
  /\ UNCHANGED <<auditVars, process, quit, listening, requests, timedOut>>

-----------------------------------------------------------------------------
(* The goroutines that close the server: the main goroutine in Shutdown,   *)
(* and those of POST /shutdown.                                            *)

\* httpServer.Shutdown closes the listener first.
StopListening(c) ==
  /\ closer[c] = "begin"
  /\ listening' = FALSE
  /\ closer' = [closer EXCEPT ![c] = "drain"]
  /\ UNCHANGED <<auditVars, process, quit, handler, requests, timedOut>>

\* Mutant: httpServer.Close, which does not wait for the handlers.
Drain_NoWait(c) ==
  /\ closer[c] = "drain"
  /\ closer' = [closer EXCEPT ![c] = "close"]
  /\ UNCHANGED <<auditVars, process, quit, listening, handler, requests, timedOut>>

\* Mutant: Shutdown without a deadline.
Drain_NoDeadline(c) ==
  /\ closer[c] = "drain"
  /\ \A h \in Handlers : handler[h] = "idle"
  /\ closer' = [closer EXCEPT ![c] = "close"]
  /\ UNCHANGED <<auditVars, process, quit, listening, handler, requests, timedOut>>

\* It waits for the handlers, for 10 s; then dbManager.CloseAll.
Drain(c) ==
  /\ closer[c] = "drain"
  /\ \/ (\A h \in Handlers : handler[h] = "idle") /\ UNCHANGED timedOut
     \/ Slow /\ (\E h \in Handlers : handler[h] = "busy") /\ timedOut' = TRUE
  /\ closer' = [closer EXCEPT ![c] = "close"]
  /\ UNCHANGED <<auditVars, process, quit, listening, handler, requests>>

\* systemDB.Close closes the channel; a second one panics, and no recover is in
\* the way.
CloseAudit(c) ==
  /\ closer[c] = "close"
  /\ \/ /\ CloseChannel
        /\ closer' = [closer EXCEPT ![c] = "wait"]
        /\ UNCHANGED process
     \/ /\ CloseChannelPanics
        /\ process' = "crashed"
        /\ UNCHANGED <<auditVars, closer>>
  /\ UNCHANGED <<quit, listening, handler, requests, timedOut>>

\* Mutant: Close does not wait for the worker.
AwaitAudit_NoWait(c) ==
  /\ closer[c] = "wait"
  /\ closer' = [closer EXCEPT ![c] = "done"]
  /\ process' = IF c = Main THEN "exited" ELSE process
  /\ UNCHANGED <<auditVars, quit, listening, handler, requests, timedOut>>

\* Close waits for the worker.  When Shutdown is done, so is Start, and the
\* process ends.
AwaitAudit(c) ==
  /\ closer[c] = "wait"
  /\ AuditDone
  /\ closer' = [closer EXCEPT ![c] = "done"]
  /\ process' = IF c = Main THEN "exited" ELSE process
  /\ UNCHANGED <<auditVars, quit, listening, handler, requests, timedOut>>

CloseStep(c) == StopListening(c) \/ Drain(c) \/ CloseAudit(c) \/ AwaitAudit(c)

-----------------------------------------------------------------------------
(* The main goroutine, in the select of Start.                             *)

Signal ==
  /\ Signals
  /\ ~quit
  /\ quit' = TRUE
  /\ UNCHANGED <<auditVars, process, listening, closer, handler, requests, timedOut>>

TakeSignal ==
  /\ closer[Main] = "off"
  /\ quit
  /\ closer' = [closer EXCEPT ![Main] = "begin"]
  /\ UNCHANGED <<auditVars, process, quit, listening, handler, requests, timedOut>>

\* ListenAndServe returns ErrServerClosed as soon as the listener is closed, so
\* Start returns and the process ends.
ServerClosed ==
  /\ closer[Main] = "off"
  /\ ~listening
  /\ process' = "exited"
  /\ UNCHANGED <<auditVars, quit, listening, closer, handler, requests, timedOut>>

AuditStep ==
  /\ AuditWorker \/ \E f \in Flushers : FlushSend(f) \/ FlushNoWorker(f)
  /\ UNCHANGED lifecycleVars

\* FlushAuditLog is called by a goroutine of its own, with no recover in the way.
FlusherPanics(f) ==
  /\ FlushPanics(f)
  /\ process' = "crashed"
  /\ UNCHANGED <<quit, listening, closer, handler, requests, timedOut>>

ServerNext ==
  /\ process = "up"
  /\ \/ \E h \in Handlers : \/ Receive(h) \/ Audit(h) \/ Answer(h) \/ AuditPanics(h)
                            \/ \E c \in APIClosers : HandleShutdown(h, c)
     \/ \E c \in Closers : CloseStep(c)
     \/ Signal \/ TakeSignal \/ ServerClosed
     \/ AuditStep
     \/ \E f \in Flushers : FlusherPanics(f)

ServerSpec == ServerInit /\ [][ServerNext]_serverVars

\* The scheduler of Go runs every goroutine that can run.  Nothing makes a
\* handler end: the main goroutine does not depend on it.
ServerFairness ==
  /\ WF_serverVars(process = "up" /\ AuditWorker /\ UNCHANGED lifecycleVars)
  /\ WF_serverVars(process = "up" /\ TakeSignal)
  /\ WF_serverVars(process = "up" /\ ServerClosed)
  /\ \A c \in Closers : WF_serverVars(process = "up" /\ CloseStep(c))

FairServer == ServerSpec /\ ServerFairness

-----------------------------------------------------------------------------
(* Properties.                                                             *)

\* A process that was ended by a signal alone wrote every audit entry it accepted
\* and could insert, though handlers and flushers were still at it.
ExitWritesAudit ==
  process = "exited" /\ worker # "gaveUp" /\ (\A c \in APIClosers : closer[c] = "off")
    => \A n \in DOMAIN accepted : Written(n)

\* The channel is not closed under a handler, unless Shutdown gave up on it.
ClosedWhenDrained == chClosed /\ ~timedOut => \A h \in Handlers : handler[h] = "idle"

\* The process panics only where a goroutine closed the audit channel (systemDB.Close)
\* and another one then closes it again or flushes into it: no handler that still
\* writes its entry, and no step of the worker, brings the process down.
CrashNeedsTwo ==
  process = "crashed" =>
    \E c \in Closers :
      /\ closer[c] \in {"wait", "done"}
      /\ \/ \E d \in Closers : d # c /\ closer[d] = "close"
         \/ \E f \in Flushers : flush[f] = "panicked"

\* A signal ends the process, whatever the handlers do.
SignalEnds == quit ~> process # "up"
=============================================================================
