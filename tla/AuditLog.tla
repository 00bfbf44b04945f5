------------------------------ MODULE AuditLog ------------------------------
(***************************************************************************)
(* The asynchronous audit log of SystemDB (internal/database/system.go):   *)
(* LogAudit puts an entry into a buffered channel and never waits, one     *)
(* worker takes entries out and inserts them into audit_logs, Close closes *)
(* the channel and waits for the worker.                                   *)
(***************************************************************************)
EXTENDS Naturals, Sequences

CONSTANTS
  Capacity,     \* of the channel
  Flushers,     \* callers of FlushAuditLog
  AuditFaults   \* faults the worker may meet: "prepare", "insert"

ASSUME AuditAssumption == Capacity \in Nat \ {0} /\ AuditFaults \subseteq {"prepare", "insert"}

VARIABLES
  auditCh,    \* the channel's buffer: entries, and flushers that wait
  chClosed,   \* whether the channel is closed
  worker,     \* where auditWorker is; "done" or "gaveUp" when auditDone is closed
  held,       \* the entry the worker inserts
  rows,       \* audit_logs
  flush,      \* where the callers of FlushAuditLog are
  accepted,   \* history: what LogAudit put into the channel, in order
  refused,    \* history: the entries whose INSERT failed
  mark        \* history: how much had been accepted when a flush began

auditVars == <<auditCh, chClosed, worker, held, rows, flush, accepted, refused, mark>>

\* auditEntry: an entry, numbered in the order of acceptance, or a flusher.
Entry == [kind : {"entry"}, of : Nat]
Flusher == [kind : {"flusher"}, of : Flushers]
IsEntry(m) == m.kind = "entry"

NextEntry == [kind |-> "entry", of |-> Len(accepted) + 1]
NothingHeld == <<>>

\* auditDone is closed.
AuditDone == worker \in {"done", "gaveUp"}

AuditTypeOK ==
  /\ auditCh \in Seq(Entry \cup Flusher)
  /\ chClosed \in BOOLEAN
  /\ worker \in {"prepare", "range", "insert", "done", "gaveUp"}
  /\ held \in Seq(Entry) /\ Len(held) <= 1
  /\ rows \in Seq(Entry)
  /\ flush \in [Flushers -> {"idle", "wait", "returned", "panicked"}]
  /\ accepted \in Seq(Entry)
  /\ refused \subseteq Entry
  /\ mark \in [Flushers -> Nat]

AuditInit ==
  /\ auditCh = <<>>
  /\ chClosed = FALSE
  /\ worker = "prepare"
  /\ held = NothingHeld
  /\ rows = <<>>
  /\ flush = [f \in Flushers |-> "idle"]
  /\ accepted = <<>>
  /\ refused = {}
  /\ mark = [f \in Flushers |-> 0]

-----------------------------------------------------------------------------
(* LogAudit: a select with a default.                                      *)

\* A send on the closed channel panics.
LogAuditPanics == chClosed

\* Mutant: the entry that waits longest makes room.
LogAudit_DropOldest ==
  /\ ~chClosed
  /\ accepted' = Append(accepted, NextEntry)
  /\ auditCh' = Append(IF Len(auditCh) < Capacity THEN auditCh ELSE Tail(auditCh), NextEntry)
  /\ UNCHANGED <<chClosed, worker, held, rows, flush, refused, mark>>

\* Room in the buffer: the entry is sent.  None: the default drops it.
LogAudit ==
  /\ ~chClosed
  /\ \/ /\ Len(auditCh) < Capacity
        /\ auditCh' = Append(auditCh, NextEntry)
        /\ accepted' = Append(accepted, NextEntry)
     \/ /\ Len(auditCh) >= Capacity
        /\ UNCHANGED <<auditCh, accepted>>
  /\ UNCHANGED <<chClosed, worker, held, rows, flush, refused, mark>>

-----------------------------------------------------------------------------
(* FlushAuditLog (the tests call it): waits for room, then for the worker. *)

\* Mutant: the flusher overtakes the entries.
FlushSend_Overtakes(f) ==
  /\ flush[f] = "idle"
  /\ ~chClosed
  /\ Len(auditCh) < Capacity
  /\ auditCh' = <<[kind |-> "flusher", of |-> f]>> \o auditCh
  /\ flush' = [flush EXCEPT ![f] = "wait"]
  /\ mark' = [mark EXCEPT ![f] = Len(accepted)]
  /\ UNCHANGED <<chClosed, worker, held, rows, accepted, refused>>

\* The send is taken while the channel is open and has room.
FlushSend(f) ==
  /\ flush[f] = "idle"
  /\ ~chClosed
  /\ Len(auditCh) < Capacity
  /\ auditCh' = Append(auditCh, [kind |-> "flusher", of |-> f])
  /\ flush' = [flush EXCEPT ![f] = "wait"]
  /\ mark' = [mark EXCEPT ![f] = Len(accepted)]
  /\ UNCHANGED <<chClosed, worker, held, rows, accepted, refused>>

\* The worker is at its end: the select takes auditDone.
FlushNoWorker(f) ==
  /\ flush[f] = "idle"
  /\ AuditDone
  /\ flush' = [flush EXCEPT ![f] = "returned"]
  /\ mark' = [mark EXCEPT ![f] = Len(accepted)]
  /\ UNCHANGED <<auditCh, chClosed, worker, held, rows, accepted, refused>>

\* The select takes the send, and the channel is closed, or is closed while the
\* send waits for room: a panic.  With auditDone closed too, either case is taken.
FlushPanics(f) ==
  /\ flush[f] = "idle"
  /\ chClosed
  /\ flush' = [flush EXCEPT ![f] = "panicked"]
  /\ UNCHANGED <<auditCh, chClosed, worker, held, rows, accepted, refused, mark>>

-----------------------------------------------------------------------------
(* auditWorker.                                                            *)

WorkerPrepares ==
  /\ worker = "prepare"
  /\ \/ worker' = "range"
     \/ "prepare" \in AuditFaults /\ worker' = "gaveUp"
  /\ UNCHANGED <<auditCh, chClosed, held, rows, flush, accepted, refused, mark>>

WorkerTakes ==
  /\ worker = "range"
  /\ auditCh # <<>>
  /\ auditCh' = Tail(auditCh)
  /\ \/ /\ IsEntry(Head(auditCh))
        /\ held' = <<Head(auditCh)>>
        /\ worker' = "insert"
        /\ UNCHANGED flush
     \/ /\ ~IsEntry(Head(auditCh))
        /\ flush' = [flush EXCEPT ![Head(auditCh).of] = "returned"]
        /\ UNCHANGED <<held, worker>>
  /\ UNCHANGED <<chClosed, rows, accepted, refused, mark>>

\* An entry whose INSERT fails is dropped.
WorkerInserts ==
  /\ worker = "insert"
  /\ held' = NothingHeld
  /\ \/ rows' = rows \o held /\ UNCHANGED refused
     \/ "insert" \in AuditFaults /\ refused' = refused \cup {held[1]} /\ UNCHANGED rows
  /\ worker' = "range"
  /\ UNCHANGED <<auditCh, chClosed, flush, accepted, mark>>

\* The range loop ends when the channel is closed and empty.
WorkerEnds ==
  /\ worker = "range"
  /\ chClosed
  /\ auditCh = <<>>
  /\ worker' = "done"
  /\ UNCHANGED <<auditCh, chClosed, held, rows, flush, accepted, refused, mark>>

AuditWorker == WorkerPrepares \/ WorkerTakes \/ WorkerInserts \/ WorkerEnds

-----------------------------------------------------------------------------
(* Close: close the channel, then wait for auditDone.                      *)

\* A second close panics.
CloseChannelPanics == chClosed

CloseChannel ==
  /\ ~chClosed
  /\ chClosed' = TRUE
  /\ UNCHANGED <<auditCh, worker, held, rows, flush, accepted, refused, mark>>

-----------------------------------------------------------------------------
(* Properties.                                                             *)

\* The way of an entry, from its end.
Way == rows \o held \o auditCh
Entries(s) == {s[i] : i \in DOMAIN s} \cap Entry

\* Whatever was accepted, and whose INSERT did not fail, is in the table, with
\* the worker or in the channel, in the order of acceptance: no entry is lost,
\* written twice or overtaken.
NothingLost ==
  /\ Entries(Way) = Entries(accepted) \ refused
  /\ \A i, j \in DOMAIN Way :
       i < j /\ Way[i] \in Entry /\ Way[j] \in Entry => Way[i].of < Way[j].of

\* Entry n is in the table, or its INSERT failed.
Written(n) == accepted[n] \in Entries(rows) \cup refused

\* What was accepted before FlushAuditLog was called is in the table when it
\* returns, unless the worker gave up.
FlushIsDone ==
  \A f \in Flushers : flush[f] = "returned" /\ worker # "gaveUp" =>
    \A n \in 1..mark[f] : Written(n)
=============================================================================
