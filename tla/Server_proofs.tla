---------------------------- MODULE Server_proofs ----------------------------
(***************************************************************************)
(* Proofs about the server as a process: its end (Lifecycle with the audit *)
(* log), what a start writes (Startup), and the limiters in front of its   *)
(* handlers (RequestLimiter).                                              *)
(*                                                                         *)
(* For every number of handlers, of flushers and of goroutines that close  *)
(* the server, and every capacity of the audit channel: the channel is     *)
(* closed under no handler; no entry is lost on its way; a flush returns,  *)
(* and a process that a signal ends exits, when what was accepted is       *)
(* written; and the process panics only where two goroutines close it      *)
(* down.                                                                   *)
(* For every number of servers and commands that start side by side: what  *)
(* schema_migrations claims is in the schema.                              *)
(* For every number of requests and addresses, both limits and the window: *)
(* no window sees more requests served than the limit, and nobody is       *)
(* refused for requests that were refused.                                 *)
(***************************************************************************)
EXTENDS Lifecycle, Startup, RequestLimiter, FunctionTheorems, FiniteSetTheorems, TLAPS

-----------------------------------------------------------------------------
(* The end of the server.                                                  *)

\* What the order of the calls in Shutdown and in POST /shutdown amounts to:
\* whoever is past StopListening has closed the listener, whoever is past Drain
\* has seen every handler end or has given up, and only those close the channel.
ListenerFirst ==
  (\E c \in Closers : closer[c] \in {"drain", "close", "wait", "done"}) => ~listening
DrainedNext ==
  (\E c \in Closers : closer[c] \in {"close", "wait", "done"}) /\ ~timedOut
    => \A h \in Handlers : handler[h] = "idle"
ChannelLast == chClosed => \E c \in Closers : closer[c] \in {"wait", "done"}

CloseTypes ==
  /\ closer \in [Closers -> {"off", "begin", "drain", "close", "wait", "done"}]
  /\ handler \in [Handlers -> {"idle", "busy"}]
  /\ chClosed \in BOOLEAN
  /\ timedOut \in BOOLEAN

CloseInv == CloseTypes /\ ListenerFirst /\ DrainedNext /\ ChannelLast

LEMMA CloseInit == ServerInit => CloseInv
<1>. SUFFICES ASSUME ServerInit PROVE CloseInv
  OBVIOUS
<1>1. /\ closer = [c \in Closers |-> "off"] /\ handler = [h \in Handlers |-> "idle"]
      /\ chClosed = FALSE /\ timedOut = FALSE
  BY DEF ServerInit, AuditInit
<1>2. CloseTypes
  BY <1>1 DEF CloseTypes
<1>3. \A c \in Closers : closer[c] = "off"
  BY <1>1
<1>4. ListenerFirst
  BY <1>3 DEF ListenerFirst
<1>5. DrainedNext
  BY <1>3 DEF DrainedNext
<1>6. ChannelLast
  BY <1>1 DEF ChannelLast
<1>. QED
  BY <1>2, <1>4, <1>5, <1>6 DEF CloseInv

\* A step of the handlers starts none once the listener is closed.
LEMMA HandlerKeeps ==
  ASSUME CloseInv, NEW h \in Handlers,
         Receive(h) \/ Audit(h) \/ Answer(h) \/ AuditPanics(h)
  PROVE  CloseInv'
<1>. USE DEF CloseInv, CloseTypes, ListenerFirst, DrainedNext, ChannelLast
<1>1. CASE Receive(h)
  BY <1>1 DEF Receive, auditVars
<1>2. CASE Audit(h)
  BY <1>2 DEF Audit, LogAudit
<1>3. CASE Answer(h) \/ AuditPanics(h)
  BY <1>3 DEF Answer, AuditPanics, auditVars
<1>. QED
  BY <1>1, <1>2, <1>3

\* A goroutine that closes the server goes through its steps in order.
LEMMA CloserKeeps ==
  ASSUME CloseInv, NEW c \in Closers, CloseStep(c)
  PROVE  CloseInv'
<1>. USE DEF CloseInv, CloseTypes, ListenerFirst, DrainedNext, ChannelLast
<1>1. CASE StopListening(c)
  BY <1>1 DEF StopListening, auditVars
<1>2. CASE Drain(c)
  BY <1>2 DEF Drain, auditVars
<1>3. CASE CloseAudit(c)
  <2>1. CASE CloseChannel /\ closer' = [closer EXCEPT ![c] = "wait"]
    BY <1>3, <2>1 DEF CloseAudit, CloseChannel
  <2>2. CASE UNCHANGED <<auditVars, closer>>
    BY <1>3, <2>2 DEF CloseAudit, auditVars
  <2>. QED
    BY <1>3, <2>1, <2>2 DEF CloseAudit
<1>4. CASE AwaitAudit(c)
  BY <1>4 DEF AwaitAudit, auditVars
<1>. QED
  BY <1>1, <1>2, <1>3, <1>4 DEF CloseStep

LEMMA CloseNext == CloseInv /\ [ServerNext]_serverVars => CloseInv'
<1>. SUFFICES ASSUME CloseInv, [ServerNext]_serverVars PROVE CloseInv'
  OBVIOUS
<1>. USE DEF CloseInv, CloseTypes, ListenerFirst, DrainedNext, ChannelLast
<1>1. ASSUME NEW h \in Handlers, Receive(h) \/ Audit(h) \/ Answer(h) \/ AuditPanics(h)
      PROVE  CloseInv'
  BY <1>1, HandlerKeeps
<1>2. ASSUME NEW h \in Handlers, NEW c \in APIClosers, HandleShutdown(h, c)
      PROVE  CloseInv'
  <2>1. c \in Closers
    BY DEF Closers
  <2>. QED
    BY <1>2, <2>1 DEF HandleShutdown, auditVars
<1>3. ASSUME NEW c \in Closers, CloseStep(c) PROVE CloseInv'
  BY <1>3, CloserKeeps
<1>4. CASE Signal \/ TakeSignal \/ ServerClosed
  <2>1. Main \in Closers
    BY DEF Closers
  <2>. QED
    BY <1>4, <2>1 DEF Signal, TakeSignal, ServerClosed, auditVars
<1>5. CASE AuditStep
  <2>1. ASSUME NEW f \in Flushers, FlushSend(f) \/ FlushNoWorker(f)
        PROVE  UNCHANGED chClosed
    BY <2>1 DEF FlushSend, FlushNoWorker
  <2>2. UNCHANGED chClosed
    <3>1. CASE AuditWorker
      BY <3>1 DEF AuditWorker, WorkerPrepares, WorkerTakes, WorkerInserts, WorkerEnds
    <3>. QED
      BY <1>5, <2>1, <3>1 DEF AuditStep
  <2>3. UNCHANGED <<closer, handler, listening, timedOut>>
    BY <1>5 DEF AuditStep, lifecycleVars
  <2>. QED
    BY <2>2, <2>3
<1>6. CASE UNCHANGED serverVars
  BY <1>6 DEF serverVars, auditVars, lifecycleVars
<1>7. ASSUME NEW f \in Flushers, FlusherPanics(f) PROVE CloseInv'
  BY <1>7 DEF FlusherPanics, FlushPanics
<1>. QED
  BY <1>1, <1>2, <1>3, <1>4, <1>5, <1>6, <1>7 DEF ServerNext

\* No handler is at work when the audit channel is closed, unless httpServer's
\* Shutdown gave up waiting: LogAudit panics in no other request.
THEOREM ClosedWhenDrainedCorrect == ServerSpec => []ClosedWhenDrained
<1>1. CloseInv => ClosedWhenDrained
  BY DEF CloseInv, CloseTypes, ChannelLast, DrainedNext, ClosedWhenDrained
<1>. QED
  BY CloseInit, CloseNext, <1>1, PTL DEF ServerSpec

-----------------------------------------------------------------------------
(* The audit log.                                                          *)

\* The entries of s stand in the order of acceptance.
Ordered(s) ==
  \A i, j \in DOMAIN s : i < j /\ s[i] \in Entry /\ s[j] \in Entry => s[i].of < s[j].of

LEMMA OrderedAppend ==
  ASSUME NEW T, NEW s \in Seq(T), NEW e \in T, Ordered(s),
         e \in Entry => \A i \in DOMAIN s : s[i] \in Entry => s[i].of < e.of
  PROVE  /\ Ordered(Append(s, e))
         /\ Entries(Append(s, e)) = Entries(s) \cup ({e} \cap Entry)
<1> DEFINE n == Len(s)
           t == Append(s, e)
<1>1. /\ n \in Nat /\ DOMAIN s = 1..n /\ DOMAIN t = 1..(n + 1) /\ t[n + 1] = e
      /\ \A i \in 1..n : t[i] = s[i]
  OBVIOUS
<1> HIDE DEF n, t
<1>2. Ordered(t)
  <2>. SUFFICES ASSUME NEW i \in 1..(n + 1), NEW j \in 1..(n + 1), i < j,
                       t[i] \in Entry, t[j] \in Entry
                PROVE  t[i].of < t[j].of
    BY <1>1 DEF Ordered
  <2>1. i \in 1..n /\ t[i] = s[i]
    BY <1>1
  <2>2. CASE j = n + 1
    BY <1>1, <2>1, <2>2
  <2>3. CASE j \in 1..n
    BY <1>1, <2>1, <2>3 DEF Ordered
  <2>. QED
    BY <1>1, <2>2, <2>3
<1>3. {t[i] : i \in DOMAIN t} = {s[i] : i \in DOMAIN s} \cup {e}
  <2>1. \A i \in DOMAIN t : i \in DOMAIN s \/ i = n + 1
    BY <1>1
  <2>2. n + 1 \in DOMAIN t /\ DOMAIN s \subseteq DOMAIN t
    BY <1>1
  <2>. QED
    BY <1>1, <2>1, <2>2
<1>. QED
  BY <1>2, <1>3 DEF Entries, t

\* One message leaves the sequence, those behind it move up.
LEMMA OrderedWithout ==
  ASSUME NEW T, NEW a \in Seq(T), NEW e \in T, NEW b \in Seq(T), Ordered(a \o <<e>> \o b)
  PROVE  /\ Ordered(a \o b)
         /\ Entries(a \o b) = Entries(a \o <<e>> \o b) \ ({e} \cap Entry)
<1> DEFINE s == a \o <<e>> \o b
           t == a \o b
           k == Len(a)
           n == Len(a) + Len(b)
           up(i) == IF i <= k THEN i ELSE i + 1
<1>1. /\ k \in Nat /\ n \in Nat /\ k <= n
      /\ DOMAIN t = 1..n /\ DOMAIN s = 1..(n + 1) /\ s[k + 1] = e
      /\ \A i \in 1..n : t[i] = s[up(i)]
  OBVIOUS
<1>2. Ordered(s)
  OBVIOUS
<1> HIDE DEF s, t, k, n
<1>3. /\ \A i \in 1..n : up(i) \in 1..(n + 1) /\ up(i) # k + 1
      /\ \A i, j \in 1..n : i < j => up(i) < up(j)
  BY <1>1
<1>4. \A j \in 1..(n + 1) : j = k + 1 \/ \E i \in 1..n : up(i) = j
  <2>. SUFFICES ASSUME NEW j \in 1..(n + 1), j # k + 1 PROVE \E i \in 1..n : up(i) = j
    OBVIOUS
  <2>1. CASE j <= k
    <3>1. j \in 1..n /\ up(j) = j
      BY <1>1, <2>1
    <3>. QED
      BY <3>1
  <2>2. CASE ~(j <= k)
    <3>1. j - 1 \in 1..n /\ up(j - 1) = j
      BY <1>1, <2>2
    <3>. QED
      BY <3>1
  <2>. QED
    BY <2>1, <2>2
<1> HIDE DEF up
<1>5. Ordered(t)
  BY <1>1, <1>2, <1>3 DEF Ordered
<1>6. Entries(t) \subseteq Entries(s)
  BY <1>1, <1>3 DEF Entries
<1>7. ASSUME e \in Entry PROVE e \notin Entries(t)
  <2>. SUFFICES ASSUME NEW i \in 1..n, t[i] = e PROVE FALSE
    BY <1>1 DEF Entries
  <2>1. up(i) \in 1..(n + 1) /\ k + 1 \in 1..(n + 1) /\ s[up(i)] = e /\ s[k + 1] = e
    BY <1>1, <1>3
  <2>2. up(i) < k + 1 \/ k + 1 < up(i)
    BY <1>1, <1>3
  <2>3. e.of < e.of /\ e.of \in Nat
    BY <1>1, <1>2, <1>7, <2>1, <2>2 DEF Ordered, Entry
  <2>. QED
    BY <2>3
<1>8. ASSUME NEW x \in Entries(s), x # e PROVE x \in Entries(t)
  <2>1. PICK j \in 1..(n + 1) : x = s[j] /\ x \in Entry
    BY <1>1, <1>8 DEF Entries
  <2>2. PICK i \in 1..n : up(i) = j
    BY <1>1, <1>4, <1>8, <2>1
  <2>. QED
    BY <1>1, <2>1, <2>2 DEF Entries
<1>9. Entries(t) = Entries(s) \ ({e} \cap Entry)
  <2>1. Entries(s) \subseteq Entry /\ Entries(t) \subseteq Entry
    BY DEF Entries
  <2>. QED
    BY <1>6, <1>7, <1>8, <2>1
<1>. QED
  BY <1>5, <1>9 DEF s, t

\* Entries are numbered as they are accepted.
Numbered == \A n \in DOMAIN accepted : accepted[n] = [kind |-> "entry", of |-> n]

WorkerHolds ==
  /\ refused \subseteq Entries(accepted)
  /\ worker = "insert" <=> held # NothingHeld
  /\ worker = "done" => chClosed /\ auditCh = <<>>

\* Where a flusher stands in the channel, all behind it was accepted after its mark.
FlushBehind ==
  \A i \in DOMAIN auditCh : ~IsEntry(auditCh[i]) =>
    /\ flush[auditCh[i].of] # "idle" /\ mark[auditCh[i].of] <= Len(accepted)
    /\ \A j \in DOMAIN auditCh :
         i < j /\ IsEntry(auditCh[j]) => mark[auditCh[i].of] < auditCh[j].of

LogInv == AuditTypeOK /\ Numbered /\ WorkerHolds /\ NothingLost
MarksInv == \A f \in Flushers : mark[f] <= Len(accepted)
FlushInv == FlushBehind /\ MarksInv /\ FlushIsDone

LEMMA EntryOrFlusher ==
  ASSUME NEW m \in Entry \cup Flusher
  PROVE  /\ IsEntry(m) <=> m \in Entry
         /\ ~IsEntry(m) => m.of \in Flushers
         /\ IsEntry(m) => m.of \in Nat
BY DEF Entry, Flusher, IsEntry

LEMMA OneElement ==
  ASSUME NEW S, NEW s \in Seq(S), Len(s) <= 1, s # <<>>
  PROVE  s = <<s[1]>> /\ s[1] \in S
<1> DEFINE n == Len(s)
<1>1. n \in Nat /\ n # 0 /\ n <= 1
  OBVIOUS
<1> HIDE DEF n
<1>2. n = 1
  BY <1>1
<1>. QED
  BY <1>2 DEF n

LEMMA LogAuditKeeps ==
  ASSUME LogInv, LogAudit
  PROVE  LogInv'
<1>. USE DEF LogInv
<1>1. CASE UNCHANGED <<auditCh, accepted>>
  BY <1>1 DEF LogAudit, AuditTypeOK, Numbered, WorkerHolds, NothingLost, Way
<1>2. CASE auditCh' = Append(auditCh, NextEntry) /\ accepted' = Append(accepted, NextEntry)
  <2> DEFINE M == Entry \cup Flusher
  <2>1. /\ rows \in Seq(M) /\ held \in Seq(M) /\ auditCh \in Seq(M) /\ accepted \in Seq(Entry)
        /\ NextEntry \in Entry /\ NextEntry.of = Len(accepted) + 1 /\ Len(accepted) \in Nat
        /\ DOMAIN accepted = 1..Len(accepted)
        /\ UNCHANGED <<chClosed, worker, held, rows, flush, refused, mark>> /\ ~chClosed
    <3>1. /\ rows \in Seq(Entry) /\ held \in Seq(Entry) /\ auditCh \in Seq(M)
          /\ accepted \in Seq(Entry)
      BY DEF AuditTypeOK
    <3>2. NextEntry \in Entry /\ NextEntry.of = Len(accepted) + 1
      BY <3>1 DEF NextEntry, Entry
    <3>. QED
      BY <1>2, <3>1, <3>2 DEF LogAudit
  <2>2. Way \in Seq(M) /\ Way' = Append(Way, NextEntry)
    <3> HIDE DEF M
    <3>. QED
      BY <1>2, <2>1 DEF Way, M
  <2>3. Entries(Way) = Entries(accepted) \ refused /\ Ordered(Way)
    BY DEF NothingLost, Ordered
  <2>4. \A i \in DOMAIN Way : Way[i] \in Entry => Way[i].of < NextEntry.of
    <3>. SUFFICES ASSUME NEW i \in DOMAIN Way, Way[i] \in Entry
                  PROVE  Way[i].of < NextEntry.of
      OBVIOUS
    <3>1. Way[i] \in Entries(accepted)
      BY <2>3 DEF Entries
    <3>2. PICK n \in 1..Len(accepted) : Way[i] = accepted[n]
      BY <2>1, <3>1 DEF Entries
    <3>3. Way[i].of = n
      BY <2>1, <3>2 DEF Numbered
    <3>. QED
      BY <2>1, <3>3
  <2>5. /\ Ordered(Way') /\ Entries(Way') = Entries(Way) \cup {NextEntry}
    <3>1. {NextEntry} \cap Entry = {NextEntry} /\ NextEntry \in M
      BY <2>1
    <3> HIDE DEF M
    <3>. QED
      BY <2>2, <2>3, <2>4, <3>1, OrderedAppend
  <2>6. Entries(accepted') = Entries(accepted) \cup {NextEntry}
    <3>1. Ordered(accepted) /\ \A i \in DOMAIN accepted : accepted[i].of < NextEntry.of
      BY <2>1 DEF Numbered, Ordered
    <3>2. {NextEntry} \cap Entry = {NextEntry} /\ NextEntry \in Entry /\ accepted \in Seq(Entry)
      BY <2>1
    <3>3. Entries(Append(accepted, NextEntry)) = Entries(accepted) \cup ({NextEntry} \cap Entry)
      BY <3>1, <3>2, OrderedAppend
    <3>. QED
      BY <1>2, <3>2, <3>3
  <2>7. NextEntry \notin refused
    <3>1. \A n \in 1..Len(accepted) : accepted[n].of = n
      <4>1. DOMAIN accepted = 1..Len(accepted)
        BY <2>1
      <4>2. \A n \in DOMAIN accepted : accepted[n].of = n
        BY DEF Numbered
      <4>. QED
        BY <4>1, <4>2
    <3>2. NextEntry \notin Entries(accepted)
      BY <2>1, <3>1 DEF Entries
    <3>. QED
      BY <3>2 DEF WorkerHolds
  <2>8. NothingLost'
    BY <2>1, <2>3, <2>5, <2>6, <2>7 DEF NothingLost, Ordered
  <2>9. Numbered'
    <3>1. /\ DOMAIN accepted' = 1..(Len(accepted) + 1) /\ accepted'[Len(accepted) + 1] = NextEntry
          /\ \A n \in 1..Len(accepted) : accepted'[n] = accepted[n]
      BY <1>2, <2>1
    <3>. QED
      BY <2>1, <3>1 DEF Numbered, NextEntry
  <2>10. AuditTypeOK' /\ WorkerHolds'
    BY <1>2, <2>1, <2>6 DEF AuditTypeOK, WorkerHolds
  <2>. QED
    BY <2>8, <2>9, <2>10
<1>. QED
  BY <1>1, <1>2 DEF LogAudit

LEMMA FlushSendKeeps ==
  ASSUME LogInv, NEW f \in Flushers, FlushSend(f)
  PROVE  LogInv'
<1>. USE DEF LogInv
<1> DEFINE M == Entry \cup Flusher
           m == [kind |-> "flusher", of |-> f]
<1>1. /\ rows \in Seq(M) /\ held \in Seq(M) /\ auditCh \in Seq(M)
      /\ m \in Flusher /\ m \notin Entry /\ Len(accepted) \in Nat
      /\ auditCh' = Append(auditCh, m) /\ ~chClosed
      /\ UNCHANGED <<chClosed, worker, held, rows, accepted, refused>>
  <2>1. /\ rows \in Seq(Entry) /\ held \in Seq(Entry) /\ auditCh \in Seq(M)
        /\ accepted \in Seq(Entry)
    BY DEF AuditTypeOK
  <2>2. m \in Flusher /\ m \notin Entry
    BY DEF Entry, Flusher
  <2>. QED
    BY <2>1, <2>2 DEF FlushSend
<1>2. Way \in Seq(M) /\ Way' = Append(Way, m)
  <2> HIDE DEF M, m
  <2>. QED
    BY <1>1 DEF Way
<1>3. Ordered(Way') /\ Entries(Way') = Entries(Way)
  <2>1. {m} \cap Entry = {} /\ m \in M /\ Ordered(Way)
    BY <1>1 DEF NothingLost, Ordered
  <2> HIDE DEF m, M
  <2>2. /\ Ordered(Append(Way, m))
        /\ Entries(Append(Way, m)) = Entries(Way) \cup ({m} \cap Entry)
    BY <1>1, <1>2, <2>1, OrderedAppend
  <2>. QED
    BY <1>2, <2>1, <2>2
<1>4. NothingLost' /\ Numbered' /\ WorkerHolds'
  BY <1>1, <1>3 DEF NothingLost, Ordered, Numbered, WorkerHolds
<1>5. AuditTypeOK'
  BY <1>1 DEF FlushSend, AuditTypeOK
<1>. QED
  BY <1>4, <1>5

LEMMA WorkerKeeps ==
  ASSUME LogInv, AuditWorker
  PROVE  LogInv'
<1>. USE DEF LogInv
<1> DEFINE M == Entry \cup Flusher
<1>0. /\ rows \in Seq(M) /\ held \in Seq(M) /\ auditCh \in Seq(M)
      /\ rows \in Seq(Entry) /\ held \in Seq(Entry) /\ Len(held) <= 1
      /\ Entries(Way) = Entries(accepted) \ refused /\ Ordered(Way)
  BY DEF AuditTypeOK, NothingLost, Ordered
<1>1. CASE WorkerPrepares \/ WorkerEnds
  <2>1. /\ UNCHANGED <<auditCh, held, rows, accepted, refused, flush, mark, chClosed>>
        /\ worker # "insert" /\ worker' # "insert"
        /\ worker' \in {"prepare", "range", "insert", "done", "gaveUp"}
        /\ worker' = "done" => chClosed /\ auditCh = <<>>
    BY <1>1 DEF WorkerPrepares, WorkerEnds
  <2>. QED
    BY <2>1 DEF AuditTypeOK, Numbered, WorkerHolds, NothingLost, Way
<1>2. CASE WorkerTakes
  <2> DEFINE m == Head(auditCh)
             b == Tail(auditCh)
  <2>1. /\ auditCh = <<m>> \o b /\ m \in M /\ b \in Seq(M)
        /\ held = <<>> /\ auditCh' = b /\ UNCHANGED <<chClosed, rows, accepted, refused, mark>>
        /\ worker = "range"
    BY <1>0, <1>2 DEF WorkerTakes, WorkerHolds, NothingHeld
  <2> HIDE DEF m, b, M
  <2>2. Way = rows \o <<m>> \o b
    BY <1>0, <2>1 DEF Way
  <2>3. CASE IsEntry(m) /\ held' = <<m>> /\ worker' = "insert" /\ UNCHANGED flush
    <3>1. Way' = Way
      BY <2>1, <2>2, <2>3 DEF Way
    <3>2. m \in Entry
      BY <2>1, <2>3, EntryOrFlusher DEF M
    <3>3. AuditTypeOK'
      BY <2>1, <2>3, <3>2 DEF AuditTypeOK, M
    <3>. QED
      BY <2>1, <2>3, <3>1, <3>3 DEF Numbered, WorkerHolds, NothingLost, NothingHeld
  <2>4. CASE ~IsEntry(m) /\ flush' = [flush EXCEPT ![m.of] = "returned"] /\ UNCHANGED <<held, worker>>
    <3>1. Way' = rows \o b
      BY <1>0, <2>1, <2>4 DEF Way
    <3>2. m \notin Entry
      BY <2>1, <2>4, EntryOrFlusher DEF M
    <3>3. Ordered(Way') /\ Entries(Way') = Entries(Way)
      BY <1>0, <2>1, <2>2, <3>1, <3>2, OrderedWithout
    <3>4. AuditTypeOK'
      BY <2>1, <2>4 DEF AuditTypeOK, M
    <3>. QED
      BY <1>0, <2>1, <2>4, <3>3, <3>4 DEF Numbered, WorkerHolds, NothingLost, Ordered
  <2>. QED
    BY <1>2, <2>3, <2>4 DEF WorkerTakes, m
<1>3. CASE WorkerInserts
  <2> DEFINE e == held[1]
  <2>1. /\ held = <<e>> /\ e \in Entry /\ held' = <<>> /\ worker = "insert" /\ worker' = "range"
        /\ UNCHANGED <<auditCh, chClosed, flush, accepted, mark>>
    <3>1. held # <<>> /\ held' = <<>> /\ worker = "insert" /\ worker' = "range"
          /\ UNCHANGED <<auditCh, chClosed, flush, accepted, mark>>
      BY <1>3 DEF WorkerInserts, WorkerHolds, NothingHeld
    <3>2. held \in Seq(Entry) /\ Len(held) <= 1 /\ held # <<>>
      BY <1>0, <3>1
    <3>3. held = <<held[1]>> /\ held[1] \in Entry
      BY <3>2, OneElement
    <3>. QED
      BY <3>1, <3>3
  <2> HIDE DEF e, M
  <2>2. Way = rows \o <<e>> \o auditCh
    BY <2>1 DEF Way
  <2>3. CASE rows' = rows \o held /\ UNCHANGED refused
    <3>1. Way' = Way
      BY <1>0, <2>1, <2>2, <2>3 DEF Way
    <3>2. rows' \in Seq(Entry)
      BY <1>0, <2>1, <2>3
    <3>3. AuditTypeOK'
      BY <2>1, <2>3, <3>2 DEF AuditTypeOK
    <3>. QED
      BY <2>1, <2>3, <3>1, <3>3 DEF Numbered, WorkerHolds, NothingLost, NothingHeld
  <2>4. CASE refused' = refused \cup {held[1]} /\ UNCHANGED rows
    <3>1. Way' = rows \o auditCh
      BY <1>0, <2>1, <2>4 DEF Way
    <3>2. e \in M
      BY <2>1 DEF M
    <3>3. Ordered(Way') /\ Entries(Way') = Entries(Way) \ {e}
      BY <1>0, <2>1, <2>2, <3>1, <3>2, OrderedWithout
    <3>4. e \in Entries(Way)
      <4>1. Len(rows) + 1 \in DOMAIN Way /\ Way[Len(rows) + 1] = e
        BY <1>0, <2>2, <3>2
      <4>. QED
        BY <2>1, <4>1 DEF Entries
    <3>5. refused' = refused \cup {e}
      BY <2>4 DEF e
    <3>6. AuditTypeOK'
      BY <2>1, <2>4, <3>5 DEF AuditTypeOK
    <3>7. NothingLost'
      BY <1>0, <2>1, <3>3, <3>5 DEF NothingLost, Ordered
    <3>. QED
      BY <1>0, <2>1, <2>4, <3>4, <3>5, <3>6, <3>7 DEF Numbered, WorkerHolds, NothingHeld
  <2>. QED
    BY <1>3, <2>3, <2>4 DEF WorkerInserts
<1>. QED
  BY <1>1, <1>2, <1>3 DEF AuditWorker

\* What happens to the audit log, whoever does it.
AuditMoves ==
  \/ LogAudit
  \/ CloseChannel
  \/ AuditWorker
  \/ \E f \in Flushers : FlushSend(f) \/ FlushNoWorker(f) \/ FlushPanics(f)
  \/ UNCHANGED auditVars

LEMMA LogKeeps ==
  ASSUME LogInv, AuditMoves
  PROVE  LogInv'
<1>1. CASE CloseChannel \/ UNCHANGED auditVars \/ \E f \in Flushers : FlushNoWorker(f) \/ FlushPanics(f)
  <2>1. /\ UNCHANGED <<auditCh, worker, held, rows, accepted, refused>>
        /\ chClosed' \in BOOLEAN /\ (chClosed => chClosed')
        /\ flush' \in [Flushers -> {"idle", "wait", "returned", "panicked"}] /\ mark' \in [Flushers -> Nat]
    <3>1. /\ flush \in [Flushers -> {"idle", "wait", "returned", "panicked"}] /\ mark \in [Flushers -> Nat]
          /\ Len(accepted) \in Nat /\ chClosed \in BOOLEAN
      BY DEF LogInv, AuditTypeOK
    <3>2. CASE CloseChannel
      BY <3>1, <3>2 DEF CloseChannel
    <3>3. CASE UNCHANGED auditVars
      BY <3>1, <3>3 DEF auditVars
    <3>4. ASSUME NEW f \in Flushers, FlushNoWorker(f) \/ FlushPanics(f)
          PROVE  /\ UNCHANGED <<auditCh, worker, held, rows, accepted, refused, chClosed>>
                 /\ flush' \in [Flushers -> {"idle", "wait", "returned", "panicked"}]
                 /\ mark' \in [Flushers -> Nat]
      BY <3>1, <3>4 DEF FlushNoWorker, FlushPanics
    <3>. QED
      BY <1>1, <3>1, <3>2, <3>3, <3>4
  <2>. QED
    BY <2>1 DEF LogInv, AuditTypeOK, Numbered, WorkerHolds, NothingLost, Way
<1>. QED
  BY <1>1, LogAuditKeeps, FlushSendKeeps, WorkerKeeps DEF AuditMoves

\* Whatever is not on its way any more has been written.
LEMMA AllWritten ==
  ASSUME LogInv, held = <<>>, NEW n \in DOMAIN accepted,
         \A i \in DOMAIN auditCh : auditCh[i] # accepted[n]
  PROVE  Written(n)
<1> DEFINE M == Entry \cup Flusher
<1>1. /\ rows \in Seq(M) /\ auditCh \in Seq(M) /\ accepted \in Seq(Entry)
      /\ Entries(Way) = Entries(accepted) \ refused
  BY DEF LogInv, AuditTypeOK, NothingLost
<1>2. accepted[n] \in Entry /\ accepted[n] \in Entries(accepted)
  BY <1>1 DEF Entries
<1>3. Way = rows \o auditCh
  BY <1>1 DEF Way
<1> HIDE DEF M
<1>4. \A i \in DOMAIN (rows \o auditCh) :
        \/ i \in DOMAIN rows /\ (rows \o auditCh)[i] = rows[i]
        \/ \E j \in DOMAIN auditCh : (rows \o auditCh)[i] = auditCh[j]
  <2>. SUFFICES ASSUME NEW i \in DOMAIN (rows \o auditCh), i \notin DOMAIN rows
                PROVE  \E j \in DOMAIN auditCh : (rows \o auditCh)[i] = auditCh[j]
    BY <1>1
  <2>1. i - Len(rows) \in DOMAIN auditCh /\ (rows \o auditCh)[i] = auditCh[i - Len(rows)]
    BY <1>1
  <2>. QED
    BY <2>1
<1>. SUFFICES ASSUME accepted[n] \notin refused PROVE accepted[n] \in Entries(rows)
  BY DEF Written
<1>5. PICK i \in DOMAIN (rows \o auditCh) : (rows \o auditCh)[i] = accepted[n]
  BY <1>1, <1>2, <1>3 DEF Entries
<1>. QED
  BY <1>2, <1>4, <1>5 DEF Entries

\* What is written stays written.
LEMMA StaysWritten ==
  ASSUME LogInv, AuditMoves
  PROVE  /\ refused \subseteq refused' /\ Entries(rows) \subseteq Entries(rows')
         /\ Len(accepted) <= Len(accepted')
         /\ \A n \in 1..Len(accepted) : accepted'[n] = accepted[n]
         /\ \A n \in 1..Len(accepted) : Written(n) => Written(n)'
<1>1. refused \subseteq refused'
  BY DEF AuditMoves, LogAudit, CloseChannel, AuditWorker, WorkerPrepares, WorkerTakes,
         WorkerInserts, WorkerEnds, FlushSend, FlushNoWorker, FlushPanics, auditVars
<1>2. Entries(rows) \subseteq Entries(rows')
  <2>1. rows' = rows \/ rows' = rows \o held
    BY DEF AuditMoves, LogAudit, CloseChannel, AuditWorker, WorkerPrepares, WorkerTakes,
           WorkerInserts, WorkerEnds, FlushSend, FlushNoWorker, FlushPanics, auditVars
  <2>2. rows \in Seq(Entry) /\ held \in Seq(Entry)
    BY DEF LogInv, AuditTypeOK
  <2>3. ASSUME NEW i \in DOMAIN rows
        PROVE  i \in DOMAIN (rows \o held) /\ (rows \o held)[i] = rows[i]
    BY <2>2
  <2>. QED
    BY <2>1, <2>3 DEF Entries
<1>3. /\ Len(accepted) <= Len(accepted')
      /\ \A n \in 1..Len(accepted) : accepted'[n] = accepted[n]
  <2>1. accepted \in Seq(Entry) /\ NextEntry \in Entry
    BY DEF LogInv, AuditTypeOK, NextEntry, Entry
  <2>2. accepted' = accepted \/ accepted' = Append(accepted, NextEntry)
    BY DEF AuditMoves, LogAudit, CloseChannel, AuditWorker, WorkerPrepares, WorkerTakes,
           WorkerInserts, WorkerEnds, FlushSend, FlushNoWorker, FlushPanics, auditVars
  <2>. QED
    BY <2>1, <2>2
<1>. QED
  BY <1>1, <1>2, <1>3 DEF Written

\* A flush that has returned stays done, as long as no step but its own moves its mark.
LEMMA ReturnedStaysDone ==
  ASSUME LogInv, FlushInv, AuditMoves, worker' # "gaveUp",
         NEW f \in Flushers, flush[f] = "returned", mark'[f] = mark[f]
  PROVE  \A n \in 1..mark'[f] : Written(n)'
<1>1. worker # "gaveUp"
  BY DEF AuditMoves, LogAudit, CloseChannel, AuditWorker, WorkerPrepares, WorkerTakes,
         WorkerInserts, WorkerEnds, FlushSend, FlushNoWorker, FlushPanics, auditVars
<1>2. mark[f] \in Nat /\ Len(accepted) \in Nat /\ mark[f] <= Len(accepted)
  BY DEF LogInv, AuditTypeOK, FlushInv, MarksInv
<1>3. \A n \in 1..mark[f] : Written(n)
  BY <1>1 DEF FlushInv, FlushIsDone
<1>. QED
  BY <1>2, <1>3, StaysWritten

\* An entry that is accepted comes after every mark.
LEMMA LogAuditFlush ==
  ASSUME LogInv, FlushInv, LogAudit
  PROVE  FlushInv'
<1>1. AuditMoves
  BY DEF AuditMoves
<1>2. UNCHANGED <<flush, mark, worker>>
  BY DEF LogAudit
<1>3. Len(accepted) \in Nat /\ Len(accepted') \in Nat /\ Len(accepted) <= Len(accepted')
      /\ \A f \in Flushers : mark[f] \in Nat /\ mark[f] <= Len(accepted)
  <2>1. LogInv'
    BY LogAuditKeeps
  <2>. QED
    BY <1>1, <2>1, StaysWritten DEF LogInv, AuditTypeOK, FlushInv, MarksInv
<1>4. MarksInv'
  BY <1>2, <1>3 DEF MarksInv
<1>5. FlushIsDone'
  BY <1>1, <1>2, ReturnedStaysDone DEF FlushIsDone
<1>6. FlushBehind'
  <2>1. CASE auditCh' = auditCh
    BY <1>2, <1>3, <2>1, EntryOrFlusher DEF FlushInv, FlushBehind, LogInv, AuditTypeOK
  <2>2. CASE auditCh' = Append(auditCh, NextEntry)
    <3> DEFINE l == Len(auditCh)
    <3>1. /\ l \in Nat /\ DOMAIN auditCh = 1..l /\ DOMAIN auditCh' = 1..(l + 1)
          /\ auditCh'[l + 1] = NextEntry
          /\ \A i \in 1..l : auditCh'[i] = auditCh[i] /\ auditCh[i] \in Entry \cup Flusher
      <4>1. auditCh \in Seq(Entry \cup Flusher)
        BY DEF LogInv, AuditTypeOK
      <4>. QED
        BY <2>2, <4>1
    <3> HIDE DEF l
    <3>2. IsEntry(NextEntry) /\ NextEntry.of = Len(accepted) + 1
      BY DEF NextEntry, IsEntry
    <3>. SUFFICES ASSUME NEW i \in 1..(l + 1), ~IsEntry(auditCh'[i])
                  PROVE  /\ flush[auditCh'[i].of] # "idle" /\ mark[auditCh'[i].of] <= Len(accepted')
                         /\ \A j \in 1..(l + 1) : i < j /\ IsEntry(auditCh'[j])
                              => mark[auditCh'[i].of] < auditCh'[j].of
      BY <1>2, <3>1 DEF FlushBehind, IsEntry
    <3>3. i \in 1..l
      BY <3>1, <3>2
    <3>4. auditCh'[i] = auditCh[i] /\ ~IsEntry(auditCh[i]) /\ auditCh[i].of \in Flushers
      BY <3>1, <3>3, EntryOrFlusher
    <3>5. /\ flush[auditCh[i].of] # "idle" /\ mark[auditCh[i].of] <= Len(accepted)
          /\ \A j \in 1..l : i < j /\ IsEntry(auditCh[j]) => mark[auditCh[i].of] < auditCh[j].of
      BY <3>1, <3>3, <3>4 DEF FlushInv, FlushBehind
    <3>6. ASSUME NEW j \in 1..(l + 1), i < j, IsEntry(auditCh'[j])
          PROVE  mark[auditCh[i].of] < auditCh'[j].of
      <4>1. CASE j = l + 1
        BY <1>3, <3>1, <3>2, <3>4, <4>1
      <4>2. CASE j # l + 1
        <5>1. j \in 1..l /\ auditCh'[j] = auditCh[j]
          BY <3>1, <4>2
        <5>. QED
          BY <3>5, <3>6, <5>1
      <4>. QED
        BY <4>1, <4>2
    <3>. QED
      BY <1>3, <3>4, <3>5, <3>6
  <2>. QED
    BY <2>1, <2>2 DEF LogAudit
<1>. QED
  BY <1>4, <1>5, <1>6 DEF FlushInv

\* A flusher goes behind all that was accepted.
LEMMA FlushSendFlush ==
  ASSUME LogInv, FlushInv, NEW f \in Flushers, FlushSend(f)
  PROVE  FlushInv'
<1> DEFINE m == [kind |-> "flusher", of |-> f]
           l == Len(auditCh)
<1>1. /\ l \in Nat /\ DOMAIN auditCh = 1..l /\ DOMAIN auditCh' = 1..(l + 1)
      /\ auditCh'[l + 1] = m
      /\ \A i \in 1..l : auditCh'[i] = auditCh[i] /\ auditCh[i] \in Entry \cup Flusher
  <2>1. auditCh \in Seq(Entry \cup Flusher) /\ auditCh' = Append(auditCh, m)
    BY DEF LogInv, AuditTypeOK, FlushSend
  <2>2. m \in Flusher
    BY DEF Flusher
  <2> HIDE DEF m
  <2>. QED
    BY <2>1, <2>2
<1>2. /\ flush[f] = "idle" /\ UNCHANGED <<worker, accepted>> /\ Len(accepted) \in Nat
      /\ \A g \in Flushers : mark[g] \in Nat /\ mark[g] <= Len(accepted)
      /\ flush' = [flush EXCEPT ![f] = "wait"] /\ mark' = [mark EXCEPT ![f] = Len(accepted)]
      /\ flush \in [Flushers -> {"idle", "wait", "returned", "panicked"}] /\ mark \in [Flushers -> Nat]
  BY DEF LogInv, AuditTypeOK, FlushInv, MarksInv, FlushSend
<1>3. m.of = f /\ ~IsEntry(m)
  BY DEF IsEntry
<1> HIDE DEF m, l
<1>4. /\ flush'[f] = "wait" /\ mark'[f] = Len(accepted)
      /\ \A g \in Flushers : g # f => flush'[g] = flush[g] /\ mark'[g] = mark[g]
  BY <1>2
<1>5. MarksInv'
  BY <1>2, <1>4 DEF MarksInv
<1>6. FlushIsDone'
  <2>1. AuditMoves
    BY DEF AuditMoves
  <2>. SUFFICES ASSUME NEW g \in Flushers, flush'[g] = "returned", worker' # "gaveUp"
                PROVE  \A n \in 1..mark'[g] : Written(n)'
    BY DEF FlushIsDone
  <2>2. g # f /\ flush[g] = "returned" /\ mark'[g] = mark[g]
    BY <1>4
  <2>. QED
    BY <2>1, <2>2, ReturnedStaysDone
<1>7. FlushBehind'
  <2>. SUFFICES ASSUME NEW i \in 1..(l + 1), ~IsEntry(auditCh'[i])
                PROVE  /\ flush'[auditCh'[i].of] # "idle" /\ mark'[auditCh'[i].of] <= Len(accepted')
                       /\ \A j \in 1..(l + 1) : i < j /\ IsEntry(auditCh'[j])
                            => mark'[auditCh'[i].of] < auditCh'[j].of
    BY <1>1 DEF FlushBehind, IsEntry
  <2>1. CASE i = l + 1
    BY <1>1, <1>2, <1>3, <1>4, <2>1
  <2>2. CASE i # l + 1
    <3>1. i \in 1..l
      BY <1>1, <2>2
    <3>2. auditCh'[i] = auditCh[i] /\ ~IsEntry(auditCh[i]) /\ auditCh[i].of \in Flushers
      BY <1>1, <3>1, EntryOrFlusher
    <3>3. /\ flush[auditCh[i].of] # "idle" /\ mark[auditCh[i].of] <= Len(accepted)
          /\ \A j \in 1..l : i < j /\ IsEntry(auditCh[j]) => mark[auditCh[i].of] < auditCh[j].of
      BY <1>1, <3>1, <3>2 DEF FlushInv, FlushBehind
    <3>4. auditCh[i].of # f
      BY <1>2, <3>3
    <3>5. flush'[auditCh[i].of] = flush[auditCh[i].of] /\ mark'[auditCh[i].of] = mark[auditCh[i].of]
      BY <1>4, <3>2, <3>4
    <3>6. \A j \in 1..(l + 1) : IsEntry(auditCh'[j]) => j \in 1..l /\ auditCh'[j] = auditCh[j]
      BY <1>1, <1>3
    <3>. QED
      BY <1>2, <3>2, <3>3, <3>5, <3>6
  <2>. QED
    BY <2>1, <2>2
<1>. QED
  BY <1>5, <1>6, <1>7 DEF FlushInv

\* One that finds the worker at its end is not sent: the worker gave up, and stays so,
\* or it has written everything that was accepted.
LEMMA FlushNoWorkerFlush ==
  ASSUME LogInv, FlushInv, NEW f \in Flushers, FlushNoWorker(f)
  PROVE  FlushInv'
<1>1. /\ worker' = worker
      /\ worker = "gaveUp" \/ (auditCh = <<>> /\ held = <<>>)
  BY DEF FlushNoWorker, AuditDone, LogInv, WorkerHolds, NothingHeld
<1>2. /\ flush[f] = "idle" /\ UNCHANGED <<auditCh, accepted>> /\ Len(accepted) \in Nat
      /\ \A g \in Flushers : mark[g] \in Nat /\ mark[g] <= Len(accepted)
      /\ flush' = [flush EXCEPT ![f] = "returned"] /\ mark' = [mark EXCEPT ![f] = Len(accepted)]
      /\ flush \in [Flushers -> {"idle", "wait", "returned", "panicked"}] /\ mark \in [Flushers -> Nat]
      /\ \A i \in DOMAIN auditCh : auditCh[i] \in Entry \cup Flusher
  BY DEF LogInv, AuditTypeOK, FlushInv, MarksInv, FlushNoWorker
<1>3. /\ mark'[f] = Len(accepted)
      /\ \A g \in Flushers : g # f => flush'[g] = flush[g] /\ mark'[g] = mark[g]
  BY <1>2
<1>4. MarksInv'
  BY <1>2, <1>3 DEF MarksInv
<1>5. FlushIsDone'
  <2>. SUFFICES ASSUME NEW g \in Flushers, flush'[g] = "returned", worker' # "gaveUp"
                PROVE  \A n \in 1..mark'[g] : Written(n)'
    BY DEF FlushIsDone
  <2>1. CASE g = f
    <3>1. DOMAIN accepted = 1..Len(accepted) /\ DOMAIN auditCh = {}
      BY <1>1 DEF LogInv, AuditTypeOK
    <3>2. \A n \in 1..Len(accepted) : Written(n)
      BY <1>1, <3>1, AllWritten
    <3>3. AuditMoves
      BY DEF AuditMoves
    <3>. QED
      BY <1>3, <2>1, <3>2, <3>3, StaysWritten
  <2>2. CASE g # f
    BY <1>3, <2>2, ReturnedStaysDone DEF AuditMoves
  <2>. QED
    BY <2>1, <2>2
<1>6. FlushBehind'
  <2>. SUFFICES ASSUME NEW i \in DOMAIN auditCh, ~IsEntry(auditCh[i])
                PROVE  /\ flush'[auditCh[i].of] # "idle" /\ mark'[auditCh[i].of] <= Len(accepted)
                       /\ \A j \in DOMAIN auditCh : i < j /\ IsEntry(auditCh[j])
                            => mark'[auditCh[i].of] < auditCh[j].of
    BY <1>2 DEF FlushBehind, IsEntry
  <2>1. /\ flush[auditCh[i].of] # "idle" /\ mark[auditCh[i].of] <= Len(accepted)
        /\ \A j \in DOMAIN auditCh : i < j /\ IsEntry(auditCh[j])
                            => mark[auditCh[i].of] < auditCh[j].of
    BY DEF FlushInv, FlushBehind
  <2>2. auditCh[i].of \in Flushers /\ auditCh[i].of # f
    BY <1>2, <2>1, EntryOrFlusher
  <2>. QED
    BY <1>3, <2>1, <2>2
<1>. QED
  BY <1>4, <1>5, <1>6 DEF FlushInv

\* One that panics was not sent either.
LEMMA FlushPanicsFlush ==
  ASSUME LogInv, FlushInv, NEW f \in Flushers, FlushPanics(f)
  PROVE  FlushInv'
<1>1. /\ flush[f] = "idle" /\ UNCHANGED <<auditCh, accepted, mark, worker>>
      /\ flush' = [flush EXCEPT ![f] = "panicked"]
      /\ flush \in [Flushers -> {"idle", "wait", "returned", "panicked"}]
      /\ \A i \in DOMAIN auditCh : auditCh[i] \in Entry \cup Flusher
  BY DEF LogInv, AuditTypeOK, FlushPanics
<1>2. flush'[f] = "panicked" /\ \A g \in Flushers : g # f => flush'[g] = flush[g]
  BY <1>1
<1>3. MarksInv'
  BY <1>1 DEF FlushInv, MarksInv
<1>4. FlushIsDone'
  <2>. SUFFICES ASSUME NEW g \in Flushers, flush'[g] = "returned", worker' # "gaveUp"
                PROVE  \A n \in 1..mark'[g] : Written(n)'
    BY DEF FlushIsDone
  <2>1. flush[g] = "returned" /\ mark'[g] = mark[g] /\ AuditMoves
    BY <1>1, <1>2 DEF AuditMoves
  <2>. QED
    BY <2>1, ReturnedStaysDone
<1>5. FlushBehind'
  <2>. SUFFICES ASSUME NEW i \in DOMAIN auditCh, ~IsEntry(auditCh[i])
                PROVE  /\ flush'[auditCh[i].of] # "idle" /\ mark[auditCh[i].of] <= Len(accepted)
                       /\ \A j \in DOMAIN auditCh : i < j /\ IsEntry(auditCh[j])
                            => mark[auditCh[i].of] < auditCh[j].of
    BY <1>1 DEF FlushBehind, IsEntry
  <2>1. /\ flush[auditCh[i].of] # "idle" /\ mark[auditCh[i].of] <= Len(accepted)
        /\ \A j \in DOMAIN auditCh : i < j /\ IsEntry(auditCh[j])
                            => mark[auditCh[i].of] < auditCh[j].of
    BY DEF FlushInv, FlushBehind
  <2>2. auditCh[i].of \in Flushers /\ auditCh[i].of # f
    BY <1>1, <2>1, EntryOrFlusher
  <2>. QED
    BY <1>2, <2>1, <2>2
<1>. QED
  BY <1>3, <1>4, <1>5 DEF FlushInv

\* The worker takes what has waited longest: what a flusher leaves behind in the
\* channel was accepted after its mark.
LEMMA TakeFlush ==
  ASSUME LogInv, FlushInv, WorkerTakes
  PROVE  FlushInv'
<1> DEFINE m == auditCh[1]
           l == Len(auditCh)
<1>1. /\ l \in Nat /\ l > 0 /\ DOMAIN auditCh = 1..l /\ DOMAIN auditCh' = 1..(l - 1)
      /\ \A i \in 1..(l - 1) : auditCh'[i] = auditCh[i + 1]
      /\ \A i \in 1..l : auditCh[i] \in Entry \cup Flusher
      /\ Head(auditCh) = m
  <2>1. auditCh \in Seq(Entry \cup Flusher) /\ auditCh # <<>> /\ auditCh' = Tail(auditCh)
    BY DEF LogInv, AuditTypeOK, WorkerTakes
  <2>. QED
    BY <2>1
<1> HIDE DEF m, l
<1>2. /\ UNCHANGED <<accepted, mark, rows, refused>> /\ held = <<>> /\ worker = "range"
      /\ Len(accepted) \in Nat /\ DOMAIN accepted = 1..Len(accepted)
      /\ \A g \in Flushers : mark[g] \in Nat /\ mark[g] <= Len(accepted)
      /\ flush \in [Flushers -> {"idle", "wait", "returned", "panicked"}]
  BY DEF LogInv, AuditTypeOK, FlushInv, MarksInv, WorkerTakes, WorkerHolds, NothingHeld
<1>3. \/ flush' = flush
      \/ ~IsEntry(m) /\ flush' = [flush EXCEPT ![m.of] = "returned"]
  BY <1>1 DEF WorkerTakes
<1>4. \A g \in Flushers : flush[g] # "idle" => flush'[g] # "idle"
  BY <1>2, <1>3
<1>5. MarksInv'
  BY <1>2 DEF FlushInv, MarksInv
<1>6. FlushBehind'
  <2>. SUFFICES ASSUME NEW i \in 1..(l - 1), ~IsEntry(auditCh'[i])
                PROVE  /\ flush'[auditCh'[i].of] # "idle" /\ mark[auditCh'[i].of] <= Len(accepted)
                       /\ \A j \in 1..(l - 1) : i < j /\ IsEntry(auditCh'[j])
                            => mark[auditCh'[i].of] < auditCh'[j].of
    BY <1>1, <1>2 DEF FlushBehind, IsEntry
  <2> DEFINE k == i + 1
  <2>1. k \in 1..l /\ auditCh'[i] = auditCh[k]
    BY <1>1
  <2>2. /\ \A j \in 1..(l - 1) : j + 1 \in 1..l /\ auditCh'[j] = auditCh[j + 1]
        /\ \A j \in 1..(l - 1) : i < j => k < j + 1
    BY <1>1
  <2> HIDE DEF k
  <2>3. /\ flush[auditCh[k].of] # "idle" /\ mark[auditCh[k].of] <= Len(accepted)
        /\ \A j \in 1..l : k < j /\ IsEntry(auditCh[j]) => mark[auditCh[k].of] < auditCh[j].of
    BY <1>1, <2>1 DEF FlushInv, FlushBehind
  <2>4. auditCh[k].of \in Flushers
    BY <1>1, <2>1, EntryOrFlusher
  <2>. QED
    BY <1>4, <2>1, <2>2, <2>3, <2>4
<1>7. FlushIsDone'
  <2>. SUFFICES ASSUME NEW g \in Flushers, flush'[g] = "returned", worker' # "gaveUp",
                       NEW n \in 1..mark[g]
                PROVE  Written(n)'
    BY <1>2 DEF FlushIsDone
  <2>1. AuditMoves
    BY DEF AuditMoves, AuditWorker
  <2>2. CASE flush[g] = "returned"
    BY <1>2, <2>1, <2>2, ReturnedStaysDone
  <2>3. CASE flush[g] # "returned"
    <3>1. ~IsEntry(m) /\ m.of = g
      BY <1>2, <1>3, <2>3
    <3>2. \A j \in 1..l : 1 < j /\ IsEntry(auditCh[j]) => mark[g] < auditCh[j].of
      <4>1. 1 \in 1..l
        BY <1>1
      <4>. QED
        BY <1>1, <3>1, <4>1 DEF FlushInv, FlushBehind, m
    <3>3. n \in 1..Len(accepted) /\ n <= mark[g] /\ mark[g] \in Nat
      BY <1>2
    <3>4. accepted[n] \in Entry /\ IsEntry(accepted[n]) /\ accepted[n].of = n
      BY <1>2, <3>3 DEF LogInv, Numbered, IsEntry, Entry
    <3>5. ASSUME NEW j \in 1..l, auditCh[j] = accepted[n] PROVE FALSE
      <4>1. CASE j = 1
        BY <3>1, <3>4, <3>5, <4>1 DEF m
      <4>2. CASE j # 1
        <5>1. 1 < j
          BY <4>2
        <5>2. mark[g] < n
          BY <3>2, <3>4, <3>5, <5>1
        <5>. QED
          BY <3>3, <5>2
      <4>. QED
        BY <4>1, <4>2
    <3>6. Written(n)
      BY <1>1, <1>2, <3>3, <3>5, AllWritten
    <3>. QED
      BY <1>2, <3>6 DEF Written
  <2>. QED
    BY <2>2, <2>3
<1>. QED
  BY <1>5, <1>6, <1>7 DEF FlushInv

LEMMA FlushKeeps ==
  ASSUME LogInv, FlushInv, AuditMoves
  PROVE  FlushInv'
<1>1. CASE CloseChannel \/ UNCHANGED auditVars \/ WorkerPrepares \/ WorkerInserts \/ WorkerEnds
  <2>1. UNCHANGED <<auditCh, flush, accepted, mark>>
    BY <1>1 DEF CloseChannel, auditVars, WorkerPrepares, WorkerInserts, WorkerEnds
  <2>2. FlushBehind' /\ MarksInv'
    BY <2>1 DEF FlushInv, FlushBehind, MarksInv
  <2>3. FlushIsDone'
    BY <2>1, ReturnedStaysDone DEF FlushIsDone
  <2>. QED
    BY <2>2, <2>3 DEF FlushInv
<1>. QED
  BY <1>1, LogAuditFlush, FlushSendFlush, FlushNoWorkerFlush, FlushPanicsFlush, TakeFlush DEF AuditMoves, AuditWorker

-----------------------------------------------------------------------------
(* The server around the log.                                              *)

AuditInv == LogInv /\ FlushInv

LEMMA AuditInvInit == AuditInit => AuditInv
<1>. SUFFICES ASSUME AuditInit PROVE AuditInv
  OBVIOUS
<1>1. Way = <<>> /\ accepted = <<>> /\ DOMAIN Way = {} /\ DOMAIN accepted = {} /\ Len(accepted) = 0
  BY DEF AuditInit, Way, NothingHeld
<1>2. AuditTypeOK
  <2>1. <<>> \in Seq(Entry \cup Flusher) /\ <<>> \in Seq(Entry) /\ Len(<<>>) <= 1
    OBVIOUS
  <2>2. /\ flush \in [Flushers -> {"idle", "wait", "returned", "panicked"}] /\ mark \in [Flushers -> Nat]
        /\ refused = {} /\ chClosed = FALSE /\ worker = "prepare"
        /\ auditCh = <<>> /\ held = <<>> /\ rows = <<>>
    BY DEF AuditInit, NothingHeld
  <2>. QED
    BY <1>1, <2>1, <2>2 DEF AuditTypeOK
<1>3. Numbered /\ NothingLost /\ WorkerHolds
  BY <1>1 DEF AuditInit, Numbered, NothingLost, Entries, WorkerHolds, NothingHeld
<1>4. FlushInv
  BY <1>1 DEF AuditInit, FlushInv, FlushBehind, MarksInv, FlushIsDone
<1>. QED
  BY <1>2, <1>3, <1>4 DEF AuditInv, LogInv

\* Handlers and the goroutines that close the server reach the log through
\* LogAudit and CloseChannel only.
LEMMA ServerAuditMoves == [ServerNext]_serverVars => AuditMoves
<1>. SUFFICES ASSUME [ServerNext]_serverVars PROVE AuditMoves
  OBVIOUS
<1>1. ASSUME NEW h \in Handlers,
             \/ Receive(h) \/ Audit(h) \/ Answer(h) \/ AuditPanics(h)
             \/ \E c \in APIClosers : HandleShutdown(h, c)
      PROVE  AuditMoves
  BY <1>1 DEF Receive, Audit, Answer, AuditPanics, HandleShutdown, AuditMoves
<1>2. ASSUME NEW c \in Closers, CloseStep(c) PROVE AuditMoves
  BY <1>2 DEF CloseStep, StopListening, Drain, CloseAudit, AwaitAudit, AuditMoves
<1>3. CASE Signal \/ TakeSignal \/ ServerClosed \/ UNCHANGED serverVars
  BY <1>3 DEF Signal, TakeSignal, ServerClosed, serverVars, AuditMoves
<1>4. CASE AuditStep
  BY <1>4 DEF AuditStep, AuditMoves
<1>5. ASSUME NEW f \in Flushers, FlusherPanics(f) PROVE AuditMoves
  BY <1>5 DEF FlusherPanics, AuditMoves
<1>. QED
  BY <1>1, <1>2, <1>3, <1>4, <1>5 DEF ServerNext

LEMMA AuditInvNext == AuditInv /\ [ServerNext]_serverVars => AuditInv'
BY ServerAuditMoves, LogKeeps, FlushKeeps DEF AuditInv

\* The listener is closed by those who close the server, and they do not go back.
Heard == ~listening => \E c \in Closers : closer[c] # "off"

\* The process ends in the hands of the main goroutine, which waited for the worker
\* or saw that another closes the server; it crashes where one closes a channel
\* that another has closed, or flushes into it.
ProcessInv ==
  /\ process = "exited" => AuditDone \/ \E c \in APIClosers : closer[c] # "off"
  /\ CrashNeedsTwo
  /\ Heard

ExitInv == CloseInv /\ AuditInv /\ ProcessInv

LEMMA ExitInit == ServerInit => ExitInv
BY CloseInit, AuditInvInit
   DEF ServerInit, ExitInv, ProcessInv, CrashNeedsTwo, Heard, Closers

LEMMA ProcessNext == ExitInv /\ [ServerNext]_serverVars => ProcessInv'
<1>. SUFFICES ASSUME ExitInv, [ServerNext]_serverVars PROVE ProcessInv'
  OBVIOUS
<1>0. /\ closer \in [Closers -> {"off", "begin", "drain", "close", "wait", "done"}]
      /\ Main \in Closers /\ APIClosers \subseteq Closers
      /\ \A c \in Closers : c # Main => c \in APIClosers
  BY DEF ExitInv, CloseInv, CloseTypes, ProcessInv, Closers
<1>1. CASE UNCHANGED serverVars
  BY <1>1 DEF serverVars, auditVars, lifecycleVars, ExitInv, ProcessInv, CrashNeedsTwo, Heard, AuditDone
<1>. SUFFICES ASSUME ServerNext, process = "up" PROVE ProcessInv'
  BY <1>1 DEF ServerNext
<1>2. CASE UNCHANGED <<process, listening>>
  <2>1. \A c \in Closers : closer[c] # "off" => closer'[c] # "off"
    <3>1. ASSUME NEW h \in Handlers,
                 \/ Receive(h) \/ Audit(h) \/ Answer(h) \/ AuditPanics(h)
                 \/ \E c \in APIClosers : HandleShutdown(h, c)
          PROVE  \A c \in Closers : closer[c] # "off" => closer'[c] # "off"
      BY <1>0, <3>1 DEF Receive, Audit, Answer, AuditPanics, HandleShutdown
    <3>2. ASSUME NEW c \in Closers, CloseStep(c)
          PROVE  \A d \in Closers : closer[d] # "off" => closer'[d] # "off"
      BY <1>0, <3>2 DEF CloseStep, StopListening, Drain, CloseAudit, AwaitAudit
    <3>3. CASE Signal \/ TakeSignal \/ ServerClosed
      BY <1>0, <3>3 DEF Signal, TakeSignal, ServerClosed
    <3>4. CASE AuditStep
      BY <1>0, <3>4 DEF AuditStep, lifecycleVars
    <3>5. ASSUME NEW f \in Flushers, FlusherPanics(f)
          PROVE  \A c \in Closers : closer[c] # "off" => closer'[c] # "off"
      BY <3>5 DEF FlusherPanics
    <3>. QED
      BY <3>1, <3>2, <3>3, <3>4, <3>5 DEF ServerNext
  <2>. QED
    BY <1>0, <1>2, <2>1 DEF ExitInv, ProcessInv, CrashNeedsTwo, Heard
<1>3. ASSUME NEW c \in Closers, StopListening(c) PROVE ProcessInv'
  <2>1. closer' = [closer EXCEPT ![c] = "drain"] /\ UNCHANGED process
    BY <1>3 DEF StopListening
  <2>. QED
    BY <1>0, <2>1 DEF ProcessInv, CrashNeedsTwo, Heard
<1>4. ASSUME NEW c \in Closers, CloseAudit(c), process' = "crashed" PROVE ProcessInv'
  <2>1. closer[c] = "close" /\ chClosed /\ UNCHANGED <<closer, listening>>
    BY <1>4 DEF CloseAudit, CloseChannelPanics
  <2>2. PICK d \in Closers : closer[d] \in {"wait", "done"}
    BY <2>1 DEF ExitInv, CloseInv, ChannelLast
  <2>3. c # d
    BY <2>1, <2>2
  <2>4. CrashNeedsTwo'
    BY <1>4, <2>1, <2>2, <2>3 DEF CrashNeedsTwo
  <2>. QED
    BY <1>0, <1>4, <2>1, <2>4 DEF ExitInv, ProcessInv, Heard
<1>5. CASE AwaitAudit(Main)
  <2>1. /\ AuditDone /\ process' = "exited" /\ closer' = [closer EXCEPT ![Main] = "done"]
        /\ UNCHANGED <<worker, listening>>
    BY <1>5 DEF AwaitAudit, auditVars
  <2>. QED
    BY <1>0, <2>1 DEF ProcessInv, CrashNeedsTwo, Heard, AuditDone
<1>6. CASE ServerClosed
  <2>1. /\ closer[Main] = "off" /\ ~listening /\ process' = "exited"
        /\ UNCHANGED <<listening, closer>>
    BY <1>6 DEF ServerClosed
  <2>2. PICK c \in Closers : closer[c] # "off"
    BY <2>1 DEF ExitInv, ProcessInv, Heard
  <2>. QED
    BY <1>0, <2>1, <2>2 DEF ProcessInv, CrashNeedsTwo, Heard
<1>7. ASSUME NEW c \in Closers, CloseStep(c)
      PROVE  ProcessInv'
  <2>1. CASE \/ Drain(c)
             \/ CloseAudit(c) /\ process' # "crashed"
             \/ AwaitAudit(c) /\ c # Main
    <3>1. UNCHANGED <<process, listening>>
      BY <2>1 DEF Drain, CloseAudit, AwaitAudit
    <3>. QED
      BY <1>2, <3>1
  <2>. QED
    BY <1>3, <1>4, <1>5, <1>7, <2>1 DEF CloseStep
<1>8. ASSUME NEW h \in Handlers,
             \/ Receive(h) \/ Audit(h) \/ Answer(h) \/ AuditPanics(h)
             \/ \E c \in APIClosers : HandleShutdown(h, c)
      PROVE  ProcessInv'
  <2>1. UNCHANGED <<process>>
    BY <1>8 DEF Receive, Audit, Answer, AuditPanics, HandleShutdown
  <2>2. UNCHANGED <<listening>>
    BY <1>8 DEF Receive, Audit, Answer, AuditPanics, HandleShutdown
  <2>. QED
    BY <1>2, <2>1, <2>2
<1>9. CASE Signal \/ TakeSignal \/ AuditStep
  <2>1. UNCHANGED <<process, listening>>
    BY <1>9 DEF Signal, TakeSignal, AuditStep, lifecycleVars
  <2>. QED
    BY <1>2, <2>1
<1>10. ASSUME NEW f \in Flushers, FlusherPanics(f) PROVE ProcessInv'
  <2>1. /\ chClosed /\ process' = "crashed" /\ flush'[f] = "panicked"
        /\ UNCHANGED <<closer, listening, worker>>
    <3>1. flush \in [Flushers -> {"idle", "wait", "returned", "panicked"}]
      BY DEF ExitInv, AuditInv, LogInv, AuditTypeOK
    <3>. QED
      BY <1>10, <3>1 DEF FlusherPanics, FlushPanics
  <2>2. PICK d \in Closers : closer[d] \in {"wait", "done"}
    BY <2>1 DEF ExitInv, CloseInv, ChannelLast
  <2>3. CrashNeedsTwo'
    BY <2>1, <2>2 DEF CrashNeedsTwo
  <2>. QED
    BY <2>1, <2>3 DEF ExitInv, ProcessInv, Heard
<1>. QED
  BY <1>6, <1>7, <1>8, <1>9, <1>10 DEF ServerNext

LEMMA ExitNext == ExitInv /\ [ServerNext]_serverVars => ExitInv'
BY CloseNext, AuditInvNext, ProcessNext DEF ExitInv

\* No audit entry that was accepted is lost, written twice or overtaken, whatever
\* closes the channel, and whenever it is full.
THEOREM NothingLostCorrect == ServerSpec => []NothingLost
<1>1. ServerInit => AuditInv
  BY AuditInvInit DEF ServerInit
<1>2. AuditInv => NothingLost
  BY DEF AuditInv, LogInv
<1>. QED
  BY <1>1, <1>2, AuditInvNext, PTL DEF ServerSpec

\* FlushAuditLog returns when what was accepted before it was called is written.
THEOREM FlushIsDoneCorrect == ServerSpec => []FlushIsDone
<1>1. ServerInit => AuditInv
  BY AuditInvInit DEF ServerInit
<1>2. AuditInv => FlushIsDone
  BY DEF AuditInv, FlushInv
<1>. QED
  BY <1>1, <1>2, AuditInvNext, PTL DEF ServerSpec

\* A process that a signal ends has written its audit log.
THEOREM ExitWritesAuditCorrect == ServerSpec => []ExitWritesAudit
<1>1. ExitInv => ExitWritesAudit
  <2>. SUFFICES ASSUME ExitInv, process = "exited", worker # "gaveUp",
                       \A c \in APIClosers : closer[c] = "off",
                       NEW n \in DOMAIN accepted
                PROVE  Written(n)
    BY DEF ExitWritesAudit
  <2>1. worker = "done"
    BY DEF ExitInv, ProcessInv, AuditDone
  <2>2. LogInv /\ auditCh = <<>> /\ held = <<>>
    BY <2>1 DEF ExitInv, AuditInv, LogInv, WorkerHolds, NothingHeld
  <2>. QED
    BY <2>2, AllWritten
<1>. QED
  BY ExitInit, ExitNext, <1>1, PTL DEF ServerSpec

\* The process panics only when a goroutine closes the audit channel that another has
\* closed, or flushes into it.
THEOREM CrashNeedsTwoCorrect == ServerSpec => []CrashNeedsTwo
<1>1. ExitInv => CrashNeedsTwo
  BY DEF ExitInv, ProcessInv
<1>. QED
  BY ExitInit, ExitNext, <1>1, PTL DEF ServerSpec

-----------------------------------------------------------------------------
(* What a start writes.                                                    *)

At == [step : Steps, version : Versions, statement : 1..3, pair : Pairs \cup {Missing}]

\* Who may be at a place: the processes that do such a thing; a statement is one of
\* its script; only who writes the files has drawn a pair.
May(p, place) ==
  /\ place.step \in MigrateSteps => p \in Migrators
  /\ place.step \in {"admin", "insert", "state", "stat"} => p \in Servers
  /\ place.step \notin WriteSteps => place.pair = Missing
  /\ place.step = "check" => place.statement = 1
  /\ place.step = "script" => place.statement <= Len(Scripts[place.version])

\* What the process that is there has found or added.
Done(place, items) ==
  /\ place.step = "script" =>
       \A i \in 1..(place.statement - 1) : Scripts[place.version][i] \in items
  /\ place.step = "record" => Adds(place.version) \subseteq items
  /\ place.step = "note" => place.version = 2 /\ "prefix" \in items

\* Between the two columns of version 2: a process is, or was when it ended.
Half(place) == place.step = "script" /\ place.version = 2 /\ place.statement = 2
Between == "alters" \in cut \/ \E p \in Migrators : Half(at[p])

SchemaInv ==
  /\ StartupTypeOK
  /\ \A p \in Processes : May(p, at[p]) /\ Done(at[p], schema)
  /\ "prefix" \in schema => "encrypted_key" \in schema \/ Between
  /\ RecordedIsThere

LEMMA ScriptsAre ==
  /\ Len(Scripts[1]) = 3 /\ Len(Scripts[2]) = 2 /\ Len(Scripts[3]) = 1
  /\ Scripts[1][1] = "users" /\ Scripts[1][2] = "api_keys" /\ Scripts[1][3] = "others"
  /\ Scripts[2][1] = "prefix" /\ Scripts[2][2] = "encrypted_key"
  /\ Scripts[3][1] = "password_change_required"
  /\ DOMAIN Scripts[1] = 1..3 /\ DOMAIN Scripts[2] = 1..2 /\ DOMAIN Scripts[3] = 1..1
BY DEF Scripts

LEMMA AddsAre ==
  /\ Adds(1) = {"users", "api_keys", "others"}
  /\ Adds(2) = {"prefix", "encrypted_key"}
  /\ Adds(3) = {"password_change_required"}
<1>1. Adds(1) = {"users", "api_keys", "others"}
  BY ScriptsAre DEF Adds
<1>2. Adds(2) = {"prefix", "encrypted_key"}
  BY ScriptsAre DEF Adds
<1>3. Adds(3) = {"password_change_required"}
  BY ScriptsAre DEF Adds
<1>. QED
  BY <1>1, <1>2, <1>3

\* A process in Writers that has no pair yet draws one that nobody has: the others
\* and the two files have fewer than there are.
LEMMA NewPairIsPair ==
  ASSUME StartupTypeOK, NEW p \in Writers, at[p].pair = Missing
  PROVE  NewPair \in Pairs
<1> DEFINE W == Writers \ {p}
           F == [w \in W |-> at[w].pair]
           R == {at[w].pair : w \in W}
           U == (R \cup {cert}) \cup {key}
<1>1. IsFiniteSet(Writers) /\ Missing \notin Pairs
      /\ (IsFiniteSet(Pairs) => Cardinality(Pairs) >= Cardinality(Writers) + 2)
  BY PairAssumption
<1>2. /\ IsFiniteSet(W) /\ Cardinality(W) = Cardinality(Writers) - 1
      /\ Cardinality(Writers) \in Nat /\ Cardinality(W) \in Nat
  BY <1>1, FS_RemoveElement, FS_CardinalityType
<1>3. IsFiniteSet(R) /\ Cardinality(R) <= Cardinality(W) /\ Cardinality(R) \in Nat
  <2>1. F \in [W -> R] /\ \A t \in R : \E w \in W : F[w] = t
    OBVIOUS
  <2> HIDE DEF F, R, W
  <2>2. F \in Surjection(W, R)
    BY <2>1, Fun_IsSurj
  <2>. QED
    BY <1>2, <2>2, FS_Surjection, FS_CardinalityType
<1>4. IsFiniteSet(U) /\ Cardinality(U) \in Nat /\ Cardinality(U) <= Cardinality(R) + 2
  <2> HIDE DEF R
  <2>1. IsFiniteSet(R \cup {cert}) /\ Cardinality(R \cup {cert}) <= Cardinality(R) + 1
        /\ Cardinality(R \cup {cert}) \in Nat
    <3>1. /\ IsFiniteSet(R \cup {cert})
          /\ Cardinality(R \cup {cert}) = IF cert \in R THEN Cardinality(R) ELSE Cardinality(R) + 1
      BY <1>3, FS_AddElement
    <3>. QED
      BY <1>3, <3>1
  <2>2. PICK V : V = R \cup {cert}
    OBVIOUS
  <2>3. IsFiniteSet(V \cup {key}) /\ Cardinality(V \cup {key}) <= Cardinality(V) + 1
        /\ Cardinality(V \cup {key}) \in Nat
    <3>1. IsFiniteSet(V) /\ Cardinality(V) \in Nat
      BY <2>1, <2>2
    <3>2. /\ IsFiniteSet(V \cup {key})
          /\ Cardinality(V \cup {key}) = IF key \in V THEN Cardinality(V) ELSE Cardinality(V) + 1
      BY <3>1, FS_AddElement
    <3>. QED
      BY <3>1, <3>2
  <2>. QED
    BY <1>3, <2>1, <2>2, <2>3
<1>5. ~(Pairs \subseteq U)
  <2> HIDE DEF U, R, W
  <2>. SUFFICES ASSUME Pairs \subseteq U PROVE FALSE
    OBVIOUS
  <2>1. IsFiniteSet(Pairs) /\ Cardinality(Pairs) <= Cardinality(U) /\ Cardinality(Pairs) \in Nat
    BY <1>4, FS_Subset, FS_CardinalityType
  <2>. QED
    BY <1>1, <1>2, <1>3, <1>4, <2>1
<1>6. PICK q \in Pairs : q \notin U
  BY <1>5
<1>7. q \notin {cert, key} \cup {at[w].pair : w \in Writers}
  BY <1>1, <1>6
<1>. QED
  BY <1>7 DEF NewPair

LEMMA PlaceType ==
  ASSUME NEW step \in Steps
  PROVE  /\ Place(step) \in At /\ Place(step).step = step /\ Place(step).statement = 1
         /\ Place(step).pair = Missing /\ Place(step).version = 1
BY DEF Place, At, Versions

\* A step of process p to another place.
LEMMA MovesKeep ==
  ASSUME SchemaInv, NEW p \in Processes, NEW r \in At, at' = [at EXCEPT ![p] = r],
         tls' \in BOOLEAN, admin' \in BOOLEAN, cert' \in File, key' \in File,
         faults' \in 0..MaxFaults, cut' \in SUBSET Cuts, cut \subseteq cut',
         schema' \in SUBSET Items, schema \subseteq schema', recorded' \in SUBSET Versions,
         May(p, r), Done(r, schema'),
         Half(at[p]) => "encrypted_key" \in schema' \/ "alters" \in cut',
         "prefix" \in schema' => "prefix" \in schema \/ (p \in Migrators /\ Half(r)),
         \A v \in recorded' : \/ v \in recorded
                              \/ Adds(v) \subseteq schema'
                              \/ v = 2 /\ "prefix" \in schema
  PROVE  SchemaInv'
<1>1. /\ at \in [Processes -> At] /\ at'[p] = r /\ \A q \in Processes \ {p} : at'[q] = at[q]
  BY DEF SchemaInv, StartupTypeOK, At
<1>2. StartupTypeOK'
  BY <1>1 DEF StartupTypeOK, At
<1>3. ASSUME NEW q \in Processes PROVE May(q, at'[q]) /\ Done(at'[q], schema')
  <2>1. May(q, at[q]) /\ Done(at[q], schema)
    BY DEF SchemaInv
  <2>2. Done(at[q], schema')
    BY <2>1 DEF Done
  <2>. QED
    BY <1>1, <2>1, <2>2
<1>4. Between => Between' \/ {"prefix", "encrypted_key"} \subseteq schema'
  <2>1. CASE "alters" \in cut
    BY <2>1 DEF Between
  <2>2. ASSUME NEW q \in Migrators, Half(at[q]), q # p PROVE Between'
    <3>1. at'[q] = at[q]
      BY <1>1, <2>2 DEF Processes, Migrators
    <3>2. Half(at'[q])
      BY <2>2, <3>1
    <3>. QED
      BY <3>2 DEF Between, Half
  <2>3. CASE Half(at[p])
    <3>1. Scripts[2][1] \in schema
      BY <2>3 DEF SchemaInv, Done, Half
    <3>2. "prefix" \in schema'
      BY <3>1, ScriptsAre
    <3>. QED
      BY <2>3, <3>2 DEF Between
  <2>. QED
    BY <2>1, <2>2, <2>3 DEF Between
<1>5. "prefix" \in schema' => "encrypted_key" \in schema' \/ Between'
  <2>1. CASE "prefix" \in schema
    BY <1>4, <2>1 DEF SchemaInv
  <2>2. CASE p \in Migrators /\ Half(r)
    BY <1>1, <2>2 DEF Between, Half
  <2>. QED
    BY <2>1, <2>2
<1>6. RecordedIsThere'
  <2>. SUFFICES ASSUME NEW v \in recorded'
                PROVE  Adds(v) \subseteq schema' \/ (v = 2 /\ Between')
    BY DEF RecordedIsThere, Between, Half, Is
  <2>1. CASE v \in recorded
    <3>1. Adds(v) \subseteq schema \/ (v = 2 /\ Between)
      BY <2>1 DEF SchemaInv, RecordedIsThere, Between, Half, Is
    <3>. QED
      BY <1>4, <3>1, AddsAre
  <2>2. CASE v = 2 /\ "prefix" \in schema
    BY <1>5, <2>2, AddsAre
  <2>. QED
    BY <2>1, <2>2
<1>. QED
  BY <1>2, <1>3, <1>5, <1>6 DEF SchemaInv

\* Process p goes to r, and nothing but its place changes.
Moves(p, r) == at' = [at EXCEPT ![p] = r] /\ May(p, r)

LEMMA EndsMove ==
  ASSUME SchemaInv, NEW p \in Processes, Ends(p)
  PROVE  /\ \E r \in At : Moves(p, r) /\ r.step \in {"off", "done"}
         /\ cut' \in SUBSET Cuts /\ cut \subseteq cut'
         /\ Half(at[p]) => "alters" \in cut'
<1>1. PICK r : r = Place(IF p \in Servers THEN "off" ELSE "done")
  OBVIOUS
<1>2. r \in At /\ r.step \in {"off", "done"} /\ r.pair = Missing
  BY <1>1, PlaceType DEF Steps
<1>3. Moves(p, r)
  BY <1>1, <1>2 DEF Moves, May, Ends, Goto, MigrateSteps, WriteSteps
<1>4. cut' \in SUBSET Cuts /\ cut \subseteq cut'
  BY DEF Ends, HalfDone, SchemaInv, StartupTypeOK
<1>5. Half(at[p]) => "alters" \in cut'
  BY DEF Ends, HalfDone, Half, Is, Cuts
<1>. QED
  BY <1>2, <1>3, <1>4, <1>5

LEMMA NextMoves ==
  ASSUME SchemaInv, NEW p \in Processes, at[p].step \in MigrateSteps, NextVersion(p)
  PROVE  \E r \in At : Moves(p, r) /\ r.step \in {"check", "admin", "user"}
<1>1. p \in Migrators /\ at[p] \in At
  BY DEF SchemaInv, StartupTypeOK, May, At
<1>2. CASE at[p].version = 3
  <2>1. PICK r : r = Place(IF p \in Servers THEN "admin" ELSE "user")
    OBVIOUS
  <2>2. r \in At /\ r.step \in {"admin", "user"} /\ r.pair = Missing /\ (r.step = "admin" => p \in Servers)
    BY <2>1, PlaceType DEF Steps, LaterSteps
  <2>3. Moves(p, r)
    BY <1>2, <2>1, <2>2 DEF Moves, May, NextVersion, Goto, MigrateSteps, WriteSteps
  <2>. QED
    BY <2>2, <2>3
<1>3. CASE at[p].version # 3
  <2>1. PICK r : r = [Place("check") EXCEPT !.version = at[p].version + 1]
    OBVIOUS
  <2>2. r \in At /\ r.step = "check" /\ r.pair = Missing /\ r.statement = 1
    BY <1>1, <1>3, <2>1 DEF Place, At, Versions, Steps, MigrateSteps
  <2>3. Moves(p, r)
    BY <1>1, <1>3, <2>1, <2>2 DEF Moves, May, NextVersion, MigrateSteps, WriteSteps
  <2>. QED
    BY <2>2, <2>3
<1>. QED
  BY <1>2, <1>3

\* A step to a place that asks nothing of the schema.
LEMMA OthersKeep ==
  ASSUME SchemaInv, NEW p \in Processes, NEW r \in At, Moves(p, r),
         r.step \notin {"script", "record", "note"},
         tls' \in BOOLEAN, admin' \in BOOLEAN, cert' \in File, key' \in File,
         faults' \in 0..MaxFaults, cut' \in SUBSET Cuts, cut \subseteq cut',
         Half(at[p]) => "alters" \in cut',
         schema' = schema, recorded' = recorded
  PROVE  SchemaInv'
<1>1. Done(r, schema')
  BY DEF Done
<1>2. schema' \in SUBSET Items /\ recorded' \in SUBSET Versions
  BY DEF SchemaInv, StartupTypeOK
<1>. QED
  BY <1>1, <1>2, MovesKeep DEF Moves

\* What a step that meets no fault leaves alone is what it was.
LEMMA TypesAre ==
  ASSUME SchemaInv
  PROVE  /\ tls \in BOOLEAN /\ admin \in BOOLEAN /\ cert \in File /\ key \in File
         /\ faults \in 0..MaxFaults /\ cut \in SUBSET Cuts
         /\ schema \in SUBSET Items /\ recorded \in SUBSET Versions
         /\ (faults < MaxFaults => faults + 1 \in 0..MaxFaults)
BY StartupBound DEF SchemaInv, StartupTypeOK

LEMMA FailKeeps ==
  ASSUME SchemaInv, NEW p \in Processes, Fails(p), admin' \in BOOLEAN,
         cert' = cert, key' = key, schema' = schema, recorded' = recorded
  PROVE  SchemaInv'
<1>1. PICK r \in At : Moves(p, r) /\ r.step \in {"off", "done"}
  BY EndsMove DEF Fails
<1>2. cut' \in SUBSET Cuts /\ cut \subseteq cut' /\ (Half(at[p]) => "alters" \in cut')
  BY EndsMove DEF Fails
<1>3. tls' = tls /\ faults' = faults
  BY DEF Fails
<1>. QED
  BY <1>1, <1>2, <1>3, TypesAre, OthersKeep

-----------------------------------------------------------------------------
LEMMA SchemaInit == StartupInit => SchemaInv
<1>. SUFFICES ASSUME StartupInit PROVE SchemaInv
  OBVIOUS
<1>1. PICK n \in 0..3 : recorded = 1..n /\ schema = UNION {Adds(v) : v \in 1..n}
  BY DEF StartupInit
<1>2. schema \in SUBSET Items /\ recorded \in SUBSET Versions
  BY <1>1, AddsAre DEF Items, Versions
<1>3. \A p \in Processes : at[p] = Place("off")
  BY DEF StartupInit
<1>4. at \in [Processes -> At]
  BY PlaceType DEF StartupInit, Steps
<1>5. cert \in File /\ key \in File
  <2>1. Pairs # {}
    <3>. SUFFICES ASSUME Pairs = {} PROVE FALSE
      OBVIOUS
    <3>1. IsFiniteSet(Pairs) /\ Cardinality(Pairs) = 0
      BY FS_EmptySet
    <3>. QED
      BY <3>1, PairAssumption, FS_CardinalityType
  <2>. QED
    BY <2>1 DEF StartupInit, File
<1>6. StartupTypeOK
  BY <1>2, <1>4, <1>5, StartupBound DEF StartupInit, StartupTypeOK, At
<1>7. \A p \in Processes : May(p, at[p]) /\ Done(at[p], schema)
  <2>. SUFFICES ASSUME NEW p \in Processes PROVE May(p, at[p]) /\ Done(at[p], schema)
    OBVIOUS
  <2>1. /\ at[p].step = "off" /\ at[p].pair = Missing
    BY <1>3, PlaceType DEF Steps
  <2>. QED
    BY <2>1 DEF May, Done, MigrateSteps, WriteSteps
<1>8. \A v \in recorded : Adds(v) \subseteq schema
  BY <1>1
<1>9. "prefix" \in schema => "encrypted_key" \in schema
  <2>1. "prefix" \in schema => n >= 2
    BY <1>1, AddsAre
  <2>2. n >= 2 => Adds(2) \subseteq schema
    BY <1>1
  <2>. QED
    BY <2>1, <2>2, AddsAre
<1>. QED
  BY <1>6, <1>7, <1>8, <1>9 DEF SchemaInv, RecordedIsThere

-----------------------------------------------------------------------------
(* One lemma for each group of actions.                                    *)

LEMMA EndingsKeep ==
  ASSUME SchemaInv, NEW p \in Processes, ProcessFails(p) \/ StopServer(p)
  PROVE  SchemaInv'
<1>1. CASE ProcessFails(p)
  <2>1. PICK r \in At : Moves(p, r) /\ r.step \in {"off", "done"}
    BY <1>1, EndsMove DEF ProcessFails
  <2>2. cut' \in SUBSET Cuts /\ cut \subseteq cut' /\ (Half(at[p]) => "alters" \in cut')
    BY <1>1, EndsMove DEF ProcessFails
  <2>3. /\ tls' = tls /\ admin' = admin /\ schema' = schema /\ recorded' = recorded
        /\ cert' = cert /\ key' = key /\ faults' \in 0..MaxFaults
    BY <1>1, TypesAre DEF ProcessFails, Fault, databaseVars, fileVars
  <2>. QED
    BY <2>1, <2>2, <2>3, TypesAre, OthersKeep
<1>2. CASE StopServer(p)
  <2>1. PICK r : r = Place("off")
    OBVIOUS
  <2>2. r \in At /\ r.step = "off" /\ r.pair = Missing
    BY <2>1, PlaceType DEF Steps
  <2>3. Moves(p, r)
    BY <1>2, <2>1, <2>2 DEF StopServer, Goto, Moves, May, MigrateSteps, WriteSteps
  <2>4. /\ tls' = tls /\ admin' = admin /\ schema' = schema /\ recorded' = recorded
        /\ cert' = cert /\ key' = key /\ faults' = faults /\ cut' = cut
    BY <1>2 DEF StopServer, NoFault, databaseVars, fileVars
  <2>5. ~Half(at[p])
    BY <1>2 DEF StopServer, Is, Half
  <2>. QED
    BY <2>2, <2>3, <2>4, <2>5, TypesAre, OthersKeep
<1>. QED
  BY <1>1, <1>2

LEMMA OpenKeeps ==
  ASSUME SchemaInv, NEW p \in Processes, OpenSystemDB(p)
  PROVE  SchemaInv'
<1>1. PICK r : r = Place("check")
  OBVIOUS
<1>2. r \in At /\ r.step = "check" /\ r.pair = Missing /\ r.statement = 1
  BY <1>1, PlaceType DEF Steps, MigrateSteps
<1>3. Moves(p, r)
  BY <1>1, <1>2 DEF OpenSystemDB, Goto, Moves, May, MigrateSteps, WriteSteps
<1>4. /\ tls' = tls /\ admin' = admin /\ schema' = schema /\ recorded' = recorded
      /\ cert' = cert /\ key' = key /\ faults' = faults /\ cut' = cut
  BY DEF OpenSystemDB, NoFault, databaseVars, fileVars
<1>5. ~Half(at[p])
  BY DEF OpenSystemDB, Is, Half
<1>. QED
  BY <1>2, <1>3, <1>4, <1>5, TypesAre, OthersKeep

LEMMA CheckKeeps ==
  ASSUME SchemaInv, NEW p \in Processes, CheckVersion(p)
  PROVE  SchemaInv'
<1>1. /\ tls' = tls /\ admin' = admin /\ schema' = schema /\ recorded' = recorded
      /\ cert' = cert /\ key' = key /\ faults' = faults /\ cut' = cut
  BY DEF CheckVersion, NoFault, databaseVars, fileVars
<1>2. at[p] \in At /\ at[p].step = "check" /\ ~Half(at[p]) /\ at[p].statement = 1 /\ p \in Migrators
      /\ at[p].pair = Missing
  BY DEF CheckVersion, SchemaInv, StartupTypeOK, At, May, Is, Half, MigrateSteps, WriteSteps
<1>3. CASE at[p].version \in recorded
  <2>1. PICK r \in At : Moves(p, r) /\ r.step \in {"check", "admin", "user"}
    BY <1>2, <1>3, NextMoves DEF CheckVersion, MigrateSteps
  <2>. QED
    BY <1>1, <1>2, <2>1, TypesAre, OthersKeep
<1>4. CASE at[p].version \notin recorded
  <2>1. PICK r : r = [at[p] EXCEPT !.step = "script"]
    OBVIOUS
  <2>2. r \in At /\ r.step = "script" /\ r.statement = 1 /\ r.version = at[p].version
        /\ r.pair = at[p].pair /\ r.version \in 1..3
    BY <1>2, <2>1 DEF At, Steps, MigrateSteps, Versions
  <2>3. at' = [at EXCEPT ![p] = r]
    BY <1>4, <2>1 DEF CheckVersion
  <2>4. May(p, r)
    BY <1>2, <2>2, ScriptsAre DEF May, WriteSteps
  <2>5. Done(r, schema')
    BY <2>2 DEF Done
  <2>. QED
    BY <1>1, <1>2, <2>2, <2>3, <2>4, <2>5, TypesAre, MovesKeep
<1>. QED
  BY <1>3, <1>4

\* A statement of a script, by its number.
LEMMA ItemIs ==
  ASSUME SchemaInv, NEW p \in Processes, Is(p, "script")
  PROVE  /\ p \in Migrators /\ at[p] \in At /\ at[p].pair = Missing
         /\ at[p].version \in 1..3 /\ at[p].statement \in 1..Len(Scripts[at[p].version])
         /\ Len(Scripts[at[p].version]) \in 1..3
         /\ DOMAIN Scripts[at[p].version] = 1..Len(Scripts[at[p].version])
         /\ Item(p) \in Adds(at[p].version) /\ Item(p) \in Items
         /\ Item(p) = "prefix" <=> (at[p].version = 2 /\ at[p].statement = 1)
         /\ Half(at[p]) => Item(p) = "encrypted_key"
         /\ \A i \in 1..(at[p].statement - 1) : Scripts[at[p].version][i] \in schema
<1>1. /\ p \in Migrators /\ at[p] \in At /\ at[p].pair = Missing
      /\ at[p].statement <= Len(Scripts[at[p].version])
      /\ \A i \in 1..(at[p].statement - 1) : Scripts[at[p].version][i] \in schema
  BY DEF SchemaInv, StartupTypeOK, At, May, Done, Is, MigrateSteps, WriteSteps
<1>2. PICK v, n : v = at[p].version /\ n = at[p].statement
  OBVIOUS
<1>3. v \in 1..3 /\ n \in 1..3 /\ n <= Len(Scripts[v])
  BY <1>1, <1>2 DEF At, Versions
<1>4. n \in 1..Len(Scripts[v]) /\ Len(Scripts[v]) \in 1..3 /\ DOMAIN Scripts[v] = 1..Len(Scripts[v])
  <2>1. Len(Scripts[v]) \in 1..3 /\ DOMAIN Scripts[v] = 1..Len(Scripts[v])
    BY <1>3, ScriptsAre
  <2>. QED
    BY <1>3, <2>1
<1>5. Scripts[v][n] \in Adds(v)
  BY <1>4 DEF Adds
<1>6. Scripts[v][n] \in Items
  <2>1. Adds(v) \subseteq Items
    BY <1>3, AddsAre DEF Items
  <2>. QED
    BY <1>5, <2>1
<1>7. Scripts[v][n] = "prefix" <=> (v = 2 /\ n = 1)
  <2>1. CASE v = 1
    BY <1>5, <2>1, AddsAre
  <2>2. CASE v = 3
    BY <1>5, <2>2, AddsAre
  <2>3. CASE v = 2 /\ n = 1
    BY <2>3, ScriptsAre
  <2>4. CASE v = 2 /\ n = 2
    BY <2>4, ScriptsAre
  <2>5. v = 2 => n \in 1..2
    BY <1>4, ScriptsAre
  <2>. QED
    BY <1>3, <2>1, <2>2, <2>3, <2>4, <2>5
<1>8. v = 2 /\ n = 2 => Scripts[v][n] = "encrypted_key"
  BY ScriptsAre
<1>. QED
  BY <1>1, <1>2, <1>3, <1>4, <1>5, <1>6, <1>7, <1>8 DEF Item, Half

LEMMA StatementKeeps ==
  ASSUME SchemaInv, NEW p \in Processes, RunStatement(p)
  PROVE  SchemaInv'
<1>1. Is(p, "script") /\ recorded' = recorded /\ admin' = admin /\ cert' = cert /\ key' = key
  BY DEF RunStatement, fileVars
<1>2. PICK v, n, item : v = at[p].version /\ n = at[p].statement /\ item = Item(p)
  OBVIOUS
<1>3. /\ p \in Migrators /\ at[p] \in At /\ at[p].pair = Missing
      /\ v \in 1..3 /\ n \in 1..Len(Scripts[v]) /\ Len(Scripts[v]) \in 1..3
      /\ DOMAIN Scripts[v] = 1..Len(Scripts[v])
      /\ item = Scripts[v][n] /\ item \in Items
      /\ item = "prefix" <=> (v = 2 /\ n = 1)
      /\ Half(at[p]) => item = "encrypted_key"
      /\ \A i \in 1..(n - 1) : Scripts[v][i] \in schema
  BY <1>1, <1>2, ItemIs DEF Item
<1>4. CASE v = 1 \/ item \notin schema
  <2>0. StatementDone(p)
    BY <1>2, <1>4 DEF RunStatement
  <2>1. /\ schema' = schema \cup {item} /\ tls' = tls /\ faults' = faults /\ cut' = cut
    BY <1>2, <2>0 DEF StatementDone, NoFault
  <2>2. schema' \in SUBSET Items /\ schema \subseteq schema' /\ item \in schema'
    BY <1>3, <2>1, TypesAre
  <2>3. \A i \in 1..n : Scripts[v][i] \in schema'
    <3>. SUFFICES ASSUME NEW i \in 1..n PROVE Scripts[v][i] \in schema'
      OBVIOUS
    <3>1. CASE i = n
      BY <1>3, <2>2, <3>1
    <3>2. CASE i # n
      <4>1. i \in 1..(n - 1)
        BY <1>3, <3>2
      <4>. QED
        BY <1>3, <2>2, <4>1
    <3>. QED
      BY <3>1, <3>2
  <2>4. CASE n = Len(Scripts[v])
    <3>1. PICK r : r = [at[p] EXCEPT !.step = "record", !.statement = 1]
      OBVIOUS
    <3>2. r \in At /\ r.step = "record" /\ r.version = v /\ r.pair = Missing
      <4>1. PICK a \in At : a = at[p]
        BY <1>3
      <4>2. r = [step |-> "record", version |-> a.version, statement |-> 1, pair |-> a.pair]
        BY <4>1, <3>1 DEF At
      <4>3. "record" \in Steps
        BY DEF Steps, MigrateSteps
      <4>. QED
        BY <1>2, <1>3, <4>1, <4>2, <4>3 DEF At
    <3>3. at' = [at EXCEPT ![p] = r]
      BY <1>2, <2>0, <2>4, <3>1 DEF StatementDone, Last
    <3>4. May(p, r)
      BY <1>3, <3>2 DEF May, WriteSteps
    <3>5. Adds(v) \subseteq schema'
      BY <1>3, <2>3, <2>4 DEF Adds
    <3>6. Done(r, schema')
      BY <3>2, <3>5 DEF Done
    <3>7. "prefix" \in schema' => "prefix" \in schema
      BY <1>3, <2>1, <2>4, ScriptsAre
    <3>8. Half(at[p]) => "encrypted_key" \in schema'
      BY <1>3, <2>2
    <3>. QED
      BY <1>1, <2>1, <2>2, <3>2, <3>3, <3>4, <3>6, <3>7, <3>8, TypesAre, MovesKeep
  <2>5. CASE n # Len(Scripts[v])
    <3>1. PICK r : r = [at[p] EXCEPT !.statement = @ + 1]
      OBVIOUS
    <3>2. n + 1 \in 1..Len(Scripts[v]) /\ n + 1 \in 1..3
      <4>1. PICK m : m = Len(Scripts[v])
        OBVIOUS
      <4>2. m \in 1..3 /\ n \in 1..m /\ n # m
        BY <1>3, <2>5, <4>1
      <4>3. n + 1 \in 1..m /\ n + 1 \in 1..3
        BY <4>2
      <4>. QED
        BY <4>1, <4>3
    <3>3. r \in At /\ r.step = "script" /\ r.version = v /\ r.statement = n + 1 /\ r.pair = Missing
      BY <1>1, <1>2, <1>3, <3>1, <3>2 DEF At, Steps, MigrateSteps, Is
    <3>4. at' = [at EXCEPT ![p] = r]
      BY <1>2, <2>0, <2>5, <3>1 DEF StatementDone, Last
    <3>5. May(p, r)
      BY <1>3, <3>2, <3>3 DEF May, WriteSteps
    <3>6. Done(r, schema')
      BY <1>3, <2>3, <3>3 DEF Done
    <3>7. "prefix" \in schema' => "prefix" \in schema \/ Half(r)
      BY <1>3, <2>1, <3>3 DEF Half
    <3>8. Half(at[p]) => "encrypted_key" \in schema'
      BY <1>3, <2>2
    <3>. QED
      BY <1>1, <1>3, <2>1, <2>2, <3>3, <3>4, <3>5, <3>6, <3>7, <3>8, TypesAre, MovesKeep
  <2>. QED
    BY <2>4, <2>5
<1>5. CASE v # 1 /\ item \in schema /\ v = 2
  <2>0. /\ at' = [at EXCEPT ![p].step = "note", ![p].statement = 1]
        /\ schema' = schema /\ tls' = tls /\ faults' = faults /\ cut' = cut
    BY <1>2, <1>5 DEF RunStatement, NoFault
  <2>1. PICK r : r = [at[p] EXCEPT !.step = "note", !.statement = 1]
    OBVIOUS
  <2>2. r \in At /\ r.step = "note" /\ r.version = 2 /\ r.pair = Missing
    <3>1. PICK a \in At : a = at[p]
      BY <1>3
    <3>2. r = [step |-> "note", version |-> a.version, statement |-> 1, pair |-> a.pair]
      BY <3>1, <2>1 DEF At
    <3>3. "note" \in Steps
      BY DEF Steps, MigrateSteps
    <3>4. at[p].version = 2 /\ at[p].pair = Missing
      BY <1>2, <1>3, <1>5
    <3>5. a.version \in Versions /\ a.pair \in Pairs \cup {Missing}
      BY <3>1 DEF At
    <3>6. 1 \in 1..3
      OBVIOUS
    <3>7. r \in At
      BY <3>2, <3>3, <3>5, <3>6 DEF At
    <3>. QED
      BY <3>1, <3>2, <3>4, <3>7
  <2>3. at' = [at EXCEPT ![p] = r]
    BY <2>0, <2>1
  <2>4. May(p, r)
    BY <1>3, <2>2 DEF May, WriteSteps
  <2>5. "prefix" \in schema
    <3>1. CASE n = 1
      BY <1>3, <1>5, <3>1
    <3>2. CASE n # 1
      <4>1. 1 \in 1..(n - 1)
        BY <1>3, <3>2
      <4>2. Scripts[v][1] \in schema
        BY <1>3, <4>1
      <4>. QED
        BY <1>5, <4>2, ScriptsAre
    <3>. QED
      BY <3>1, <3>2
  <2>6. Done(r, schema')
    BY <2>0, <2>2, <2>5 DEF Done
  <2>7. Half(at[p]) => "encrypted_key" \in schema'
    BY <1>3, <1>5, <2>0
  <2>. QED
    BY <1>1, <2>0, <2>2, <2>3, <2>4, <2>6, <2>7, TypesAre, MovesKeep
<1>6. CASE v # 1 /\ item \in schema /\ v # 2
  <2>1. Fails(p) /\ schema' = schema
    BY <1>2, <1>6 DEF RunStatement
  <2>. QED
    BY <1>1, <2>1, TypesAre, FailKeeps
<1>. QED
  BY <1>4, <1>5, <1>6

LEMMA RecordKeeps ==
  ASSUME SchemaInv, NEW p \in Processes, Record(p)
  PROVE  SchemaInv'
<1>1. /\ at[p].step = "record" /\ ~Half(at[p]) /\ schema' = schema /\ admin' = admin
      /\ cert' = cert /\ key' = key
  BY DEF Record, Is, Half, fileVars
<1>2. Adds(at[p].version) \subseteq schema /\ at[p].version \in Versions
  BY <1>1 DEF SchemaInv, Done, StartupTypeOK
<1>3. CASE at[p].version \notin recorded
  <2>1. recorded' = recorded \cup {at[p].version} /\ NextVersion(p)
        /\ tls' = tls /\ faults' = faults /\ cut' = cut
    BY <1>3 DEF Record, NoFault
  <2>2. PICK r \in At : Moves(p, r) /\ r.step \in {"check", "admin", "user"}
    BY <1>1, <2>1, NextMoves DEF MigrateSteps
  <2>3. May(p, r) /\ at' = [at EXCEPT ![p] = r] /\ Done(r, schema')
    BY <2>2 DEF Moves, Done
  <2>4. recorded' \in SUBSET Versions
    BY <1>2, <2>1, TypesAre
  <2>5. \A v \in recorded' : v \in recorded \/ Adds(v) \subseteq schema'
    BY <1>1, <1>2, <2>1
  <2>. QED
    BY <1>1, <2>1, <2>3, <2>4, <2>5, TypesAre, MovesKeep
<1>4. CASE at[p].version \in recorded
  <2>1. Fails(p) /\ recorded' = recorded
    BY <1>4 DEF Record
  <2>. QED
    BY <1>1, <2>1, TypesAre, FailKeeps
<1>. QED
  BY <1>3, <1>4

LEMMA NoteKeeps ==
  ASSUME SchemaInv, NEW p \in Processes, Note(p)
  PROVE  SchemaInv'
<1>1. /\ at[p].step = "note" /\ ~Half(at[p]) /\ schema' = schema /\ admin' = admin
      /\ cert' = cert /\ key' = key /\ tls' = tls /\ cut' = cut /\ NextVersion(p)
  BY DEF Note, Is, Half, fileVars
<1>2. at[p].version = 2 /\ "prefix" \in schema
  BY <1>1 DEF SchemaInv, Done
<1>3. /\ recorded' = recorded \cup {2} \/ recorded' = recorded
      /\ faults' \in 0..MaxFaults
  BY <1>2, TypesAre DEF Note, Fault
<1>4. PICK r \in At : Moves(p, r) /\ r.step \in {"check", "admin", "user"}
  BY <1>1, NextMoves DEF MigrateSteps
<1>5. May(p, r) /\ at' = [at EXCEPT ![p] = r] /\ Done(r, schema')
  BY <1>4 DEF Moves, Done
<1>6. recorded' \in SUBSET Versions
  BY <1>3, TypesAre DEF Versions
<1>7. \A v \in recorded' : v \in recorded \/ (v = 2 /\ "prefix" \in schema)
  BY <1>2, <1>3
<1>. QED
  BY <1>1, <1>3, <1>5, <1>6, <1>7, TypesAre, MovesKeep

\* A process that is not at a script goes on to a step outside the migrations.
LEMMA GoesOn ==
  ASSUME SchemaInv, NEW p \in Processes, at[p].step # "script",
         NEW step \in {"off", "done", "up", "load"} \cup LaterSteps \cup {"stat"},
         step \in {"admin", "insert", "state", "stat"} => p \in Servers,
         Goto(p, step),
         tls' = tls, admin' \in BOOLEAN, cert' \in File, key' \in File,
         faults' \in 0..MaxFaults, cut' = cut, schema' = schema, recorded' = recorded
  PROVE  SchemaInv'
<1>1. ~Half(at[p])
  BY DEF Half
<1>2. PICK r : r = Place(step)
  OBVIOUS
<1>3. r \in At /\ r.step = step /\ r.pair = Missing
  BY <1>2, PlaceType DEF Steps, LaterSteps
<1>4. Moves(p, r)
  BY <1>2, <1>3 DEF Moves, May, Goto, MigrateSteps, LaterSteps, WriteSteps
<1>5. r.step \notin {"script", "record", "note"}
  BY <1>3 DEF LaterSteps
<1>. QED
  BY <1>1, <1>3, <1>4, <1>5, TypesAre, OthersKeep

LEMMA UsersKeep ==
  ASSUME SchemaInv, NEW p \in Processes,
         CreateUser(p) \/ FindAdmin(p) \/ InsertAdmin(p) \/ InitState(p)
  PROVE  SchemaInv'
<1>1. at[p].step \in {"admin", "state"} \cup {"insert"} => p \in Servers
  BY DEF SchemaInv, May
<1>2. CASE CreateUser(p)
  <2>1. /\ at[p].step = "user" /\ Goto(p, "done") /\ admin' = TRUE
        /\ tls' = tls /\ faults' = faults /\ cut' = cut /\ cert' = cert /\ key' = key
        /\ schema' = schema /\ recorded' = recorded
    BY <1>2 DEF CreateUser, NoFault, fileVars, Is
  <2>. QED
    BY <2>1, TypesAre, GoesOn
<1>3. CASE FindAdmin(p)
  <2>1. /\ at[p].step = "admin" /\ admin' = admin
        /\ tls' = tls /\ cut' = cut /\ cert' = cert /\ key' = key
        /\ schema' = schema /\ recorded' = recorded
    BY <1>3 DEF FindAdmin, databaseVars, fileVars, Is
  <2>2. faults' \in 0..MaxFaults /\ (Goto(p, "state") \/ Goto(p, "insert"))
    BY <1>3, TypesAre DEF FindAdmin, Fault
  <2>3. "state" \in LaterSteps /\ "insert" \in LaterSteps
    BY DEF LaterSteps
  <2>. QED
    BY <1>1, <2>1, <2>2, <2>3, TypesAre, GoesOn
<1>4. CASE InsertAdmin(p)
  <2>1. /\ at[p].step = "insert" /\ admin' = TRUE
        /\ cert' = cert /\ key' = key /\ schema' = schema /\ recorded' = recorded
        /\ Fails(p) \/ (Goto(p, "state") /\ NoFault)
    BY <1>4 DEF InsertAdmin, fileVars, Is
  <2>2. tls' = tls /\ faults' = faults /\ (Fails(p) \/ (Goto(p, "state") /\ cut' = cut))
    BY <2>1 DEF Fails, NoFault
  <2>3. "state" \in LaterSteps
    BY DEF LaterSteps
  <2>4. CASE Fails(p)
    BY <2>1, <2>4, FailKeeps
  <2>5. CASE Goto(p, "state") /\ cut' = cut
    BY <1>1, <2>1, <2>2, <2>3, <2>5, TypesAre, GoesOn
  <2>. QED
    BY <2>2, <2>4, <2>5
<1>5. CASE InitState(p)
  <2>1. /\ at[p].step = "state" /\ admin' = admin
        /\ tls' = tls /\ faults' = faults /\ cut' = cut /\ cert' = cert /\ key' = key
        /\ schema' = schema /\ recorded' = recorded
        /\ Goto(p, "stat") \/ Goto(p, "up")
    BY <1>5 DEF InitState, NoFault, databaseVars, fileVars, Is
  <2>. QED
    BY <1>1, <2>1, TypesAre, GoesOn
<1>. QED
  BY <1>2, <1>3, <1>4, <1>5

LEMMA DrawnType ==
  ASSUME NEW q \in Pairs
  PROVE  [step |-> "create cert", version |-> 1, statement |-> 1, pair |-> q] \in At
<1>1. "create cert" \in Steps
  BY DEF Steps, WriteSteps
<1>2. 1 \in Versions /\ 1 \in 1..3
  BY DEF Versions
<1>. QED
  BY <1>1, <1>2 DEF At

LEMMA DrawnIs ==
  ASSUME NEW q, NEW r, r = [Place("create cert") EXCEPT !.pair = q]
  PROVE  r = [step |-> "create cert", version |-> 1, statement |-> 1, pair |-> q]
BY DEF Place

\* A server about to look at the files, or gen-cert, draws a pair.
LEMMA DrawKeeps ==
  ASSUME SchemaInv, NEW p \in Writers, at[p].step \notin WriteSteps, ~Half(at[p]),
         DrawPair(p, "create cert"),
         tls' = tls, admin' = admin, schema' = schema, recorded' = recorded,
         cert' = cert, key' = key, faults' = faults, cut' = cut
  PROVE  SchemaInv'
<1>1. p \in Processes
  BY DEF Writers, Processes
<1>2. at[p].pair = Missing
  BY <1>1 DEF SchemaInv, May
<1>3. PICK q : q = NewPair
  OBVIOUS
<1>4. q \in Pairs
  BY <1>2, <1>3, NewPairIsPair DEF SchemaInv
<1>5. PICK r : r = [Place("create cert") EXCEPT !.pair = q] /\ at' = [at EXCEPT ![p] = r]
  BY <1>3 DEF DrawPair
<1>6. r \in At /\ r.step = "create cert" /\ r.pair = q
  <2>1. r = [step |-> "create cert", version |-> 1, statement |-> 1, pair |-> q]
    BY <1>5, DrawnIs
  <2>2. r \in At
    BY <1>4, <2>1, DrawnType
  <2>. QED
    BY <2>1, <2>2
<1>7. Moves(p, r)
  BY <1>5, <1>6 DEF Moves, May, MigrateSteps, WriteSteps
<1>. QED
  BY <1>1, <1>6, <1>7, TypesAre, OthersKeep

\* From one write to the next.
LEMMA WritesKeep ==
  ASSUME SchemaInv, NEW p \in Processes, at[p].step \in WriteSteps, NEW step \in WriteSteps,
         at' = [at EXCEPT ![p].step = step],
         tls' = tls, admin' = admin, cert' \in File, key' \in File, faults' = faults,
         cut' \in SUBSET Cuts, cut \subseteq cut', schema' = schema, recorded' = recorded
  PROVE  SchemaInv'
<1>1. PICK a \in At : a = at[p]
  BY DEF SchemaInv, StartupTypeOK, At
<1>2. PICK r : r = [a EXCEPT !.step = step]
  OBVIOUS
<1>3. r \in At /\ r.step = step
  BY <1>1, <1>2 DEF At, Steps
<1>4. Moves(p, r)
  BY <1>1, <1>2, <1>3 DEF Moves, May, MigrateSteps, WriteSteps
<1>5. ~Half(at[p])
  BY DEF Half, WriteSteps
<1>6. r.step \notin {"script", "record", "note"}
  BY <1>3 DEF WriteSteps
<1>. QED
  BY <1>3, <1>4, <1>5, <1>6, TypesAre, OthersKeep

LEMMA FilesKeep ==
  ASSUME SchemaInv, NEW p \in Processes,
         StatFiles(p) \/ GenCert(p) \/ CreateCert(p) \/ FillCert(p) \/ CreateKey(p)
         \/ FillKey(p) \/ LoadPair(p)
  PROVE  SchemaInv'
<1>1. at[p].pair \in File
  BY DEF SchemaInv, StartupTypeOK, File
<1>2. CASE StatFiles(p)
  <2>1. /\ at[p].step = "stat" /\ admin' = admin
        /\ tls' = tls /\ faults' = faults /\ cut' = cut /\ cert' = cert /\ key' = key
        /\ schema' = schema /\ recorded' = recorded
        /\ DrawPair(p, "create cert") \/ Goto(p, "load")
    BY <1>2 DEF StatFiles, NoFault, databaseVars, fileVars, Is
  <2>2. CASE DrawPair(p, "create cert")
    <3>1. p \in Writers
      BY <2>1 DEF SchemaInv, May, Writers
    <3>2. ~Half(at[p]) /\ at[p].step \notin WriteSteps
      BY <2>1 DEF Half, WriteSteps
    <3>. QED
      BY <2>1, <2>2, <3>1, <3>2, DrawKeeps
  <2>3. CASE Goto(p, "load")
    BY <2>1, <2>3, TypesAre, GoesOn
  <2>. QED
    BY <2>1, <2>2, <2>3
<1>3. CASE GenCert(p)
  <2>1. p \in Writers /\ DrawPair(p, "create cert") /\ at[p].step = "off"
    BY <1>3 DEF GenCert, Is, Writers
  <2>2. ~Half(at[p]) /\ at[p].step \notin WriteSteps
    BY <2>1 DEF Half, WriteSteps
  <2>3. /\ tls' = tls /\ admin' = admin /\ schema' = schema /\ recorded' = recorded
        /\ cert' = cert /\ key' = key /\ faults' = faults /\ cut' = cut
    BY <1>3 DEF GenCert, NoFault, databaseVars, fileVars
  <2>. QED
    BY <2>1, <2>2, <2>3, DrawKeeps
<1>4. CASE CreateCert(p)
  <2>1. /\ at[p].step = "create cert" /\ at' = [at EXCEPT ![p].step = "fill cert"]
        /\ admin' = admin /\ tls' = tls /\ faults' = faults /\ cert' = Blank /\ key' = key
        /\ schema' = schema /\ recorded' = recorded
    BY <1>4 DEF CreateCert, databaseVars, Is
  <2>2. cut' \in SUBSET Cuts /\ cut \subseteq cut'
    BY <1>4, TypesAre DEF CreateCert, Cuts
  <2>3. cert' \in File /\ key' \in File
    BY <2>1, TypesAre DEF File
  <2>4. {"create cert", "fill cert"} \subseteq WriteSteps
    BY DEF WriteSteps
  <2>. QED
    BY <2>1, <2>2, <2>3, <2>4, WritesKeep
<1>5. CASE FillCert(p)
  <2>1. /\ at[p].step = "fill cert" /\ at' = [at EXCEPT ![p].step = "create key"]
        /\ admin' = admin /\ tls' = tls /\ faults' = faults /\ cut' = cut
        /\ cert' = at[p].pair /\ key' = key
        /\ schema' = schema /\ recorded' = recorded
    BY <1>5 DEF FillCert, NoFault, databaseVars, Is
  <2>2. {"fill cert", "create key"} \subseteq WriteSteps
    BY DEF WriteSteps
  <2>. QED
    BY <1>1, <2>1, <2>2, TypesAre, WritesKeep
<1>6. CASE CreateKey(p)
  <2>1. /\ at[p].step = "create key" /\ at' = [at EXCEPT ![p].step = "fill key"]
        /\ admin' = admin /\ tls' = tls /\ faults' = faults /\ cut' = cut
        /\ cert' = cert /\ key' = Blank
        /\ schema' = schema /\ recorded' = recorded
    BY <1>6 DEF CreateKey, NoFault, databaseVars, Is
  <2>2. cert' \in File /\ key' \in File
    BY <2>1, TypesAre DEF File
  <2>3. {"create key", "fill key"} \subseteq WriteSteps
    BY DEF WriteSteps
  <2>. QED
    BY <2>1, <2>2, <2>3, TypesAre, WritesKeep
<1>7. CASE FillKey(p)
  <2>1. /\ at[p].step = "fill key" /\ admin' = admin /\ tls' = tls /\ faults' = faults
        /\ cut' = cut /\ cert' = cert /\ key' = at[p].pair
        /\ schema' = schema /\ recorded' = recorded
        /\ Goto(p, "load") \/ Goto(p, "done")
    BY <1>7 DEF FillKey, NoFault, databaseVars, Is
  <2>. QED
    BY <1>1, <2>1, TypesAre, GoesOn
<1>8. CASE LoadPair(p)
  <2>1. /\ at[p].step = "load" /\ admin' = admin /\ cert' = cert /\ key' = key
        /\ schema' = schema /\ recorded' = recorded
        /\ Fails(p) \/ (Goto(p, "up") /\ NoFault)
    BY <1>8 DEF LoadPair, databaseVars, fileVars, Is
  <2>2. CASE Fails(p)
    BY <2>1, <2>2, TypesAre, FailKeeps
  <2>3. CASE Goto(p, "up") /\ NoFault
    <3>1. tls' = tls /\ faults' = faults /\ cut' = cut
      BY <2>3 DEF NoFault
    <3>. QED
      BY <2>1, <2>3, <3>1, TypesAre, GoesOn
  <2>. QED
    BY <2>1, <2>2, <2>3
<1>. QED
  BY <1>2, <1>3, <1>4, <1>5, <1>6, <1>7, <1>8

LEMMA SchemaNext == SchemaInv /\ [StartupNext]_startupVars => SchemaInv'
<1>. SUFFICES ASSUME SchemaInv, [StartupNext]_startupVars PROVE SchemaInv'
  OBVIOUS
<1>1. ASSUME NEW p \in Processes, Works(p) PROVE SchemaInv'
  BY <1>1, CheckKeeps, StatementKeeps, RecordKeeps, NoteKeeps, UsersKeep, FilesKeep DEF Works
<1>2. CASE StartupNext
  BY <1>1, <1>2, OpenKeeps, FilesKeep, EndingsKeep DEF StartupNext
<1>3. CASE UNCHANGED startupVars
  BY <1>3 DEF startupVars, databaseVars, fileVars, SchemaInv, StartupTypeOK, RecordedIsThere,
     Between, Half, May, Done, Is
<1>. QED
  BY <1>2, <1>3

THEOREM SchemaInvInvariant == StartupSpec => []SchemaInv
BY SchemaInit, SchemaNext, PTL DEF StartupSpec

THEOREM StartupTypeCorrect == StartupSpec => []StartupTypeOK
<1>1. SchemaInv => StartupTypeOK
  BY DEF SchemaInv
<1>. QED
  BY <1>1, SchemaInvInvariant, PTL

THEOREM RecordedIsThereCorrect == StartupSpec => []RecordedIsThere
<1>1. SchemaInv => RecordedIsThere
  BY DEF SchemaInv
<1>. QED
  BY <1>1, SchemaInvInvariant, PTL

-----------------------------------------------------------------------------
(* The limiters.                                                           *)

\* TakenSince of userLimiter, and requests served, later than w.
TakenSince(a, w) == {e \in userTimes[a] : e.at > w}
ServedSince(a, w) == {i \in DOMAIN served : served[i].addr = a /\ served[i].at > w}

ListsFinite == \A a \in Addrs : IsFiniteSet(ipTimes[a]) /\ IsFiniteSet(userTimes[a])

\* The entries of one time are numbered from 0 on.
NumberedFromZero ==
  \A a \in Addrs : \A e \in userTimes[a] : e.n < Cardinality({f \in userTimes[a] : f.at = e.at})

PastOnly == \A i \in DOMAIN served : served[i].at <= now

\* From the start of the window on, the list of a connection holds an entry for each
\* request of it that was served, whatever was thrown out and refused meanwhile.
ListCounts ==
  \A a \in Addrs, w \in Int :
    w >= now - Window => Cardinality(TakenSince(a, w)) = Cardinality(ServedSince(a, w))

LimiterInv ==
  /\ LimiterTypeOK
  /\ ListsFinite /\ NumberedFromZero /\ PastOnly /\ ListCounts
  /\ WindowBound /\ UserRefusalEarned

LEMMA ServedFinite ==
  ASSUME served \in Seq(Served), NEW S \in SUBSET DOMAIN served
  PROVE  IsFiniteSet(S) /\ Cardinality(S) \in Nat
<1>1. DOMAIN served = 1..Len(served) /\ Len(served) \in Nat
  OBVIOUS
<1>2. IsFiniteSet(1..Len(served))
  BY <1>1, FS_Interval
<1>. QED
  BY <1>1, <1>2, FS_Subset, FS_CardinalityType

LEMMA ServedAre ==
  ASSUME LimiterTypeOK, NEW i \in DOMAIN served
  PROVE  served[i] \in Served /\ served[i].at \in Nat
<1>1. served \in Seq(Served)
  BY DEF LimiterTypeOK
<1>2. i \in 1..Len(served)
  BY <1>1
<1>3. served[i] \in Served
  BY <1>1, <1>2
<1>. QED
  BY <1>3 DEF Served

\* The filter of Allow and the entry it adds.
LEMMA AfterIsList ==
  ASSUME now \in Nat, NEW times \in SUBSET Attempt, IsFiniteSet(times), NEW limit
  PROVE  /\ After(times, limit) \in SUBSET Attempt
         /\ IsFiniteSet(After(times, limit))
<1>1. IsFiniteSet(Valid(times)) /\ Valid(times) \in SUBSET Attempt
  BY FS_Subset DEF Valid
<1>2. NewAttempt(times) \in Attempt
  <2>1. IsFiniteSet({e \in times : e.at = now})
    BY FS_Subset
  <2>. QED
    BY <2>1, FS_CardinalityType DEF NewAttempt, Attempt
<1>3. CASE Allows(times, limit)
  <2>1. After(times, limit) = Valid(times) \cup {NewAttempt(times)}
    BY <1>3 DEF After
  <2>. QED
    BY <1>1, <1>2, <2>1, FS_AddElement
<1>4. CASE ~Allows(times, limit)
  <2>1. After(times, limit) = Valid(times)
    BY <1>4 DEF After
  <2>. QED
    BY <1>1, <2>1
<1>. QED
  BY <1>3, <1>4

\* The window that ends now.
LEMMA ServedNow ==
  ASSUME LimiterTypeOK, PastOnly, NEW a \in Addrs
  PROVE  ServedIn(now, a) = ServedSince(a, now - Window)
<1>1. now \in Nat /\ Window \in Nat /\ \A i \in DOMAIN served : served[i].at \in Nat
  BY LimiterAssumption, ServedAre DEF LimiterTypeOK
<1>2. \A i \in DOMAIN served : served[i].at \in (now - Window + 1)..now <=> served[i].at > now - Window
  BY <1>1 DEF PastOnly
<1>. QED
  BY <1>2 DEF ServedIn, ServedSince

LEMMA LimiterInitInv == LimiterInit => LimiterInv
<1>. SUFFICES ASSUME LimiterInit PROVE LimiterInv
  OBVIOUS
<1>1. LimiterTypeOK
  BY DEF LimiterInit, LimiterTypeOK
<1>2. served = <<>> /\ DOMAIN served = {} /\ \A a \in Addrs : ipTimes[a] = {} /\ userTimes[a] = {}
  BY DEF LimiterInit
<1>3. ListsFinite /\ NumberedFromZero /\ PastOnly
  BY <1>2, FS_EmptySet DEF ListsFinite, NumberedFromZero, PastOnly
<1>4. ListCounts
  BY <1>2 DEF ListCounts, TakenSince, ServedSince
<1>5. WindowBound
  <2>1. \A a \in Addrs, t \in 0..now : ServedIn(t, a) = {}
    BY <1>2 DEF ServedIn
  <2>2. Cardinality({}) = 0
    BY FS_EmptySet
  <2>. QED
    BY <2>1, <2>2, LimiterAssumption DEF WindowBound
<1>6. UserRefusalEarned
  BY DEF LimiterInit, NoRefusal, UserRefusalEarned
<1>. QED
  BY <1>1, <1>3, <1>4, <1>5, <1>6 DEF LimiterInv

\* Nothing but an answer of ipLimiter.
LEMMA AskIPKeeps ==
  ASSUME LimiterInv, NEW r \in Requests, NEW q \in Request, AskIP(r, q)
  PROVE  LimiterInv'
<1>1. now' = now /\ userTimes' = userTimes /\ served' = served
  BY DEF AskIP
<1>2. /\ q.addr \in Addrs /\ ipTimes[q.addr] \in SUBSET Attempt /\ IsFiniteSet(ipTimes[q.addr])
      /\ now \in Nat
  BY DEF Request, LimiterInv, LimiterTypeOK, ListsFinite
<1>3. PICK L : L = After(ipTimes[q.addr], IPLimit)
  OBVIOUS
<1>4. L \in SUBSET Attempt /\ IsFiniteSet(L) /\ ipTimes' = [ipTimes EXCEPT ![q.addr] = L]
  BY <1>2, <1>3, AfterIsList DEF AskIP
<1>5. last' \in Refusal \cup {NoRefusal} /\ last'.by # "user" /\ pc' \in [Requests -> {"ip", "user"}]
  BY <1>2 DEF AskIP, Refusal, NoRefusal, LimiterInv, LimiterTypeOK
<1>6. LimiterTypeOK'
  BY <1>1, <1>4, <1>5 DEF AskIP, LimiterInv, LimiterTypeOK
<1>7. ListsFinite'
  BY <1>1, <1>2, <1>4 DEF ListsFinite, LimiterInv, LimiterTypeOK
<1>8. NumberedFromZero' /\ PastOnly' /\ ListCounts' /\ WindowBound'
  BY <1>1 DEF LimiterInv, NumberedFromZero, PastOnly, ListCounts, TakenSince, ServedSince, WindowBound, ServedIn
<1>9. UserRefusalEarned'
  BY <1>5 DEF UserRefusalEarned
<1>. QED
  BY <1>6, <1>7, <1>8, <1>9 DEF LimiterInv

LEMMA TickKeeps ==
  ASSUME LimiterInv, LimiterTick
  PROVE  LimiterInv'
<1>1. /\ now' = now + 1 /\ last' = NoRefusal /\ userTimes' = userTimes /\ served' = served
      /\ ipTimes' = ipTimes /\ pc' = pc /\ request' = request /\ now \in Nat /\ Window \in Nat \ {0}
  BY LimiterAssumption DEF LimiterTick, LimiterInv, LimiterTypeOK
<1>2. LimiterTypeOK'
  BY <1>1 DEF LimiterInv, LimiterTypeOK
<1>3. ListsFinite' /\ NumberedFromZero'
  BY <1>1 DEF LimiterInv, ListsFinite, NumberedFromZero
<1>4. PastOnly'
  BY <1>1, ServedAre DEF LimiterInv, PastOnly
<1>5. ListCounts'
  <2>. SUFFICES ASSUME NEW a \in Addrs, NEW w \in Int, w >= now + 1 - Window
                PROVE  Cardinality(TakenSince(a, w)) = Cardinality(ServedSince(a, w))
    BY <1>1 DEF ListCounts, TakenSince, ServedSince
  <2>1. w >= now - Window
    BY <1>1
  <2>. QED
    BY <2>1 DEF LimiterInv, ListCounts
<1>6. WindowBound'
  <2>. SUFFICES ASSUME NEW a \in Addrs, NEW t \in 0..(now + 1)
                PROVE  Cardinality(ServedIn(t, a)) <= UserLimit
    BY <1>1 DEF WindowBound, ServedIn
  <2>1. CASE t \in 0..now
    BY <2>1 DEF LimiterInv, WindowBound
  <2>2. CASE t = now + 1
    <3>1. \A i \in DOMAIN served : served[i].at \in Nat /\ served[i].at <= now
      BY ServedAre DEF LimiterInv, PastOnly
    <3>2. ServedIn(t, a) \subseteq ServedIn(now, a)
      BY <1>1, <2>2, <3>1 DEF ServedIn
    <3>3. IsFiniteSet(ServedIn(now, a)) /\ Cardinality(ServedIn(now, a)) \in Nat
      BY ServedFinite DEF ServedIn, LimiterInv, LimiterTypeOK
    <3>4. IsFiniteSet(ServedIn(t, a)) /\ Cardinality(ServedIn(t, a)) <= Cardinality(ServedIn(now, a))
          /\ Cardinality(ServedIn(t, a)) \in Nat
      BY <3>2, <3>3, FS_Subset, FS_CardinalityType
    <3>5. Cardinality(ServedIn(now, a)) <= UserLimit
      BY <1>1 DEF LimiterInv, WindowBound
    <3>. QED
      BY <3>3, <3>4, <3>5, LimiterAssumption
  <2>. QED
    BY <1>1, <2>1, <2>2
<1>7. UserRefusalEarned'
  BY <1>1 DEF NoRefusal, UserRefusalEarned
<1>. QED
  BY <1>2, <1>3, <1>4, <1>5, <1>6, <1>7 DEF LimiterInv

\* An entry of this instant, on a list in which it is number Len.
LEMMA AllowedList ==
  ASSUME now \in Nat, NEW times \in SUBSET Attempt, IsFiniteSet(times),
         \A e \in times : e.n < Cardinality({f \in times : f.at = e.at}),
         NEW U, U = Valid(times) \cup {NewAttempt(times)}
  PROVE  /\ NewAttempt(times) \notin times /\ NewAttempt(times).at = now
         /\ \A e \in U : e.n < Cardinality({f \in U : f.at = e.at})
<1>1. PICK new : new = NewAttempt(times)
  OBVIOUS
<1>2. PICK S : S = {f \in times : f.at = now}
  OBVIOUS
<1>3. IsFiniteSet(S) /\ Cardinality(S) \in Nat
  BY <1>2, FS_Subset, FS_CardinalityType
<1>4. new.at = now /\ new.n = Cardinality(S)
  BY <1>1, <1>2 DEF NewAttempt
<1>5. new \notin times
  <2>. SUFFICES ASSUME new \in times PROVE FALSE
    OBVIOUS
  <2>1. new.n < Cardinality({f \in times : f.at = new.at})
    OBVIOUS
  <2>. QED
    BY <1>2, <1>3, <1>4, <2>1
<1>6. Fresh(now)
  BY LimiterAssumption DEF Fresh
<1>7. \A e \in U : e.at = now => e = new \/ e \in S
  BY <1>1, <1>2 DEF Valid
<1>8. S \subseteq U
  BY <1>2, <1>6 DEF Valid
<1>9. {f \in U : f.at = now} = S \cup {new}
  BY <1>1, <1>2, <1>4, <1>7, <1>8
<1>10. Cardinality(S \cup {new}) = Cardinality(S) + 1
  <2>1. new \notin S
    BY <1>2, <1>5
  <2>. QED
    BY <1>3, <2>1, FS_AddElement
<1>11. ASSUME NEW e \in U PROVE e.n < Cardinality({f \in U : f.at = e.at})
  <2>0. PICK T : T = {f \in U : f.at = e.at}
    OBVIOUS
  <2>1. CASE e = new
    <3>1. T = S \cup {new}
      BY <1>4, <1>9, <2>0, <2>1
    <3>2. Cardinality(T) = Cardinality(S) + 1
      BY <1>10, <3>1
    <3>3. e.n < Cardinality(T)
      BY <1>3, <1>4, <2>1, <3>2
    <3>. QED
      BY <2>0, <3>3
  <2>2. CASE e # new /\ e.at = now
    <3>1. e \in times /\ e.n \in Nat /\ e \in S
      BY <1>2, <1>7, <2>2 DEF Attempt
    <3>2. S = {f \in times : f.at = e.at}
      BY <1>2, <2>2
    <3>3. e.n < Cardinality(S)
      BY <3>1, <3>2
    <3>4. T = S \cup {new}
      BY <1>9, <2>0, <2>2
    <3>5. Cardinality(T) = Cardinality(S) + 1
      BY <1>10, <3>4
    <3>6. e.n < Cardinality(T)
      BY <1>3, <3>1, <3>3, <3>5
    <3>. QED
      BY <2>0, <3>6
  <2>3. CASE e # new /\ e.at # now
    <3>1. e \in times /\ Fresh(e.at)
      BY <1>1, <2>3 DEF Valid
    <3>2. {f \in U : f.at = e.at} = {f \in times : f.at = e.at}
      BY <1>1, <1>4, <2>3, <3>1 DEF Valid
    <3>. QED
      BY <3>1, <3>2
  <2>. QED
    BY <2>1, <2>2, <2>3
<1>. QED
  BY <1>1, <1>4, <1>5, <1>11

LEMMA RefusedList ==
  ASSUME NEW times, \A e \in times : e.n < Cardinality({f \in times : f.at = e.at}),
         NEW U, U = Valid(times)
  PROVE  \A e \in U : e.n < Cardinality({f \in U : f.at = e.at})
<1>. SUFFICES ASSUME NEW e \in U PROVE e.n < Cardinality({f \in U : f.at = e.at})
  OBVIOUS
<1>1. e \in times /\ Fresh(e.at)
  BY DEF Valid
<1>2. {f \in U : f.at = e.at} = {f \in times : f.at = e.at}
  BY <1>1 DEF Valid
<1>. QED
  BY <1>1, <1>2

LEMMA AskUserKeeps ==
  ASSUME LimiterInv, NEW r \in Requests, AskUser(r)
  PROVE  LimiterInv'
<1>1. PICK a, times, U : a = request[r].addr /\ times = userTimes[a] /\ U = After(times, UserLimit)
  OBVIOUS
<1>2. /\ a \in Addrs /\ request[r].user \in Users /\ times \in SUBSET Attempt /\ IsFiniteSet(times)
      /\ now \in Nat /\ now \in Int /\ Window \in Nat \ {0} /\ UserLimit \in Nat
      /\ \A e \in times : e.n < Cardinality({f \in times : f.at = e.at})
  <2>1. request[r] \in Request /\ now \in Nat
    BY DEF LimiterInv, LimiterTypeOK
  <2>2. a \in Addrs /\ request[r].user \in Users
    BY <1>1, <2>1 DEF Request
  <2>3. times \in SUBSET Attempt /\ IsFiniteSet(times)
    BY <1>1, <2>2 DEF LimiterInv, LimiterTypeOK, ListsFinite
  <2>4. \A e \in times : e.n < Cardinality({f \in times : f.at = e.at})
    BY <1>1, <2>2 DEF LimiterInv, NumberedFromZero
  <2>. QED
    BY <2>1, <2>2, <2>3, <2>4, LimiterAssumption
<1>3. U \in SUBSET Attempt /\ IsFiniteSet(U)
  BY <1>1, <1>2, AfterIsList
<1>4. /\ userTimes' = [userTimes EXCEPT ![a] = U] /\ pc' = [pc EXCEPT ![r] = "ip"]
      /\ now' = now /\ ipTimes' = ipTimes /\ request' = request
  BY <1>1 DEF AskUser
<1>5. /\ userTimes \in [Addrs -> SUBSET Attempt] /\ userTimes' \in [Addrs -> SUBSET Attempt]
      /\ userTimes'[a] = U /\ \A b \in Addrs \ {a} : userTimes'[b] = userTimes[b]
  BY <1>2, <1>3, <1>4 DEF LimiterInv, LimiterTypeOK
<1>6. ListsFinite'
  BY <1>3, <1>4, <1>5 DEF LimiterInv, ListsFinite
<1>7. /\ served \in Seq(Served) /\ DOMAIN served = 1..Len(served) /\ Len(served) \in Nat
      /\ \A i \in DOMAIN served : served[i].at \in Nat /\ served[i].at <= now
  BY ServedAre DEF LimiterInv, LimiterTypeOK, PastOnly
<1>8. PICK V : V = Valid(times)
  OBVIOUS
<1>9. /\ now - Window \in Int /\ V = TakenSince(a, now - Window)
      /\ Cardinality(V) = Cardinality(ServedIn(now, a)) /\ Cardinality(V) \in Nat
  <2>1. V = TakenSince(a, now - Window) /\ IsFiniteSet(V) /\ Cardinality(V) \in Nat
    BY <1>1, <1>2, <1>8, FS_Subset, FS_CardinalityType DEF Valid, Fresh, TakenSince
  <2>2. now - Window \in Int
    BY <1>2
  <2>3. Cardinality(V) = Cardinality(ServedSince(a, now - Window))
    BY <1>2, <2>1, <2>2 DEF LimiterInv, ListCounts
  <2>. QED
    BY <1>2, <2>1, <2>2, <2>3, ServedNow DEF LimiterInv
<1>10. CASE Allows(times, UserLimit)
  <2>1. PICK new, s : new = NewAttempt(times) /\ s = [at |-> now, addr |-> a, user |-> request[r].user]
    OBVIOUS
  <2>2. U = V \cup {new}
    BY <1>1, <1>8, <1>10, <2>1 DEF After
  <2>3. new \notin times /\ new.at = now /\ \A e \in U : e.n < Cardinality({f \in U : f.at = e.at})
    BY <1>2, <1>8, <2>1, <2>2, AllowedList
  <2>4. s \in Served /\ s.at = now /\ s.addr = a
    BY <1>2, <2>1 DEF Served
  <2>5. served' = Append(served, s) /\ last' = NoRefusal
    BY <1>1, <1>10, <2>1 DEF AskUser
  <2>6. /\ served' \in Seq(Served) /\ DOMAIN served' = 1..(Len(served) + 1)
        /\ served'[Len(served) + 1] = s
        /\ \A i \in DOMAIN served : i \in DOMAIN served' /\ served'[i] = served[i]
    BY <1>7, <2>4, <2>5
  <2>7. LimiterTypeOK'
    BY <1>4, <1>5, <2>5, <2>6 DEF LimiterInv, LimiterTypeOK
  <2>8. NumberedFromZero'
    BY <1>5, <2>3 DEF LimiterInv, NumberedFromZero
  <2>9. PastOnly'
    BY <1>2, <1>4, <1>7, <2>4, <2>6 DEF PastOnly
  <2>10. ListCounts'
    <3>. SUFFICES ASSUME NEW b \in Addrs, NEW w \in Int, w >= now - Window
                  PROVE  Cardinality({e \in userTimes'[b] : e.at > w})
                           = Cardinality({i \in DOMAIN served' : served'[i].addr = b /\ served'[i].at > w})
      BY <1>4 DEF ListCounts, TakenSince, ServedSince
    <3>1. PICK E, D, F, G : /\ E = TakenSince(b, w) /\ D = ServedSince(b, w)
                            /\ F = {e \in userTimes'[b] : e.at > w}
                            /\ G = {i \in DOMAIN served' : served'[i].addr = b /\ served'[i].at > w}
      OBVIOUS
    <3>2. Cardinality(E) = Cardinality(D)
      BY <3>1 DEF LimiterInv, ListCounts
    <3>3. IsFiniteSet(E) /\ IsFiniteSet(D)
      <4>1. IsFiniteSet(E)
        BY <3>1, FS_Subset DEF TakenSince, LimiterInv, ListsFinite
      <4>2. D \in SUBSET DOMAIN served
        BY <3>1 DEF ServedSince
      <4>. QED
        BY <1>7, <4>1, <4>2, ServedFinite
    <3>4. CASE b = a /\ now > w
      <4>1. F = E \cup {new}
        <5>1. \A e \in V : e \in times
          BY <1>8 DEF Valid
        <5>2. \A e \in times : e.at > w => e \in V
          BY <1>2, <1>8 DEF Valid, Fresh, Attempt
        <5>. QED
          BY <1>1, <1>5, <2>2, <2>3, <3>1, <3>4, <5>1, <5>2 DEF TakenSince
      <4>2. new \notin E
        BY <1>1, <2>3, <3>1, <3>4 DEF TakenSince
      <4>3. G = D \cup {Len(served) + 1} /\ Len(served) + 1 \notin D
        BY <1>7, <2>4, <2>6, <3>1, <3>4 DEF ServedSince
      <4>4. Cardinality(F) = Cardinality(E) + 1
        BY <3>3, <4>1, <4>2, FS_AddElement
      <4>5. Cardinality(G) = Cardinality(D) + 1
        BY <3>3, <4>3, FS_AddElement
      <4>. QED
        BY <3>1, <3>2, <4>4, <4>5
    <3>5. CASE ~(b = a /\ now > w)
      <4>1. F = E
        <5>1. CASE b # a
          BY <1>5, <3>1, <5>1 DEF TakenSince
        <5>2. CASE b = a
          <6>1. \A e \in V : e \in times
            BY <1>8 DEF Valid
          <6>2. \A e \in times : e.at > w => e \in V
            BY <1>2, <1>8 DEF Valid, Fresh, Attempt
          <6>. QED
            BY <1>1, <1>5, <2>2, <2>3, <3>1, <3>5, <5>2, <6>1, <6>2 DEF TakenSince
        <5>. QED
          BY <5>1, <5>2
      <4>2. G = D
        BY <1>7, <2>4, <2>6, <3>1, <3>5 DEF ServedSince
      <4>. QED
        BY <3>1, <3>2, <4>1, <4>2
    <3>. QED
      BY <3>4, <3>5
  <2>11. WindowBound'
    <3>. SUFFICES ASSUME NEW b \in Addrs, NEW t \in 0..now
                  PROVE  Cardinality({i \in DOMAIN served' : served'[i].addr = b
                                       /\ served'[i].at \in (t - Window + 1)..t}) <= UserLimit
      BY <1>4 DEF WindowBound, ServedIn
    <3>1. PICK D, G : /\ D = ServedIn(t, b)
                      /\ G = {i \in DOMAIN served' : served'[i].addr = b
                                       /\ served'[i].at \in (t - Window + 1)..t}
      OBVIOUS
    <3>2. Cardinality(D) <= UserLimit
      BY <3>1 DEF LimiterInv, WindowBound
    <3>3. CASE b = a /\ t = now
      <4>1. G = D \cup {Len(served) + 1} /\ Len(served) + 1 \notin D
        BY <1>2, <1>7, <2>4, <2>6, <3>1, <3>3 DEF ServedIn
      <4>2. D \in SUBSET DOMAIN served
        BY <3>1 DEF ServedIn
      <4>3. IsFiniteSet(D) /\ Cardinality(D) \in Nat
        BY <1>7, <4>2, ServedFinite
      <4>4. Cardinality(G) = Cardinality(D) + 1
        BY <4>1, <4>3, FS_AddElement
      <4>5. Cardinality(V) < UserLimit
        BY <1>8, <1>10 DEF Allows
      <4>6. Cardinality(D) = Cardinality(V)
        BY <1>9, <3>1, <3>3
      <4>7. Cardinality(G) <= UserLimit
        BY <1>2, <4>3, <4>4, <4>5, <4>6
      <4>. QED
        BY <3>1, <4>7
    <3>4. CASE ~(b = a /\ t = now)
      <4>1. G = D
        <5>1. b = a => ~(now \in (t - Window + 1)..t)
          BY <1>2, <3>4
        <5>. QED
          BY <1>7, <2>4, <2>6, <3>1, <5>1 DEF ServedIn
      <4>. QED
        BY <3>1, <3>2, <4>1
    <3>. QED
      BY <3>3, <3>4
  <2>12. UserRefusalEarned'
    BY <2>5 DEF NoRefusal, UserRefusalEarned
  <2>. QED
    BY <1>6, <2>7, <2>8, <2>9, <2>10, <2>11, <2>12 DEF LimiterInv
<1>11. CASE ~Allows(times, UserLimit)
  <2>1. U = V
    BY <1>1, <1>8, <1>11 DEF After
  <2>2. last' = [by |-> "user", addr |-> a] /\ served' = served
    BY <1>1, <1>11 DEF AskUser
  <2>3. LimiterTypeOK'
    BY <1>2, <1>4, <1>5, <2>2 DEF LimiterInv, LimiterTypeOK, Refusal
  <2>4. NumberedFromZero'
    <3>1. \A e \in U : e.n < Cardinality({f \in U : f.at = e.at})
      BY <1>2, <1>8, <2>1, RefusedList
    <3>. QED
      BY <1>5, <3>1 DEF LimiterInv, NumberedFromZero
  <2>5. PastOnly' /\ WindowBound'
    BY <1>4, <2>2 DEF LimiterInv, PastOnly, WindowBound, ServedIn
  <2>6. ListCounts'
    <3>. SUFFICES ASSUME NEW b \in Addrs, NEW w \in Int, w >= now - Window
                  PROVE  Cardinality({e \in userTimes'[b] : e.at > w}) = Cardinality(ServedSince(b, w))
      BY <1>4, <2>2 DEF ListCounts, TakenSince, ServedSince
    <3>1. {e \in userTimes'[b] : e.at > w} = TakenSince(b, w)
      <4>1. CASE b # a
        BY <1>5, <4>1 DEF TakenSince
      <4>2. CASE b = a
        <5>1. \A e \in V : e \in times
          BY <1>8 DEF Valid
        <5>2. \A e \in times : e.at > w => e \in V
          BY <1>2, <1>8 DEF Valid, Fresh, Attempt
        <5>. QED
          BY <1>1, <1>5, <2>1, <4>2, <5>1, <5>2 DEF TakenSince
      <4>. QED
        BY <4>1, <4>2
    <3>2. Cardinality(TakenSince(b, w)) = Cardinality(ServedSince(b, w))
      BY DEF LimiterInv, ListCounts
    <3>. QED
      BY <3>1, <3>2
  <2>7. UserRefusalEarned'
    <3>1. Cardinality(V) >= UserLimit
      BY <1>2, <1>8, <1>9, <1>11 DEF Allows
    <3>2. Cardinality(ServedIn(now, a)) <= UserLimit
      BY <1>2 DEF LimiterInv, WindowBound
    <3>3. Cardinality(ServedIn(now, a)) = UserLimit
      BY <1>2, <1>9, <3>1, <3>2
    <3>. QED
      BY <1>4, <2>2, <3>3 DEF UserRefusalEarned, ServedIn
  <2>. QED
    BY <1>6, <2>3, <2>4, <2>5, <2>6, <2>7 DEF LimiterInv
<1>. QED
  BY <1>10, <1>11

LEMMA LimiterNextInv == LimiterInv /\ [LimiterNext]_limiterVars => LimiterInv'
<1>. SUFFICES ASSUME LimiterInv, [LimiterNext]_limiterVars PROVE LimiterInv'
  OBVIOUS
<1>1. CASE LimiterNext
  BY <1>1, AskIPKeeps, AskUserKeeps, TickKeeps DEF LimiterNext
<1>2. CASE UNCHANGED limiterVars
  <2>1. /\ now' = now /\ ipTimes' = ipTimes /\ userTimes' = userTimes /\ pc' = pc
        /\ request' = request /\ served' = served /\ last' = last
    BY <1>2 DEF limiterVars
  <2>2. LimiterTypeOK' /\ ListsFinite' /\ NumberedFromZero' /\ PastOnly'
    BY <2>1 DEF LimiterInv, LimiterTypeOK, ListsFinite, NumberedFromZero, PastOnly
  <2>3. ListCounts'
    BY <2>1 DEF LimiterInv, ListCounts, TakenSince, ServedSince
  <2>4. WindowBound' /\ UserRefusalEarned'
    BY <2>1 DEF LimiterInv, WindowBound, ServedIn, UserRefusalEarned
  <2>. QED
    BY <2>2, <2>3, <2>4 DEF LimiterInv
<1>. QED
  BY <1>1, <1>2

THEOREM LimiterInvInvariant == LimiterSpec => []LimiterInv
BY LimiterInitInv, LimiterNextInv, PTL DEF LimiterSpec

THEOREM LimiterTypeCorrect == LimiterSpec => []LimiterTypeOK
<1>1. LimiterInv => LimiterTypeOK
  BY DEF LimiterInv
<1>. QED
  BY <1>1, LimiterInvInvariant, PTL

THEOREM WindowBoundCorrect == LimiterSpec => []WindowBound
<1>1. LimiterInv => WindowBound
  BY DEF LimiterInv
<1>. QED
  BY <1>1, LimiterInvInvariant, PTL

THEOREM UserRefusalEarnedCorrect == LimiterSpec => []UserRefusalEarned
<1>1. LimiterInv => UserRefusalEarned
  BY DEF LimiterInv
<1>. QED
  BY <1>1, LimiterInvInvariant, PTL
=============================================================================
