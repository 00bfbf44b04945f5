-------------------------- MODULE Backups_proofs --------------------------
(***************************************************************************)
(* Proofs about backups and restores: what a listed backup holds, what a   *)
(* restore brings back, and which backups the scheduler removes, for any   *)
(* number of databases, handlers, backups and seconds, under every         *)
(* interleaving and every crash.                                           *)
(***************************************************************************)
EXTENDS Backups, FunctionTheorems, FiniteSetTheorems, NaturalsInduction, TLAPS

-----------------------------------------------------------------------------
(* The inductive invariant.                                                *)

Copying == {"copy 1", "copy 2", "rename"}
BackingUp == {"checkpoint", "create"} \cup Copying
Restoring == {"restore 1", "restore 2", "open"}

Busy(j) == pc[j] \notin {"idle", "list", "prune"}
\* None of the causes was met by job j.
Free(j, causes) == job[j].met \cap causes = {}

\* The log is never ahead of the transactions.
Counted ==
  \A d \in Databases : commits[d] >= 1 /\ wal[d] <= commits[d] /\ wal[d] <= MaxCommits

\* Every name and every job has a file that was made.
Made ==
  /\ \A n \in BackupName : tmp[n] <= made /\ backups[n] <= made
  /\ \A j \in Jobs : pc[j] \in Copying \cup Restoring => job[j].file \in 1..made

\* A file with a name was finished, once, and is no longer a temporary one.
Records ==
  /\ IsFiniteSet(finished)
  /\ \A done, same \in finished : done.file = same.file => done = same
  /\ \A done \in finished : done.file <= made /\ \A n \in BackupName : tmp[n] # done.file
  /\ \A n \in Listed : \E done \in finished : done.file = backups[n] /\ done.name = n
  /\ \A f \in pruned : \E done \in finished : done.file = f
  /\ \A n, m \in BackupName : tmp[n] = tmp[m] /\ tmp[n] > 0 => n = m

\* Two jobs on one database know it.
Alone ==
  /\ \A j \in Jobs : pc[j] \in BackingUp => job[j].name.db = job[j].db
  /\ \A i, j \in Jobs : i # j /\ Busy(i) /\ Busy(j) /\ job[i].db = job[j].db
                          => "overlap" \in job[i].met

\* A file is written by jobs on one database, and by no job that is not to give it
\* its name, unless another one did that before.
Owned ==
  /\ \A j \in Jobs, n \in BackupName : pc[j] \in Copying /\ tmp[n] = job[j].file => n.db = job[j].db
  /\ \A i, j \in Jobs : pc[i] \in Copying /\ pc[j] \in Copying /\ job[i].file = job[j].file
                          => job[i].db = job[j].db
  /\ \A j \in Jobs : pc[j] \in Copying /\ tmp[job[j].name] # job[j].file
                       => Shared(job[j].file) /\ "overlap" \in job[j].met

\* What a backup copies is whole, and so is the copy.
WholeCopy(j) ==
  LET d == job[j].db
      f == job[j].file
  IN  /\ pc[j] \in BackingUp \ {"rename"} /\ Free(j, {"torn", "overlap"}) => Whole(main[d])
      /\ pc[j] = "copy 2" /\ Free(j, {"torn", "written", "overlap"}) => file[f][1] = main[d][1]
      /\ pc[j] = "rename" /\ Free(j, {"torn", "written", "overlap"}) => Whole(file[f])

\* What a backup was asked for, or later.
Recent(j, transaction) == transaction = job[j].held \/ transaction > job[j].since

\* A backup that empties the log copies nothing older.
CurrentCopy(j) ==
  LET d == job[j].db
      f == job[j].file
  IN  Free(j, {"torn", "busy", "overlap"}) =>
        /\ pc[j] \in BackingUp \ {"rename"} => \A p \in Pages : Recent(j, Holds(d)[p])
        /\ pc[j] \in {"create", "copy 1", "copy 2"} => \A p \in Pages : Recent(j, main[d][p])
        /\ pc[j] = "copy 2" => Recent(j, file[f][1])
        /\ pc[j] = "rename" => \A p \in Pages : Recent(j, file[f][p])

\* A restore reads a finished file into a database with an empty log.
RestoredCopy(j) ==
  LET d == job[j].db
      f == job[j].file
  IN  Free(j, {"busy", "used", "left", "overlap"}) =>
        /\ pc[j] \in {"truncate", "restore 1", "restore 2"} => wal[d] = 0
        /\ pc[j] = "restore 2" /\ ~Shared(f) => main[d][1] = file[f][1]
        /\ pc[j] = "open" /\ ~Shared(f) =>
             \A p \in Pages : Holds(d)[p] = file[f][p] \/ Holds(d)[p] > job[j].since

Copies(j) == WholeCopy(j) /\ CurrentCopy(j) /\ RestoredCopy(j)

\* The last transaction that a job knows of, and the file that a restore reads.
Known ==
  \A j \in Jobs :
    /\ Busy(j) => job[j].since <= commits[job[j].db]
    /\ pc[j] \in Restoring => \E done \in finished : done.file = job[j].file

\* Finished files that were written after file f.
Above(f) == {done \in finished : modTime[done.file] > modTime[f]}

\* What the scheduler is about to remove has enough others above it.
Prunable ==
  \A n \in doomed :
    backups[n] > 0 =>
      \/ \E done \in finished : done.file = backups[n] /\ done.met \cap {"overlap", "doomed"} # {}
      \/ Cardinality(Above(backups[n])) >= KeepCount

Held == /\ Counted /\ Made /\ Records /\ Alone /\ Owned /\ Known
        /\ \A j \in Jobs : Copies(j)
        /\ BackupIsWhole /\ Prunable /\ NewestAreKept

BackupsInv == BackupsTypeOK /\ Held

-----------------------------------------------------------------------------
(* Types.                                                                  *)

\* A set of natural numbers that is not empty has a smallest element.
LEMMA Least ==
  ASSUME NEW S \in SUBSET Nat, S # {}
  PROVE  \E n \in S : \A m \in S : n <= m
<1> DEFINE R == OpToRel(<, Nat)
<1>1. PICK n \in S : \A m \in S : <<m, n>> \notin R
  <2>1. IsWellFoundedOn(R, Nat)
    BY NatLessThanWellFounded
  <2> HIDE DEF R
  <2>. QED
    BY <2>1, WFMin
<1>2. \A m \in S : ~(m < n)
  BY <1>1 DEF OpToRel
<1>. QED
  BY <1>2

\* Finitely many times have a bound.
LEMMA TimesBounded ==
  ASSUME NEW k \in Nat, NEW time \in [1..k -> Nat]
  PROVE  \E u \in Nat : \A g \in 1..k : time[g] <= u
<1> DEFINE Bounded(i) == \E u \in Nat : \A g \in 1..i : time[g] <= u
           S == {i \in 0..k : ~Bounded(i)}
<1>1. CASE S = {}
  <2>1. k \in 0..k
    OBVIOUS
  <2>. QED
    BY <1>1, <2>1
<1>2. CASE S # {}
  <2>1. S \in SUBSET Nat
    OBVIOUS
  <2>2. PICK i \in S : \A m \in S : i <= m
    <3> HIDE DEF S
    <3>. QED
      BY <1>2, <2>1, Least
  <2>3. i \in 0..k /\ ~Bounded(i)
    OBVIOUS
  <2>4. i # 0
    <3>1. \A g \in 1..0 : time[g] <= 0
      OBVIOUS
    <3>. QED
      BY <2>3, <3>1
  <2>5. i - 1 \in 0..k /\ i - 1 \notin S
    <3>1. i - 1 \in 0..k /\ ~(i <= i - 1)
      BY <2>3, <2>4
    <3>2. i - 1 \notin S
      <4> HIDE DEF S
      <4>. QED
        BY <2>2, <3>1
    <3>. QED
      BY <3>1, <3>2
  <2>6. PICK u \in Nat : \A g \in 1..(i - 1) : time[g] <= u
    BY <2>5
  <2>7. i \in 1..k /\ time[i] \in Nat
    BY <2>3, <2>4
  <2>8. PICK v \in Nat : u <= v /\ time[i] <= v
    <3>1. CASE u <= time[i]
      BY <2>7, <3>1
    <3>2. CASE ~(u <= time[i])
      BY <2>7, <3>2
    <3>. QED
      BY <3>1, <3>2
  <2>9. \A g \in 1..i : time[g] <= v
    <3>. SUFFICES ASSUME NEW g \in 1..i PROVE time[g] <= v
      OBVIOUS
    <3>1. time[g] \in Nat
      BY <2>7
    <3>2. CASE g = i
      BY <2>8, <3>2
    <3>3. CASE g # i
      <4>1. g \in 1..(i - 1)
        BY <2>7, <3>3
      <4>. QED
        BY <2>6, <2>8, <3>1, <4>1
    <3>. QED
      BY <3>2, <3>3
  <2>. QED
    BY <2>3, <2>9
<1>. QED
  BY <1>1, <1>2

\* A bounded set of natural numbers with a member has a largest one.
LEMMA MaxIs ==
  ASSUME NEW T \in SUBSET Nat, 0 \in T, NEW u \in Nat, \A t \in T : t <= u
  PROVE  Max(T) \in T /\ \A t \in T : t <= Max(T)
<1> DEFINE U == {v \in Nat : \A t \in T : t <= v}
<1>1. PICK v \in U : \A w \in U : v <= w
  <2>1. u \in U /\ U \in SUBSET Nat
    OBVIOUS
  <2> HIDE DEF U
  <2>. QED
    BY <2>1, Least
<1>2. v \in Nat /\ \A t \in T : t <= v
  BY <1>1
<1>3. v \in T
  <2>. SUFFICES ASSUME v \notin T PROVE FALSE
    OBVIOUS
  <2>1. \A t \in T : t <= v - 1
    BY <1>2
  <2>2. v # 0
    OBVIOUS
  <2>3. v - 1 \in U
    BY <1>2, <2>1, <2>2
  <2>. QED
    BY <1>1, <1>2, <2>3
<1>4. \E x \in T : \A y \in T : x >= y
  BY <1>2, <1>3
<1>5. \A y \in T : Max(T) >= y /\ Max(T) \in T
  BY <1>4 DEF Max
<1>. QED
  BY <1>5

\* A write gives a file a later time than all others have.
LEMMA WrittenLast ==
  ASSUME BackupsTypeOK, NEW f \in FileIds
  PROVE  LET m == Max({modTime[g] : g \in FileIds \ {f}} \cup {0})
         IN  m \in Nat /\ \A g \in FileIds \ {f} : modTime[g] <= m
<1> DEFINE T == {modTime[g] : g \in FileIds \ {f}} \cup {0}
<1>1. MaxFiles \in Nat /\ modTime \in [1..MaxFiles -> Nat]
  BY BackupsAssumption DEF BackupsAssumption, BackupsTypeOK, FileIds
<1>2. PICK u \in Nat : \A g \in 1..MaxFiles : modTime[g] <= u
  BY <1>1, TimesBounded
<1>3. T \in SUBSET Nat /\ 0 \in T /\ \A t \in T : t <= u
  BY <1>1, <1>2 DEF FileIds
<1>4. \A g \in FileIds \ {f} : modTime[g] \in T
  OBVIOUS
<1>5. Max(T) \in T /\ \A t \in T : t <= Max(T)
  <2> HIDE DEF T
  <2>. QED
    BY <1>3, MaxIs
<1> HIDE DEF T
<1>6. Max(T) \in Nat /\ \A g \in FileIds \ {f} : modTime[g] <= Max(T)
  BY <1>3, <1>4, <1>5
<1>. QED
  BY <1>6 DEF T

\* What the types say of a job, a database and a name.
LEMMA Types ==
  ASSUME BackupsTypeOK
  PROVE  /\ KeepCount \in Nat /\ MaxCommits \in Nat /\ MaxFiles \in Nat /\ now \in 0..MaxSeconds
         /\ Main \in Databases /\ Scheduler \in Jobs /\ Handlers \subseteq Jobs
         /\ NoJob \in Job /\ made \in 0..MaxFiles
         /\ \A d \in Databases :
              /\ commits[d] \in Nat /\ wal[d] \in Nat /\ main[d] \in Content /\ Holds(d) \in Content
              /\ \A p \in Pages : main[d][p] \in Nat /\ Holds(d)[p] \in Nat
         /\ \A f \in FileIds : /\ file[f] \in Content /\ modTime[f] \in Nat
                              /\ \A p \in Pages : file[f][p] \in Nat
         /\ \A n \in BackupName : tmp[n] \in 0..MaxFiles /\ backups[n] \in 0..MaxFiles
         /\ \A j \in Jobs :
              /\ job[j] \in Job /\ job[j].name \in BackupName /\ job[j].db \in Databases
              /\ job[j].file \in 0..MaxFiles /\ job[j].held \in Nat /\ job[j].since \in Nat
              /\ job[j].met \in SUBSET Causes
<1>1. /\ KeepCount \in Nat /\ MaxCommits \in Nat /\ MaxFiles \in Nat /\ MaxSeconds \in Nat
      /\ Main \in Databases /\ Scheduler \in Jobs /\ Handlers \subseteq Jobs
  BY BackupsAssumption DEF BackupsAssumption, Jobs
<1>2. NoJob \in Job
  BY <1>1 DEF NoJob, Job, BackupName
<1>3. /\ now \in 0..MaxSeconds /\ made \in 0..MaxFiles
      /\ \A d \in Databases : commits[d] \in Nat /\ wal[d] \in Nat /\ main[d] \in Content
      /\ \A f \in FileIds : file[f] \in Content /\ modTime[f] \in Nat
      /\ \A n \in BackupName : tmp[n] \in 0..MaxFiles /\ backups[n] \in 0..MaxFiles
      /\ \A j \in Jobs : job[j] \in Job
  BY DEF BackupsTypeOK
<1>4. \A j \in Jobs :
        /\ job[j].name \in BackupName /\ job[j].db \in Databases
        /\ job[j].file \in 0..MaxFiles /\ job[j].held \in Nat /\ job[j].since \in Nat
        /\ job[j].met \in SUBSET Causes
  BY <1>3 DEF Job
<1>5. \A d \in Databases : Holds(d) \in Content
  BY <1>3 DEF Holds, Content
<1>6. \A x \in Content, p \in Pages : x[p] \in Nat
  BY DEF Content
<1>. QED
  BY <1>1, <1>2, <1>3, <1>4, <1>5, <1>6

\* The initial state has its types.
LEMMA TypesInit == BackupsInit => BackupsTypeOK
<1>. SUFFICES ASSUME BackupsInit PROVE BackupsTypeOK
  OBVIOUS
<1>1. /\ MaxCommits \in Nat /\ MaxFiles \in Nat /\ MaxSeconds \in Nat /\ MaxRequests \in Nat
      /\ Main \in Databases
  BY BackupsAssumption DEF BackupsAssumption
<1>2. NoJob \in Job /\ Missing \in Content
  BY <1>1 DEF NoJob, Job, BackupName, Missing, Content
<1>3. [p \in Pages |-> 1] \in Content
  BY DEF Content
<1>4. now \in 0..MaxSeconds /\ requests \in 0..MaxRequests /\ made \in 0..MaxFiles
  BY <1>1 DEF BackupsInit
<1>5. commits \in [Databases -> Nat] /\ wal \in [Databases -> Nat] /\ main \in [Databases -> Content]
  BY <1>3 DEF BackupsInit
<1>6. opened \in [Databases -> BOOLEAN] /\ file \in [FileIds -> Content] /\ modTime \in [FileIds -> Nat]
  BY <1>2 DEF BackupsInit
<1>7. tmp \in [BackupName -> 0..MaxFiles] /\ backups \in [BackupName -> 0..MaxFiles]
  BY <1>1 DEF BackupsInit
<1>. QED
  BY <1>2, <1>4, <1>5, <1>6, <1>7 DEF BackupsTypeOK, BackupsInit

\* A step of the files, of the databases or of the jobs alone.
LEMMA TypesFrom ==
  ASSUME BackupsTypeOK
  PROVE  /\ UNCHANGED filesVars =>
              /\ file' \in [FileIds -> Content] /\ made' \in 0..MaxFiles /\ modTime' \in [FileIds -> Nat]
              /\ tmp' \in [BackupName -> 0..MaxFiles] /\ backups' \in [BackupName -> 0..MaxFiles]
              /\ finished' \in SUBSET Finished
         /\ UNCHANGED <<commits, main, wal, opened>> =>
              /\ commits' \in [Databases -> Nat] /\ main' \in [Databases -> Content]
              /\ wal' \in [Databases -> Nat] /\ opened' \in [Databases -> BOOLEAN]
         /\ UNCHANGED <<now, requests, doomed, pruned>> =>
              /\ now' \in 0..MaxSeconds /\ requests' \in 0..MaxRequests
              /\ doomed' \in SUBSET BackupName /\ pruned' \in SUBSET FileIds
BY DEF BackupsTypeOK, filesVars

\* A request is counted.
LEMMA CountTypes == BackupsTypeOK /\ Count => requests' \in 0..MaxRequests
<1>. SUFFICES ASSUME BackupsTypeOK, Count PROVE requests' \in 0..MaxRequests
  OBVIOUS
<1>1. requests \in 0..MaxRequests /\ MaxRequests \in Nat
  BY BackupsAssumption DEF BackupsAssumption, BackupsTypeOK
<1>2. requests < MaxRequests /\ requests' = requests + 1
  BY DEF Count
<1>. QED
  BY <1>1, <1>2

\* What a job met are causes.
LEMMA MeetsType ==
  ASSUME BackupsTypeOK, NEW j \in Jobs, NEW c \in Causes
  PROVE  Meets(j, c) \in Job
<1>1. job[j] \in Job
  BY Types
<1>. QED
  BY <1>1 DEF Meets, Job

\* The jobs that met something are jobs.
LEMMA JobsMeetType ==
  ASSUME BackupsTypeOK, NEW d, NEW steps, NEW c \in Causes, JobsMeet(d, steps, c)
  PROVE  job' \in [Jobs -> Job]
BY MeetsType, Types DEF JobsMeet

\* A job that starts is a job.
LEMMA StartType ==
  ASSUME BackupsTypeOK, NEW j \in Jobs, NEW d, NEW new \in Job, Start(j, d, new)
  PROVE  job' \in [Jobs -> Job]
<1>1. [new EXCEPT !.met = @ \cup {c \in {"overlap"} : {i \in Jobs \ {j} : Working(i, d)} # {}}] \in Job
  BY DEF Job, Causes
<1>2. \A i \in Jobs : Meets(i, "overlap") \in Job /\ job[i] \in Job
  BY MeetsType, Types DEF Causes
<1>. QED
  BY <1>1, <1>2 DEF Start

\* A checkpoint leaves pages.
LEMMA CheckpointedTypes ==
  ASSUME BackupsTypeOK, NEW d \in Databases, Checkpointed(d)
  PROVE  main' \in [Databases -> Content] /\ wal' \in [Databases -> Nat]
<1>1. Holds(d) \in Content
  BY Types
<1>. QED
  BY <1>1 DEF Checkpointed, BackupsTypeOK

\* So does one that may give up.
LEMMA TryCheckpointTypes ==
  ASSUME BackupsTypeOK, NEW j \in Jobs, NEW d \in Databases, TryCheckpoint(j, d)
  PROVE  /\ main' \in [Databases -> Content] /\ wal' \in [Databases -> Nat]
         /\ job' \in [Jobs -> Job]
<1>1. CASE Checkpointed(d) /\ UNCHANGED job
  BY <1>1, CheckpointedTypes DEF BackupsTypeOK
<1>2. CASE job' = [job EXCEPT ![j] = Meets(j, "busy")] /\ UNCHANGED <<main, wal>>
  <2>1. Meets(j, "busy") \in Job
    BY MeetsType DEF Causes
  <2>. QED
    BY <1>2, <2>1 DEF BackupsTypeOK
<1>. QED
  BY <1>1, <1>2 DEF TryCheckpoint

\* Every step keeps the types; a file is made only while there is room for one.
LEMMA TypesNext == BackupsTypeOK /\ Made /\ [BackupsNext]_backupsVars => BackupsTypeOK'
<1>. SUFFICES ASSUME BackupsTypeOK, Made, [BackupsNext]_backupsVars PROVE BackupsTypeOK'
  OBVIOUS
<1>. USE DEF KeepFiles, KeepDatabases, KeepWorld, KeepLists, Goto, Forget
<1> DEFINE pcs == {"idle", "checkpoint", "create", "copy 1", "copy 2", "rename", "list",
                   "prune", "close", "truncate", "restore 1", "restore 2", "open"}
           FilesOK == /\ file' \in [FileIds -> Content] /\ made' \in 0..MaxFiles
                      /\ modTime' \in [FileIds -> Nat] /\ tmp' \in [BackupName -> 0..MaxFiles]
                      /\ backups' \in [BackupName -> 0..MaxFiles] /\ finished' \in SUBSET Finished
           BasesOK == /\ commits' \in [Databases -> Nat] /\ main' \in [Databases -> Content]
                      /\ wal' \in [Databases -> Nat] /\ opened' \in [Databases -> BOOLEAN]
           WorldOK == /\ now' \in 0..MaxSeconds /\ requests' \in 0..MaxRequests
                      /\ doomed' \in SUBSET BackupName /\ pruned' \in SUBSET FileIds
           JobsOK == pc' \in [Jobs -> pcs] /\ job' \in [Jobs -> Job]
<1>0. ASSUME FilesOK, BasesOK, WorldOK, JobsOK PROVE BackupsTypeOK'
  BY <1>0 DEF BackupsTypeOK
<1>1. /\ pc \in [Jobs -> pcs] /\ job \in [Jobs -> Job] /\ opened \in [Databases -> BOOLEAN]
      /\ \A j \in Jobs, step \in pcs : [pc EXCEPT ![j] = step] \in [Jobs -> pcs]
  BY DEF BackupsTypeOK
<1>2. /\ UNCHANGED filesVars => FilesOK
      /\ UNCHANGED <<commits, main, wal, opened>> => BasesOK
      /\ UNCHANGED <<now, requests, doomed, pruned>> => WorldOK
  BY TypesFrom
<1>3. \A d \in Databases : Opens(d) => opened' \in [Databases -> BOOLEAN]
  BY <1>1 DEF Opens
<1>4. \A j \in Jobs : Forget(j) => job' \in [Jobs -> Job]
  <2>. SUFFICES ASSUME NEW j \in Jobs, job' = [job EXCEPT ![j] = NoJob] PROVE job' \in [Jobs -> Job]
    OBVIOUS
  <2>1. NoJob \in Job /\ job \in [Jobs -> Job]
    BY <1>1, Types
  <2>. QED
    BY <2>1
<1>5. ASSUME NEW j \in Jobs, NEW d \in Databases, CreateBackup(j, d),
             requests' \in 0..MaxRequests
      PROVE  FilesOK /\ BasesOK /\ WorldOK /\ JobsOK
  <2> DEFINE new == [name |-> [db |-> d, at |-> now], db |-> d, file |-> 0,
                     held |-> Holds(d)[1], since |-> commits[d],
                     met |-> {c \in {"torn"} : ~Whole(main[d])}]
  <2>1. new \in Job
    <3>1. now \in 0..MaxSeconds /\ commits[d] \in Nat /\ MaxFiles \in Nat /\ Holds(d)[1] \in Nat
      BY Types DEF Pages
    <3>2. [db |-> d, at |-> now] \in BackupName
      BY <3>1 DEF BackupName
    <3>3. {c \in {"torn"} : ~Whole(main[d])} \in SUBSET Causes
      BY DEF Causes
    <3>. QED
      BY <3>1, <3>2, <3>3 DEF Job
  <2>2. job' \in [Jobs -> Job]
    BY <1>5, <2>1, StartType DEF CreateBackup
  <2>3. WorldOK
    BY <1>5, BackupsAssumption DEF CreateBackup, BackupsTypeOK
  <2>. QED
    BY <1>1, <1>2, <1>5, <2>2, <2>3 DEF CreateBackup
<1>6. ASSUME NEW j \in Jobs, CheckpointFirst(j) PROVE FilesOK /\ BasesOK /\ WorldOK /\ JobsOK
  <2>1. job[j].db \in Databases
    BY Types
  <2>2. main' \in [Databases -> Content] /\ wal' \in [Databases -> Nat] /\ job' \in [Jobs -> Job]
    BY <1>6, <2>1, TryCheckpointTypes DEF CheckpointFirst
  <2>. QED
    BY <1>1, <1>2, <1>3, <1>6, <2>1, <2>2 DEF CheckpointFirst, BackupsTypeOK
<1>7. ASSUME NEW j \in Jobs, NEW f \in FileIds, CreateTmp(j, f)
      PROVE  FilesOK /\ BasesOK /\ WorldOK /\ JobsOK
  <2>1. /\ job[j].name \in BackupName /\ f \in 0..MaxFiles /\ Missing \in Content
        /\ [job[j] EXCEPT !.file = f] \in Job
    <3>1. MaxFiles \in Nat /\ job[j] \in Job
      BY Types
    <3>. QED
      BY <3>1, Types DEF FileIds, Missing, Content, Job
  <2>2. made' \in 0..MaxFiles
    BY <1>7, <2>1 DEF CreateTmp, Create, BackupsTypeOK
  <2>3. FilesOK
    BY <1>7, <2>1, <2>2 DEF CreateTmp, BackupsTypeOK
  <2>4. job' \in [Jobs -> Job]
    BY <1>1, <1>7, <2>1 DEF CreateTmp
  <2>. QED
    BY <1>1, <1>2, <1>7, <2>3, <2>4 DEF CreateTmp
<1>8. ASSUME NEW j \in Jobs, NEW p \in Pages, CopyPage(j, p)
      PROVE  FilesOK /\ BasesOK /\ WorldOK /\ JobsOK
  <2> DEFINE f == job[j].file
             m == Max({modTime[g] : g \in FileIds \ {f}} \cup {0})
  <2>1. /\ main[job[j].db][p] \in Nat
        /\ file' = [file EXCEPT ![f][p] = main[job[j].db][p]]
        /\ modTime' = [modTime EXCEPT ![f] = 1 + m]
    BY <1>8, Types DEF CopyPage
  <2>2. f \in FileIds => m \in Nat
    BY WrittenLast
  <2> HIDE DEF m, f
  <2>3. file' \in [FileIds -> Content]
    <3>1. f \in FileIds => [file[f] EXCEPT ![p] = main[job[j].db][p]] \in Content
      BY <2>1, Types DEF Content
    <3>. QED
      BY <2>1, <3>1 DEF BackupsTypeOK
  <2>4. modTime' \in [FileIds -> Nat]
    <3>1. modTime \in [FileIds -> Nat]
      BY DEF BackupsTypeOK
    <3>2. f \in FileIds => 1 + m \in Nat
      BY <2>2
    <3>. QED
      BY <2>1, <3>1, <3>2
  <2>5. FilesOK
    BY <1>8, <2>3, <2>4 DEF CopyPage, BackupsTypeOK
  <2>6. JobsOK
    BY <1>1, <1>8 DEF CopyPage
  <2>. QED
    BY <1>2, <1>8, <2>5, <2>6 DEF CopyPage
<1>9. ASSUME NEW j \in Jobs, Rename(j) PROVE FilesOK /\ BasesOK /\ WorldOK /\ JobsOK
  <2> DEFINE n == job[j].name
             done == [name |-> n, file |-> tmp[n], met |-> job[j].met \cup {c \in {"doomed"} : n \in doomed}]
  <2>1. n \in BackupName /\ tmp[n] \in 0..MaxFiles /\ MaxFiles \in Nat /\ 0 \in 0..MaxFiles
    BY Types
  <2>2. tmp[n] > 0 => done \in Finished
    <3>1. job[j].met \cup {c \in {"doomed"} : n \in doomed} \in SUBSET Causes
      BY Types DEF Causes
    <3>. QED
      BY <2>1, <3>1 DEF Finished, FileIds
  <2>3. FilesOK
    BY <1>9, <2>1, <2>2 DEF Rename, BackupsTypeOK
  <2>4. JobsOK
    BY <1>1, <1>4, <1>9 DEF Rename
  <2>. QED
    BY <1>2, <1>9, <2>3, <2>4 DEF Rename
<1>10. ASSUME NEW h \in Handlers, NEW n \in BackupName, HandleDeleteBackup(h, n) PROVE BackupsTypeOK'
  <2>1. requests' \in 0..MaxRequests /\ 0 \in 0..MaxFiles
    BY <1>10, CountTypes, Types DEF HandleDeleteBackup
  <2>. QED
    BY <1>10, <2>1 DEF HandleDeleteBackup, BackupsTypeOK
<1>11. CASE PruneOldBackups
  <2>1. JobsOK
    BY <1>1, <1>11, Types DEF PruneOldBackups
  <2>2. WorldOK
    BY <1>11 DEF PruneOldBackups, BackupsTypeOK, Listed
  <2>. QED
    BY <1>0, <1>2, <1>11, <2>1, <2>2 DEF PruneOldBackups
<1>12. ASSUME NEW n \in BackupName, PruneOne(n) PROVE BackupsTypeOK'
  <2>1. backups[n] \in 0..MaxFiles /\ MaxFiles \in Nat /\ 0 \in 0..MaxFiles
    BY Types
  <2>2. {backups[n]} \ {0} \subseteq FileIds
    BY <2>1 DEF FileIds
  <2>. QED
    BY <1>12, <2>1, <2>2 DEF PruneOne, BackupsTypeOK
<1>13. CASE PruneEnds
  BY <1>0, <1>1, <1>2, <1>13, Types DEF PruneEnds
<1>14. ASSUME NEW h \in Handlers, NEW n \in BackupName, NEW d \in Databases, HandleRestore(h, n, d)
       PROVE  BackupsTypeOK'
  <2> DEFINE new == [name |-> n, db |-> d, file |-> 0, held |-> 1, since |-> 1, met |-> {}]
  <2>1. new \in Job
    BY Types DEF Job
  <2>2. h \in Jobs
    BY Types
  <2>3. job' \in [Jobs -> Job]
    BY <1>14, <2>1, <2>2, StartType DEF HandleRestore
  <2>4. requests' \in 0..MaxRequests
    BY <1>14, CountTypes DEF HandleRestore
  <2>5. WorldOK
    BY <1>14, <2>4 DEF HandleRestore, BackupsTypeOK
  <2>. QED
    BY <1>0, <1>1, <1>2, <1>14, <2>2, <2>3, <2>5 DEF HandleRestore
<1>15. ASSUME NEW h \in Handlers, CloseDatabase(h) PROVE BackupsTypeOK'
  <2> DEFINE d == job[h].db
  <2>1. h \in Jobs /\ d \in Databases
    BY Types
  <2>2. main' \in [Databases -> Content] /\ wal' \in [Databases -> Nat] /\ job' \in [Jobs -> Job]
    <3>1. CASE TryCheckpoint(h, d)
      BY <2>1, <3>1, TryCheckpointTypes
    <3>2. CASE /\ job' = IF wal[d] > 0 THEN [job EXCEPT ![h] = Meets(h, "left")] ELSE job
               /\ UNCHANGED <<main, wal>>
      <4>1. Meets(h, "left") \in Job
        BY <2>1, MeetsType DEF Causes
      <4>. QED
        BY <2>1, <3>2, <4>1 DEF BackupsTypeOK
    <3>. QED
      BY <1>15, <3>1, <3>2 DEF CloseDatabase
  <2>3. BasesOK
    BY <1>1, <1>15, <2>1, <2>2 DEF CloseDatabase, BackupsTypeOK
  <2>. QED
    BY <1>0, <1>1, <1>2, <1>15, <2>1, <2>2, <2>3 DEF CloseDatabase
<1>16. ASSUME NEW h \in Handlers, TruncateDatabase(h) PROVE BackupsTypeOK'
  <2>1. /\ h \in Jobs /\ job[h].db \in Databases /\ job[h].name \in BackupName
        /\ Missing \in Content
    BY Types DEF Missing, Content
  <2>2. [job[h] EXCEPT !.file = backups[job[h].name]] \in Job
    BY <2>1, Types DEF Job
  <2>3. job' \in [Jobs -> Job]
    <3>1. CASE backups[job[h].name] > 0
      <4>1. job' = [job EXCEPT ![h].file = backups[job[h].name]] /\ job \in [Jobs -> Job]
        BY <1>1, <1>16, <3>1 DEF TruncateDatabase
      <4>2. job' = [job EXCEPT ![h] = [job[h] EXCEPT !.file = backups[job[h].name]]]
        BY <4>1
      <4>. QED
        BY <2>1, <2>2, <4>1, <4>2
    <3>2. CASE ~(backups[job[h].name] > 0)
      BY <1>4, <1>16, <2>1, <3>2 DEF TruncateDatabase
    <3>. QED
      BY <3>1, <3>2
  <2>4. BasesOK
    BY <1>16, <2>1 DEF TruncateDatabase, BackupsTypeOK
  <2>5. pc' \in [Jobs -> pcs]
    <3>1. pc' = [pc EXCEPT ![h] = "restore 1"] \/ pc' = [pc EXCEPT ![h] = "idle"]
      BY <1>16 DEF TruncateDatabase
    <3>. QED
      BY <1>1, <2>1, <3>1
  <2>. QED
    BY <1>0, <1>2, <1>16, <2>3, <2>4, <2>5 DEF TruncateDatabase
<1>17. ASSUME NEW h \in Handlers, NEW p \in Pages, RestorePage(h, p) PROVE BackupsTypeOK'
  <2>0. job[h].file \in FileIds
    <3>1. h \in Jobs /\ made \in 0..MaxFiles /\ MaxFiles \in Nat
      BY Types
    <3>2. pc[h] \in Restoring
      BY <1>17 DEF RestorePage, Restoring
    <3>. QED
      BY <3>1, <3>2 DEF Made, FileIds
  <2>1. /\ h \in Jobs /\ job[h].db \in Databases /\ file[job[h].file][p] \in Nat
        /\ commits[job[h].db] \in Nat /\ main[job[h].db] \in Content
    BY <2>0, Types
  <2>2. [job[h] EXCEPT !.since = commits[job[h].db]] \in Job
    BY <2>1, Types DEF Job
  <2>3. job' \in [Jobs -> Job]
    BY <1>1, <1>17, <2>1, <2>2 DEF RestorePage
  <2>4. [main[job[h].db] EXCEPT ![p] = file[job[h].file][p]] \in Content
    BY <2>1 DEF Content
  <2>5. BasesOK
    BY <1>17, <2>1, <2>4 DEF RestorePage, BackupsTypeOK
  <2>6. pc' \in [Jobs -> pcs]
    BY <1>1, <1>17, <2>1 DEF RestorePage
  <2>. QED
    BY <1>0, <1>2, <1>17, <2>3, <2>5, <2>6 DEF RestorePage
<1>18. ASSUME NEW h \in Handlers, ReopenDatabase(h) PROVE BackupsTypeOK'
  <2>1. h \in Jobs /\ job[h].db \in Databases
    BY Types
  <2>2. BasesOK
    BY <1>3, <1>18, <2>1 DEF ReopenDatabase, BackupsTypeOK
  <2>. QED
    BY <1>0, <1>1, <1>2, <1>4, <1>18, <2>1, <2>2 DEF ReopenDatabase
<1>19. ASSUME NEW d \in Databases, Commit(d) PROVE BackupsTypeOK'
  <2>1. job' \in [Jobs -> Job]
    BY <1>19, JobsMeetType DEF Commit, Causes
  <2>2. commits[d] \in Nat
    BY Types
  <2>3. BasesOK
    <3>1. /\ commits \in [Databases -> Nat] /\ wal \in [Databases -> Nat]
          /\ main' \in [Databases -> Content] /\ opened' \in [Databases -> BOOLEAN]
      BY <1>3, <1>19 DEF Commit, BackupsTypeOK
    <3>2. commits[d] + 1 \in Nat
      BY <2>2
    <3>3. /\ commits' = [commits EXCEPT ![d] = commits[d] + 1]
          /\ wal' = [wal EXCEPT ![d] = commits[d] + 1]
      BY <1>19 DEF Commit
    <3>. QED
      BY <3>1, <3>2, <3>3
  <2>. QED
    BY <1>0, <1>1, <1>2, <1>19, <2>1, <2>3 DEF Commit
<1>20. ASSUME NEW d \in Databases, AutoCheckpoint(d) PROVE BackupsTypeOK'
  <2>1. job' \in [Jobs -> Job]
    BY <1>20, JobsMeetType DEF AutoCheckpoint, Causes
  <2>2. main' \in [Databases -> Content] /\ wal' \in [Databases -> Nat]
    BY <1>20, CheckpointedTypes DEF AutoCheckpoint
  <2>3. BasesOK
    BY <1>1, <1>20, <2>2 DEF AutoCheckpoint, BackupsTypeOK
  <2>. QED
    BY <1>0, <1>1, <1>2, <1>20, <2>1, <2>3 DEF AutoCheckpoint
<1>21. CASE BackupsCrash
  <2>1. requests' \in 0..MaxRequests /\ NoJob \in Job
    BY <1>21, CountTypes, Types DEF BackupsCrash
  <2>2. JobsOK
    BY <1>21, <2>1 DEF BackupsCrash
  <2>3. BasesOK
    BY <1>21 DEF BackupsCrash, BackupsTypeOK
  <2>4. WorldOK
    BY <1>21, <2>1 DEF BackupsCrash, BackupsTypeOK
  <2>. QED
    BY <1>0, <1>2, <1>21, <2>2, <2>3, <2>4 DEF BackupsCrash
<1>22. CASE NextSecond
  <2>1. WorldOK
    <3>1. now \in 0..MaxSeconds /\ MaxSeconds \in Nat
      BY BackupsAssumption DEF BackupsAssumption, BackupsTypeOK
    <3>2. now' \in 0..MaxSeconds
      BY <1>22, <3>1 DEF NextSecond
    <3>. QED
      BY <1>22, <3>2 DEF NextSecond, BackupsTypeOK
  <2>. QED
    BY <1>0, <1>1, <1>2, <1>22, <2>1 DEF NextSecond
<1>23. CASE UNCHANGED backupsVars
  BY <1>0, <1>1, <1>2, <1>23 DEF backupsVars
<1>24. ASSUME NEW j \in Jobs, BackupStep(j) PROVE BackupsTypeOK'
  BY <1>0, <1>6, <1>7, <1>8, <1>9, <1>24 DEF BackupStep
<1>25. ASSUME NEW h \in Handlers, HandlerStep(h) PROVE BackupsTypeOK'
  <2>1. h \in Jobs
    BY Types
  <2>2. ASSUME NEW d \in Databases, HandleBackup(h, d) PROVE BackupsTypeOK'
    BY <1>0, <1>5, <2>1, <2>2, CountTypes DEF HandleBackup
  <2>. QED
    BY <1>10, <1>14, <1>15, <1>16, <1>17, <1>18, <1>24, <1>25, <2>1, <2>2 DEF HandlerStep
<1>26. CASE SchedulerStep
  <2>1. CASE ScheduledBackup
    <3>1. requests' \in 0..MaxRequests /\ Main \in Databases /\ Scheduler \in Jobs
      BY <2>1, Types DEF ScheduledBackup, BackupsTypeOK
    <3>. QED
      BY <1>0, <1>5, <2>1, <3>1 DEF ScheduledBackup
  <2>. QED
    BY <1>11, <1>12, <1>13, <1>24, <1>26, <2>1, Types DEF SchedulerStep
<1>. QED
  BY <1>19, <1>20, <1>21, <1>22, <1>23, <1>25, <1>26 DEF BackupsNext

-----------------------------------------------------------------------------
(* What a step means for a job that does not take it.                      *)

\* The job is as it was, and may have met something.
MoreMet(j) ==
  /\ job'[j].name = job[j].name /\ job'[j].db = job[j].db /\ job'[j].file = job[j].file
  /\ job'[j].held = job[j].held /\ job'[j].since = job[j].since
  /\ job[j].met \subseteq job'[j].met

Unused(d) == main'[d] = main[d] /\ wal'[d] = wal[d] /\ commits'[d] = commits[d]
Committed(d) == /\ main'[d] = main[d] /\ wal'[d] = commits[d] + 1 /\ commits'[d] = commits[d] + 1
Emptied(d) == wal[d] > 0 /\ main'[d] = Holds(d) /\ wal'[d] = 0 /\ commits'[d] = commits[d]

\* Transactions commit and SQLite checkpoints, and nothing else happens to the
\* database and the file of the job.
Undisturbed(j) ==
  /\ pc'[j] = pc[j] /\ MoreMet(j)
  /\ \/ Unused(job[j].db)
     \/ /\ Committed(job[j].db)
        /\ pc[j] \in {"truncate", "restore 1", "restore 2"} => "used" \in job'[j].met
     \/ /\ Emptied(job[j].db)
        /\ pc[j] = "copy 2" => "written" \in job'[j].met
  /\ pc[j] \in Copying => file'[job[j].file] = file[job[j].file]
  /\ pc[j] \in Restoring /\ ~Shared(job[j].file) => file'[job[j].file] = file[job[j].file]

\* An undisturbed backup copies pages of one state: SQLite writes the file only with
\* what the log holds, and a job between its two pages knows of that.
LEMMA WholeKept ==
  ASSUME BackupsTypeOK, Counted, NEW j \in Jobs, WholeCopy(j), Undisturbed(j)
  PROVE  WholeCopy(j)'
<1>0. PICK d \in Databases, f \in 0..MaxFiles : d = job[j].db /\ f = job[j].file
  BY Types
<1>1. /\ d \in Databases /\ wal[d] \in Nat /\ wal[d] <= MaxCommits /\ MaxCommits \in Nat
      /\ job'[j].db = d /\ job'[j].file = f /\ pc'[j] = pc[j]
      /\ job[j].met \subseteq job'[j].met
  BY <1>0, Types DEF Counted, Undisturbed, MoreMet
<1>2. \/ main'[d] = main[d]
      \/ wal[d] > 0 /\ main'[d] = Holds(d) /\ (pc[j] = "copy 2" => "written" \in job'[j].met)
  BY <1>0 DEF Undisturbed, Unused, Committed, Emptied
<1>3. Whole(main[d]) => Whole(main'[d])
  <2>1. CASE main'[d] = main[d]
    BY <1>0, <2>1
  <2>2. CASE wal[d] > 0 /\ main'[d] = Holds(d)
    BY <1>0, <1>1, <2>2 DEF Whole, Holds
  <2>. QED
    BY <1>0, <1>2, <2>1, <2>2
<1>4. pc[j] \in Copying => file'[f] = file[f]
  BY <1>0 DEF Undisturbed
<1>5. \A causes : Free(j, causes)' => Free(j, causes)
  BY <1>0, <1>1 DEF Free
<1>6. Whole(main[d])' <=> Whole(main'[d])
  BY <1>0 DEF Whole
<1>7. ASSUME pc[j] \in BackingUp \ {"rename"}, Free(j, {"torn", "overlap"})' PROVE Whole(main'[d])
  BY <1>0, <1>3, <1>5, <1>7 DEF WholeCopy
<1>8. ASSUME pc[j] = "copy 2", Free(j, {"torn", "written", "overlap"})'
      PROVE  file'[f][1] = main'[d][1]
  <2>1. "written" \notin job'[j].met
    BY <1>0, <1>8 DEF Free
  <2>2. file[f][1] = main[d][1]
    BY <1>0, <1>5, <1>8 DEF WholeCopy
  <2>. QED
    BY <1>0, <1>2, <1>4, <1>8, <2>1, <2>2 DEF Copying
<1>9. ASSUME pc[j] = "rename", Free(j, {"torn", "written", "overlap"})' PROVE Whole(file'[f])
  <2>1. Whole(file[f])
    BY <1>0, <1>5, <1>9 DEF WholeCopy
  <2>. QED
    BY <1>0, <1>4, <1>9, <2>1 DEF Copying
<1>. QED
  BY <1>0, <1>1, <1>7, <1>8, <1>9 DEF WholeCopy, Whole

\* An undisturbed backup copies what it was asked for: what commits and what is
\* written to the file meanwhile is later.
LEMMA CurrentKept ==
  ASSUME BackupsTypeOK, Known, NEW j \in Jobs, CurrentCopy(j), Undisturbed(j)
  PROVE  CurrentCopy(j)'
<1>0. PICK d \in Databases, f \in 0..MaxFiles : d = job[j].db /\ f = job[j].file
  BY Types
<1>1. /\ d \in Databases /\ wal[d] \in Nat /\ commits[d] \in Nat /\ job[j].since \in Nat
      /\ job'[j].db = d /\ job'[j].file = f /\ pc'[j] = pc[j]
      /\ job'[j].held = job[j].held /\ job'[j].since = job[j].since
      /\ job[j].met \subseteq job'[j].met
  BY <1>0, Types DEF Undisturbed, MoreMet
<1>2. pc[j] \in BackingUp => job[j].since <= commits[d]
  BY <1>0 DEF Known, Busy, BackingUp, Copying
<1>3. pc[j] \in Copying => file'[f] = file[f]
  BY <1>0 DEF Undisturbed
<1>4. \A causes : Free(j, causes)' => Free(j, causes)
  BY <1>0, <1>1 DEF Free
<1>5. \A x : Recent(j, x)' <=> Recent(j, x)
  BY <1>0, <1>1 DEF Recent
<1>6. Holds(d)' = IF wal'[d] > 0 THEN [p \in Pages |-> wal'[d]] ELSE main'[d]
  BY <1>0 DEF Holds
<1>7. \/ Holds(d)' = Holds(d) /\ (main'[d] = main[d] \/ main'[d] = Holds(d))
      \/ /\ main'[d] = main[d]
         /\ \A p \in Pages : Holds(d)'[p] = commits[d] + 1
  <2>1. CASE Unused(d)
    BY <1>0, <1>6, <2>1 DEF Unused, Holds
  <2>2. CASE Committed(d)
    BY <1>0, <1>1, <1>6, <2>2 DEF Committed
  <2>3. CASE Emptied(d)
    BY <1>0, <1>1, <1>6, <2>3 DEF Emptied
  <2>. QED
    BY <1>0, <2>1, <2>2, <2>3 DEF Undisturbed
<1>. SUFFICES ASSUME Free(j, {"torn", "busy", "overlap"})'
              PROVE  /\ pc[j] \in BackingUp \ {"rename"} => \A p \in Pages : Recent(j, Holds(d)'[p])
                     /\ pc[j] \in {"create", "copy 1", "copy 2"} => \A p \in Pages : Recent(j, main'[d][p])
                     /\ pc[j] = "copy 2" => Recent(j, file'[f][1])
                     /\ pc[j] = "rename" => \A p \in Pages : Recent(j, file'[f][p])
  <2>1. Holds(job[j].db)' = Holds(d)'
    BY <1>0, <1>1 DEF Holds
  <2>. QED
    BY <1>0, <1>1, <1>5, <2>1 DEF CurrentCopy
<1>8. /\ pc[j] \in BackingUp \ {"rename"} => \A p \in Pages : Recent(j, Holds(d)[p])
      /\ pc[j] \in {"create", "copy 1", "copy 2"} => \A p \in Pages : Recent(j, main[d][p])
      /\ pc[j] = "copy 2" => Recent(j, file[f][1])
      /\ pc[j] = "rename" => \A p \in Pages : Recent(j, file[f][p])
  BY <1>0, <1>4 DEF CurrentCopy
<1>9. pc[j] \in BackingUp => Recent(j, commits[d] + 1)
  BY <1>0, <1>1, <1>2 DEF Recent
<1>10. /\ pc[j] \in {"create", "copy 1", "copy 2"} => pc[j] \in BackingUp \ {"rename"}
       /\ pc[j] = "copy 2" \/ pc[j] = "rename" => pc[j] \in Copying
  BY <1>0 DEF BackingUp, Copying
<1>. QED
  BY <1>0, <1>3, <1>7, <1>8, <1>9, <1>10

\* An undisturbed restore shows its backup, or what was written since.
LEMMA RestoredKept ==
  ASSUME BackupsTypeOK, Known, NEW j \in Jobs, RestoredCopy(j), Undisturbed(j),
         finished \subseteq finished'
  PROVE  RestoredCopy(j)'
<1>0. PICK d \in Databases, f \in 0..MaxFiles : d = job[j].db /\ f = job[j].file
  BY Types
<1>1. /\ d \in Databases /\ wal[d] \in Nat /\ commits[d] \in Nat /\ job[j].since \in Nat
      /\ job'[j].db = d /\ job'[j].file = f /\ pc'[j] = pc[j]
      /\ job'[j].since = job[j].since
      /\ job[j].met \subseteq job'[j].met
  BY <1>0, Types DEF Undisturbed, MoreMet
<1>2. pc[j] = "open" => job[j].since <= commits[d]
  BY <1>0 DEF Known, Busy
<1>3. Shared(f) => Shared(f)'
  BY <1>0 DEF Shared
<1>4. pc[j] \in Restoring /\ ~Shared(f) => file'[f] = file[f]
  BY <1>0 DEF Undisturbed
<1>6. Holds(d)' = IF wal'[d] > 0 THEN [p \in Pages |-> wal'[d]] ELSE main'[d]
  BY <1>0 DEF Holds
<1>. SUFFICES ASSUME Free(j, {"busy", "used", "left", "overlap"})'
              PROVE  /\ pc[j] \in {"truncate", "restore 1", "restore 2"} => wal'[d] = 0
                     /\ pc[j] = "restore 2" /\ ~Shared(f)' => main'[d][1] = file'[f][1]
                     /\ pc[j] = "open" /\ ~Shared(f)' =>
                          \A p \in Pages : Holds(d)'[p] = file'[f][p] \/ Holds(d)'[p] > job[j].since
  <2>1. Holds(job[j].db)' = Holds(d)' /\ (Shared(job[j].file)' <=> Shared(f)')
    BY <1>0, <1>1 DEF Holds, Shared
  <2>. QED
    BY <1>0, <1>1, <2>1 DEF RestoredCopy
<1>7. /\ pc[j] \in {"truncate", "restore 1", "restore 2"} => wal[d] = 0
      /\ pc[j] = "restore 2" /\ ~Shared(f) => main[d][1] = file[f][1]
      /\ pc[j] = "open" /\ ~Shared(f) =>
           \A p \in Pages : Holds(d)[p] = file[f][p] \/ Holds(d)[p] > job[j].since
  <2>1. Free(j, {"busy", "used", "left", "overlap"})
    BY <1>0, <1>1 DEF Free
  <2>. QED
    BY <1>0, <2>1 DEF RestoredCopy
<1>8. "used" \notin job'[j].met
  BY <1>0 DEF Free
<1>9. CASE Unused(d)
  <2>1. Holds(d)' = Holds(d)
    BY <1>0, <1>6, <1>9 DEF Unused, Holds
  <2>. QED
    BY <1>0, <1>3, <1>4, <1>7, <1>9, <2>1 DEF Unused, Restoring
<1>10. CASE /\ Committed(d)
            /\ pc[j] \in {"truncate", "restore 1", "restore 2"} => "used" \in job'[j].met
  <2>1. \A p \in Pages : Holds(d)'[p] = commits[d] + 1
    <3>1. wal'[d] = commits[d] + 1 /\ wal'[d] > 0
      <4>1. Committed(d) /\ commits[d] \in Nat
        BY <1>1, <1>10
      <4>2. wal'[d] = commits[d] + 1
        BY <4>1 DEF Committed
      <4>. QED
        BY <4>1, <4>2
    <3>2. Holds(d)' = [p \in Pages |-> wal'[d]]
      BY <1>6, <3>1
    <3>. QED
      BY <3>1, <3>2
  <2>2. pc[j] \notin {"truncate", "restore 1", "restore 2"}
    BY <1>8, <1>10
  <2>3. ASSUME pc[j] = "open", NEW p \in Pages PROVE Holds(d)'[p] > job[j].since
    BY <1>0, <1>1, <1>2, <2>1, <2>3
  <2>. QED
    BY <2>2, <2>3
<1>11. CASE Emptied(d)
  <2>1. Holds(d)' = Holds(d) /\ wal[d] # 0
    BY <1>0, <1>1, <1>6, <1>11 DEF Emptied
  <2>. QED
    BY <1>0, <1>3, <1>4, <1>7, <2>1 DEF Restoring
<1>. QED
  BY <1>0, <1>9, <1>10, <1>11 DEF Undisturbed

\* A job keeps what is said of its copy if nothing disturbs it, and it says nothing
\* when it is over or has met another job.
Spared(j) ==
  pc'[j] \in {"idle", "list", "prune"} \/ "overlap" \in job'[j].met \/ Undisturbed(j)

\* What a job that is spared has copied is what it should be.
LEMMA SparedKeeps ==
  ASSUME BackupsTypeOK, Counted, Known, NEW j \in Jobs, Copies(j), Spared(j),
         finished \subseteq finished'
  PROVE  Copies(j)'
<1>1. CASE Undisturbed(j)
  BY <1>1, WholeKept, CurrentKept, RestoredKept DEF Copies
<1>2. CASE pc'[j] \in {"idle", "list", "prune"}
  BY <1>2 DEF Copies, WholeCopy, CurrentCopy, RestoredCopy, BackingUp, Copying
<1>3. CASE "overlap" \in job'[j].met
  BY <1>3 DEF Copies, WholeCopy, CurrentCopy, RestoredCopy, Free
<1>. QED
  BY <1>1, <1>2, <1>3 DEF Spared

-----------------------------------------------------------------------------
(* What a step means for the jobs as a whole.                              *)

\* A job is over, or goes on at a step of the same kind.
Goes(j) ==
  \/ pc'[j] \in {"idle", "list", "prune"}
  \/ /\ Busy(j)
     /\ job'[j].name = job[j].name /\ job'[j].db = job[j].db
     /\ job'[j].since = job[j].since \/ job'[j].since = commits[job[j].db]
     /\ job[j].met \subseteq job'[j].met
     /\ pc'[j] \in BackingUp => pc[j] \in BackingUp
     /\ pc'[j] \in Copying => pc[j] \in Copying /\ job'[j].file = job[j].file
     /\ pc'[j] \in Restoring =>
          \/ pc[j] \in Restoring /\ job'[j].file = job[j].file
          \/ \E n \in Listed : job'[j].file = backups[n]

\* A job that stands still goes on.
LEMMA SameGoes ==
  ASSUME NEW j \in Jobs, pc'[j] = pc[j], MoreMet(j)
  PROVE  Goes(j)
BY DEF MoreMet, Goes, Busy

\* The kinds of steps are apart.
LEMMA Steps ==
  /\ Copying \subseteq BackingUp
  /\ \A s : s \in BackingUp \/ s \in Restoring => s \notin {"idle", "list", "prune"}
  /\ \A s : s \in BackingUp => s \notin Restoring
BY DEF Copying, BackingUp, Restoring

\* A listed file was finished and is no temporary one.
LEMMA ListedFile ==
  ASSUME BackupsTypeOK, Made, Records, NEW n \in Listed
  PROVE  /\ n \in BackupName /\ backups[n] \in 1..made /\ backups[n] \in FileIds
         /\ \E done \in finished : done.file = backups[n] /\ done.name = n
         /\ \A m \in BackupName : tmp[m] # backups[n]
<1>1. n \in BackupName /\ backups[n] > 0
  BY DEF Listed
<1>2. /\ made \in 0..MaxFiles /\ MaxFiles \in Nat /\ backups[n] \in 0..MaxFiles
  BY <1>1, Types
<1>3. backups[n] <= made
  BY <1>1 DEF Made
<1>4. PICK done \in finished : done.file = backups[n] /\ done.name = n
  BY DEF Records
<1>5. \A m \in BackupName : tmp[m] # done.file
  BY DEF Records
<1>. QED
  BY <1>1, <1>2, <1>3, <1>4, <1>5 DEF FileIds

\* Jobs that go on, while no name changes, keep their files, their databases and what
\* they know of one another.
LEMMA GoesOn ==
  ASSUME BackupsTypeOK, Made, Records, Alone, Owned, Known, \A j \in Jobs : Goes(j),
         UNCHANGED <<made, tmp, backups, finished>>,
         \A d \in Databases : commits'[d] \in Nat /\ commits[d] <= commits'[d]
  PROVE  Made' /\ Alone' /\ Owned' /\ Known'
<1>1. Made'
  <2>. SUFFICES ASSUME NEW j \in Jobs, pc'[j] \in Copying \cup Restoring
                PROVE  job'[j].file \in 1..made'
    BY DEF Made
  <2>1. \/ pc[j] \in Copying \cup Restoring /\ job'[j].file = job[j].file
        \/ \E n \in Listed : job'[j].file = backups[n]
    BY Steps DEF Goes
  <2>. QED
    BY <2>1, ListedFile DEF Made
<1>2. Alone'
  <2>1. ASSUME NEW j \in Jobs, pc'[j] \in BackingUp PROVE job'[j].name.db = job'[j].db
    BY <2>1, Steps DEF Goes, Alone
  <2>2. ASSUME NEW i \in Jobs, NEW j \in Jobs, i # j, Busy(i)', Busy(j)', job'[i].db = job'[j].db
        PROVE  "overlap" \in job'[i].met
    <3>1. /\ Busy(i) /\ job'[i].db = job[i].db /\ job[i].met \subseteq job'[i].met
          /\ Busy(j) /\ job'[j].db = job[j].db
      BY <2>2 DEF Goes, Busy
    <3>. QED
      BY <2>2, <3>1 DEF Alone
  <2>. QED
    BY <2>1, <2>2 DEF Alone
<1>3. \A j \in Jobs : pc'[j] \in Copying =>
        /\ pc[j] \in Copying /\ job'[j].file = job[j].file /\ job'[j].name = job[j].name
        /\ job'[j].db = job[j].db /\ job[j].met \subseteq job'[j].met
  BY Steps DEF Goes
<1>4. \A f : Shared(f)' <=> Shared(f)
  BY DEF Shared
<1>5. Owned'
  BY <1>3, <1>4 DEF Owned
<1>6. Known'
  <2>1. ASSUME NEW j \in Jobs, Busy(j)' PROVE job'[j].since <= commits'[job'[j].db]
    <3>1. /\ Busy(j) /\ job'[j].db = job[j].db
          /\ job'[j].since = job[j].since \/ job'[j].since = commits[job[j].db]
      BY <2>1 DEF Goes, Busy
    <3>2. /\ job[j].since \in Nat /\ commits[job[j].db] \in Nat /\ job[j].db \in Databases
          /\ job[j].since <= commits[job[j].db]
      BY <3>1, Types DEF Known
    <3>. QED
      BY <3>1, <3>2
  <2>2. ASSUME NEW j \in Jobs, pc'[j] \in Restoring
        PROVE  \E done \in finished' : done.file = job'[j].file
    <3>1. \/ pc[j] \in Restoring /\ job'[j].file = job[j].file
          \/ \E n \in Listed : job'[j].file = backups[n]
      BY <2>2, Steps DEF Goes
    <3>. QED
      BY <3>1, ListedFile DEF Known
  <2>. QED
    BY <2>1, <2>2 DEF Known
<1>. QED
  BY <1>1, <1>2, <1>5, <1>6

\* A step that leaves the files alone keeps what is said of them.
LEMMA FilesKept ==
  ASSUME BackupsTypeOK, Records, BackupIsWhole, Prunable, NewestAreKept,
         UNCHANGED filesVars, UNCHANGED pruned, doomed' \subseteq doomed
  PROVE  Records' /\ BackupIsWhole' /\ Prunable' /\ NewestAreKept'
<1>. USE DEF filesVars
<1>1. Records' /\ BackupIsWhole' /\ NewestAreKept'
  BY DEF Records, BackupIsWhole, NewestAreKept, Listed, Whole
<1>2. \A f : Above(f)' = Above(f)
  BY DEF Above
<1>3. Prunable'
  BY <1>2 DEF Prunable
<1>. QED
  BY <1>1, <1>3

\* A step of one job on its database, which leaves the files alone.
LEMMA OthersSpared ==
  ASSUME BackupsTypeOK, Alone, NEW a \in Jobs, Busy(a), NEW j \in Jobs \ {a},
         pc'[j] = pc[j], job'[j] = job[j], file' = file,
         \A d \in Databases : d # job[a].db => Unused(d)
  PROVE  Spared(j)
<1>1. job[j].db \in Databases /\ MoreMet(j)
  BY Types DEF MoreMet
<1>2. CASE ~Busy(j)
  BY <1>2 DEF Spared, Busy
<1>3. CASE Busy(j) /\ job[j].db = job[a].db
  BY <1>3 DEF Alone, Spared
<1>4. CASE job[j].db # job[a].db
  BY <1>1, <1>4 DEF Spared, Undisturbed
<1>. QED
  BY <1>2, <1>3, <1>4

\* The transactions that are counted.
LEMMA CountedKept ==
  ASSUME BackupsTypeOK, Counted,
         \A d \in Databases : /\ commits'[d] = commits[d]
                              /\ wal'[d] = wal[d] \/ wal'[d] = 0
  PROVE  /\ Counted'
         /\ \A d \in Databases : commits'[d] \in Nat /\ commits[d] <= commits'[d]
<1>1. \A d \in Databases : commits[d] \in Nat /\ wal[d] \in Nat
  BY Types
<1>2. MaxCommits \in Nat
  BY Types
<1>. QED
  BY <1>1, <1>2 DEF Counted

\* A job starts, and the ones that are on its database as well know it.
LEMMA StartMeans ==
  ASSUME BackupsTypeOK, Counted, Made, Records, Alone, Owned, Known,
         NEW a \in Jobs, pc[a] = "idle", NEW d \in Databases, NEW new \in Job,
         Start(a, d, new), NEW step \in {"checkpoint", "close"},
         pc' = [pc EXCEPT ![a] = step], new.db = d, new.since <= commits[d],
         step = "checkpoint" => new.name.db = d,
         UNCHANGED filesVars, UNCHANGED <<commits, main, wal>>
  PROVE  /\ Made' /\ Alone' /\ Owned' /\ Known'
         /\ \A j \in Jobs \ {a} : Spared(j)
         /\ job'[a] = [new EXCEPT !.met = job'[a].met] /\ new.met \subseteq job'[a].met
<1>. USE DEF filesVars
<1>1. /\ pc'[a] = step /\ \A j \in Jobs \ {a} : pc'[j] = pc[j]
      /\ step \notin {"idle", "list", "prune"} /\ step \notin Copying /\ step \notin Restoring
  BY DEF BackupsTypeOK, Copying, Restoring
<1>2. \A j \in Jobs \ {a} : MoreMet(j)
  <2>. SUFFICES ASSUME NEW j \in Jobs \ {a} PROVE MoreMet(j)
    OBVIOUS
  <2>1. job'[j] = Meets(j, "overlap") \/ job'[j] = job[j]
    BY DEF Start
  <2>2. job[j] \in Job
    BY Types
  <2>. QED
    BY <2>1, <2>2 DEF MoreMet, Meets, Job
<1>3. \A j \in Jobs \ {a} : Busy(j) /\ job[j].db = d => "overlap" \in job'[j].met
  <2>. SUFFICES ASSUME NEW j \in Jobs \ {a}, Busy(j), job[j].db = d PROVE "overlap" \in job'[j].met
    OBVIOUS
  <2>1. Working(j, d)
    BY DEF Working, Busy
  <2>2. job'[j] = Meets(j, "overlap")
    BY <2>1 DEF Start
  <2>3. job[j] \in Job
    BY Types
  <2>. QED
    BY <2>2, <2>3 DEF Meets, Job
<1>4. /\ job'[a].name = new.name /\ job'[a].db = d /\ job'[a].since = new.since
      /\ job'[a].held = new.held /\ new.met \subseteq job'[a].met
      /\ job'[a] = [new EXCEPT !.met = job'[a].met]
      /\ (\E j \in Jobs \ {a} : Busy(j) /\ job[j].db = d) => "overlap" \in job'[a].met
  <2> DEFINE others == {i \in Jobs \ {a} : Working(i, d)}
  <2>1. job'[a] = [new EXCEPT !.met = @ \cup {c \in {"overlap"} : others # {}}]
    BY DEF Start
  <2>2. (\E j \in Jobs \ {a} : Busy(j) /\ job[j].db = d) => others # {}
    BY DEF Working, Busy
  <2> HIDE DEF others
  <2>. QED
    BY <2>1, <2>2 DEF Job
<1>5. Made'
  BY <1>1, <1>2 DEF Made, MoreMet
<1>6. Alone'
  <2>1. ASSUME NEW j \in Jobs, pc'[j] \in BackingUp PROVE job'[j].name.db = job'[j].db
    <3>1. CASE j = a
      <4>1. step = "checkpoint"
        BY <1>1, <2>1, <3>1 DEF BackingUp, Copying
      <4>. QED
        BY <1>4, <3>1, <4>1
    <3>2. CASE j # a
      BY <1>1, <1>2, <2>1, <3>2 DEF Alone, MoreMet
    <3>. QED
      BY <3>1, <3>2
  <2>2. ASSUME NEW i \in Jobs, NEW j \in Jobs, i # j, Busy(i)', Busy(j)', job'[i].db = job'[j].db
        PROVE  "overlap" \in job'[i].met
    <3>1. CASE i = a
      <4>1. j \in Jobs \ {a} /\ Busy(j) /\ job[j].db = d
        BY <1>1, <1>2, <1>4, <2>2, <3>1 DEF Busy, MoreMet
      <4>. QED
        BY <1>4, <3>1, <4>1
    <3>2. CASE j = a
      <4>1. i \in Jobs \ {a} /\ Busy(i) /\ job[i].db = d
        BY <1>1, <1>2, <1>4, <2>2, <3>2 DEF Busy, MoreMet
      <4>. QED
        BY <1>3, <4>1
    <3>3. CASE i # a /\ j # a
      <4>1. Busy(i) /\ Busy(j) /\ job[i].db = job[j].db /\ job[i].met \subseteq job'[i].met
        BY <1>1, <1>2, <2>2, <3>3 DEF Busy, MoreMet
      <4>. QED
        BY <2>2, <4>1 DEF Alone
    <3>. QED
      BY <3>1, <3>2, <3>3
  <2>. QED
    BY <2>1, <2>2 DEF Alone
<1>7. Owned'
  <2>1. \A f : Shared(f)' <=> Shared(f)
    BY DEF Shared
  <2>2. \A j \in Jobs : pc'[j] \in Copying => j # a
    BY <1>1
  <2>. QED
    BY <1>1, <1>2, <2>1, <2>2 DEF Owned, MoreMet
<1>8. Known'
  <2>1. ASSUME NEW j \in Jobs, Busy(j)' PROVE job'[j].since <= commits'[job'[j].db]
    BY <1>1, <1>2, <1>4, <2>1 DEF Known, Busy, MoreMet
  <2>2. ASSUME NEW j \in Jobs, pc'[j] \in Restoring
        PROVE  \E done \in finished' : done.file = job'[j].file
    BY <1>1, <1>2, <2>2 DEF Known, MoreMet
  <2>. QED
    BY <2>1, <2>2 DEF Known
<1>9. \A j \in Jobs \ {a} : Spared(j)
  BY <1>1, <1>2 DEF Spared, Undisturbed, Unused
<1>. QED
  BY <1>4, <1>5, <1>6, <1>7, <1>8, <1>9

-----------------------------------------------------------------------------
(* The steps.  Each keeps what is held.                                    *)

\* A backup starts from what the database shows.
LEMMA CreateBackupKeeps ==
  ASSUME BackupsInv, NEW a \in Jobs, NEW d \in Databases, CreateBackup(a, d)
  PROVE  Held'
<1> DEFINE new == [name |-> [db |-> d, at |-> now], db |-> d, file |-> 0,
                   held |-> Holds(d)[1], since |-> commits[d],
                   met |-> {c \in {"torn"} : ~Whole(main[d])}]
<1>. USE DEF BackupsInv, Held, KeepFiles, KeepDatabases, KeepLists, Goto
<1>1. /\ pc[a] = "idle" /\ Start(a, d, new) /\ pc' = [pc EXCEPT ![a] = "checkpoint"]
      /\ UNCHANGED filesVars /\ UNCHANGED <<commits, main, wal>> /\ UNCHANGED pruned /\ doomed' \subseteq doomed
  BY DEF CreateBackup
<1>2. new \in Job
  <2>1. now \in 0..MaxSeconds /\ commits[d] \in Nat /\ MaxFiles \in Nat /\ Holds(d)[1] \in Nat
    BY Types DEF Pages
  <2>2. [db |-> d, at |-> now] \in BackupName
    BY <2>1 DEF BackupName
  <2>3. {c \in {"torn"} : ~Whole(main[d])} \in SUBSET Causes
    BY DEF Causes
  <2>. QED
    BY <2>1, <2>2, <2>3 DEF Job
<1>3. /\ new.db = d /\ new.since = commits[d] /\ new.name.db = d /\ new.held = Holds(d)[1]
      /\ ~Whole(main[d]) => "torn" \in new.met
      /\ commits[d] \in Nat /\ wal[d] \in Nat /\ wal[d] <= MaxCommits /\ MaxCommits \in Nat
  BY Types DEF Counted
<1> HIDE DEF new
<1>4. /\ Made' /\ Alone' /\ Owned' /\ Known'
      /\ \A j \in Jobs \ {a} : Spared(j)
      /\ job'[a] = [new EXCEPT !.met = job'[a].met] /\ new.met \subseteq job'[a].met
  <2>1. new.since <= commits[d] /\ "checkpoint" \in {"checkpoint", "close"}
    BY <1>3
  <2>. QED
    BY <1>1, <1>2, <1>3, <2>1, StartMeans
<1>5. Counted'
  BY <1>1 DEF Counted
<1>6. Records' /\ BackupIsWhole' /\ Prunable' /\ NewestAreKept'
  BY <1>1, FilesKept
<1>7. ASSUME NEW j \in Jobs PROVE Copies(j)'
  <2>1. CASE j # a
    BY <1>1, <1>4, <2>1, SparedKeeps DEF filesVars
  <2>2. CASE j = a
    <3>1. /\ pc'[a] = "checkpoint" /\ job'[a].db = d /\ job'[a].held = Holds(d)[1]
          /\ ~Whole(main[d]) => "torn" \in job'[a].met
      BY <1>1, <1>2, <1>3, <1>4 DEF Job, BackupsTypeOK
    <3>2. Whole(main[d]) => \A p \in Pages : Holds(d)[p] = Holds(d)[1]
      BY DEF Whole, Holds, Pages
    <3>3. main'[d] = main[d] /\ Holds(d)' = Holds(d)
      BY <1>1 DEF Holds
    <3>4. Holds(job[a].db)' = Holds(d)'
      BY <3>1 DEF Holds
    <3>5. WholeCopy(a)'
      BY <3>1, <3>3 DEF WholeCopy, Free, Whole
    <3>6. CurrentCopy(a)'
      BY <3>1, <3>2, <3>3, <3>4 DEF CurrentCopy, Free, Recent
    <3>7. RestoredCopy(a)'
      BY <3>1 DEF RestoredCopy
    <3>. QED
      BY <2>2, <3>5, <3>6, <3>7 DEF Copies
  <2>. QED
    BY <2>1, <2>2
<1>. QED
  BY <1>4, <1>5, <1>6, <1>7

\* A restore starts.
LEMMA HandleRestoreKeeps ==
  ASSUME BackupsInv, NEW a \in Jobs, NEW n \in BackupName, NEW d \in Databases, HandleRestore(a, n, d)
  PROVE  Held'
<1> DEFINE new == [name |-> n, db |-> d, file |-> 0, held |-> 1, since |-> 1, met |-> {}]
<1>. USE DEF BackupsInv, Held, KeepFiles, KeepDatabases, KeepLists, Goto
<1>1. /\ pc[a] = "idle" /\ Start(a, d, new) /\ pc' = [pc EXCEPT ![a] = "close"]
      /\ UNCHANGED filesVars /\ UNCHANGED <<commits, main, wal>> /\ UNCHANGED pruned /\ doomed' \subseteq doomed
  BY DEF HandleRestore
<1>2. new \in Job
  BY Types DEF Job
<1>3. new.db = d /\ new.since <= commits[d]
  BY DEF Counted
<1> HIDE DEF new
<1>4. /\ Made' /\ Alone' /\ Owned' /\ Known'
      /\ \A j \in Jobs \ {a} : Spared(j)
  BY <1>1, <1>2, <1>3, StartMeans
<1>5. Counted'
  BY <1>1 DEF Counted
<1>6. Records' /\ BackupIsWhole' /\ Prunable' /\ NewestAreKept'
  BY <1>1, FilesKept
<1>7. ASSUME NEW j \in Jobs PROVE Copies(j)'
  <2>1. CASE j # a
    BY <1>1, <1>4, <2>1, SparedKeeps DEF filesVars
  <2>2. CASE j = a
    <3>1. pc'[a] = "close"
      BY <1>1 DEF BackupsTypeOK
    <3>. QED
      BY <2>2, <3>1 DEF Copies, WholeCopy, CurrentCopy, RestoredCopy, BackingUp, Copying
  <2>. QED
    BY <2>1, <2>2
<1>. QED
  BY <1>4, <1>5, <1>6, <1>7

\* What a step on one database leaves to be shown.
LEMMA OnDatabase ==
  ASSUME BackupsInv, NEW a \in Jobs, Busy(a),
         \A j \in Jobs \ {a} : pc'[j] = pc[j] /\ job'[j] = job[j],
         UNCHANGED filesVars, UNCHANGED <<commits, doomed, pruned>>,
         \A d \in Databases : d # job[a].db => main'[d] = main[d] /\ wal'[d] = wal[d],
         wal'[job[a].db] = wal[job[a].db] \/ wal'[job[a].db] = 0,
         Goes(a), Copies(a)'
  PROVE  Held'
<1>. USE DEF BackupsInv, Held
<1>1. Counted' /\ \A d \in Databases : commits'[d] \in Nat /\ commits[d] <= commits'[d]
  <2>1. \A d \in Databases : commits'[d] = commits[d] /\ (wal'[d] = wal[d] \/ wal'[d] = 0)
    OBVIOUS
  <2>. QED
    BY <2>1, CountedKept
<1>2. \A j \in Jobs : Goes(j)
  <2>1. \A j \in Jobs \ {a} : pc'[j] = pc[j] /\ MoreMet(j)
    BY DEF MoreMet
  <2>. QED
    BY <2>1, SameGoes
<1>3. Made' /\ Alone' /\ Owned' /\ Known'
  BY <1>1, <1>2, GoesOn DEF filesVars
<1>4. Records' /\ BackupIsWhole' /\ Prunable' /\ NewestAreKept'
  BY FilesKept
<1>5. ASSUME NEW j \in Jobs PROVE Copies(j)'
  <2>1. CASE j # a
    <3>1. \A d \in Databases : d # job[a].db => Unused(d)
      BY DEF Unused
    <3>2. Spared(j)
      BY <2>1, <3>1, OthersSpared DEF filesVars
    <3>. QED
      BY <3>2, SparedKeeps DEF filesVars
  <2>2. CASE j = a
    BY <2>2
  <2>. QED
    BY <2>1, <2>2
<1>. QED
  BY <1>1, <1>3, <1>4, <1>5

\* What an attempt to empty the log leaves.
LEMMA TryMeans ==
  ASSUME BackupsTypeOK, NEW a \in Jobs, NEW d \in Databases, TryCheckpoint(a, d)
  PROVE  /\ \A e \in Databases : e # d => main'[e] = main[e] /\ wal'[e] = wal[e]
         /\ \A j \in Jobs \ {a} : job'[j] = job[j]
         /\ MoreMet(a)
         /\ \/ main'[d] = Holds(d) /\ wal'[d] = 0
            \/ main'[d] = main[d] /\ wal'[d] = wal[d] /\ "busy" \in job'[a].met
<1>1. CASE Checkpointed(d) /\ UNCHANGED job
  BY <1>1 DEF Checkpointed, BackupsTypeOK, MoreMet
<1>2. CASE job' = [job EXCEPT ![a] = Meets(a, "busy")] /\ UNCHANGED <<main, wal>>
  <2>1. job[a] \in Job /\ job'[a] = Meets(a, "busy") /\ \A j \in Jobs \ {a} : job'[j] = job[j]
    BY <1>2 DEF BackupsTypeOK
  <2>2. MoreMet(a) /\ "busy" \in job'[a].met
    BY <2>1 DEF Meets, MoreMet, Job
  <2>. QED
    BY <1>2, <2>1, <2>2
<1>. QED
  BY <1>1, <1>2 DEF TryCheckpoint

\* The log is emptied into the file, or the job was told that it is in use.
LEMMA CheckpointFirstKeeps ==
  ASSUME BackupsInv, NEW a \in Jobs, CheckpointFirst(a)
  PROVE  Held'
<1>. USE DEF BackupsInv, KeepFiles, KeepWorld, Goto
<1>0. PICK d \in Databases : d = job[a].db
  BY Types
<1>1. /\ pc[a] = "checkpoint" /\ TryCheckpoint(a, d) /\ pc' = [pc EXCEPT ![a] = "create"]
      /\ UNCHANGED filesVars /\ UNCHANGED <<commits, doomed, pruned>>
  BY <1>0 DEF CheckpointFirst
<1>2. /\ \A e \in Databases : e # d => main'[e] = main[e] /\ wal'[e] = wal[e]
      /\ \A j \in Jobs \ {a} : job'[j] = job[j]
      /\ MoreMet(a)
      /\ \/ main'[d] = Holds(d) /\ wal'[d] = 0
         \/ main'[d] = main[d] /\ wal'[d] = wal[d] /\ "busy" \in job'[a].met
  BY <1>1, TryMeans
<1>3. pc'[a] = "create" /\ \A j \in Jobs \ {a} : pc'[j] = pc[j]
  BY <1>1 DEF BackupsTypeOK
<1>4. Busy(a) /\ Goes(a)
  BY <1>1, <1>2, <1>3 DEF Busy, Goes, MoreMet, BackingUp, Copying, Restoring
<1>5. /\ wal[d] \in Nat /\ wal[d] <= MaxCommits /\ MaxCommits \in Nat
      /\ job'[a].db = d /\ job'[a].held = job[a].held /\ job'[a].since = job[a].since
      /\ job[a].met \subseteq job'[a].met
  BY <1>0, <1>2, Types DEF Held, Counted, MoreMet
<1>6. Copies(a)
  BY DEF Held
<1>7. Holds(job[a].db)' = IF wal'[d] > 0 THEN [p \in Pages |-> wal'[d]] ELSE main'[d]
  BY <1>5 DEF Holds
<1>8. WholeCopy(a)'
  <2>1. Whole(main[d]) => Whole(main'[d])
    BY <1>2, <1>5 DEF Whole, Holds
  <2>2. Free(a, {"torn", "overlap"})' => Whole(main[d])
    BY <1>0, <1>1, <1>5, <1>6 DEF Copies, WholeCopy, Free, BackingUp
  <2>3. Whole(main[d])' <=> Whole(main'[d])
    BY DEF Whole
  <2>. QED
    BY <1>3, <1>5, <2>1, <2>2, <2>3 DEF WholeCopy, Whole
<1>9. CurrentCopy(a)'
  <2>. SUFFICES ASSUME Free(a, {"torn", "busy", "overlap"})'
                PROVE  \A p \in Pages : Recent(a, Holds(job[a].db)'[p]) /\ Recent(a, main'[d][p])
    <3>1. \A x : Recent(a, x)' <=> Recent(a, x)
      BY <1>5 DEF Recent
    <3>. QED
      BY <1>3, <1>5, <3>1 DEF CurrentCopy
  <2>1. main'[d] = Holds(d) /\ wal'[d] = 0
    BY <1>2 DEF Free
  <2>2. Holds(job[a].db)' = Holds(d)
    BY <1>7, <2>1
  <2>3. \A p \in Pages : Recent(a, Holds(d)[p])
    BY <1>0, <1>1, <1>5, <1>6 DEF Copies, CurrentCopy, Free, BackingUp
  <2>. QED
    BY <2>1, <2>2, <2>3
<1>10. RestoredCopy(a)'
  BY <1>3 DEF RestoredCopy
<1>. QED
  BY <1>0, <1>1, <1>2, <1>3, <1>4, <1>8, <1>9, <1>10, OnDatabase DEF Copies

\* The database is closed and its log emptied, or the restore knows that it was not.
LEMMA CloseDatabaseKeeps ==
  ASSUME BackupsInv, NEW a \in Jobs, CloseDatabase(a)
  PROVE  Held'
<1>. USE DEF BackupsInv, KeepFiles, KeepWorld, Goto
<1>0. PICK d \in Databases : d = job[a].db
  BY Types
<1>1. /\ pc[a] = "close" /\ pc' = [pc EXCEPT ![a] = "truncate"]
      /\ UNCHANGED filesVars /\ UNCHANGED <<commits, doomed, pruned>>
      /\ \/ TryCheckpoint(a, d)
         \/ /\ job' = IF wal[d] > 0 THEN [job EXCEPT ![a] = Meets(a, "left")] ELSE job
            /\ UNCHANGED <<main, wal>>
  BY <1>0 DEF CloseDatabase
<1>2. /\ \A e \in Databases : e # d => main'[e] = main[e] /\ wal'[e] = wal[e]
      /\ \A j \in Jobs \ {a} : job'[j] = job[j]
      /\ MoreMet(a)
      /\ wal'[d] = wal[d] \/ wal'[d] = 0
      /\ Free(a, {"busy", "used", "left", "overlap"})' => wal'[d] = 0
  <2>1. CASE TryCheckpoint(a, d)
    BY <2>1, TryMeans DEF Free
  <2>2. CASE /\ job' = IF wal[d] > 0 THEN [job EXCEPT ![a] = Meets(a, "left")] ELSE job
             /\ UNCHANGED <<main, wal>>
    <3>1. job[a] \in Job /\ wal[d] \in Nat /\ \A j \in Jobs \ {a} : job'[j] = job[j]
      BY <2>2 DEF BackupsTypeOK
    <3>2. wal[d] > 0 => job'[a] = Meets(a, "left")
      BY <2>2 DEF BackupsTypeOK
    <3>3. MoreMet(a) /\ (wal[d] > 0 => "left" \in job'[a].met)
      BY <2>2, <3>1, <3>2 DEF Meets, MoreMet, Job
    <3>. QED
      BY <2>2, <3>1, <3>3 DEF Free
  <2>. QED
    BY <1>1, <2>1, <2>2
<1>3. pc'[a] = "truncate" /\ \A j \in Jobs \ {a} : pc'[j] = pc[j]
  BY <1>1 DEF BackupsTypeOK
<1>4. Busy(a) /\ Goes(a)
  BY <1>1, <1>2, <1>3 DEF Busy, Goes, MoreMet, BackingUp, Copying, Restoring
<1>5. job'[a].db = d
  BY <1>0, <1>2 DEF MoreMet
<1>6. Copies(a)'
  BY <1>2, <1>3, <1>5 DEF Copies, WholeCopy, CurrentCopy, RestoredCopy, BackingUp, Copying
<1>. QED
  BY <1>0, <1>1, <1>2, <1>3, <1>4, <1>6, OnDatabase

\* The restore opens a listed backup and empties the database file, or gives up.
LEMMA TruncateDatabaseKeeps ==
  ASSUME BackupsInv, NEW a \in Jobs, TruncateDatabase(a)
  PROVE  Held'
<1>. USE DEF BackupsInv, KeepFiles, KeepWorld, Goto, Forget
<1>0. PICK d \in Databases, n \in BackupName : d = job[a].db /\ n = job[a].name
  BY Types
<1>1. /\ pc[a] = "truncate" /\ wal' = wal
      /\ UNCHANGED filesVars /\ UNCHANGED <<commits, doomed, pruned>>
      /\ \/ /\ backups[n] > 0
            /\ job' = [job EXCEPT ![a].file = backups[n]]
            /\ main' = [main EXCEPT ![d] = Missing]
            /\ pc' = [pc EXCEPT ![a] = "restore 1"]
         \/ /\ pc' = [pc EXCEPT ![a] = "idle"]
            /\ job' = [job EXCEPT ![a] = NoJob]
            /\ UNCHANGED main
  BY <1>0 DEF TruncateDatabase
<1>2. /\ \A j \in Jobs \ {a} : job'[j] = job[j] /\ pc'[j] = pc[j]
      /\ \A e \in Databases : e # d => main'[e] = main[e] /\ wal'[e] = wal[e]
      /\ wal'[d] = wal[d] /\ Busy(a)
  BY <1>1 DEF BackupsTypeOK, Busy
<1>3. CASE pc' = [pc EXCEPT ![a] = "idle"]
  <2>1. pc'[a] = "idle"
    BY <1>3 DEF BackupsTypeOK
  <2>2. Goes(a) /\ Copies(a)'
    BY <2>1 DEF Goes, Copies, WholeCopy, CurrentCopy, RestoredCopy, BackingUp, Copying
  <2>. QED
    BY <1>0, <1>1, <1>2, <2>2, OnDatabase
<1>4. CASE backups[n] > 0 /\ job' = [job EXCEPT ![a].file = backups[n]] /\ pc' = [pc EXCEPT ![a] = "restore 1"]
  <2>1. /\ pc'[a] = "restore 1" /\ job[a] \in Job
        /\ job'[a] = [job[a] EXCEPT !.file = backups[n]]
        /\ n \in Listed
    BY <1>0, <1>4 DEF BackupsTypeOK, Listed
  <2>2. /\ job'[a].name = job[a].name /\ job'[a].db = d /\ job'[a].since = job[a].since
        /\ job'[a].met = job[a].met /\ job'[a].file = backups[n]
    BY <1>0, <2>1 DEF Job
  <2>3. Goes(a)
    BY <1>0, <1>2, <2>1, <2>2 DEF Goes, BackingUp, Copying, Restoring
  <2>4. RestoredCopy(a) /\ wal'[d] = wal[d]
    BY <1>1 DEF Held, Copies
  <2>5. Copies(a)'
    BY <1>0, <1>1, <2>1, <2>2, <2>4 DEF Copies, WholeCopy, CurrentCopy, RestoredCopy, BackingUp, Copying, Free
  <2>. QED
    BY <1>0, <1>1, <1>2, <2>3, <2>5, OnDatabase
<1>. QED
  BY <1>1, <1>3, <1>4

\* A page of the backup goes to the database file, whose log is empty.
LEMMA RestorePageKeeps ==
  ASSUME BackupsInv, NEW a \in Jobs, NEW p \in Pages, RestorePage(a, p)
  PROVE  Held'
<1>. USE DEF BackupsInv, KeepFiles, KeepWorld, Goto
<1>0. PICK d \in Databases, f \in 0..MaxFiles : d = job[a].db /\ f = job[a].file
  BY Types
<1>1. /\ pc[a] = (IF p = 1 THEN "restore 1" ELSE "restore 2") /\ wal' = wal
      /\ UNCHANGED filesVars /\ UNCHANGED <<commits, doomed, pruned>>
      /\ main' = [main EXCEPT ![d][p] = file[f][p]]
      /\ job' = [job EXCEPT ![a].since = commits[d]]
      /\ pc' = [pc EXCEPT ![a] = IF p = 1 THEN "restore 2" ELSE "open"]
  BY <1>0 DEF RestorePage
<1>2. /\ \A j \in Jobs \ {a} : job'[j] = job[j] /\ pc'[j] = pc[j]
      /\ \A e \in Databases : e # d => main'[e] = main[e] /\ wal'[e] = wal[e]
      /\ wal'[d] = wal[d] /\ Busy(a) /\ pc[a] \in Restoring
  BY <1>1 DEF BackupsTypeOK, Busy, Restoring
<1>3. /\ pc'[a] = IF p = 1 THEN "restore 2" ELSE "open"
      /\ job[a] \in Job /\ job'[a] = [job[a] EXCEPT !.since = commits[d]]
      /\ main[d] \in Content /\ main'[d] = [main[d] EXCEPT ![p] = file[f][p]]
  BY <1>0, <1>1 DEF BackupsTypeOK
<1>4. /\ job'[a].name = job[a].name /\ job'[a].db = d /\ job'[a].since = commits[d]
      /\ job'[a].met = job[a].met /\ job'[a].file = f
      /\ main'[d][p] = file[f][p] /\ \A q \in Pages \ {p} : main'[d][q] = main[d][q]
  BY <1>0, <1>3 DEF Job, Content
<1>5. Goes(a)
  BY <1>0, <1>2, <1>3, <1>4 DEF Goes, BackingUp, Copying, Restoring
<1>6. p = 2 => pc[a] = "restore 2"
  <2>1. pc[a] = IF p = 1 THEN "restore 1" ELSE "restore 2"
    BY DEF RestorePage
  <2>2. p = 2 => p # 1
    OBVIOUS
  <2>. QED
    BY <2>1, <2>2
<1>7. RestoredCopy(a)'
  <2>. SUFFICES ASSUME Free(a, {"busy", "used", "left", "overlap"})'
                PROVE  /\ wal'[d] = 0
                       /\ p = 1 => main'[d][1] = file'[f][1]
                       /\ p = 2 /\ ~Shared(f)' => \A q \in Pages : Holds(d)'[q] = file'[f][q]
    <3>1. /\ Holds(job[a].db)' = Holds(d)' /\ (Shared(job[a].file)' <=> Shared(f)')
          /\ p = 1 \/ p = 2
      BY <1>4 DEF Holds, Shared, Pages
    <3>. QED
      BY <1>3, <1>4, <3>1 DEF RestoredCopy
  <2>1. /\ Free(a, {"busy", "used", "left", "overlap"}) /\ file' = file
        /\ Shared(f)' <=> Shared(f)
    BY <1>1, <1>4 DEF Free, Shared, filesVars
  <2>2. wal'[d] = 0
    BY <1>0, <1>1, <1>2, <2>1 DEF Held, Copies, RestoredCopy
  <2>3. ASSUME p = 2, ~Shared(f) PROVE main[d][1] = file[f][1]
    <3>1. pc[a] = "restore 2" /\ RestoredCopy(a)
      BY <1>6, <2>3 DEF Held, Copies
    <3>. QED
      BY <1>0, <2>1, <2>3, <3>1 DEF RestoredCopy
  <2>4. Holds(d)' = main'[d]
    BY <2>2 DEF Holds
  <2>. QED
    BY <1>4, <2>1, <2>2, <2>3, <2>4 DEF Pages
<1>8. Copies(a)'
  BY <1>3, <1>7 DEF Copies, WholeCopy, CurrentCopy, BackingUp, Copying
<1>. QED
  BY <1>0, <1>1, <1>2, <1>5, <1>8, OnDatabase

\* The restore is through.
LEMMA ReopenDatabaseKeeps ==
  ASSUME BackupsInv, NEW a \in Jobs, ReopenDatabase(a)
  PROVE  Held'
<1>. USE DEF BackupsInv, KeepFiles, KeepWorld, Goto, Forget
<1>1. /\ pc[a] = "open" /\ pc' = [pc EXCEPT ![a] = "idle"] /\ job' = [job EXCEPT ![a] = NoJob]
      /\ UNCHANGED filesVars /\ UNCHANGED <<commits, main, wal, doomed, pruned>>
  BY DEF ReopenDatabase
<1>2. /\ \A j \in Jobs \ {a} : job'[j] = job[j] /\ pc'[j] = pc[j]
      /\ pc'[a] = "idle" /\ Busy(a) /\ job[a].db \in Databases
  BY <1>1, Types DEF BackupsTypeOK, Busy
<1>3. Goes(a) /\ Copies(a)'
  BY <1>2 DEF Goes, Copies, WholeCopy, CurrentCopy, RestoredCopy, BackingUp, Copying
<1>. QED
  BY <1>1, <1>2, <1>3, OnDatabase

-----------------------------------------------------------------------------
(* Steps that no job takes.                                                *)

\* What a step leaves to be shown that spares all jobs and changes no file.
LEMMA NobodysStep ==
  ASSUME BackupsInv, \A j \in Jobs : Goes(j) /\ Spared(j),
         UNCHANGED filesVars, UNCHANGED pruned, doomed' \subseteq doomed, Counted',
         \A d \in Databases : commits'[d] \in Nat /\ commits[d] <= commits'[d]
  PROVE  Held'
<1>. USE DEF BackupsInv, Held
<1>1. Made' /\ Alone' /\ Owned' /\ Known'
  BY GoesOn DEF filesVars
<1>2. Records' /\ BackupIsWhole' /\ Prunable' /\ NewestAreKept'
  BY FilesKept
<1>3. \A j \in Jobs : Copies(j)'
  BY SparedKeeps DEF filesVars
<1>. QED
  BY <1>1, <1>2, <1>3

\* Jobs meet a cause.
LEMMA JobsMeetMeans ==
  ASSUME BackupsTypeOK, NEW d, NEW steps, NEW c, JobsMeet(d, steps, c), NEW j \in Jobs
  PROVE  /\ MoreMet(j)
         /\ Busy(j) /\ job[j].db = d /\ pc[j] \in steps => c \in job'[j].met
<1>1. job[j] \in Job
  BY Types
<1>2. job'[j] = IF Working(j, d) /\ pc[j] \in steps THEN Meets(j, c) ELSE job[j]
  BY DEF JobsMeet
<1>. QED
  BY <1>1, <1>2 DEF MoreMet, Meets, Job, Working, Busy

\* A transaction commits: restores that have yet to copy know of it.
LEMMA CommitKeeps ==
  ASSUME BackupsInv, NEW d \in Databases, Commit(d)
  PROVE  Held'
<1>. USE DEF BackupsInv, KeepFiles, KeepWorld
<1>1. /\ UNCHANGED filesVars /\ UNCHANGED <<main, pc, pruned, doomed>>
      /\ commits[d] < MaxCommits
      /\ commits' = [commits EXCEPT ![d] = commits[d] + 1]
      /\ wal' = [wal EXCEPT ![d] = commits[d] + 1]
      /\ JobsMeet(d, {"truncate", "restore 1", "restore 2"}, "used")
  BY DEF Commit
<1>2. /\ \A e \in Databases : commits[e] \in Nat /\ wal[e] \in Nat
      /\ MaxCommits \in Nat
  BY Types
<1>3. Committed(d) /\ \A e \in Databases \ {d} : Unused(e)
  BY <1>1 DEF Committed, Unused, BackupsTypeOK
<1>4. \A e \in Databases : commits'[e] \in Nat /\ commits[e] <= commits'[e]
  BY <1>2, <1>3 DEF Committed, Unused
<1>5. Counted'
  <2>. SUFFICES ASSUME NEW e \in Databases
                PROVE  commits'[e] >= 1 /\ wal'[e] <= commits'[e] /\ wal'[e] <= MaxCommits
    BY DEF Counted
  <2>1. commits[e] >= 1 /\ wal[e] <= commits[e] /\ wal[e] <= MaxCommits
    BY DEF Held, Counted
  <2>2. CASE e = d
    <3>1. commits'[d] = commits[d] + 1 /\ wal'[d] = commits[d] + 1 /\ commits[d] < MaxCommits
      BY <1>1, <1>3 DEF Committed
    <3>2. commits[d] \in Nat /\ MaxCommits \in Nat
      BY <1>2
    <3>. QED
      BY <2>1, <2>2, <3>1, <3>2
  <2>3. CASE e # d
    BY <1>3, <2>1, <2>3 DEF Unused
  <2>. QED
    BY <2>2, <2>3
<1>6. ASSUME NEW j \in Jobs PROVE Goes(j) /\ Spared(j)
  <2>1. /\ MoreMet(j) /\ pc'[j] = pc[j] /\ job[j].db \in Databases /\ file' = file
        /\ Busy(j) /\ job[j].db = d /\ pc[j] \in {"truncate", "restore 1", "restore 2"}
             => "used" \in job'[j].met
    BY <1>1, JobsMeetMeans, Types DEF filesVars
  <2>2. pc[j] \in {"truncate", "restore 1", "restore 2"} => Busy(j)
    BY DEF Busy
  <2>3. Undisturbed(j)
    BY <1>3, <2>1, <2>2 DEF Undisturbed
  <2>. QED
    BY <2>1, <2>3, SameGoes DEF Spared
<1>. QED
  BY <1>1, <1>4, <1>5, <1>6, NobodysStep

\* SQLite writes the file: a backup between its two pages knows of it.
LEMMA AutoCheckpointKeeps ==
  ASSUME BackupsInv, NEW d \in Databases, AutoCheckpoint(d)
  PROVE  Held'
<1>. USE DEF BackupsInv, KeepFiles, KeepWorld
<1>1. /\ UNCHANGED filesVars /\ UNCHANGED <<commits, pc, pruned, doomed>>
      /\ wal[d] > 0 /\ Checkpointed(d)
      /\ JobsMeet(d, {"copy 2"}, "written")
  BY DEF AutoCheckpoint
<1>2. Emptied(d) /\ \A e \in Databases \ {d} : Unused(e)
  BY <1>1 DEF Emptied, Unused, Checkpointed, BackupsTypeOK
<1>3. Counted' /\ \A e \in Databases : commits'[e] \in Nat /\ commits[e] <= commits'[e]
  <2>1. \A e \in Databases : commits'[e] = commits[e] /\ (wal'[e] = wal[e] \/ wal'[e] = 0)
    BY <1>2 DEF Emptied, Unused
  <2>. QED
    BY <2>1, CountedKept DEF Held
<1>4. ASSUME NEW j \in Jobs PROVE Goes(j) /\ Spared(j)
  <2>1. /\ MoreMet(j) /\ pc'[j] = pc[j] /\ job[j].db \in Databases /\ file' = file
        /\ Busy(j) /\ job[j].db = d /\ pc[j] = "copy 2" => "written" \in job'[j].met
    BY <1>1, JobsMeetMeans, Types DEF filesVars
  <2>2. pc[j] = "copy 2" => Busy(j)
    BY DEF Busy
  <2>3. Undisturbed(j)
    BY <1>2, <2>1, <2>2 DEF Undisturbed
  <2>. QED
    BY <2>1, <2>3, SameGoes DEF Spared
<1>. QED
  BY <1>1, <1>3, <1>4, NobodysStep

\* A crash ends all jobs and leaves the files as they are.
LEMMA BackupsCrashKeeps == ASSUME BackupsInv, BackupsCrash PROVE Held'
<1>. USE DEF BackupsInv, KeepFiles
<1>1. /\ UNCHANGED filesVars /\ UNCHANGED <<commits, wal, pruned>> /\ doomed' = {}
      /\ \A j \in Jobs : pc'[j] = "idle"
  BY DEF BackupsCrash
<1>2. Counted' /\ \A e \in Databases : commits'[e] \in Nat /\ commits[e] <= commits'[e]
  BY <1>1, CountedKept DEF Held
<1>3. \A j \in Jobs : Goes(j) /\ Spared(j)
  BY <1>1 DEF Goes, Spared
<1>. QED
  BY <1>1, <1>2, <1>3, NobodysStep

\* The clock, the end of a removal, and nothing at all.
LEMMA IdleKeeps ==
  ASSUME BackupsInv, NextSecond \/ PruneEnds \/ UNCHANGED backupsVars
  PROVE  Held'
<1>. USE DEF BackupsInv, KeepFiles, KeepDatabases, KeepWorld, Goto
<1>1. /\ UNCHANGED filesVars /\ UNCHANGED <<commits, main, wal, job, pruned, doomed>>
      /\ \A j \in Jobs : pc'[j] = pc[j] \/ pc'[j] = "idle"
  <2>1. CASE NextSecond \/ UNCHANGED backupsVars
    BY <2>1 DEF NextSecond, backupsVars
  <2>2. CASE PruneEnds
    BY <2>2 DEF PruneEnds, BackupsTypeOK
  <2>. QED
    BY <2>1, <2>2
<1>2. Counted' /\ \A e \in Databases : commits'[e] \in Nat /\ commits[e] <= commits'[e]
  BY <1>1, CountedKept DEF Held
<1>3. ASSUME NEW j \in Jobs PROVE Goes(j) /\ Spared(j)
  <2>1. CASE pc'[j] = "idle"
    BY <2>1 DEF Goes, Spared
  <2>2. CASE pc'[j] = pc[j]
    <3>1. MoreMet(j) /\ Unused(job[j].db) /\ file' = file
      BY <1>1 DEF MoreMet, Unused, filesVars
    <3>. QED
      BY <2>2, <3>1, SameGoes DEF Spared, Undisturbed
  <2>. QED
    BY <1>1, <2>1, <2>2
<1>. QED
  BY <1>1, <1>2, <1>3, NobodysStep

-----------------------------------------------------------------------------
(* Steps on the files.                                                     *)

\* The types of a finished file.
LEMMA FinishedTypes ==
  ASSUME BackupsTypeOK
  PROVE  \A done \in finished : /\ done.file \in FileIds /\ done.file \in Nat /\ done.file > 0
                                /\ done.name \in BackupName /\ done.met \in SUBSET Causes
<1>. SUFFICES ASSUME NEW done \in finished
              PROVE  /\ done.file \in FileIds /\ done.file \in Nat /\ done.file > 0
                     /\ done.name \in BackupName /\ done.met \in SUBSET Causes
  OBVIOUS
<1>1. done \in Finished
  BY DEF BackupsTypeOK
<1>2. done.file \in FileIds /\ done.name \in BackupName /\ done.met \in SUBSET Causes
  BY <1>1 DEF Finished
<1>. QED
  BY <1>2, Types DEF FileIds

\* Another job on the file of a copying job is on its database, too.
LEMMA SameFile ==
  ASSUME BackupsInv, NEW a \in Jobs, NEW j \in Jobs \ {a},
         pc[a] \in BackingUp, pc[j] \in Copying, job[a].db = job[j].db
  PROVE  "overlap" \in job[j].met /\ "overlap" \in job[a].met
BY Steps DEF BackupsInv, Held, Alone, Busy

\* A job whose file a step does not write.
LEMMA NotWritten ==
  ASSUME BackupsTypeOK, NEW j \in Jobs, pc'[j] = pc[j], job'[j] = job[j],
         UNCHANGED <<commits, main, wal>>,
         \/ file'[job[j].file] = file[job[j].file]
         \/ pc[j] \notin Copying /\ (pc[j] \in Restoring => Shared(job[j].file))
         \/ "overlap" \in job[j].met
  PROVE  Goes(j) /\ Spared(j)
<1>1. MoreMet(j) /\ Unused(job[j].db)
  BY DEF MoreMet, Unused
<1>. QED
  BY <1>1, SameGoes DEF Spared, Undisturbed

\* A backup makes its file, or empties the one that another job has under its name:
\* both jobs are on one database and know of each other.
LEMMA CreateTmpKeeps ==
  ASSUME BackupsInv, NEW a \in Jobs, NEW f \in FileIds, CreateTmp(a, f)
  PROVE  Held'
<1>. USE DEF BackupsInv, KeepDatabases, KeepWorld, Goto
<1>0. PICK n \in BackupName, d \in Databases : n = job[a].name /\ d = job[a].db
  BY Types
<1>1. /\ pc[a] = "create" /\ pc' = [pc EXCEPT ![a] = "copy 1"]
      /\ Create(n, f) /\ tmp' = [tmp EXCEPT ![n] = f]
      /\ file' = [file EXCEPT ![f] = Missing]
      /\ job' = [job EXCEPT ![a].file = f]
      /\ UNCHANGED <<modTime, backups, finished>> /\ UNCHANGED <<commits, main, wal>>
      /\ UNCHANGED <<doomed, pruned>>
  BY <1>0 DEF CreateTmp
<1>2. /\ Counted /\ Made /\ Records /\ Alone /\ Owned /\ Known
  BY DEF Held
<1>3. /\ \A j \in Jobs \ {a} : pc'[j] = pc[j] /\ job'[j] = job[j]
      /\ pc'[a] = "copy 1" /\ job[a] \in Job /\ job'[a] = [job[a] EXCEPT !.file = f]
      /\ \A m \in BackupName : tmp'[m] = IF m = n THEN f ELSE tmp[m]
      /\ \A g \in FileIds \ {f} : file'[g] = file[g]
  BY <1>1 DEF BackupsTypeOK
<1>4. /\ job'[a].name = n /\ job'[a].db = d /\ job'[a].file = f /\ job'[a].met = job[a].met
      /\ job'[a].since = job[a].since /\ job'[a].held = job[a].held
      /\ pc[a] \in BackingUp /\ Busy(a) /\ n.db = d
  <2>1. /\ job'[a].name = n /\ job'[a].db = d /\ job'[a].file = f /\ job'[a].met = job[a].met
        /\ job'[a].since = job[a].since /\ job'[a].held = job[a].held
    BY <1>0, <1>3 DEF Job
  <2>2. pc[a] \in BackingUp /\ Busy(a)
    BY <1>1 DEF BackingUp, Busy
  <2>3. n.db = d
    BY <1>0, <1>2, <2>2 DEF Alone
  <2>. QED
    BY <2>1, <2>2, <2>3
<1>5. /\ made \in Nat /\ made' \in Nat /\ made <= made' /\ f \in Nat /\ f > 0 /\ f <= made'
      /\ \/ f = tmp[n]
         \/ f > made /\ tmp[n] = 0
      /\ \A m \in BackupName : tmp[m] \in Nat /\ tmp[m] <= made /\ backups[m] \in Nat /\ backups[m] <= made
  <2>1. /\ made \in Nat /\ f \in Nat /\ f > 0
        /\ \A m \in BackupName : tmp[m] \in Nat /\ backups[m] \in Nat
        /\ \A m \in BackupName : tmp[m] <= made /\ backups[m] <= made
    BY <1>2, Types DEF FileIds, Made
  <2>2. CASE tmp[n] > 0 /\ f = tmp[n] /\ made' = made
    BY <2>1, <2>2
  <2>3. CASE ~(tmp[n] > 0) /\ f = made + 1 /\ made' = f
    BY <2>1, <2>3
  <2>. QED
    BY <1>1, <2>2, <2>3 DEF Create
<1>6. \A done \in finished : done.file # f
  <2>1. \A done \in finished : done.file <= made /\ tmp[n] # done.file
    BY <1>2 DEF Records
  <2>2. \A done \in finished : done.file \in Nat
    BY FinishedTypes
  <2>. QED
    BY <1>5, <2>1, <2>2
<1>7. ASSUME NEW j \in Jobs \ {a}, pc[j] \in Copying, job[j].file = f
      PROVE  job[j].db = d /\ f = tmp[n]
  <2>1. job[j].file <= made /\ job[j].file \in Nat
    BY <1>2, <1>7, Types DEF Made
  <2>2. f = tmp[n]
    BY <1>5, <1>7, <2>1
  <2>. QED
    BY <1>2, <1>4, <1>7, <2>2 DEF Owned
<1>8. Counted'
  BY <1>1, <1>2 DEF Counted
<1>9. Made'
  <2>1. \A m \in BackupName : tmp'[m] <= made' /\ backups'[m] <= made'
    <3>. SUFFICES ASSUME NEW m \in BackupName PROVE tmp'[m] <= made' /\ backups'[m] <= made'
      OBVIOUS
    <3>1. tmp'[m] = f \/ tmp'[m] = tmp[m]
      BY <1>3
    <3>2. tmp[m] \in Nat /\ tmp[m] <= made /\ backups[m] \in Nat /\ backups[m] <= made
      BY <1>5
    <3>3. tmp[m] <= made' /\ backups[m] <= made'
      BY <1>5, <3>2
    <3>4. backups'[m] = backups[m]
      BY <1>1
    <3>. QED
      BY <1>5, <3>1, <3>3, <3>4
  <2>2. ASSUME NEW j \in Jobs, pc'[j] \in Copying \cup Restoring PROVE job'[j].file \in 1..made'
    <3>1. CASE j = a
      BY <1>4, <1>5, <3>1
    <3>2. CASE j # a
      <4>1. job'[j].file \in 1..made
        BY <1>2, <1>3, <2>2, <3>2 DEF Made
      <4>. QED
        BY <1>5, <4>1
    <3>. QED
      BY <3>1, <3>2
  <2>. QED
    BY <2>1, <2>2 DEF Made
<1>10. Records'
  <2>1. IsFiniteSet(finished') /\ \A done, same \in finished' : done.file = same.file => done = same
    BY <1>1, <1>2 DEF Records
  <2>2. \A done \in finished' : done.file <= made' /\ \A m \in BackupName : tmp'[m] # done.file
    <3>. SUFFICES ASSUME NEW done \in finished
                  PROVE  done.file <= made' /\ \A m \in BackupName : tmp'[m] # done.file
      BY <1>1
    <3>1. done.file \in Nat /\ done.file <= made
      BY <1>2, FinishedTypes DEF Records
    <3>2. done.file <= made'
      BY <1>5, <3>1
    <3>3. \A m \in BackupName : tmp[m] # done.file
      BY <1>2 DEF Records
    <3>. QED
      BY <1>3, <1>6, <3>2, <3>3
  <2>3. \A m \in Listed' : \E done \in finished' : done.file = backups'[m] /\ done.name = m
    BY <1>1, <1>2 DEF Records, Listed
  <2>4. \A g \in pruned' : \E done \in finished' : done.file = g
    BY <1>1, <1>2 DEF Records
  <2>5. \A m, k \in BackupName : tmp'[m] = tmp'[k] /\ tmp'[m] > 0 => m = k
    <3>1. \A m, k \in BackupName : tmp[m] = tmp[k] /\ tmp[m] > 0 => m = k
      BY <1>2 DEF Records
    <3>2. \A m \in BackupName : tmp[m] = f => m = n
      <4>. SUFFICES ASSUME NEW m \in BackupName, tmp[m] = f PROVE m = n
        OBVIOUS
      <4>1. f = tmp[n]
        BY <1>5
      <4>. QED
        BY <1>5, <3>1, <4>1
    <3>. QED
      BY <1>3, <3>1, <3>2
  <2>. QED
    BY <2>1, <2>2, <2>3, <2>4, <2>5 DEF Records
<1>11. Alone'
  <2>1. ASSUME NEW j \in Jobs
        PROVE  /\ job'[j].name = job[j].name /\ job'[j].db = job[j].db /\ job'[j].met = job[j].met
               /\ pc'[j] \in BackingUp <=> pc[j] \in BackingUp
               /\ Busy(j)' <=> Busy(j)
    <3>1. CASE j = a
      BY <1>0, <1>1, <1>3, <1>4, <3>1 DEF BackingUp, Copying, Busy
    <3>2. CASE j # a
      BY <1>3, <3>2 DEF Busy
    <3>. QED
      BY <3>1, <3>2
  <2>. QED
    BY <1>2, <2>1 DEF Alone
<1>12. Owned'
  <2>0. \A g : Shared(g)' <=> Shared(g)
    BY <1>1 DEF Shared
  <2>1. ASSUME NEW j \in Jobs, NEW m \in BackupName, pc'[j] \in Copying, tmp'[m] = job'[j].file
        PROVE  m.db = job'[j].db
    <3>1. CASE j = a
      <4>1. tmp'[m] = f /\ tmp'[n] = f /\ f > 0
        BY <1>3, <1>4, <1>5, <2>1, <3>1
      <4>2. m = n
        BY <1>10, <4>1 DEF Records
      <4>3. job'[j].db = d /\ n.db = d
        BY <1>4, <3>1
      <4>. QED
        BY <4>2, <4>3
    <3>2. CASE j # a /\ m = n
      <4>1. pc[j] \in Copying /\ job[j].file = f /\ job'[j] = job[j]
        BY <1>3, <2>1, <3>2
      <4>2. job[j].db = d
        BY <1>7, <3>2, <4>1
      <4>. QED
        BY <1>4, <3>2, <4>1, <4>2
    <3>3. CASE j # a /\ m # n
      <4>1. pc[j] \in Copying /\ tmp[m] = job[j].file /\ job'[j] = job[j]
        BY <1>3, <2>1, <3>3
      <4>2. m.db = job[j].db
        BY <1>2, <4>1 DEF Owned
      <4>. QED
        BY <4>1, <4>2
    <3>. QED
      BY <3>1, <3>2, <3>3
  <2>2. ASSUME NEW i \in Jobs, NEW j \in Jobs, pc'[i] \in Copying, pc'[j] \in Copying,
               job'[i].file = job'[j].file
        PROVE  job'[i].db = job'[j].db
    <3>1. CASE i = a /\ j # a
      <4>1. pc[j] \in Copying /\ job[j].file = f /\ job'[j] = job[j]
        BY <1>3, <1>4, <2>2, <3>1
      <4>2. job[j].db = d
        BY <1>7, <3>1, <4>1
      <4>. QED
        BY <1>4, <3>1, <4>1, <4>2
    <3>2. CASE i # a /\ j = a
      <4>1. pc[i] \in Copying /\ job[i].file = f /\ job'[i] = job[i]
        BY <1>3, <1>4, <2>2, <3>2
      <4>2. job[i].db = d
        BY <1>7, <3>2, <4>1
      <4>. QED
        BY <1>4, <3>2, <4>1, <4>2
    <3>3. CASE i = a /\ j = a
      BY <3>3
    <3>4. CASE i # a /\ j # a
      <4>1. /\ pc[i] \in Copying /\ pc[j] \in Copying /\ job[i].file = job[j].file
            /\ job'[i] = job[i] /\ job'[j] = job[j]
        BY <1>3, <2>2, <3>4
      <4>2. job[i].db = job[j].db
        BY <1>2, <4>1 DEF Owned
      <4>. QED
        BY <4>1, <4>2
    <3>. QED
      BY <3>1, <3>2, <3>3, <3>4
  <2>3. ASSUME NEW j \in Jobs, pc'[j] \in Copying, tmp'[job'[j].name] # job'[j].file
        PROVE  Shared(job'[j].file) /\ "overlap" \in job'[j].met
    <3>1. j # a
      BY <1>3, <1>4, <2>3
    <3>2. pc[j] \in Copying /\ job'[j] = job[j] /\ job[j].name \in BackupName
      BY <1>3, <2>3, <3>1, Types
    <3>3. tmp[job[j].name] # job[j].file
      <4>1. CASE job[j].name = n
        <5>1. job[j].file > 0
          BY <1>2, <3>2, Types DEF Made
        <5>2. tmp'[n] = f /\ tmp'[n] # job[j].file
          BY <1>3, <2>3, <3>2, <4>1
        <5>. QED
          BY <1>5, <4>1, <5>1, <5>2
      <4>2. CASE job[j].name # n
        BY <1>3, <2>3, <3>2, <4>2
      <4>. QED
        BY <4>1, <4>2
    <3>. QED
      BY <1>2, <3>2, <3>3 DEF Owned
  <2>. QED
    BY <2>0, <2>1, <2>2, <2>3 DEF Owned
<1>13. Known'
  <2>1. ASSUME NEW j \in Jobs
        PROVE  /\ job'[j].db = job[j].db /\ job'[j].since = job[j].since
               /\ pc'[j] \in Restoring => pc[j] \in Restoring /\ job'[j].file = job[j].file
               /\ Busy(j)' <=> Busy(j)
    <3>1. CASE j = a
      BY <1>0, <1>1, <1>3, <1>4, <3>1 DEF Restoring, Busy
    <3>2. CASE j # a
      BY <1>3, <3>2 DEF Busy
    <3>. QED
      BY <3>1, <3>2
  <2>. QED
    BY <1>1, <1>2, <2>1 DEF Known
<1>14. ASSUME NEW j \in Jobs PROVE Copies(j)'
  <2>1. CASE j # a
    <3>1. \/ file'[job[j].file] = file[job[j].file]
          \/ pc[j] \notin Copying /\ (pc[j] \in Restoring => Shared(job[j].file))
          \/ "overlap" \in job[j].met
      <4>1. CASE pc[j] \in Copying /\ job[j].file = f
        BY <1>0, <1>4, <1>7, <2>1, <4>1, SameFile
      <4>2. CASE pc[j] \in Restoring
        <5>1. job[j].file # f
          BY <1>2, <1>6, <4>2 DEF Known
        <5>2. job[j].file \in FileIds
          BY <1>2, <4>2, Types DEF Made, FileIds
        <5>. QED
          BY <1>3, <5>1, <5>2
      <4>3. CASE pc[j] \in Copying /\ job[j].file # f
        <5>1. job[j].file \in FileIds
          BY <1>2, <4>3, Types DEF Made, FileIds
        <5>. QED
          BY <1>3, <4>3, <5>1
      <4>. QED
        BY <4>1, <4>2, <4>3
    <3>2. Spared(j)
      BY <1>1, <1>3, <2>1, <3>1, NotWritten
    <3>. QED
      BY <1>1, <1>2, <3>2, SparedKeeps DEF Held
  <2>2. CASE j = a
    <3>1. Copies(a) /\ main' = main /\ wal' = wal
      BY <1>1 DEF Held
    <3>2. Holds(job[a].db)' = Holds(d)
      BY <1>4, <3>1 DEF Holds
    <3>3. WholeCopy(a)'
      <4>1. Free(a, {"torn", "overlap"})' <=> Free(a, {"torn", "overlap"})
        BY <1>4 DEF Free
      <4>2. Free(a, {"torn", "overlap"}) => Whole(main[d])
        BY <1>0, <1>1, <1>4, <3>1 DEF Copies, WholeCopy
      <4>3. Whole(main[d])' <=> Whole(main[d])
        BY <3>1 DEF Whole
      <4>. QED
        BY <1>3, <1>4, <4>1, <4>2, <4>3 DEF WholeCopy
    <3>4. CurrentCopy(a)'
      <4>1. pc[a] \in BackingUp \ {"rename"} /\ pc[a] \in {"create", "copy 1", "copy 2"}
        BY <1>1, <1>4
      <4>2. \A x : Recent(a, x)' <=> Recent(a, x)
        BY <1>4 DEF Recent
      <4>3. Free(a, {"torn", "busy", "overlap"})' <=> Free(a, {"torn", "busy", "overlap"})
        BY <1>4 DEF Free
      <4>4. Free(a, {"torn", "busy", "overlap"}) =>
              \A p \in Pages : Recent(a, Holds(d)[p]) /\ Recent(a, main[d][p])
        BY <1>0, <3>1, <4>1 DEF Copies, CurrentCopy
      <4>. QED
        BY <1>3, <1>4, <3>1, <3>2, <4>2, <4>3, <4>4 DEF CurrentCopy
    <3>5. RestoredCopy(a)'
      BY <1>3 DEF RestoredCopy
    <3>. QED
      BY <2>2, <3>3, <3>4, <3>5 DEF Copies
  <2>. QED
    BY <2>1, <2>2
<1>15. BackupIsWhole'
  <2>. SUFFICES ASSUME NEW m \in Listed
                PROVE  \/ Whole(file'[backups[m]])
                       \/ \E done \in finished : /\ done.file = backups[m]
                                                /\ done.met \cap {"torn", "written", "overlap"} # {}
    <3>1. Listed' = Listed /\ backups' = backups /\ finished' = finished
      BY <1>1 DEF Listed
    <3>2. \A x : Whole(x)' <=> Whole(x)
      BY DEF Whole
    <3>. QED
      BY <3>1, <3>2 DEF BackupIsWhole
  <2>1. backups[m] # f /\ backups[m] \in FileIds
    BY <1>2, <1>6, ListedFile
  <2>2. file'[backups[m]] = file[backups[m]]
    BY <1>3, <2>1
  <2>. QED
    BY <2>2 DEF Held, BackupIsWhole
<1>16. Prunable' /\ NewestAreKept'
  <2>1. \A g : Above(g)' = Above(g)
    BY <1>1 DEF Above
  <2>. QED
    BY <1>1, <2>1 DEF Held, Prunable, NewestAreKept
<1>. QED
  BY <1>8, <1>9, <1>10, <1>11, <1>12, <1>13, <1>14, <1>15, <1>16 DEF Held

\* A file that lost its temporary name and still has a job was written by two.
LEMMA TwoWriters ==
  ASSUME BackupsInv, NEW a \in Jobs, pc[a] \in Copying,
         NEW done \in finished, done.file = job[a].file
  PROVE  Shared(job[a].file)
<1>1. job[a].name \in BackupName
  BY Types DEF BackupsInv
<1>2. tmp[job[a].name] # job[a].file
  BY <1>1 DEF BackupsInv, Held, Records
<1>. QED
  BY <1>2 DEF BackupsInv, Held, Owned

\* More files are above a file than before.
LEMMA AboveGrows ==
  ASSUME IsFiniteSet(finished'), KeepCount \in Nat, NEW g, Above(g) \subseteq Above(g)',
         Cardinality(Above(g)) >= KeepCount
  PROVE  Cardinality(Above(g)') >= KeepCount
<1>1. Above(g)' \subseteq finished'
  BY DEF Above
<1>2. IsFiniteSet(Above(g)')
  BY <1>1, FS_Subset
<1>3. IsFiniteSet(Above(g)) /\ Cardinality(Above(g)) <= Cardinality(Above(g)')
  BY <1>2, FS_Subset
<1>4. Cardinality(Above(g)) \in Nat /\ Cardinality(Above(g)') \in Nat
  BY <1>2, <1>3, FS_CardinalityType
<1>. QED
  BY <1>3, <1>4

\* A backup copies a page.  The file may have its name by then, and be listed, read by
\* a restore or about to be removed: two jobs wrote it, and its record says so.
LEMMA CopyPageKeeps ==
  ASSUME BackupsInv, NEW a \in Jobs, NEW p \in Pages, CopyPage(a, p)
  PROVE  Held'
<1>. USE DEF BackupsInv, KeepDatabases, KeepWorld, Goto
<1>0. PICK d \in Databases, f \in 0..MaxFiles : d = job[a].db /\ f = job[a].file
  BY Types
<1>1. /\ pc[a] = (IF p = 1 THEN "copy 1" ELSE "copy 2")
      /\ pc' = [pc EXCEPT ![a] = IF p = 1 THEN "copy 2" ELSE "rename"]
      /\ file' = [file EXCEPT ![f][p] = main[d][p]]
      /\ modTime' = [modTime EXCEPT ![f] = 1 + Max({modTime[g] : g \in FileIds \ {f}} \cup {0})]
      /\ UNCHANGED <<made, tmp, backups, finished, job>> /\ UNCHANGED <<commits, main, wal>>
      /\ UNCHANGED <<doomed, pruned>>
  BY <1>0 DEF CopyPage
<1>2. /\ Counted /\ Made /\ Records /\ Alone /\ Owned /\ Known
  BY DEF Held
<1>3. pc[a] \in Copying /\ Busy(a) /\ f \in FileIds /\ f \in 1..made
  <2>1. pc[a] \in Copying /\ Busy(a)
    BY <1>1 DEF Copying, Busy
  <2>2. f \in 1..made
    BY <1>0, <1>2, <2>1 DEF Made
  <2>3. f \in FileIds
    BY <1>0, <2>2, Types DEF FileIds
  <2>. QED
    BY <2>1, <2>2, <2>3
<1>4. /\ \A j \in Jobs \ {a} : pc'[j] = pc[j] /\ job'[j] = job[j]
      /\ pc'[a] = (IF p = 1 THEN "copy 2" ELSE "rename") /\ job' = job
      /\ \A g \in FileIds \ {f} : file'[g] = file[g] /\ modTime'[g] = modTime[g]
  BY <1>1 DEF BackupsTypeOK
<1>5. \A g \in FileIds \ {f} : modTime'[f] > modTime[g]
  <2> DEFINE m == Max({modTime[g] : g \in FileIds \ {f}} \cup {0})
  <2>1. m \in Nat /\ \A g \in FileIds \ {f} : modTime[g] <= m
    BY <1>3, WrittenLast
  <2>2. modTime'[f] = 1 + m
    BY <1>1, <1>3 DEF BackupsTypeOK
  <2>3. \A g \in FileIds : modTime[g] \in Nat
    BY Types
  <2> HIDE DEF m
  <2>4. ASSUME NEW g \in FileIds \ {f} PROVE modTime'[f] > modTime[g]
    <3>1. modTime[g] \in Nat /\ modTime[g] <= m /\ m \in Nat
      BY <2>1, <2>3
    <3>. QED
      BY <2>2, <3>1
  <2>. QED
    BY <2>4
<1>6. ASSUME NEW done \in finished, done.file = f PROVE Shared(f)
  BY <1>0, <1>3, <1>6, TwoWriters
<1>7. Counted'
  BY <1>1, <1>2 DEF Counted
<1>8. Records'
  BY <1>1, <1>2 DEF Records, Listed
<1>9. Goes(a)
  <2>1. pc'[a] \in {"copy 2", "rename"} /\ pc'[a] \in BackingUp /\ pc'[a] \notin Restoring
    <3>1. pc'[a] = "copy 2" \/ pc'[a] = "rename"
      BY <1>4
    <3>2. \A s \in {"copy 2", "rename"} : s \in BackingUp /\ s \notin Restoring
      BY DEF BackingUp, Copying, Restoring
    <3>. QED
      BY <3>1, <3>2
  <2>2. pc[a] \in BackingUp
    BY <1>3, Steps
  <2>. QED
    BY <1>3, <1>4, <2>1, <2>2 DEF Goes
<1>10. ASSUME NEW j \in Jobs \ {a} PROVE Goes(j) /\ Spared(j)
  <2>1. \/ file'[job[j].file] = file[job[j].file]
        \/ pc[j] \notin Copying /\ (pc[j] \in Restoring => Shared(job[j].file))
        \/ "overlap" \in job[j].met
    <3>1. CASE pc[j] \in Copying /\ job[j].file = f
      <4>1. job[j].db = d
        BY <1>0, <1>2, <1>3, <3>1 DEF Owned
      <4>2. "overlap" \in job[j].met
        BY <1>0, <1>3, <3>1, <4>1, SameFile, Steps
      <4>. QED
        BY <4>2
    <3>2. CASE pc[j] \in Restoring /\ job[j].file = f
      <4>1. Shared(f)
        BY <1>2, <1>6, <3>2 DEF Known
      <4>. QED
        BY <3>2, <4>1, Steps
    <3>3. CASE pc[j] \in Copying \cup Restoring /\ job[j].file # f
      <4>1. job[j].file \in FileIds
        BY <1>2, <3>3, Types DEF Made, FileIds
      <4>. QED
        BY <1>4, <3>3, <4>1
    <3>. QED
      BY <3>1, <3>2, <3>3
  <2>. QED
    BY <1>1, <1>4, <2>1, NotWritten
<1>11. Made' /\ Alone' /\ Owned' /\ Known'
  <2>1. \A j \in Jobs : Goes(j)
    BY <1>9, <1>10
  <2>2. \A e \in Databases : commits'[e] \in Nat /\ commits[e] <= commits'[e]
    <3>1. \A e \in Databases : commits[e] \in Nat
      BY Types
    <3>2. commits' = commits
      BY <1>1
    <3>. QED
      BY <3>1, <3>2
  <2>. QED
    BY <1>1, <1>2, <2>1, <2>2, GoesOn
<1>12. Copies(a)'
  <2>1. WholeCopy(a) /\ CurrentCopy(a)
    BY DEF Held, Copies
  <2>2. /\ Whole(main[d])' <=> Whole(main[d])
        /\ \A causes : Free(a, causes)' <=> Free(a, causes)
        /\ \A x : Recent(a, x)' <=> Recent(a, x)
        /\ Holds(d)' = Holds(d)
    BY <1>1 DEF Whole, Free, Recent, Holds
  <2>3. job'[a].db = d /\ job'[a].file = f /\ main' = main
    BY <1>0, <1>1
  <2>4. file'[f][p] = main[d][p] /\ \A q \in Pages \ {p} : file'[f][q] = file[f][q]
    BY <1>1, <1>3 DEF BackupsTypeOK, Content
  <2>5. /\ pc[a] \in BackingUp \ {"rename"} /\ pc[a] \in {"create", "copy 1", "copy 2"}
        /\ p # 1 => pc[a] = "copy 2"
        /\ pc'[a] = "copy 2" <=> p = 1
        /\ pc'[a] = "rename" <=> p # 1
        /\ pc'[a] \in {"copy 2", "rename"}
    <3>1. \/ p = 1 /\ pc[a] = "copy 1" /\ pc'[a] = "copy 2"
          \/ p # 1 /\ pc[a] = "copy 2" /\ pc'[a] = "rename"
      <4>1. pc[a] = (IF p = 1 THEN "copy 1" ELSE "copy 2")
        BY <1>1
      <4>2. pc'[a] = (IF p = 1 THEN "copy 2" ELSE "rename")
        BY <1>4
      <4>. QED
        BY <4>1, <4>2
    <3>. QED
      BY <3>1 DEF BackingUp, Copying
  <2>6. 1 \in Pages /\ (p # 1 => p = 2) /\ \A q \in Pages : q = 1 \/ q = 2
    BY DEF Pages
  <2>7. WholeCopy(a)'
    <3>1. Free(a, {"torn", "overlap"}) => Whole(main[d])
      BY <1>0, <2>1, <2>5 DEF WholeCopy
    <3>2. p = 1 => file'[f][1] = main[d][1]
      BY <2>4
    <3>3. ASSUME p # 1, Free(a, {"torn", "written", "overlap"}) PROVE Whole(file'[f])
      <4>1. file[f][1] = main[d][1]
        BY <1>0, <2>1, <2>5, <3>3 DEF WholeCopy
      <4>2. \A q \in Pages : file'[f][q] = main[d][q]
        BY <2>4, <2>6, <3>3, <4>1
      <4>3. Whole(main[d])
        BY <3>1, <3>3 DEF Free
      <4>. QED
        BY <4>2, <4>3 DEF Whole
    <3>4. Whole(file[f])' <=> Whole(file'[f])
      BY DEF Whole
    <3>. QED
      BY <2>2, <2>3, <2>5, <3>1, <3>2, <3>3, <3>4 DEF WholeCopy
  <2>8. CurrentCopy(a)'
    <3>1. Free(a, {"torn", "busy", "overlap"}) =>
            /\ \A q \in Pages : Recent(a, Holds(d)[q]) /\ Recent(a, main[d][q])
            /\ pc[a] = "copy 2" => Recent(a, file[f][1])
      BY <1>0, <2>1, <2>5 DEF CurrentCopy
    <3>2. Free(a, {"torn", "busy", "overlap"}) =>
            /\ p = 1 => Recent(a, file'[f][1])
            /\ p # 1 => \A q \in Pages : Recent(a, file'[f][q])
      BY <2>4, <2>5, <2>6, <3>1
    <3>. QED
      BY <2>2, <2>3, <2>5, <3>1, <3>2 DEF CurrentCopy
  <2>9. RestoredCopy(a)'
    BY <2>5 DEF RestoredCopy
  <2>. QED
    BY <2>7, <2>8, <2>9 DEF Copies
<1>13. ASSUME NEW j \in Jobs PROVE Copies(j)'
  <2>1. CASE j # a
    BY <1>1, <1>2, <1>10, <2>1, SparedKeeps DEF Held
  <2>. QED
    BY <1>12, <2>1
<1>14. BackupIsWhole'
  <2>. SUFFICES ASSUME NEW m \in Listed
                PROVE  \/ Whole(file'[backups[m]])
                       \/ \E done \in finished : /\ done.file = backups[m]
                                                /\ done.met \cap {"torn", "written", "overlap"} # {}
    <3>1. Listed' = Listed /\ backups' = backups /\ finished' = finished
      BY <1>1 DEF Listed
    <3>2. \A x : Whole(x)' <=> Whole(x)
      BY DEF Whole
    <3>. QED
      BY <3>1, <3>2 DEF BackupIsWhole
  <2>1. CASE backups[m] = f
    <3>1. Shared(f)
      BY <1>2, <1>6, <2>1, ListedFile
    <3>. QED
      BY <2>1, <3>1 DEF Shared
  <2>2. CASE backups[m] # f
    <3>1. file'[backups[m]] = file[backups[m]]
      BY <1>2, <1>4, <2>2, ListedFile
    <3>. QED
      BY <3>1 DEF Held, BackupIsWhole
  <2>. QED
    BY <2>1, <2>2
<1>15. ASSUME NEW g \in FileIds, g # f, Cardinality(Above(g)) >= KeepCount
       PROVE  Cardinality(Above(g)') >= KeepCount
  <2>1. IsFiniteSet(finished') /\ KeepCount \in Nat
    BY <1>1, <1>2, Types DEF Records
  <2>2. ASSUME NEW done \in finished, modTime[done.file] > modTime[g]
        PROVE  modTime'[done.file] > modTime'[g]
    <3>1. done.file \in FileIds /\ modTime'[g] = modTime[g]
      BY <1>4, <1>15, FinishedTypes
    <3>2. CASE done.file = f
      BY <1>5, <1>15, <3>1, <3>2
    <3>3. CASE done.file # f
      BY <1>4, <2>2, <3>1, <3>3
    <3>. QED
      BY <3>2, <3>3
  <2>3. Above(g) \subseteq Above(g)'
    BY <1>1, <2>2 DEF Above
  <2>. QED
    BY <1>15, <2>1, <2>3, AboveGrows
<1>16. Prunable'
  <2>. SUFFICES ASSUME NEW n \in doomed, backups[n] > 0
                PROVE  \/ \E done \in finished : done.file = backups[n] /\ done.met \cap {"overlap", "doomed"} # {}
                       \/ Cardinality(Above(backups[n]))' >= KeepCount
    BY <1>1 DEF Prunable
  <2>1. n \in BackupName
    BY DEF BackupsTypeOK
  <2>2. PICK g \in FileIds : g = backups[n]
    BY <1>2, <2>1, ListedFile DEF Listed
  <2>3. CASE g = f
    <3>1. Shared(f)
      BY <1>2, <1>6, <2>1, <2>2, <2>3, ListedFile DEF Listed
    <3>. QED
      BY <2>2, <2>3, <3>1 DEF Shared
  <2>4. CASE g # f
    <3>1. \/ \E done \in finished : done.file = g /\ done.met \cap {"overlap", "doomed"} # {}
          \/ Cardinality(Above(g)) >= KeepCount
      BY <2>2 DEF Held, Prunable
    <3>2. Above(backups[n])' = Above(g)'
      BY <1>1, <2>2 DEF Above
    <3>. QED
      BY <1>15, <2>2, <2>4, <3>1, <3>2
  <2>. QED
    BY <2>3, <2>4
<1>17. NewestAreKept'
  <2>. SUFFICES ASSUME NEW old \in finished, old.file \in pruned, old.met \cap {"overlap", "doomed"} = {}
                PROVE  Cardinality(Above(old.file)') >= KeepCount
    BY <1>1 DEF NewestAreKept, Above
  <2>1. old.file # f
    <3>. SUFFICES ASSUME old.file = f PROVE FALSE
      OBVIOUS
    <3>1. PICK done \in finished : done.file = f /\ "overlap" \in done.met
      BY <1>6 DEF Shared
    <3>2. done = old
      BY <1>2, <3>1 DEF Records
    <3>. QED
      BY <3>1, <3>2
  <2>2. Cardinality(Above(old.file)) >= KeepCount
    BY DEF Held, NewestAreKept, Above
  <2>. QED
    BY <1>15, <2>1, <2>2, FinishedTypes
<1>. QED
  BY <1>7, <1>8, <1>11, <1>13, <1>14, <1>16, <1>17 DEF Held

\* A backup gets its name.  If it did not make the file, or another job did not either,
\* both know of each other and the record says so.
LEMMA RenameKeeps ==
  ASSUME BackupsInv, NEW a \in Jobs, Rename(a)
  PROVE  Held'
<1>. USE DEF BackupsInv, KeepDatabases, KeepWorld, Goto, Forget
<1>0. PICK n \in BackupName, d \in Databases, g \in 0..MaxFiles, met \in SUBSET Causes :
        /\ n = job[a].name /\ d = job[a].db /\ g = tmp[n]
        /\ met = job[a].met \cup {c \in {"doomed"} : n \in doomed}
  <2>1. job[a].met \cup {c \in {"doomed"} : job[a].name \in doomed} \in SUBSET Causes
    BY Types DEF Causes
  <2>. QED
    BY <2>1, Types
<1>1. /\ pc[a] = "rename" /\ pc' = [pc EXCEPT ![a] = IF a = Scheduler THEN "list" ELSE "idle"]
      /\ job' = [job EXCEPT ![a] = NoJob]
      /\ IF g > 0
         THEN /\ backups' = [backups EXCEPT ![n] = g] /\ tmp' = [tmp EXCEPT ![n] = 0]
              /\ finished' = finished \cup {[name |-> n, file |-> g, met |-> met]}
         ELSE UNCHANGED <<backups, tmp, finished>>
      /\ UNCHANGED <<file, made, modTime>> /\ UNCHANGED <<commits, main, wal>>
      /\ UNCHANGED <<doomed, pruned>>
  BY <1>0 DEF Rename
<1>2. /\ Counted /\ Made /\ Records /\ Alone /\ Owned /\ Known
  BY DEF Held
<1>3. /\ \A j \in Jobs \ {a} : pc'[j] = pc[j] /\ job'[j] = job[j]
      /\ pc'[a] \in {"idle", "list", "prune"}
      /\ pc[a] \in Copying /\ Busy(a) /\ pc[a] \in BackingUp
  BY <1>1 DEF BackupsTypeOK, Copying, Busy, BackingUp
<1>4. Counted'
  BY <1>1, <1>2 DEF Counted
<1>5. finished \subseteq finished'
  BY <1>1
<1>6. ASSUME NEW j \in Jobs PROVE Goes(j) /\ Spared(j)
  <2>1. CASE j = a
    BY <1>3, <2>1 DEF Goes, Spared
  <2>2. CASE j # a
    BY <1>1, <1>3, <2>2, NotWritten
  <2>. QED
    BY <2>1, <2>2
<1>7. \A e \in Databases : commits'[e] \in Nat /\ commits[e] <= commits'[e]
  <2>1. \A e \in Databases : commits[e] \in Nat
    BY Types
  <2>2. commits' = commits
    BY <1>1
  <2>. QED
    BY <2>1, <2>2
<1>8. CASE ~(g > 0)
  <2>1. UNCHANGED filesVars /\ UNCHANGED pruned /\ doomed' \subseteq doomed
    BY <1>1, <1>8 DEF filesVars
  <2>. QED
    BY <1>4, <1>6, <1>7, <2>1, NobodysStep
<1>9. CASE g > 0
  <2> DEFINE new == [name |-> n, file |-> g, met |-> met]
  <2>0. /\ new.name = n /\ new.file = g /\ new.met = met
        /\ finished' = finished \cup {new} /\ new \in finished'
        /\ \A done \in finished' : done \in finished \/ done = new
    BY <1>1, <1>9
  <2>1. /\ \A m \in BackupName : backups'[m] = IF m = n THEN g ELSE backups[m]
        /\ \A m \in BackupName : tmp'[m] = IF m = n THEN 0 ELSE tmp[m]
    BY <1>1, <1>9 DEF BackupsTypeOK
  <2>2. g \in Nat /\ g > 0 /\ g <= made /\ made \in Nat /\ made' = made /\ g \in FileIds
    <3>1. tmp[n] <= made /\ made \in Nat /\ made <= MaxFiles /\ MaxFiles \in Nat /\ g \in Nat
      BY <1>2, Types DEF Made
    <3>. QED
      BY <1>0, <1>1, <1>9, <3>1 DEF FileIds
  <2>3. \A done \in finished : done.file # g
    BY <1>0, <1>2 DEF Records
  <2>4. \A done \in finished : /\ done.file \in Nat /\ done.file > 0 /\ done.file <= made
                              /\ \A m \in BackupName : tmp[m] # done.file
    BY <1>2, FinishedTypes DEF Records
  <2> HIDE DEF new
  <2>5. n.db = d /\ job[a].name = n /\ job[a].db = d
    BY <1>0, <1>2, <1>3 DEF Alone
  <2>6. "overlap" \in job[a].met => "overlap" \in met
    BY <1>0
  <2>7. Made'
    <3>1. ASSUME NEW m \in BackupName PROVE tmp'[m] <= made' /\ backups'[m] <= made'
      <4>1. /\ tmp[m] \in Nat /\ tmp[m] <= made /\ backups[m] \in Nat /\ backups[m] <= made
        BY <1>2, Types DEF Made
      <4>2. tmp'[m] = 0 \/ tmp'[m] = tmp[m]
        BY <2>1
      <4>3. backups'[m] = g \/ backups'[m] = backups[m]
        BY <2>1
      <4>. QED
        BY <2>2, <4>1, <4>2, <4>3
    <3>2. ASSUME NEW j \in Jobs, pc'[j] \in Copying \cup Restoring PROVE job'[j].file \in 1..made'
      <4>1. j # a
        BY <1>3, <3>2, Steps
      <4>. QED
        BY <1>2, <1>3, <2>2, <3>2, <4>1 DEF Made
    <3>. QED
      BY <3>1, <3>2 DEF Made
  <2>8. Records'
    <3>1. IsFiniteSet(finished')
      BY <1>2, <2>0, FS_AddElement DEF Records
    <3>2. ASSUME NEW done \in finished', NEW same \in finished', done.file = same.file
          PROVE  done = same
      <4>1. CASE done \in finished /\ same \in finished
        BY <1>2, <3>2, <4>1 DEF Records
      <4>2. CASE done = new \/ same = new
        BY <2>0, <2>3, <3>2, <4>2
      <4>. QED
        BY <2>0, <4>1, <4>2
    <3>3. ASSUME NEW done \in finished' PROVE done.file <= made' /\ \A m \in BackupName : tmp'[m] # done.file
      <4>1. CASE done \in finished
        BY <2>1, <2>2, <2>4, <4>1
      <4>2. CASE done = new
        <5>1. \A m \in BackupName : tmp[m] = g => m = n
          BY <1>0, <1>2, <2>2 DEF Records
        <5>. QED
          BY <2>0, <2>1, <2>2, <4>2, <5>1
      <4>. QED
        BY <2>0, <4>1, <4>2
    <3>4. ASSUME NEW m \in Listed' PROVE \E done \in finished' : done.file = backups'[m] /\ done.name = m
      <4>0. m \in BackupName /\ backups'[m] > 0
        BY <3>4 DEF Listed
      <4>1. CASE m = n
        BY <2>0, <2>1, <4>0, <4>1
      <4>2. CASE m # n
        <5>1. m \in Listed /\ backups'[m] = backups[m]
          BY <2>1, <4>0, <4>2 DEF Listed
        <5>2. \E done \in finished : done.file = backups[m] /\ done.name = m
          BY <1>2, <5>1 DEF Records
        <5>. QED
          BY <1>5, <5>1, <5>2
      <4>. QED
        BY <4>1, <4>2
    <3>5. \A f \in pruned' : \E done \in finished' : done.file = f
      BY <1>1, <1>2, <1>5 DEF Records
    <3>6. ASSUME NEW m \in BackupName, NEW k \in BackupName, tmp'[m] = tmp'[k], tmp'[m] > 0 PROVE m = k
      <4>1. tmp'[m] = tmp[m] /\ tmp'[k] = tmp[k]
        BY <2>1, <3>6
      <4>. QED
        BY <1>2, <3>6, <4>1 DEF Records
    <3>. QED
      BY <3>1, <3>2, <3>3, <3>4, <3>5, <3>6 DEF Records
  <2>9. ASSUME NEW j \in Jobs, pc'[j] \notin {"idle", "list", "prune"}
         PROVE  j # a /\ pc'[j] = pc[j] /\ job'[j] = job[j]
    BY <1>3, <2>9
  <2>10. Alone'
    <3>1. ASSUME NEW j \in Jobs, pc'[j] \in BackingUp PROVE job'[j].name.db = job'[j].db
      BY <1>2, <2>9, <3>1, Steps DEF Alone
    <3>2. ASSUME NEW i \in Jobs, NEW j \in Jobs, i # j, Busy(i)', Busy(j)', job'[i].db = job'[j].db
          PROVE  "overlap" \in job'[i].met
      <4>1. Busy(i) /\ Busy(j) /\ job'[i] = job[i] /\ job'[j] = job[j]
        BY <2>9, <3>2 DEF Busy
      <4>. QED
        BY <1>2, <3>2, <4>1 DEF Alone
    <3>. QED
      BY <3>1, <3>2 DEF Alone
  <2>11. Owned'
    <3>0. ASSUME NEW j \in Jobs, pc'[j] \in Copying
          PROVE  /\ j # a /\ pc[j] \in Copying /\ job'[j] = job[j] /\ job[j].file # 0
                 /\ job[j].name \in BackupName
      <4>1. j # a /\ pc[j] \in Copying /\ job'[j] = job[j]
        BY <2>9, <3>0, Steps
      <4>2. job[j].file # 0
        BY <1>2, <4>1 DEF Made
      <4>. QED
        BY <4>1, <4>2, Types
    <3>1. ASSUME NEW j \in Jobs, NEW m \in BackupName, pc'[j] \in Copying, tmp'[m] = job'[j].file
          PROVE  m.db = job'[j].db
      <4>1. pc[j] \in Copying /\ job'[j] = job[j] /\ tmp[m] = job[j].file
        BY <2>1, <3>0, <3>1
      <4>. QED
        BY <1>2, <4>1 DEF Owned
    <3>2. ASSUME NEW i \in Jobs, NEW j \in Jobs, pc'[i] \in Copying, pc'[j] \in Copying,
                 job'[i].file = job'[j].file
          PROVE  job'[i].db = job'[j].db
      <4>1. pc[i] \in Copying /\ job'[i] = job[i] /\ pc[j] \in Copying /\ job'[j] = job[j]
        BY <3>0, <3>2
      <4>. QED
        BY <1>2, <3>2, <4>1 DEF Owned
    <3>3. ASSUME NEW j \in Jobs, pc'[j] \in Copying, tmp'[job'[j].name] # job'[j].file
          PROVE  /\ \E done \in finished' : done.file = job'[j].file /\ "overlap" \in done.met
                 /\ "overlap" \in job'[j].met
      <4>0. j # a /\ pc[j] \in Copying /\ job'[j] = job[j] /\ job[j].name \in BackupName
        BY <3>0, <3>3
      <4>1. CASE tmp[job[j].name] # job[j].file
        <5>1. Shared(job[j].file) /\ "overlap" \in job[j].met
          BY <1>2, <4>0, <4>1 DEF Owned
        <5>. QED
          BY <1>5, <4>0, <5>1 DEF Shared
      <4>2. CASE tmp[job[j].name] = job[j].file
        <5>1. job[j].name = n
          BY <2>1, <3>3, <4>0, <4>2
        <5>2. job[j].file = g
          BY <1>0, <4>2, <5>1
        <5>3. job[j].db = d
          <6>1. job[j].name.db = job[j].db
            BY <1>2, <4>0, Steps DEF Alone
          <6>. QED
            BY <2>5, <5>1, <6>1
        <5>4. "overlap" \in job[j].met /\ "overlap" \in job[a].met
          BY <1>3, <2>5, <4>0, <5>3, SameFile
        <5>5. new \in finished' /\ new.file = g /\ "overlap" \in new.met
          BY <2>0, <2>6, <5>4
        <5>6. job'[j].file = g
          BY <4>0, <5>2
        <5>7. \E done \in finished' : done.file = job'[j].file /\ "overlap" \in done.met
          BY <5>5, <5>6
        <5>. QED
          BY <4>0, <5>4, <5>7
      <4>. QED
        BY <4>1, <4>2
    <3>. QED
      BY <3>1, <3>2, <3>3 DEF Owned, Shared
  <2>12. Known'
    <3>1. ASSUME NEW j \in Jobs, Busy(j)' PROVE job'[j].since <= commits'[job'[j].db]
      BY <1>1, <1>2, <2>9, <3>1 DEF Known, Busy
    <3>2. ASSUME NEW j \in Jobs, pc'[j] \in Restoring
          PROVE  \E done \in finished' : done.file = job'[j].file
      BY <1>2, <1>5, <2>9, <3>2, Steps DEF Known
    <3>. QED
      BY <3>1, <3>2 DEF Known
  <2>13. ASSUME NEW j \in Jobs PROVE Copies(j)'
    BY <1>2, <1>5, <1>6, SparedKeeps DEF Held
  <2>14. BackupIsWhole'
    <3>. SUFFICES ASSUME NEW m \in Listed'
                  PROVE  \/ Whole(file[backups'[m]])
                         \/ \E done \in finished' : /\ done.file = backups'[m]
                                                   /\ done.met \cap {"torn", "written", "overlap"} # {}
      BY <1>1 DEF BackupIsWhole, Whole
    <3>0. m \in BackupName /\ backups'[m] > 0
      BY DEF Listed
    <3>1. CASE m # n
      <4>1. m \in Listed /\ backups'[m] = backups[m]
        BY <2>1, <3>0, <3>1 DEF Listed
      <4>2. \/ Whole(file[backups[m]])
            \/ \E done \in finished : /\ done.file = backups[m]
                                     /\ done.met \cap {"torn", "written", "overlap"} # {}
        BY <4>1 DEF Held, BackupIsWhole
      <4>. QED
        BY <1>5, <4>1, <4>2
    <3>2. CASE m = n /\ met \cap {"torn", "written", "overlap"} # {}
      BY <2>0, <2>1, <3>0, <3>2
    <3>3. CASE m = n /\ met \cap {"torn", "written", "overlap"} = {}
      <4>1. job[a].met \cap {"torn", "written", "overlap"} = {}
        BY <1>0, <3>3
      <4>2. job[a].file = g
        <5>. SUFFICES ASSUME job[a].file # g PROVE FALSE
          OBVIOUS
        <5>1. tmp[job[a].name] # job[a].file
          BY <1>0
        <5>2. "overlap" \in job[a].met
          BY <1>2, <1>3, <5>1 DEF Owned
        <5>. QED
          BY <4>1, <5>2
      <4>3. Whole(file[g])
        BY <1>1, <4>1, <4>2 DEF Held, Copies, WholeCopy, Free
      <4>. QED
        BY <2>1, <3>0, <3>3, <4>3
    <3>. QED
      BY <3>1, <3>2, <3>3
  <2>15. ASSUME NEW f, Cardinality(Above(f)) >= KeepCount
         PROVE  Cardinality(Above(f)') >= KeepCount
    <3>1. Above(f) \subseteq Above(f)'
      BY <1>1, <1>5 DEF Above
    <3>2. IsFiniteSet(finished') /\ KeepCount \in Nat
      BY <2>8, Types DEF Records
    <3>. QED
      BY <2>15, <3>1, <3>2, AboveGrows
  <2>16. Prunable'
    <3>. SUFFICES ASSUME NEW m \in doomed, backups'[m] > 0
                  PROVE  \/ \E done \in finished' : done.file = backups'[m] /\ done.met \cap {"overlap", "doomed"} # {}
                         \/ Cardinality(Above(backups[m]))' >= KeepCount
      BY <1>1 DEF Prunable
    <3>0. m \in BackupName
      BY DEF BackupsTypeOK
    <3>1. CASE m = n
      <4>1. "doomed" \in met
        BY <1>0, <3>1
      <4>. QED
        BY <2>0, <2>1, <3>0, <3>1, <4>1
    <3>2. CASE m # n
      <4>1. backups'[m] = backups[m]
        BY <2>1, <3>0, <3>2
      <4>2. PICK f : f = backups[m]
        OBVIOUS
      <4>3. \/ \E done \in finished : done.file = f /\ done.met \cap {"overlap", "doomed"} # {}
            \/ Cardinality(Above(f)) >= KeepCount
        BY <4>1, <4>2 DEF Held, Prunable
      <4>4. Above(backups[m])' = Above(f)'
        BY <4>1, <4>2 DEF Above
      <4>. QED
        BY <1>5, <2>15, <4>1, <4>2, <4>3, <4>4
    <3>. QED
      BY <3>1, <3>2
  <2>17. NewestAreKept'
    <3>. SUFFICES ASSUME NEW old \in finished', old.file \in pruned, old.met \cap {"overlap", "doomed"} = {}
                  PROVE  Cardinality(Above(old.file)') >= KeepCount
      BY <1>1 DEF NewestAreKept, Above
    <3>1. old \in finished
      <4>1. old # new
        BY <1>2, <2>0, <2>3 DEF Records
      <4>. QED
        BY <2>0, <4>1
    <3>2. Cardinality(Above(old.file)) >= KeepCount
      BY <3>1 DEF Held, NewestAreKept, Above
    <3>. QED
      BY <2>15, <3>2
  <2>. QED
    BY <1>4, <2>7, <2>8, <2>10, <2>11, <2>12, <2>13, <2>14, <2>16, <2>17 DEF Held
<1>. QED
  BY <1>8, <1>9

\* A name is removed, by a request or, as one of the doomed, by the scheduler.
LEMMA RemovalKeeps ==
  ASSUME BackupsInv, NEW n \in BackupName, backups' = [backups EXCEPT ![n] = 0],
         UNCHANGED <<commits, main, wal>>, UNCHANGED <<file, made, modTime, tmp, finished>>,
         UNCHANGED <<pc, job>>, doomed' \subseteq doomed,
         \/ pruned' = pruned
         \/ n \in doomed /\ pruned' = pruned \cup ({backups[n]} \ {0})
  PROVE  Held'
<1>. USE DEF BackupsInv
<1>1. /\ commits' = commits /\ main' = main /\ wal' = wal /\ file' = file /\ made' = made
      /\ modTime' = modTime /\ tmp' = tmp /\ finished' = finished /\ pc' = pc /\ job' = job
  OBVIOUS
<1>2. /\ Counted /\ Made /\ Records /\ Alone /\ Owned /\ Known
  BY DEF Held
<1>3. /\ \A m \in BackupName : backups'[m] = IF m = n THEN 0 ELSE backups[m]
      /\ \A m \in Listed' : m \in Listed /\ backups'[m] = backups[m]
  <2>1. \A m \in BackupName : backups'[m] = IF m = n THEN 0 ELSE backups[m]
    BY DEF BackupsTypeOK
  <2>2. ASSUME NEW m \in Listed' PROVE m \in Listed /\ backups'[m] = backups[m]
    <3>1. m \in BackupName /\ backups'[m] > 0
      BY DEF Listed
    <3>2. m # n
      BY <2>1, <3>1
    <3>. QED
      BY <2>1, <3>1, <3>2 DEF Listed
  <2>. QED
    BY <2>1, <2>2
<1>4. Counted' /\ Alone' /\ Owned' /\ Known'
  BY <1>1, <1>2 DEF Counted, Alone, Owned, Known, Busy, Shared
<1>5. Made'
  <2>1. ASSUME NEW m \in BackupName PROVE tmp'[m] <= made' /\ backups'[m] <= made'
    <3>1. tmp[m] <= made /\ backups[m] <= made /\ made \in Nat
      BY <1>2, Types DEF Made
    <3>2. backups'[m] = 0 \/ backups'[m] = backups[m]
      BY <1>3
    <3>. QED
      BY <1>1, <3>1, <3>2
  <2>. QED
    BY <1>1, <1>2, <2>1 DEF Made
<1>6. Records'
  <2>1. \A m \in Listed' : \E done \in finished' : done.file = backups'[m] /\ done.name = m
    BY <1>1, <1>2, <1>3 DEF Records
  <2>2. \A f \in pruned' : \E done \in finished' : done.file = f
    <3>1. backups[n] # 0 => \E done \in finished : done.file = backups[n]
      <4>1. backups[n] # 0 => n \in Listed
        BY Types DEF Listed
      <4>. QED
        BY <1>2, <4>1 DEF Records
    <3>. QED
      BY <1>1, <1>2, <3>1 DEF Records
  <2>. QED
    BY <1>1, <1>2, <2>1, <2>2 DEF Records
<1>7. ASSUME NEW j \in Jobs PROVE Copies(j)'
  <2>1. Copies(j)
    BY DEF Held
  <2>. QED
    <3>1. WholeCopy(j)'
      BY <1>1, <2>1 DEF Copies, WholeCopy, Free, Whole
    <3>2. CurrentCopy(j)'
      BY <1>1, <2>1 DEF Copies, CurrentCopy, Free, Recent, Holds
    <3>3. RestoredCopy(j)'
      BY <1>1, <2>1 DEF Copies, RestoredCopy, Free, Holds, Shared
    <3>. QED
      BY <3>1, <3>2, <3>3 DEF Copies
<1>8. BackupIsWhole'
  <2>. SUFFICES ASSUME NEW m \in Listed'
                PROVE  \/ Whole(file[backups'[m]])
                       \/ \E done \in finished : /\ done.file = backups'[m]
                                                /\ done.met \cap {"torn", "written", "overlap"} # {}
    BY <1>1 DEF BackupIsWhole, Whole
  <2>. QED
    BY <1>3 DEF Held, BackupIsWhole
<1>9. \A f : Above(f)' = Above(f)
  BY <1>1 DEF Above
<1>10. Prunable'
  <2>. SUFFICES ASSUME NEW m \in doomed', backups'[m] > 0
                PROVE  \/ \E done \in finished : done.file = backups'[m] /\ done.met \cap {"overlap", "doomed"} # {}
                       \/ Cardinality(Above(backups[m]))' >= KeepCount
    BY <1>1 DEF Prunable
  <2>1. m \in BackupName /\ m \in doomed
    BY DEF BackupsTypeOK
  <2>2. m # n /\ backups'[m] = backups[m]
    BY <1>3, <2>1
  <2>3. PICK f : f = backups[m]
    OBVIOUS
  <2>4. Above(backups[m])' = Above(f)
    BY <1>1, <2>2, <2>3 DEF Above
  <2>. QED
    BY <2>1, <2>2, <2>3, <2>4 DEF Held, Prunable
<1>11. NewestAreKept'
  <2>. SUFFICES ASSUME NEW old \in finished, old.file \in pruned', old.met \cap {"overlap", "doomed"} = {}
                PROVE  Cardinality(Above(old.file)) >= KeepCount
    BY <1>1 DEF NewestAreKept, Above
  <2>1. CASE old.file \in pruned
    BY <2>1 DEF Held, NewestAreKept, Above
  <2>2. CASE n \in doomed /\ old.file = backups[n] /\ backups[n] # 0
    <3>1. backups[n] > 0
      BY <2>2, Types
    <3>2. \/ \E done \in finished : done.file = backups[n] /\ done.met \cap {"overlap", "doomed"} # {}
          \/ Cardinality(Above(backups[n])) >= KeepCount
      BY <2>2, <3>1 DEF Held, Prunable
    <3>3. ASSUME NEW done \in finished, done.file = backups[n] PROVE done = old
      BY <1>2, <2>2, <3>3 DEF Records
    <3>. QED
      BY <2>2, <3>2, <3>3
  <2>. QED
    BY <2>1, <2>2
<1>. QED
  BY <1>4, <1>5, <1>6, <1>7, <1>8, <1>10, <1>11 DEF Held

\* A request removes a backup.
LEMMA HandleDeleteBackupKeeps ==
  ASSUME BackupsInv, NEW h \in Jobs, NEW n \in BackupName, HandleDeleteBackup(h, n)
  PROVE  Held'
<1>1. /\ backups' = [backups EXCEPT ![n] = 0] /\ UNCHANGED <<commits, main, wal>>
      /\ UNCHANGED <<file, made, modTime, tmp, finished>> /\ UNCHANGED <<pc, job>>
      /\ doomed' \subseteq doomed /\ pruned' = pruned
  BY DEF HandleDeleteBackup, KeepDatabases, KeepLists
<1>. QED
  BY <1>1, RemovalKeeps

\* The scheduler removes what has the name by now.
LEMMA PruneOneKeeps ==
  ASSUME BackupsInv, NEW n \in BackupName, PruneOne(n)
  PROVE  Held'
<1>1. /\ backups' = [backups EXCEPT ![n] = 0] /\ UNCHANGED <<commits, main, wal>>
      /\ UNCHANGED <<file, made, modTime, tmp, finished>> /\ UNCHANGED <<pc, job>>
      /\ doomed' \subseteq doomed /\ n \in doomed
      /\ pruned' = pruned \cup ({backups[n]} \ {0})
  BY DEF PruneOne, KeepDatabases
<1>. QED
  BY <1>1, RemovalKeeps

\* Every listed file that is newer than a listed one was finished, under its own name.
LEMMA NewerAreAbove ==
  ASSUME BackupsInv, NEW n \in Listed, Cardinality(Newer(n)) >= KeepCount
  PROVE  Cardinality(Above(backups[n])) >= KeepCount
<1>. USE DEF BackupsInv, Held
<1> DEFINE S == Newer(n)
           T == Above(backups[n])
           F == [m \in S |-> CHOOSE done \in finished : done.file = backups[m] /\ done.name = m]
<1>1. ASSUME NEW m \in S PROVE F[m] \in finished /\ F[m].file = backups[m] /\ F[m].name = m
  <2>1. \E done \in finished : done.file = backups[m] /\ done.name = m
    BY DEF Newer, Records
  <2>. QED
    BY <2>1
<1>2. \A m \in S : modTime[backups[m]] > modTime[backups[n]]
  BY DEF Newer
<1> HIDE DEF F
<1>3. \A m \in S : F[m] \in T
  BY <1>1, <1>2 DEF Above
<1>4. F = [m \in S |-> F[m]]
  BY DEF F
<1> HIDE DEF S, T
<1>5. F \in [S -> T]
  BY <1>3, <1>4
<1>6. \A m, k \in S : F[m] = F[k] => m = k
  BY <1>1
<1>7. F \in Injection(S, T)
  BY <1>5, <1>6, Fun_IsInj
<1>8. IsFiniteSet(T)
  <2>1. T \subseteq finished
    BY DEF T, Above
  <2>. QED
    BY <2>1, FS_Subset DEF Records
<1>9. IsFiniteSet(S) /\ Cardinality(S) <= Cardinality(T)
  BY <1>7, <1>8, FS_Injection
<1>10. Cardinality(S) \in Nat /\ Cardinality(T) \in Nat /\ KeepCount \in Nat
  BY <1>8, <1>9, FS_CardinalityType, Types
<1>11. Cardinality(S) >= KeepCount
  BY DEF S
<1>12. Cardinality(T) >= KeepCount
  BY <1>9, <1>10, <1>11
<1>. QED
  BY <1>12 DEF T

\* The scheduler lists what is old.
LEMMA PruneOldBackupsKeeps == ASSUME BackupsInv, PruneOldBackups PROVE Held'
<1>. USE DEF BackupsInv, KeepFiles, KeepDatabases, Goto
<1>1. /\ doomed' = {n \in Listed : Cardinality(Newer(n)) >= KeepCount}
      /\ \A j \in Jobs : pc'[j] = pc[j] \/ pc'[j] = "prune"
      /\ UNCHANGED filesVars /\ UNCHANGED <<commits, main, wal>> /\ UNCHANGED <<job, pruned>>
  BY DEF PruneOldBackups, BackupsTypeOK
<1>2. /\ file' = file /\ made' = made /\ modTime' = modTime /\ tmp' = tmp /\ backups' = backups
      /\ finished' = finished /\ job' = job /\ commits' = commits /\ main' = main /\ wal' = wal
  BY <1>1 DEF filesVars
<1>3. Counted' /\ \A e \in Databases : commits'[e] \in Nat /\ commits[e] <= commits'[e]
  BY <1>2, CountedKept DEF Held
<1>4. ASSUME NEW j \in Jobs PROVE Goes(j) /\ Spared(j)
  <2>1. CASE pc'[j] = "prune"
    BY <2>1 DEF Goes, Spared
  <2>2. CASE pc'[j] = pc[j]
    <3>1. MoreMet(j) /\ Unused(job[j].db)
      BY <1>2 DEF MoreMet, Unused
    <3>. QED
      BY <1>2, <2>2, <3>1, SameGoes DEF Spared, Undisturbed
  <2>. QED
    BY <1>1, <2>1, <2>2
<1>5. Made' /\ Alone' /\ Owned' /\ Known'
  BY <1>2, <1>3, <1>4, GoesOn DEF Held
<1>6. \A j \in Jobs : Copies(j)'
  BY <1>2, <1>4, SparedKeeps DEF Held
<1>7. Records' /\ BackupIsWhole' /\ NewestAreKept'
  <2>1. Records /\ BackupIsWhole /\ NewestAreKept /\ pruned' = pruned
    BY <1>1 DEF Held
  <2>. QED
    BY <1>2, <2>1 DEF Records, BackupIsWhole, NewestAreKept, Listed, Whole
<1>8. Prunable'
  <2>. SUFFICES ASSUME NEW n \in doomed'
                PROVE  Cardinality(Above(backups[n]))' >= KeepCount
    BY DEF Prunable
  <2>1. n \in Listed /\ Cardinality(Newer(n)) >= KeepCount
    BY <1>1
  <2>2. Above(backups[n])' = Above(backups[n])
    BY <1>2 DEF Above
  <2>. QED
    BY <2>1, <2>2, NewerAreAbove
<1>. QED
  BY <1>3, <1>5, <1>6, <1>7, <1>8 DEF Held

-----------------------------------------------------------------------------
(* The invariant and the theorems.                                         *)

\* Nothing is copied and nothing is listed at the start.
LEMMA HeldInit == BackupsInit => Held
<1>. SUFFICES ASSUME BackupsInit PROVE Held
  OBVIOUS
<1>. USE BackupsAssumption DEF BackupsAssumption
<1>1. /\ commits = [d \in Databases |-> 1] /\ wal = [d \in Databases |-> 0] /\ made = 0
      /\ main = [d \in Databases |-> [p \in Pages |-> 1]]
      /\ tmp = [n \in BackupName |-> 0] /\ backups = [n \in BackupName |-> 0]
      /\ pc = [j \in Jobs |-> "idle"] /\ doomed = {} /\ finished = {} /\ pruned = {}
  BY DEF BackupsInit
<1>2. \A j \in Jobs : pc[j] = "idle"
  BY <1>1
<1>3. Listed = {}
  BY <1>1 DEF Listed
<1>4. Counted
  BY <1>1 DEF Counted
<1>5. Made
  <2>1. \A n \in BackupName : tmp[n] <= made /\ backups[n] <= made
    BY <1>1
  <2>. QED
    BY <1>2, <2>1 DEF Made, Copying, Restoring
<1>6. Records
  <2>1. IsFiniteSet(finished)
    BY <1>1, FS_EmptySet
  <2>2. \A n, m \in BackupName : tmp[n] = tmp[m] /\ tmp[n] > 0 => n = m
    BY <1>1
  <2>. QED
    BY <1>1, <1>3, <2>1, <2>2 DEF Records
<1>7. Alone /\ Owned /\ Known
  BY <1>2 DEF Alone, Owned, Known, Busy, BackingUp, Copying, Restoring
<1>8. \A j \in Jobs : Copies(j)
  BY <1>2 DEF Copies, WholeCopy, CurrentCopy, RestoredCopy, BackingUp, Copying
<1>9. BackupIsWhole /\ Prunable /\ NewestAreKept
  BY <1>1, <1>3 DEF BackupIsWhole, Prunable, NewestAreKept
<1>. QED
  BY <1>4, <1>5, <1>6, <1>7, <1>8, <1>9 DEF Held

\* Every step keeps what is held.
LEMMA HeldNext == BackupsInv /\ [BackupsNext]_backupsVars => Held'
<1>. SUFFICES ASSUME BackupsInv, [BackupsNext]_backupsVars PROVE Held'
  OBVIOUS
<1>0. Scheduler \in Jobs /\ Main \in Databases /\ Handlers \subseteq Jobs
  BY Types DEF BackupsInv
<1>1. ASSUME NEW j \in Jobs, BackupStep(j) PROVE Held'
  BY <1>1, CheckpointFirstKeeps, CreateTmpKeeps, CopyPageKeeps, RenameKeeps DEF BackupStep
<1>2. ASSUME NEW h \in Handlers, HandlerStep(h) PROVE Held'
  <2>0. h \in Jobs
    BY <1>0
  <2>1. ASSUME NEW d \in Databases, HandleBackup(h, d) PROVE Held'
    BY <2>0, <2>1, CreateBackupKeeps DEF HandleBackup
  <2>2. CASE BackupStep(h)
    BY <1>1, <2>0, <2>2
  <2>3. ASSUME NEW n \in BackupName, HandleDeleteBackup(h, n) PROVE Held'
    BY <2>0, <2>3, HandleDeleteBackupKeeps
  <2>4. ASSUME NEW n \in BackupName, NEW d \in Databases, HandleRestore(h, n, d) PROVE Held'
    BY <2>0, <2>4, HandleRestoreKeeps
  <2>5. CASE CloseDatabase(h) \/ TruncateDatabase(h) \/ ReopenDatabase(h)
    BY <2>0, <2>5, CloseDatabaseKeeps, TruncateDatabaseKeeps, ReopenDatabaseKeeps
  <2>6. ASSUME NEW p \in Pages, RestorePage(h, p) PROVE Held'
    BY <2>0, <2>6, RestorePageKeeps
  <2>. QED
    BY <1>2, <2>1, <2>2, <2>3, <2>4, <2>5, <2>6 DEF HandlerStep
<1>3. CASE SchedulerStep
  <2>1. CASE ScheduledBackup
    BY <1>0, <2>1, CreateBackupKeeps DEF ScheduledBackup
  <2>2. CASE BackupStep(Scheduler)
    BY <1>0, <1>1, <2>2
  <2>3. CASE PruneOldBackups
    BY <2>3, PruneOldBackupsKeeps
  <2>4. ASSUME NEW n \in BackupName, PruneOne(n) PROVE Held'
    BY <2>4, PruneOneKeeps
  <2>5. CASE PruneEnds
    BY <2>5, IdleKeeps
  <2>. QED
    BY <1>3, <2>1, <2>2, <2>3, <2>4, <2>5 DEF SchedulerStep
<1>4. ASSUME NEW d \in Databases, Commit(d) \/ AutoCheckpoint(d) PROVE Held'
  BY <1>4, CommitKeeps, AutoCheckpointKeeps
<1>5. CASE BackupsCrash
  BY <1>5, BackupsCrashKeeps
<1>6. CASE NextSecond \/ UNCHANGED backupsVars
  BY <1>6, IdleKeeps
<1>. QED
  BY <1>2, <1>3, <1>4, <1>5, <1>6 DEF BackupsNext

\* The inductive invariant.
LEMMA BackupsInvInvariant == BackupsSpec => []BackupsInv
<1>1. BackupsInit => BackupsInv
  BY TypesInit, HeldInit DEF BackupsInv
<1>2. BackupsInv /\ [BackupsNext]_backupsVars => BackupsInv'
  BY TypesNext, HeldNext DEF BackupsInv, Held
<1>. QED
  BY <1>1, <1>2, PTL DEF BackupsSpec

\* Every variable has its type, for any number of databases, handlers and files.
THEOREM BackupsTypeCorrect == BackupsSpec => []BackupsTypeOK
<1>1. BackupsInv => BackupsTypeOK
  BY DEF BackupsInv
<1>. QED
  BY <1>1, BackupsInvInvariant, PTL

\* Whatever GET /backups lists is a whole copy of one state of its database, or one of
\* the three named causes was met.
THEOREM BackupIsWholeCorrect == BackupsSpec => []BackupIsWhole
<1>1. BackupsInv => BackupIsWhole
  BY DEF BackupsInv, Held
<1>. QED
  BY <1>1, BackupsInvInvariant, PTL

\* A backup leaves out no transaction that was acknowledged before it was asked for, or
\* one of the three named causes was met.
THEOREM BackupIsCurrentCorrect == BackupsSpec => []BackupIsCurrent
<1>1. BackupsInv => BackupIsCurrent
  <2>. SUFFICES ASSUME BackupsInv, NEW j \in Jobs, pc[j] = "rename",
                       job[j].met \cap {"torn", "busy", "overlap"} = {}
                PROVE  \A p \in Pages : Recent(j, file[job[j].file][p])
    BY DEF BackupIsCurrent, Recent
  <2>1. CurrentCopy(j)
    BY DEF BackupsInv, Held, Copies
  <2>. QED
    BY <2>1 DEF CurrentCopy, Free
<1>. QED
  BY <1>1, BackupsInvInvariant, PTL

\* After a restore the database shows the backup or what was written since, or one of
\* the named causes was met.
THEOREM RestoredIsBackupCorrect == BackupsSpec => []RestoredIsBackup
<1>1. BackupsInv => RestoredIsBackup
  <2>. SUFFICES ASSUME BackupsInv, NEW h \in Handlers, pc[h] = "open",
                       job[h].met \cap {"busy", "used", "left", "overlap"} = {}, ~Shared(job[h].file)
                PROVE  \A p \in Pages : \/ Holds(job[h].db)[p] = file[job[h].file][p]
                                        \/ Holds(job[h].db)[p] > job[h].since
    BY DEF RestoredIsBackup
  <2>1. RestoredCopy(h)
    BY Types DEF BackupsInv, Held, Copies
  <2>. QED
    BY <2>1 DEF RestoredCopy, Free
<1>. QED
  BY <1>1, BackupsInvInvariant, PTL

\* The scheduler removes a backup only if KeepCount newer ones were finished, whatever is
\* made, deleted and renamed between its listing and its removals, but for the two named
\* causes.
THEOREM NewestAreKeptCorrect == BackupsSpec => []NewestAreKept
<1>1. BackupsInv => NewestAreKept
  BY DEF BackupsInv, Held
<1>. QED
  BY <1>1, BackupsInvInvariant, PTL
=============================================================================
