------------------------ MODULE DatabaseFiles_proofs ------------------------
(***************************************************************************)
(* Proofs about DatabaseFiles, for every pool, every number of files, of   *)
(* transactions and of starts, plain and encrypted: where the transactions *)
(* of a database are, what is sealed, and when it opens again.             *)
(***************************************************************************)
EXTENDS DatabaseFiles, TLAPS

-----------------------------------------------------------------------------
(* Contents.                                                               *)

LEMMA ContentOps ==
  /\ Empty \in Content /\ Broken \in Content /\ Empty.seals = 0 /\ Broken.seals = 2
  /\ \A x \in Content : /\ x # Nothing
                        /\ Sealed(x) \in Content /\ Sealed(x) # Nothing
                        /\ Sealed(x).seals = x.seals + 1
                        /\ Sealed(x).commits = x.commits
                        /\ x.seals = 1 =>
                             /\ Unsealed(x) \in Content
                             /\ Unsealed(x).seals = 0 /\ Unsealed(x).commits = x.commits
BY FilesAssumption, NothingAssumption DEF Content, Empty, Broken, Sealed, Unsealed

LEMMA HarmedIs ==
  ASSUME NEW kinds
  PROVE  /\ Harmed(kinds) <=> \E k \in kinds : k \in causes
         /\ Harmed(kinds)' <=> \E k \in kinds : k \in causes'
BY DEF Harmed

-----------------------------------------------------------------------------
(* The invariant.                                                          *)

\* Where the pieces are.  An open database has a connection, and no other has one;
\* those to a decrypted database are not to file 1, and beside a decrypted file with
\* a name, which the pool made, there is the one it opened first.
Placed ==
  /\ opened = "no" => decrypted = 0 /\ \A c \in Conns : conns[c] = 0
  /\ opened # "no" => \E c \in Conns : conns[c] > 0
  /\ opened = "data" => decrypted = 0 /\ \A c \in Conns : conns[c] \in {0, 1}
  /\ opened = "decrypted" => encrypted /\ decrypted # 1 /\ \A c \in Conns : conns[c] # 1
  /\ decrypted > 0 => \E c \in Conns : conns[c] > 0 /\ conns[c] # decrypted
  /\ decrypted <= made /\ \A c \in Conns : conns[c] <= made
  /\ \A f \in FileIds : f > made => files[f] = Empty

\* Who is at work: what is closed is not open, and a restore opens nothing itself
\* before it has copied its backup.
Phases ==
  /\ sealing # Nothing => encrypted /\ opened = "no" /\ sealing.seals > 0
  /\ process # "runs" => opened = "no"
  /\ process = "down" => sealing = Nothing
  /\ restoring = "closed" /\ ~Harmed({"used"}) => opened = "no"
  /\ restoring # "no" => backup # Nothing

\* What the file in the data directory has, or will have when it is written.
Home == IF sealing = Nothing THEN files[1] ELSE sealing

\* Nothing that destroys a transaction has happened: the database has them all,
\* wherever it is.  With two copies each of them is in one: those from before the
\* open in the file of the first connection, and what came since in the pool's.
Intact == ~Harmed({"dropped", "cut", "used"})
One ==
  /\ Home.commits = committed
  /\ \A c \in Conns : conns[c] > 0 => files[conns[c]].commits = committed
Two ==
  /\ \E c \in Conns : conns[c] = decrypted
  /\ \E c \in Conns : /\ conns[c] > 0 /\ conns[c] # decrypted
                     /\ \A t \in committed :
                          t \in files[conns[c]].commits \/ t \in files[decrypted].commits
Agrees == Intact => IF decrypted = 0 THEN One ELSE Two

\* A copy of the decrypted file is not sealed, and its pool comes to no good end.
BackupSealed ==
  encrypted /\ ~Harmed({"crashed", "laid"}) /\ ~Harmed({"early", "dropped"}) /\ decrypted = 0
    /\ backup # Nothing /\ Filled(backup) => backup.seals > 0

\* What is sealed, and how often.
SealsFit ==
  /\ ~encrypted /\ ~Harmed({"cut"}) =>
       files[1].seals = 0 /\ (backup # Nothing => backup.seals = 0)
  /\ encrypted /\ ~Harmed({"crashed", "laid"}) /\ opened # "data" /\ Filled(files[1]) =>
       files[1].seals > 0
  /\ BackupSealed
  /\ encrypted /\ opened = "no" /\ ~Harmed({"cut", "used", "resealed", "crashed", "laid"})
       /\ Filled(Home) => Home.seals = 1

FilesInv == FilesTypeOK /\ Placed /\ Phases /\ Agrees /\ SealsFit /\ OpensAgain

LEMMA FilesInvInit == FilesInit => FilesInv
<1>. SUFFICES ASSUME FilesInit PROVE FilesInv
  OBVIOUS
<1>1. 1 \in FileIds /\ MaxFiles \in Nat /\ 1 \in 1..MaxStarts /\ MaxCommits \in Nat
  BY FilesAssumption DEF FileIds
<1>2. /\ files = [f \in FileIds |-> Empty] /\ files[1] = Empty /\ Empty \in Content
      /\ conns = [c \in Conns |-> 0]
  BY <1>1, ContentOps DEF FilesInit
<1>3. FilesTypeOK
  <2>1. files \in [FileIds -> Content] /\ conns \in [Conns -> 0..MaxFiles] /\ 0 \in 0..MaxCommits
    BY <1>1, <1>2
  <2>2. decrypted \in 0..MaxFiles /\ made \in FileIds /\ starts \in 1..MaxStarts /\ count \in 0..MaxCommits
    BY <1>1 DEF FilesInit
  <2>3. opened \in Path \cup {"no"} /\ process \in {"runs", "ends", "down"}
        /\ restoring \in {"no", "closed", "copied"} /\ encrypted \in BOOLEAN
    BY DEF FilesInit, Path
  <2>4. /\ sealing \in Content \cup {Nothing} /\ backup \in Content \cup {Nothing}
        /\ copying \in BOOLEAN /\ refused \in BOOLEAN
        /\ committed \in SUBSET (1..MaxCommits) /\ causes \in SUBSET Causes
    BY DEF FilesInit
  <2>. QED
    BY <2>1, <2>2, <2>3, <2>4 DEF FilesTypeOK
<1>4. Placed /\ Phases /\ SealsFit /\ OpensAgain
  <2>1. causes = {} /\ \A kinds : ~Harmed(kinds)
    BY DEF FilesInit, Harmed
  <2>2. Placed
    BY <1>1, <1>2, <2>1 DEF FilesInit, Placed
  <2>3. Phases
    BY <2>1 DEF FilesInit, Phases
  <2>4. SealsFit
    BY <1>1, <1>2, <2>1, ContentOps DEF FilesInit, SealsFit, BackupSealed, Filled, Home
  <2>. QED
    BY <2>2, <2>3, <2>4 DEF FilesInit, OpensAgain
<1>5. Agrees
  BY <1>1, <1>2 DEF FilesInit, Agrees, One, Home, Empty
<1>. QED
  BY <1>3, <1>4, <1>5 DEF FilesInv

-----------------------------------------------------------------------------
(* Opening.                                                                *)

LEMMA OpenPlainKeeps ==
  ASSUME FilesInv, NEW c \in Conns, OpenPlain(c)
  PROVE  FilesInv'
<1>1. FilesTypeOK'
  <2>1. causes' \in SUBSET Causes
    BY DEF FilesInv, FilesTypeOK, OpenPlain, Opens, Harm, Causes
  <2>2. conns' \in [Conns -> 0..MaxFiles]
    BY FilesAssumption DEF FilesInv, FilesTypeOK, OpenPlain, Opens
  <2>. QED
    BY <2>1, <2>2 DEF FilesInv, FilesTypeOK, OpenPlain, Opens, KeepCommits, backupVars, processVars, Path
<1>2. Placed'
  BY FilesAssumption, HarmedIs DEF FilesInv, FilesTypeOK, Placed, OpenPlain, Opens, Harm, KeepCommits, backupVars, processVars, FileIds, MayOpen
<1>3. Phases'
  BY FilesAssumption, HarmedIs DEF FilesInv, Phases, OpenPlain, Opens, Harm, KeepCommits, backupVars, processVars, MayOpen
<1>4. Agrees'
  BY FilesAssumption, HarmedIs DEF FilesInv, FilesTypeOK, Placed, Agrees, One, Two, Intact, Home, OpenPlain, Opens, Harm, KeepCommits, backupVars, processVars, MayOpen
<1>5. SealsFit'
  BY FilesAssumption, HarmedIs DEF FilesInv, FilesTypeOK, SealsFit, BackupSealed, Home, Filled, OpenPlain, Opens, Harm, KeepCommits, backupVars, processVars, MayOpen
<1>6. OpensAgain'
  BY DEF OpenPlain, Opens, OpensAgain
<1>. QED
  BY <1>1, <1>2, <1>3, <1>4, <1>5, <1>6 DEF FilesInv

LEMMA OpenEncryptedKeeps ==
  ASSUME FilesInv, NEW c \in Conns, OpenEncrypted(c)
  PROVE  FilesInv'
<1> DEFINE n == made + 1
           u == Unsealed(files[1])
<1>1. /\ n \in FileIds /\ n # 1 /\ 1 \in FileIds /\ made \in FileIds
      /\ \A f \in FileIds : f > n => f > made
      /\ FileIds \subseteq Nat
      /\ u \in Content /\ u.commits = files[1].commits
  BY FilesAssumption, ContentOps DEF FilesInv, FilesTypeOK, FileIds, OpenEncrypted
<1>2. /\ files' = [files EXCEPT ![n] = u] /\ made' = n /\ opened' = "decrypted"
      /\ conns' = [conns EXCEPT ![c] = n] /\ refused' = FALSE
      /\ causes' = causes \cup {h \in {"used"} : restoring = "closed"}
      /\ decrypted' = decrypted
      /\ UNCHANGED <<encrypted, count, committed, sealing, backup, copying, restoring, starts, process>>
      /\ encrypted /\ files[1].seals = 1 /\ process = "runs" /\ opened = "no" /\ sealing = Nothing
  BY DEF OpenEncrypted, Opens, Harm, KeepCommits, backupVars, processVars, MayOpen
<1> HIDE DEF n, u
<1>3. FilesTypeOK'
  <2>1. causes' \in SUBSET Causes
    BY <1>2 DEF FilesInv, FilesTypeOK, Causes
  <2>2. conns' \in [Conns -> 0..MaxFiles] /\ files' \in [FileIds -> Content]
    BY <1>1, <1>2 DEF FilesInv, FilesTypeOK, FileIds
  <2>. QED
    BY <1>1, <1>2, <2>1, <2>2 DEF FilesInv, FilesTypeOK, Path
<1>4. files' \in [FileIds -> Content] /\ files'[1] = files[1] /\ files'[n] = u
      /\ \A f \in FileIds : f # n => files'[f] = files[f]
  BY <1>1, <1>2 DEF FilesInv, FilesTypeOK
<1>5. conns'[c] = n /\ \A d \in Conns : d # c => conns'[d] = 0
  BY <1>2 DEF FilesInv, FilesTypeOK, Placed
<1>6. Placed'
  <2>1. n \in Nat /\ n > 0
    BY <1>1, FilesAssumption DEF FileIds
  <2>2. decrypted' = 0 /\ \A d \in Conns : conns'[d] = n \/ conns'[d] = 0
    BY <1>2, <1>5 DEF FilesInv, Placed
  <2>. QED
    BY <1>1, <1>2, <1>4, <1>5, <2>1, <2>2 DEF FilesInv, Placed
<1>7. Phases'
  BY <1>2, HarmedIs DEF FilesInv, Phases
<1>8. Agrees'
  BY <1>1, <1>2, <1>4, <1>5, HarmedIs DEF FilesInv, Agrees, One, Two, Intact, Home
<1>9. SealsFit'
  BY <1>1, <1>2, <1>4, HarmedIs DEF FilesInv, SealsFit, BackupSealed, Home, Filled
<1>10. OpensAgain'
  BY <1>2 DEF OpensAgain
<1>. QED
  BY <1>3, <1>6, <1>7, <1>8, <1>9, <1>10 DEF FilesInv

LEMMA OpenRefusedKeeps ==
  ASSUME FilesInv, OpenRefused
  PROVE  FilesInv'
<1>1. /\ refused' /\ refused' \in BOOLEAN /\ opened = "no" /\ sealing = Nothing /\ ~Openable
      /\ UNCHANGED <<encrypted, count, committed, files, made, decrypted, opened, conns, sealing,
                     backup, copying, restoring, starts, process, causes>>
  BY DEF OpenRefused, MayOpen, KeepCommits, managerVars, backupVars, processVars
<1>2. FilesTypeOK' /\ Placed' /\ Phases' /\ Agrees' /\ SealsFit'
  BY <1>1 DEF FilesInv, FilesTypeOK, Placed, Phases, Agrees, One, Two, Intact, SealsFit, BackupSealed, Home, Filled, Harmed
<1>3. OpensAgain'
  <2>1. ASSUME ~encrypted, ~Harmed({"cut", "used"}) PROVE FALSE
    BY <1>1, <2>1, HarmedIs DEF FilesInv, SealsFit, BackupSealed, Openable, IsDatabase
  <2>2. ASSUME encrypted, ~Harmed({"cut", "used"}), ~Harmed({"resealed", "crashed", "laid"})
        PROVE  FALSE
    <3>1. ~Harmed({"cut", "used", "resealed", "crashed", "laid"})
      BY <2>2, HarmedIs
    <3>2. ~Filled(files[1]) => IsDatabase(files[1])
      BY ContentOps DEF Filled, IsDatabase
    <3>. QED
      BY <1>1, <2>2, <3>1, <3>2 DEF FilesInv, SealsFit, BackupSealed, Home, Openable
  <2>. QED
    BY <1>1, <2>1, <2>2 DEF OpensAgain, Harmed
<1>. QED
  BY <1>2, <1>3 DEF FilesInv

-----------------------------------------------------------------------------
(* Connections.                                                            *)

LEMMA ConnectKeeps ==
  ASSUME FilesInv, NEW c \in Conns, Connect(c)
  PROVE  FilesInv'
<1>1. /\ opened # "no" /\ conns[c] = 0
      /\ UNCHANGED <<encrypted, count, committed, files, opened, sealing, backup, copying, restoring,
                     starts, process, refused>>
      /\ causes \subseteq causes'
  BY DEF Connect, Harm, KeepCommits, backupVars, processVars
<1>2. CASE opened = "data" \/ decrypted > 0
  <2> DEFINE k == IF opened = "data" THEN 1 ELSE decrypted
  <2>1. conns' = [conns EXCEPT ![c] = k] /\ UNCHANGED <<made, decrypted, causes>>
    BY <1>2 DEF Connect
  <2>2. k \in 0..MaxFiles
    BY FilesAssumption DEF FilesInv, FilesTypeOK
  <2>3. opened = "data" => k = 1
    OBVIOUS
  <2>4. opened = "decrypted" => k = decrypted /\ k > 0
    BY <1>2
  <2>5. opened \in {"data", "decrypted"}
    BY <1>1 DEF FilesInv, FilesTypeOK, Path
  <2> HIDE DEF k
  <2>6. conns' \in [Conns -> 0..MaxFiles] /\ conns'[c] = k /\ \A d \in Conns : d # c => conns'[d] = conns[d]
    BY <2>1, <2>2 DEF FilesInv, FilesTypeOK
  <2>7. FilesTypeOK'
    BY <1>1, <2>1, <2>6 DEF FilesInv, FilesTypeOK
  <2>8. Placed'
    <3>1. \E d \in Conns : conns[d] > 0
      BY <1>1 DEF FilesInv, Placed
    <3>2. k <= made /\ k > 0
      BY <2>3, <2>4, <2>5, FilesAssumption DEF FilesInv, FilesTypeOK, Placed, FileIds
    <3>3. decrypted > 0 => \E d \in Conns : d # c /\ conns[d] > 0 /\ conns[d] # decrypted
      BY <1>1 DEF FilesInv, Placed
    <3>. QED
      BY <1>1, <2>1, <2>3, <2>4, <2>5, <2>6, <3>1, <3>2, <3>3 DEF FilesInv, Placed
  <2>9. Phases' /\ SealsFit' /\ OpensAgain'
    BY <1>1, <2>1 DEF FilesInv, Phases, SealsFit, BackupSealed, OpensAgain, Home, Filled, Harmed
  <2>10. Agrees'
    <3>1. CASE opened = "data"
      <4>1. decrypted = 0 /\ sealing = Nothing
        BY <3>1 DEF FilesInv, Placed, Phases
      <4>. QED
        BY <1>1, <2>1, <2>3, <2>6, <3>1, <4>1 DEF FilesInv, Agrees, One, Intact, Harmed, Home
    <3>2. CASE opened = "decrypted"
      <4>1. k = decrypted /\ decrypted # 0 /\ k > 0
        BY <2>4, <3>2
      <4>2. \A d \in Conns : conns[d] > 0 => d # c /\ conns'[d] = conns[d]
        BY <1>1, <2>6
      <4>. QED
        BY <1>1, <2>1, <2>6, <4>1, <4>2 DEF FilesInv, Agrees, Two, Intact, Harmed
    <3>. QED
      BY <2>5, <3>1, <3>2
  <2>. QED
    BY <2>7, <2>8, <2>9, <2>10 DEF FilesInv
<1>3. CASE ~(opened = "data" \/ decrypted > 0)
  <2> DEFINE n == made + 1
  <2>1. /\ n \in FileIds /\ n # 1 /\ n > 0 /\ made \in FileIds /\ FileIds = 1..MaxFiles
        /\ \A f \in FileIds : f > n => f > made
        /\ n > made
    BY <1>3, FilesAssumption DEF Connect, FilesInv, FilesTypeOK, FileIds
  <2>2. /\ made' = n /\ decrypted' = n /\ conns' = [conns EXCEPT ![c] = n] /\ decrypted = 0
        /\ causes' = causes
    BY <1>3, FilesAssumption DEF Connect, FilesInv, FilesTypeOK
  <2>3. opened = "decrypted" /\ encrypted
    BY <1>1, <1>3 DEF FilesInv, FilesTypeOK, Placed, Path
  <2> HIDE DEF n
  <2>4. conns' \in [Conns -> 0..MaxFiles] /\ conns'[c] = n /\ \A d \in Conns : d # c => conns'[d] = conns[d]
    BY <2>1, <2>2 DEF FilesInv, FilesTypeOK
  <2>5. FilesTypeOK'
    <3>1. n \in 0..MaxFiles
      BY <2>1
    <3>. QED
      BY <1>1, <2>1, <2>2, <2>4, <3>1 DEF FilesInv, FilesTypeOK
  <2>6. PICK d \in Conns : conns[d] > 0 /\ d # c /\ conns[d] # n /\ conns[d] \in FileIds
    <3>1. \A d \in Conns : conns[d] \in 0..MaxFiles
      BY DEF FilesInv, FilesTypeOK
    <3>2. \E d \in Conns : conns[d] > 0
      BY <1>1 DEF FilesInv, Placed
    <3>3. \A d \in Conns : conns[d] <= made
      BY DEF FilesInv, Placed
    <3>. QED
      BY <1>1, <2>1, <3>1, <3>2, <3>3, FilesAssumption
  <2>7. Placed'
    <3>1. \A e \in Conns : conns'[e] <= n /\ conns'[e] # 1
      BY <2>1, <2>3, <2>4 DEF FilesInv, FilesTypeOK, Placed
    <3>2. conns'[d] > 0 /\ conns'[d] # n
      BY <2>1, <2>4, <2>6
    <3>. QED
      BY <1>1, <2>1, <2>2, <2>3, <3>1, <3>2 DEF FilesInv, Placed
  <2>8. Phases' /\ SealsFit' /\ OpensAgain'
    BY <1>1, <2>1, <2>2 DEF FilesInv, Phases, SealsFit, BackupSealed, OpensAgain, Home, Filled, Harmed
  <2>9. Agrees'
    <3>. SUFFICES ASSUME Intact' PROVE Two'
      BY <2>1, <2>2 DEF Agrees
    <3>1. One
      BY <1>1, <2>2 DEF FilesInv, Agrees, Intact, Harmed
    <3>2. files'[conns'[d]].commits = committed' /\ conns'[d] > 0 /\ conns'[d] # decrypted'
      BY <1>1, <2>1, <2>2, <2>4, <2>6, <3>1 DEF One
    <3>. QED
      BY <2>2, <2>4, <3>2 DEF Two
  <2>. QED
    BY <2>5, <2>7, <2>8, <2>9 DEF FilesInv
<1>. QED
  BY <1>2, <1>3

LEMMA CommitKeeps ==
  ASSUME FilesInv, NEW c \in Conns, Commit(c)
  PROVE  FilesInv'
<1> DEFINE f == conns[c]
           n == count + 1
<1>1. /\ f > 0 /\ n \in 1..MaxCommits /\ count' = n /\ committed' = committed \cup {n}
      /\ files' = [files EXCEPT ![f].commits = @ \cup {n}]
      /\ UNCHANGED <<encrypted, made, decrypted, opened, conns, sealing, backup, copying, restoring,
                     starts, process, refused, causes>>
      /\ f = (IF opened = "data" THEN 1 ELSE decrypted)
  BY FilesAssumption DEF Commit, Writable, backupVars, processVars, FilesInv, FilesTypeOK
<1>2. /\ f \in FileIds /\ 1 \in FileIds /\ files \in [FileIds -> Content]
      /\ opened # "no" /\ opened \in {"data", "decrypted"}
      /\ f = 1 <=> opened = "data"
      /\ made \in FileIds
  BY <1>1, FilesAssumption DEF FilesInv, FilesTypeOK, FileIds, Placed, Path
<1> HIDE DEF f, n
<1>3. /\ files' \in [FileIds -> Content]
      /\ files'[f].commits = files[f].commits \cup {n}
      /\ files'[f].seals = files[f].seals
      /\ \A g \in FileIds : g # f => files'[g] = files[g]
  BY <1>1, <1>2 DEF Content
<1>4. FilesTypeOK'
  <2>1. count' \in 0..MaxCommits /\ committed' \in SUBSET (1..MaxCommits)
    BY <1>1 DEF FilesInv, FilesTypeOK
  <2>. QED
    BY <1>1, <1>3, <2>1 DEF FilesInv, FilesTypeOK
<1>5. Placed'
  <2>1. f <= made
    <3>1. CASE opened = "data"
      BY <1>1, <1>2, <3>1, FilesAssumption DEF FileIds
    <3>2. CASE opened = "decrypted"
      BY <1>1, <1>2, <3>2, FilesAssumption DEF FilesInv, Placed
    <3>. QED
      BY <1>2, <3>1, <3>2
  <2>2. \A g \in FileIds : g > made => g # f
    BY <1>2, <2>1, FilesAssumption DEF FileIds
  <2>. QED
    BY <1>1, <1>3, <2>2 DEF FilesInv, Placed, Harmed
<1>6. Phases' /\ OpensAgain'
  BY <1>1 DEF FilesInv, Phases, OpensAgain, Harmed
<1>7. Agrees'
  <2>. SUFFICES ASSUME Intact' PROVE IF decrypted = 0 THEN One' ELSE Two'
    BY <1>1 DEF Agrees
  <2>1. IF decrypted = 0 THEN One ELSE Two
    BY <1>1 DEF FilesInv, Agrees, Intact, Harmed
  <2>2. CASE opened = "data"
    <3>1. decrypted = 0 /\ f = 1 /\ \A d \in Conns : conns[d] \in {0, 1}
      BY <1>2, <2>2 DEF FilesInv, Placed
    <3>2. sealing = Nothing /\ sealing' = Nothing
      BY <1>1, <1>2 DEF FilesInv, Phases
    <3>3. files[1].commits = committed
      BY <2>1, <3>1, <3>2 DEF One, Home
    <3>. QED
      BY <1>1, <1>3, <3>1, <3>2, <3>3 DEF One, Home
  <2>3. CASE opened = "decrypted"
    <3>1. f = decrypted /\ decrypted # 0
      BY <1>1, <2>3, FilesAssumption DEF FilesInv, FilesTypeOK
    <3>2. PICK d \in Conns : /\ conns[d] > 0 /\ conns[d] # decrypted
                            /\ \A t \in committed : t \in files[conns[d]].commits
                                                  \/ t \in files[decrypted].commits
      BY <2>1, <3>1 DEF Two
    <3>3. conns[d] \in FileIds
      BY <3>2, FilesAssumption DEF FilesInv, FilesTypeOK, FileIds
    <3>4. files'[conns[d]] = files[conns[d]] /\ files'[decrypted].commits = files[decrypted].commits \cup {n}
      BY <1>3, <3>1, <3>2, <3>3
    <3>5. \E e \in Conns : conns[e] = decrypted
      BY <2>1, <3>1 DEF Two
    <3>. QED
      BY <1>1, <3>1, <3>2, <3>4, <3>5 DEF Two
  <2>. QED
    BY <1>2, <2>2, <2>3
<1>8. SealsFit'
  BY <1>1, <1>2, <1>3, HarmedIs DEF FilesInv, SealsFit, BackupSealed, Filled, Home
<1>. QED
  BY <1>4, <1>5, <1>6, <1>7, <1>8 DEF FilesInv

-----------------------------------------------------------------------------
(* Writing the file in the data directory.                                 *)

\* Every step that puts new content there, and leaves the open database alone.
LEMMA WrittenTypes ==
  ASSUME FilesInv, NEW x \in Content, files' = [files EXCEPT ![1] = x]
  PROVE  /\ files' \in [FileIds -> Content] /\ files'[1] = x
         /\ \A f \in FileIds : f > made => files'[f] = files[f]
         /\ 1 \in FileIds
<1>1. 1 \in FileIds /\ made \in FileIds /\ files \in [FileIds -> Content] /\ FileIds \subseteq Nat
      /\ \A f \in FileIds : f > made => f # 1
  BY FilesAssumption DEF FilesInv, FilesTypeOK, FileIds
<1>. QED
  BY <1>1

\* A pool that made a decrypted file holds the one it opened first as well.
LEMMA DroppedIs ==
  ASSUME FilesInv
  PROVE  Dropped = IF decrypted > 0 THEN {"dropped"} ELSE {}
<1>1. decrypted > 0 => \E c \in Conns : conns[c] \notin {0, decrypted}
  BY DEF FilesInv, Placed
<1>. QED
  BY <1>1 DEF Dropped

\* Close takes the content of the database out of its file, if it seals it.
LEMMA CloseKeeps ==
  ASSUME FilesInv, sealing = Nothing, CloseDatabase,
         backup' = backup, copying' \in BOOLEAN, restoring' \in {"no", "closed", "copied"},
         restoring' # "no" => backup # Nothing,
         process' \in {"runs", "ends", "down"}, process' = "down" => Reencrypted = Nothing
  PROVE  FilesInv'
<1> DEFINE r == Reencrypted
<1>1. /\ sealing' = r /\ decrypted' = 0 /\ opened' = "no" /\ conns' = [c \in Conns |-> 0]
      /\ files' = [files EXCEPT ![1] = IF r = Nothing THEN @ ELSE Empty]
      /\ causes' = causes \cup {h \in {"resealed"} : r # Nothing /\ r.seals > 1} \cup Dropped
      /\ UNCHANGED <<made, starts, refused, encrypted, count, committed>>
  BY DEF CloseDatabase, Harm, KeepCommits
<1>2. /\ files \in [FileIds -> Content] /\ 1 \in FileIds /\ files[1] \in Content /\ Empty \in Content
      /\ made \in FileIds
      /\ decrypted > 0 => files[decrypted] \in Content
      /\ \A f \in FileIds : f > made => f # 1
  BY FilesAssumption, ContentOps DEF FilesInv, FilesTypeOK, FileIds
<1>3. r # Nothing => encrypted /\ r \in Content /\ r.seals > 0
  <2>1. \A x \in Content : Sealed(x) \in Content /\ Sealed(x).seals > 0
    BY ContentOps DEF Content
  <2>. QED
    BY <1>2, <2>1 DEF Reencrypted
<1>4. Intact' => IF r = Nothing THEN files[1].commits = committed ELSE r.commits = committed
  <2>. SUFFICES ASSUME Intact'
                PROVE  IF r = Nothing THEN files[1].commits = committed ELSE r.commits = committed
    OBVIOUS
  <2>1. files[1].commits = committed /\ ~(decrypted > 0)
    <3>1. Intact /\ "dropped" \notin causes'
      BY <1>1, HarmedIs DEF Intact
    <3>2. ~(decrypted > 0)
      BY <1>1, <3>1, DroppedIs
    <3>3. decrypted = 0
      BY <3>2, FilesAssumption DEF FilesInv, FilesTypeOK
    <3>. QED
      BY <3>1, <3>2, <3>3 DEF FilesInv, Agrees, One, Home
  <2>2. r = Nothing \/ r = Sealed(files[1])
    BY <2>1 DEF Reencrypted
  <2>. QED
    BY <1>2, <2>1, <2>2, ContentOps
<1>5. \/ r # Nothing
      \/ r = Nothing /\ encrypted /\ opened # "no" /\ ~Filled(files[1])
      \/ r = Nothing /\ (~encrypted \/ opened = "no")
  BY <1>2, ContentOps DEF Reencrypted
<1> HIDE DEF r
<1>6. files' \in [FileIds -> Content] /\ files'[1] = (IF r = Nothing THEN files[1] ELSE Empty)
      /\ \A f \in FileIds : f > made => files'[f] = files[f]
  BY <1>1, <1>2
<1>7. FilesTypeOK'
  <2>1. causes' \in SUBSET Causes
    BY <1>1 DEF FilesInv, FilesTypeOK, Causes, Dropped
  <2>2. conns' \in [Conns -> 0..MaxFiles] /\ 0 \in 0..MaxFiles
    BY <1>1, FilesAssumption
  <2>3. sealing' \in Content \cup {Nothing}
    BY <1>1, <1>3
  <2>. QED
    BY <1>1, <1>6, <2>1, <2>2, <2>3 DEF FilesInv, FilesTypeOK
<1>8. Placed'
  <2>1. \A c \in Conns : conns'[c] = 0
    BY <1>1
  <2>2. 0 <= made /\ ~(0 > 0)
    BY FilesAssumption DEF FilesInv, FilesTypeOK, FileIds
  <2>. QED
    BY <1>1, <1>6, <2>1, <2>2, HarmedIs DEF FilesInv, Placed
<1>9. Phases'
  BY <1>1, <1>3 DEF Phases, r
<1>10. Agrees'
  <2>1. Intact' => Intact /\ \A c \in Conns : conns'[c] = 0
    BY <1>1, HarmedIs DEF Intact
  <2>. QED
    BY <1>1, <1>4, <1>6, <2>1 DEF Agrees, One, Home
<1>11. SealsFit'
  <2>1. ~Filled(Empty)
    BY DEF Filled
  <2>2. /\ ~encrypted /\ ~Harmed({"cut"})' =>
             files'[1].seals = 0 /\ (backup # Nothing => backup.seals = 0)
    BY <1>1, <1>3, <1>6, HarmedIs DEF FilesInv, SealsFit, BackupSealed
  <2>3. encrypted /\ ~Harmed({"crashed", "laid"})' /\ Filled(files'[1]) => files'[1].seals > 0
    BY <1>1, <1>5, <1>6, <2>1, HarmedIs DEF FilesInv, SealsFit, BackupSealed
  <2>4. BackupSealed'
    <3>1. decrypted > 0 => "dropped" \in causes'
      BY <1>1, DroppedIs
    <3>2. decrypted > 0 \/ decrypted = 0
      BY FilesAssumption DEF FilesInv, FilesTypeOK
    <3>. QED
      BY <1>1, <3>1, <3>2, HarmedIs DEF FilesInv, SealsFit, BackupSealed, Filled
  <2>5. ASSUME encrypted, ~Harmed({"cut", "used", "resealed", "crashed", "laid"})', Filled(Home)'
        PROVE  Home'.seals = 1
    <3>1. CASE r # Nothing
      <4>1. Home' = r /\ r.seals \in Nat /\ ~(r.seals > 1)
        BY <1>1, <1>3, <2>5, <3>1, HarmedIs DEF Home, Content
      <4>. QED
        BY <1>3, <3>1, <4>1
    <3>2. CASE r = Nothing
      <4>1. Home' = files[1] /\ Home = files[1] /\ Filled(files[1])
        BY <1>1, <1>6, <2>5, <3>2 DEF Home, Filled
      <4>2. opened = "no"
        BY <1>5, <2>5, <3>2, <4>1
      <4>. QED
        BY <1>1, <2>5, <4>1, <4>2, HarmedIs DEF FilesInv, SealsFit, BackupSealed
    <3>. QED
      BY <3>1, <3>2
  <2>. QED
    BY <1>1, <2>2, <2>3, <2>4, <2>5 DEF SealsFit, BackupSealed, Filled
<1>12. OpensAgain'
  BY <1>1, HarmedIs DEF FilesInv, OpensAgain
<1>. QED
  BY <1>7, <1>8, <1>9, <1>10, <1>11, <1>12 DEF FilesInv

LEMMA CloseAllKeeps ==
  ASSUME FilesInv, CloseAll
  PROVE  FilesInv'
<1>1. copying' \in BOOLEAN /\ restoring' = "no"
  BY DEF CloseAll
<1>. QED
  BY <1>1, CloseKeeps DEF CloseAll

LEMMA RestoreClosesKeeps ==
  ASSUME FilesInv, RestoreCloses
  PROVE  FilesInv'
<1>1. process' = "runs" /\ copying' \in BOOLEAN
  BY DEF RestoreCloses, FilesInv, FilesTypeOK
<1>. QED
  BY <1>1, CloseKeeps DEF RestoreCloses

LEMMA SealEndsKeeps ==
  ASSUME FilesInv, SealEnds
  PROVE  FilesInv'
<1>1. /\ sealing # Nothing /\ sealing' = Nothing /\ sealing \in Content
      /\ UNCHANGED <<made, decrypted, opened, conns, backup, copying, restoring, starts, refused,
                     encrypted, count, committed>>
      /\ process' = IF process = "ends" THEN "down" ELSE process
      /\ encrypted /\ opened = "no" /\ sealing.seals > 0
  BY DEF SealEnds, backupVars, KeepCommits, FilesInv, FilesTypeOK, Phases
<1>2. PICK x \in Content : files' = [files EXCEPT ![1] = x]
                           /\ \/ x = sealing /\ UNCHANGED causes
                              \/ x \in {Empty, Broken} /\ causes' = causes \cup {"cut"}
  BY <1>1, ContentOps DEF SealEnds, Harm
<1>3. /\ files' \in [FileIds -> Content] /\ files'[1] = x
      /\ \A f \in FileIds : f > made => files'[f] = files[f]
  BY <1>2, WrittenTypes
<1>4. FilesTypeOK'
  <2>1. causes' \in SUBSET Causes
    BY <1>2 DEF FilesInv, FilesTypeOK, Causes
  <2>. QED
    BY <1>1, <1>3, <2>1 DEF FilesInv, FilesTypeOK
<1>5. Placed'
  BY <1>1, <1>2, <1>3, HarmedIs DEF FilesInv, Placed
<1>6. Phases' /\ OpensAgain'
  BY <1>1, <1>2, HarmedIs DEF FilesInv, FilesTypeOK, Phases, OpensAgain
<1>7. Agrees'
  <2>1. \A c \in Conns : conns[c] = 0
    BY <1>1 DEF FilesInv, Placed
  <2>2. Intact' => Intact /\ x = sealing
    BY <1>2, HarmedIs DEF Intact
  <2>. QED
    BY <1>1, <1>3, <2>1, <2>2 DEF FilesInv, Agrees, One, Two, Home
<1>8. SealsFit'
  <2>1. x = sealing \/ ~Filled(x) \/ x.seals = 2
    BY <1>2, ContentOps DEF Filled
  <2>2. encrypted /\ ~Harmed({"crashed", "laid"})' /\ Filled(files'[1]) => files'[1].seals > 0
    BY <1>1, <1>3, <2>1
  <2>3. Home' = x /\ Home = sealing
    BY <1>1, <1>3 DEF Home
  <2>4. ~Harmed({"cut", "used", "resealed", "crashed", "laid"})' /\ Filled(x) => x.seals = 1
    BY <1>1, <1>2, <2>3, HarmedIs DEF FilesInv, SealsFit, BackupSealed, Home
  <2>5. BackupSealed'
    BY <1>1, <1>2, HarmedIs DEF FilesInv, SealsFit, BackupSealed, Filled
  <2>. QED
    BY <1>1, <2>2, <2>3, <2>4, <2>5 DEF FilesInv, SealsFit, BackupSealed, Filled
<1>. QED
  BY <1>4, <1>5, <1>6, <1>7, <1>8 DEF FilesInv

-----------------------------------------------------------------------------
(* Backup and restore.                                                     *)

\* A backup is laid over the database, by a request or by the command.
LEMMA LaidKeeps ==
  ASSUME FilesInv, backup # Nothing, files' = [files EXCEPT ![1] = backup],
         committed' = backup.commits, refused' = FALSE, causes \subseteq causes', causes' \in SUBSET Causes,
         encrypted /\ Filled(backup) /\ backup.seals # 1 => "laid" \in causes',
         opened # "no" \/ sealing # Nothing => "used" \in causes',
         restoring' \in {"no", "closed", "copied"}, restoring' = "closed" => restoring = "closed",
         UNCHANGED <<encrypted, made, decrypted, opened, conns, sealing, processVars, backup, copying, count>>
  PROVE  FilesInv'
<1>1. backup \in Content
  BY DEF FilesInv, FilesTypeOK
<1>2. /\ files' \in [FileIds -> Content] /\ files'[1] = backup
      /\ \A f \in FileIds : f > made => files'[f] = files[f]
  BY <1>1, WrittenTypes
<1>3. FilesTypeOK'
  <2>1. committed' \in SUBSET (1..MaxCommits) /\ refused' \in BOOLEAN
    BY <1>1 DEF Content
  <2>. QED
    BY <1>2, <2>1 DEF FilesInv, FilesTypeOK, processVars
<1>4. Placed'
  BY <1>2, HarmedIs DEF FilesInv, Placed
<1>5. Phases' /\ OpensAgain'
  BY HarmedIs DEF FilesInv, Phases, OpensAgain, processVars
<1>6. ASSUME ~Harmed({"used"})'
       PROVE  opened = "no" /\ sealing = Nothing /\ decrypted = 0 /\ \A c \in Conns : conns[c] = 0
  BY <1>6, HarmedIs DEF FilesInv, Placed
<1>7. Agrees'
  BY <1>2, <1>6, HarmedIs DEF Agrees, One, Two, Intact, Home
<1>8. SealsFit'
  <2>1. ~encrypted /\ ~Harmed({"cut"})' => files'[1].seals = 0 /\ (backup # Nothing => backup.seals = 0)
    BY <1>2, HarmedIs DEF FilesInv, SealsFit, BackupSealed
  <2>2. encrypted /\ ~Harmed({"crashed", "laid"})' /\ Filled(files'[1]) => files'[1].seals > 0
    BY <1>2, HarmedIs
  <2>3. BackupSealed'
    BY HarmedIs DEF BackupSealed, Filled, FilesInv, SealsFit, BackupSealed
  <2>4. ASSUME encrypted, ~Harmed({"cut", "used", "resealed", "crashed", "laid"})', Filled(Home)'
        PROVE  Home'.seals = 1
    <3>1. ~Harmed({"used"})' /\ ~Harmed({"laid"})'
      BY <2>4, HarmedIs
    <3>2. Home' = backup
      BY <1>2, <1>6, <3>1 DEF Home
    <3>. QED
      BY <2>4, <3>1, <3>2, HarmedIs DEF Filled
  <2>. QED
    BY <2>1, <2>2, <2>3, <2>4 DEF SealsFit, BackupSealed, Filled
<1>. QED
  BY <1>3, <1>4, <1>5, <1>7, <1>8 DEF FilesInv

LEMMA RestoreCopiesKeeps ==
  ASSUME FilesInv, RestoreCopies
  PROVE  FilesInv'
<1>1. /\ causes' = causes \cup {h \in {"laid"} : encrypted /\ Filled(backup) /\ backup.seals # 1}
      /\ restoring = "closed" /\ sealing = Nothing /\ restoring' = "copied"
      /\ backup # Nothing
  BY DEF RestoreCopies, Harm, FilesInv, Phases
<1>2. opened # "no" \/ sealing # Nothing => "used" \in causes'
  BY <1>1, HarmedIs DEF FilesInv, Phases
<1>3. causes' \in SUBSET Causes /\ causes \subseteq causes'
  BY <1>1, HarmedIs DEF FilesInv, FilesTypeOK, Causes
<1>. QED
  BY <1>1, <1>2, <1>3, LaidKeeps DEF RestoreCopies

LEMMA RestoreCommandKeeps ==
  ASSUME FilesInv, RestoreCommand
  PROVE  FilesInv'
<1>1. causes' = causes \cup {h \in {"laid", "used"} :
             \/ h = "laid" /\ encrypted /\ Filled(backup) /\ backup.seals # 1
             \/ h = "used" /\ (opened # "no" \/ sealing # Nothing)}
  BY DEF RestoreCommand, Harm
<1>2. causes' \in SUBSET Causes /\ causes \subseteq causes'
  BY <1>1, HarmedIs DEF FilesInv, FilesTypeOK, Causes
<1>. QED
  BY <1>1, <1>2, LaidKeeps DEF RestoreCommand, backupVars, FilesInv, FilesTypeOK

LEMMA RestoreEndsKeeps ==
  ASSUME FilesInv, RestoreEnds
  PROVE  FilesInv'
<1>1. /\ restoring' = "no"
      /\ UNCHANGED <<encrypted, files, made, decrypted, opened, conns, sealing, backup, copying,
                     starts, process, count, committed, refused, causes>>
  BY DEF RestoreEnds, KeepCommits, managerVars, processVars
<1>. QED
  BY <1>1 DEF FilesInv, FilesTypeOK, Placed, Phases, Agrees, One, Two, Intact, SealsFit, BackupSealed, Home, Filled,
              OpensAgain, Harmed

\* A backup is made, or is about to be, by a request or by the command.
LEMMA BackupKeeps ==
  ASSUME FilesInv, backup' \in Content \cup {Nothing}, copying' \in BOOLEAN,
         causes' = causes \/ causes' = causes \cup {"early"},
         ~encrypted /\ ~Harmed({"cut"}) /\ backup' # Nothing => backup'.seals = 0,
         BackupSealed',
         restoring # "no" => backup' # Nothing,
         UNCHANGED <<encrypted, managerVars, processVars, restoring, count, committed, refused>>
  PROVE  FilesInv'
<1>1. causes' \in SUBSET Causes /\ \A k \in Causes \ {"early"} : k \in causes <=> k \in causes'
  BY DEF FilesInv, FilesTypeOK, Causes
<1>2. UNCHANGED <<files, made, decrypted, opened, conns, sealing, starts, process>>
  BY DEF managerVars, processVars
<1>3. /\ Harmed({"used"})' <=> Harmed({"used"})
      /\ Harmed({"cut"})' <=> Harmed({"cut"})
      /\ Harmed({"cut", "used"})' <=> Harmed({"cut", "used"})
      /\ Harmed({"crashed", "laid"})' <=> Harmed({"crashed", "laid"})
      /\ Harmed({"resealed", "crashed", "laid"})' <=> Harmed({"resealed", "crashed", "laid"})
      /\ Harmed({"dropped", "cut", "used"})' <=> Harmed({"dropped", "cut", "used"})
      /\ Harmed({"cut", "used", "resealed", "crashed", "laid"})'
           <=> Harmed({"cut", "used", "resealed", "crashed", "laid"})
  BY HarmedIs
<1>4. FilesTypeOK'
  BY <1>1, <1>2 DEF FilesInv, FilesTypeOK
<1>5. Placed' /\ Phases' /\ Agrees' /\ OpensAgain'
  BY <1>2, <1>3 DEF FilesInv, Placed, Phases, Agrees, One, Two, Intact, Home, OpensAgain
<1>6. SealsFit'
  BY <1>2, <1>3 DEF FilesInv, SealsFit, BackupSealed, Home, Filled
<1>. QED
  BY <1>4, <1>5, <1>6 DEF FilesInv

LEMMA BackupOpensKeeps ==
  ASSUME FilesInv, BackupOpens
  PROVE  FilesInv'
<1>1. /\ copying' = TRUE /\ backup' = backup /\ causes' = causes
      /\ UNCHANGED <<encrypted, managerVars, processVars, restoring, count, committed, refused>>
      /\ backup \in Content \cup {Nothing} /\ (restoring # "no" => backup # Nothing)
  BY DEF BackupOpens, KeepCommits, FilesInv, FilesTypeOK, Phases
<1>2. SealsFit
  BY DEF FilesInv
<1>. QED
  BY <1>1, <1>2, BackupKeeps DEF SealsFit, BackupSealed, Filled, Harmed, managerVars

LEMMA BackupCopiesKeeps ==
  ASSUME FilesInv, BackupCopies
  PROVE  FilesInv'
<1> DEFINE a == ActiveContent
<1>1. /\ copying' = FALSE /\ backup' = a
      /\ causes' = causes \cup {h \in {"early"} : encrypted /\ opened = "data"}
      /\ UNCHANGED <<encrypted, managerVars, processVars, restoring, count, committed, refused>>
  BY DEF BackupCopies, Harm, KeepCommits
<1>2. a \in Content /\ (~encrypted \/ decrypted = 0 => a = files[1])
  BY FilesAssumption DEF FilesInv, FilesTypeOK, FileIds, ActiveContent
<1>3. a.seals \in Nat /\ a # Nothing
  BY <1>2, ContentOps DEF Content
<1> HIDE DEF a
<1>4. ~encrypted /\ ~Harmed({"cut"}) => a.seals = 0
  BY <1>2 DEF FilesInv, SealsFit, BackupSealed
<1>5. BackupSealed'
  <2>. SUFFICES ASSUME encrypted, decrypted = 0, ~Harmed({"crashed", "laid"})', ~Harmed({"early", "dropped"})',
                       Filled(a)
                PROVE  a.seals > 0
    BY <1>1 DEF BackupSealed, Filled, managerVars
  <2>1. opened # "data" /\ ~Harmed({"crashed", "laid"})
    BY <1>1, HarmedIs
  <2>2. a = files[1]
    BY <1>2
  <2>. QED
    BY <2>1, <2>2 DEF FilesInv, SealsFit
<1>6. causes' = causes \/ causes' = causes \cup {"early"}
  BY <1>1
<1>. QED
  BY <1>1, <1>2, <1>3, <1>4, <1>5, <1>6, BackupKeeps

LEMMA BackupCommandKeeps ==
  ASSUME FilesInv, BackupCommand
  PROVE  FilesInv'
<1>1. /\ backup' = files[1] /\ causes' = causes /\ copying' = copying /\ Openable
      /\ UNCHANGED <<encrypted, managerVars, processVars, restoring, count, committed, refused>>
  BY DEF BackupCommand, KeepCommits
<1>2. files[1] \in Content /\ files[1] # Nothing /\ copying \in BOOLEAN
  <2>1. files[1] \in Content
    BY FilesAssumption DEF FilesInv, FilesTypeOK, FileIds
  <2>. QED
    BY <2>1, ContentOps DEF FilesInv, FilesTypeOK
<1>3. ~encrypted /\ ~Harmed({"cut"}) => files[1].seals = 0
  BY DEF FilesInv, SealsFit, BackupSealed
<1>4. BackupSealed'
  BY <1>1 DEF Openable, BackupSealed, Filled
<1>. QED
  BY <1>1, <1>2, <1>3, <1>4, BackupKeeps

-----------------------------------------------------------------------------
(* create-db, and the process.                                             *)

LEMMA CreateDbKeeps ==
  ASSUME FilesInv, CreateDb
  PROVE  FilesInv'
<1> DEFINE x == Sealed(files[1])
<1>1. /\ encrypted /\ files' = [files EXCEPT ![1] = x] /\ causes' = causes \cup {"resealed"}
      /\ UNCHANGED <<encrypted, made, decrypted, opened, conns, sealing, backup, copying, restoring,
                     starts, process, count, committed, refused>>
  BY DEF CreateDb, Harm, KeepCommits, backupVars, processVars
<1>2. /\ x \in Content /\ x.seals > 0 /\ x.commits = files[1].commits
  <2>1. files[1] \in Content
    BY FilesAssumption DEF FilesInv, FilesTypeOK, FileIds
  <2>. QED
    BY <2>1, ContentOps DEF CreateDb, Content
<1> HIDE DEF x
<1>3. /\ files' \in [FileIds -> Content] /\ files'[1] = x
      /\ \A f \in FileIds : f > made => files'[f] = files[f]
      /\ \A f \in FileIds : files'[f].commits = files[f].commits
  <2>1. \A f \in FileIds : f # 1 => files'[f] = files[f]
    BY <1>1 DEF FilesInv, FilesTypeOK
  <2>. QED
    BY <1>1, <1>2, <2>1, WrittenTypes
<1>4. FilesTypeOK'
  <2>1. causes' \in SUBSET Causes
    BY <1>1 DEF FilesInv, FilesTypeOK, Causes
  <2>. QED
    BY <1>1, <1>3, <2>1 DEF FilesInv, FilesTypeOK
<1>5. Placed' /\ Phases' /\ OpensAgain'
  BY <1>1, <1>3, HarmedIs DEF FilesInv, Placed, Phases, OpensAgain
<1>6. Agrees'
  <2>1. \A c \in Conns : conns[c] > 0 => conns[c] \in FileIds
    BY FilesAssumption DEF FilesInv, FilesTypeOK, FileIds
  <2>2. Intact' => Intact
    BY <1>1, HarmedIs DEF Intact
  <2>. QED
    BY <1>1, <1>2, <1>3, <2>1, <2>2 DEF FilesInv, Agrees, One, Two, Home
<1>7. SealsFit'
  BY <1>1, <1>2, <1>3, HarmedIs DEF FilesInv, SealsFit, BackupSealed, Filled
<1>. QED
  BY <1>4, <1>5, <1>6, <1>7 DEF FilesInv

LEMMA CrashKeeps ==
  ASSUME FilesInv, FilesCrash
  PROVE  FilesInv'
<1>1. /\ process' = "down" /\ decrypted' = 0 /\ opened' = "no" /\ sealing' = Nothing
      /\ conns' = [c \in Conns |-> 0] /\ copying' = FALSE /\ restoring' = "no"
      /\ UNCHANGED <<encrypted, made, starts, backup, refused, count, committed>>
  BY DEF FilesCrash, KeepCommits
<1>2. /\ causes \subseteq causes' /\ causes' \in SUBSET Causes /\ "crashed" \in causes'
      /\ "cut" \in causes' \/ (files' = files /\ sealing = Nothing)
      /\ \A k \in causes' : k \in causes \/ k \in {"crashed", "cut", "dropped"}
      /\ decrypted > 0 => "dropped" \in causes'
  <2>1. Dropped \subseteq {"dropped"} /\ (decrypted > 0 => "dropped" \in Dropped)
    BY DroppedIs
  <2>2. causes \in SUBSET Causes
    BY DEF FilesInv, FilesTypeOK
  <2>3. CASE files' = files /\ Harm({"crashed"} \cup {h \in {"cut"} : sealing # Nothing} \cup Dropped)
    BY <2>1, <2>2, <2>3 DEF Harm, Causes
  <2>4. CASE Harm({"crashed", "cut"} \cup Dropped)
    BY <2>1, <2>2, <2>4 DEF Harm, Causes
  <2>. QED
    BY <2>3, <2>4 DEF FilesCrash
<1>3. /\ files' \in [FileIds -> Content]
      /\ \A f \in FileIds : f > made => files'[f] = files[f]
  <2>1. CASE files' = files
    BY <2>1 DEF FilesInv, FilesTypeOK
  <2>2. ASSUME NEW x \in {Empty, Broken}, files' = [files EXCEPT ![1] = x]
        PROVE  /\ files' \in [FileIds -> Content]
               /\ \A f \in FileIds : f > made => files'[f] = files[f]
    <3>1. x \in Content
      BY ContentOps
    <3>. QED
      BY <2>2, <3>1, WrittenTypes
  <2>. QED
    BY <2>1, <2>2 DEF FilesCrash
<1>4. FilesTypeOK'
  <2>1. conns' \in [Conns -> 0..MaxFiles] /\ 0 \in 0..MaxFiles
    BY <1>1, FilesAssumption
  <2>. QED
    BY <1>1, <1>2, <1>3, <2>1 DEF FilesInv, FilesTypeOK
<1>5. Placed'
  <2>1. 0 <= made /\ ~(0 > 0) /\ \A c \in Conns : conns'[c] = 0
    BY <1>1, FilesAssumption DEF FilesInv, FilesTypeOK, FileIds
  <2>. QED
    BY <1>1, <1>2, <1>3, <2>1, HarmedIs DEF FilesInv, Placed
<1>6. Phases' /\ OpensAgain'
  BY <1>1, <1>2, HarmedIs DEF FilesInv, Phases, OpensAgain
<1>7. Agrees'
  <2>1. Intact' => Intact /\ files' = files /\ sealing = Nothing /\ decrypted = 0
    <3>1. decrypted > 0 \/ decrypted = 0
      BY FilesAssumption DEF FilesInv, FilesTypeOK
    <3>. QED
      BY <1>2, <3>1, HarmedIs DEF Intact
  <2>2. \A c \in Conns : conns'[c] = 0
    BY <1>1
  <2>. QED
    BY <1>1, <2>1, <2>2 DEF FilesInv, Agrees, One, Two, Home
<1>8. SealsFit'
  BY <1>1, <1>2, HarmedIs DEF FilesInv, SealsFit, BackupSealed, Filled
<1>. QED
  BY <1>4, <1>5, <1>6, <1>7, <1>8 DEF FilesInv

LEMMA StartKeeps ==
  ASSUME FilesInv, StartManager
  PROVE  FilesInv'
<1>1. /\ process' = "runs" /\ starts' \in 1..MaxStarts
      /\ UNCHANGED <<encrypted, files, made, decrypted, opened, conns, sealing, backup, copying,
                     restoring, count, committed, refused, causes>>
  BY FilesAssumption DEF StartManager, KeepCommits, managerVars, backupVars, FilesInv, FilesTypeOK
<1>. QED
  BY <1>1 DEF FilesInv, FilesTypeOK, Placed, Phases, Agrees, One, Two, Intact, SealsFit, BackupSealed, Home, Filled,
              OpensAgain, Harmed

LEMMA FilesInvNext == FilesInv /\ [FilesNext]_filesVars => FilesInv'
<1>. SUFFICES ASSUME FilesInv, [FilesNext]_filesVars PROVE FilesInv'
  OBVIOUS
<1>1. CASE UNCHANGED filesVars
  BY <1>1 DEF filesVars, managerVars, backupVars, processVars, FilesInv, FilesTypeOK, Placed, Phases,
              Agrees, One, Two, Intact, SealsFit, BackupSealed, Home, Filled, OpensAgain, Harmed
<1>. QED
  BY <1>1, OpenPlainKeeps, OpenEncryptedKeeps, ConnectKeeps, CommitKeeps, OpenRefusedKeeps,
     CloseAllKeeps, SealEndsKeeps, BackupOpensKeeps, BackupCopiesKeeps, RestoreClosesKeeps,
     RestoreCopiesKeeps, RestoreEndsKeeps, CreateDbKeeps, BackupCommandKeeps, RestoreCommandKeeps,
     CrashKeeps, StartKeeps DEF FilesNext

-----------------------------------------------------------------------------
(* The theorems.                                                           *)

\* Every variable keeps its type.
THEOREM FilesTypeCorrect == FilesSpec => []FilesTypeOK
<1>1. FilesInv => FilesTypeOK
  BY DEF FilesInv
<1>. QED
  BY FilesInvInit, FilesInvNext, <1>1, PTL DEF FilesSpec

\* No order of opens, closes, backups, restores, crashes and starts loses a
\* transaction, unless a database was given up while its pool had two copies of it,
\* a write of the file was cut short or a restore wrote under an open database.
THEOREM NothingDestroyedCorrect == FilesSpec => []NothingDestroyed
<1>1. FilesInv => NothingDestroyed
  BY DEF FilesInv, Placed, Agrees, One, Intact, Home, NothingDestroyed
<1>. QED
  BY FilesInvInit, FilesInvNext, <1>1, PTL DEF FilesSpec

\* While a database is open each transaction is in the file of one of its
\* connections, and all of them are in each as long as the pool made no file of its
\* own, unless transactions were lost before or a restore wrote under the database.
THEOREM ConnectionsAgreeCorrect == FilesSpec => []ConnectionsAgree
<1>1. FilesInv => ConnectionsAgree
  <2>. SUFFICES ASSUME FilesInv, opened # "no", Intact
                PROVE  /\ \A t \in committed :
                            \E c \in Conns : conns[c] > 0 /\ t \in files[conns[c]].commits
                       /\ decrypted = 0 =>
                            \A c \in Conns : conns[c] > 0 => files[conns[c]].commits = committed
    BY DEF ConnectionsAgree, Intact
  <2>1. CASE decrypted = 0
    BY <2>1 DEF FilesInv, Placed, Agrees, One
  <2>2. CASE decrypted # 0
    <3>1. decrypted > 0
      BY <2>2, FilesAssumption DEF FilesInv, FilesTypeOK
    <3>. QED
      BY <2>2, <3>1 DEF FilesInv, Agrees, Two
  <2>. QED
    BY <2>1, <2>2
<1>. QED
  BY FilesInvInit, FilesInvNext, <1>1, PTL DEF FilesSpec

\* What lies on the disk when the server is down cannot be read without the key,
\* unless a process died, a backup that is not sealed once was laid over the
\* database, or (for a backup) it was made before the first Close or of a pool with
\* two copies.
THEOREM SealedAtRestCorrect == FilesSpec => []SealedAtRest
<1>1. FilesInv => SealedAtRest
  BY DEF FilesInv, Placed, Phases, SealsFit, BackupSealed, SealedAtRest
<1>. QED
  BY FilesInvInit, FilesInvNext, <1>1, PTL DEF FilesSpec

\* A database opens again, unless something happened that leaves it unreadable.
THEOREM OpensAgainCorrect == FilesSpec => []OpensAgain
<1>1. FilesInv => OpensAgain
  BY DEF FilesInv
<1>. QED
  BY FilesInvInit, FilesInvNext, <1>1, PTL DEF FilesSpec
=============================================================================
