---------------------------- MODULE Login_proofs ----------------------------
(***************************************************************************)
(* Proofs about Login, for every number of goroutines, names and every     *)
(* limit: the type invariant, the bounds on the guesses at one password,   *)
(* that a lock is earned, and that failing does not extend it.             *)
(***************************************************************************)
EXTENDS Login, FiniteSetTheorems, TLAPS

\* Goroutines that have passed IsLocked and may yet record a failure.
Verifying(n) == {a \in Attempters : pc[a] = "verify" /\ name[a] = n}

\* GuessBound is not inductive: a state with count at its bound and a goroutine
\* still verifying would exceed it.  Each such goroutine takes one off the bound.
Slack ==
  \A n \in Names :
    attempts[n].count + Cardinality(Verifying(n)) <= Limit + Cardinality(Attempters) - 1

LoginInv == LoginTypeOK /\ Slack

\* Any set of goroutines is finite and no larger than all of them.
LEMMA SubsetSize ==
  ASSUME NEW S \in SUBSET Attempters
  PROVE  /\ IsFiniteSet(S)
         /\ Cardinality(S) \in Nat
         /\ Cardinality(Attempters) \in Nat
         /\ Cardinality(S) <= Cardinality(Attempters)
BY FS_Subset, FS_CardinalityType, LoginAssumption DEF LoginAssumption

\* A goroutine taken out of a set makes it smaller by one.
LEMMA OneFewer ==
  ASSUME NEW S \in SUBSET Attempters, NEW a \in S
  PROVE  Cardinality(S \ {a}) = Cardinality(S) - 1
BY SubsetSize, FS_RemoveElement

\* An idle goroutine leaves room for itself.
LEMMA RoomForOne ==
  ASSUME NEW S \in SUBSET Attempters, NEW a \in Attempters, a \notin S
  PROVE  /\ Cardinality(S \cup {a}) = Cardinality(S) + 1
         /\ Cardinality(S) + 1 <= Cardinality(Attempters)
<1>1. IsFiniteSet(S) /\ S \cup {a} \in SUBSET Attempters
  BY SubsetSize
<1>2. Cardinality(S \cup {a}) = Cardinality(S) + 1
  BY <1>1, FS_AddElement
<1>. QED
  BY <1>1, <1>2, SubsetSize

\* The type invariant is kept by every step.
LEMMA TypeStep == LoginTypeOK /\ [LoginNext]_loginVars => LoginTypeOK'
<1>. SUFFICES ASSUME LoginTypeOK, [LoginNext]_loginVars PROVE LoginTypeOK'
  OBVIOUS
<1>. USE DEF LoginTypeOK
<1>1. ASSUME NEW a \in Attempters, NEW n \in Names, Refused(a, n) PROVE LoginTypeOK'
  BY <1>1 DEF Refused
<1>2. ASSUME NEW a \in Attempters, NEW n \in Names, Attempt(a, n) PROVE LoginTypeOK'
  BY <1>2 DEF Attempt, Forget, NoAttempt, LoginAttempt
<1>3. ASSUME NEW a \in Attempters, Fails(a) PROVE LoginTypeOK'
  <2>1. name[a] \in Names
    OBVIOUS
  <2>2. attempts' \in [Names -> LoginAttempt]
    BY <1>3, <2>1 DEF Fails, RecordFail, LoginAttempt
  <2>3. fails' \in [Names -> Seq(Nat)]
    BY <1>3, <2>1 DEF Fails
  <2>. QED
    BY <1>3, <2>2, <2>3 DEF Fails
<1>4. ASSUME NEW a \in Attempters, Succeeds(a) PROVE LoginTypeOK'
  BY <1>4 DEF Succeeds, Reset, NoAttempt, LoginAttempt
<1>5. CASE Tick
  BY <1>5 DEF Tick
<1>6. CASE UNCHANGED loginVars
  BY <1>6 DEF loginVars
<1>. QED
  BY <1>1, <1>2, <1>3, <1>4, <1>5, <1>6 DEF LoginNext

\* Slack is kept by every step.
LEMMA SlackStep == LoginInv /\ [LoginNext]_loginVars => Slack'
<1>. SUFFICES ASSUME LoginTypeOK, Slack, [LoginNext]_loginVars, NEW m \in Names
              PROVE  (attempts[m].count + Cardinality(Verifying(m))
                        <= Limit + Cardinality(Attempters) - 1)'
  BY DEF LoginInv, Slack
<1> DEFINE V == Verifying(m)
           all == Cardinality(Attempters)
<1>0. /\ V \in SUBSET Attempters /\ V' \in SUBSET Attempters
      /\ Cardinality(V) \in Nat /\ Cardinality(V') \in Nat /\ all \in Nat
      /\ Cardinality(V) <= all /\ Cardinality(V') <= all
      /\ attempts[m].count \in Nat /\ attempts'[m].count \in Nat
      /\ Limit \in Nat /\ Limit > 0
      /\ attempts[m].count + Cardinality(V) <= Limit + all - 1
  <2>1. V \in SUBSET Attempters /\ V' \in SUBSET Attempters
    BY DEF Verifying
  <2>2. LoginTypeOK'
    BY TypeStep
  <2>. QED
    BY <2>1, <2>2, SubsetSize, LoginAssumption
    DEF LoginTypeOK, LoginAttempt, LoginAssumption, Slack
<1>1. ASSUME NEW a \in Attempters, NEW n \in Names, Refused(a, n)
      PROVE  attempts'[m].count + Cardinality(V') <= Limit + all - 1
  <2>1. V' = V
    BY <1>1 DEF Refused, Verifying, LoginTypeOK
  <2>. QED
    BY <1>0, <1>1, <2>1 DEF Refused
<1>2. ASSUME NEW a \in Attempters, NEW n \in Names, Attempt(a, n)
      PROVE  attempts'[m].count + Cardinality(V') <= Limit + all - 1
  <2>1. CASE n = m
    <3>1. a \notin V /\ V' = V \cup {a}
      BY <1>2, <2>1 DEF Attempt, Verifying, LoginTypeOK
    <3>2. Cardinality(V') = Cardinality(V) + 1 /\ Cardinality(V) + 1 <= all
      BY <1>0, <3>1, RoomForOne
    <3>3. attempts'[m].count <= Limit - 1
      BY <1>0, <1>2, <2>1
      DEF Attempt, Forget, Locked, NoAttempt, LoginTypeOK, LoginAttempt
    <3>. QED
      BY <1>0, <3>2, <3>3
  <2>2. CASE n # m
    <3>1. V' = V
      BY <1>2, <2>2 DEF Attempt, Verifying, LoginTypeOK
    <3>2. attempts'[m] = attempts[m]
      BY <1>2, <2>2 DEF Attempt, Forget, LoginTypeOK
    <3>. QED
      BY <1>0, <3>1, <3>2
  <2>. QED
    BY <2>1, <2>2
<1>3. ASSUME NEW a \in Attempters, pc[a] = "verify", pc' = [pc EXCEPT ![a] = "idle"],
             name' = name, NEW c \in Nat, attempts'[name[a]].count = c,
             c <= 1 \/ c <= attempts[name[a]].count + 1,
             \A n \in Names \ {name[a]} : attempts'[n] = attempts[n]
      PROVE  attempts'[m].count + Cardinality(V') <= Limit + all - 1
  <2>1. CASE name[a] = m
    <3>1. a \in V /\ V' = V \ {a}
      BY <1>3, <2>1 DEF Verifying, LoginTypeOK
    <3>2. Cardinality(V') = Cardinality(V) - 1
      BY <1>0, <3>1, OneFewer
    <3>. QED
      BY <1>0, <1>3, <2>1, <3>2
  <2>2. CASE name[a] # m
    <3>1. V' = V
      BY <1>3, <2>2 DEF Verifying, LoginTypeOK
    <3>. QED
      BY <1>0, <1>3, <2>2, <3>1
  <2>. QED
    BY <2>1, <2>2
<1>4. ASSUME NEW a \in Attempters, Fails(a)
      PROVE  attempts'[m].count + Cardinality(V') <= Limit + all - 1
  <2>1. name[a] \in Names /\ attempts[name[a]].count \in Nat
    BY DEF LoginTypeOK, LoginAttempt
  <2>2. PICK c \in Nat : /\ attempts'[name[a]].count = c
                         /\ c <= 1 \/ c <= attempts[name[a]].count + 1
    BY <1>4, <2>1 DEF Fails, RecordFail, LoginTypeOK, LoginAttempt
  <2>3. \A n \in Names \ {name[a]} : attempts'[n] = attempts[n]
    BY <1>4, <2>1 DEF Fails, RecordFail, LoginTypeOK
  <2>. QED
    BY <1>3, <1>4, <2>2, <2>3 DEF Fails
<1>5. ASSUME NEW a \in Attempters, Succeeds(a)
      PROVE  attempts'[m].count + Cardinality(V') <= Limit + all - 1
  <2>1. name[a] \in Names
    BY DEF LoginTypeOK
  <2>2. attempts'[name[a]].count = 0
    BY <1>5, <2>1 DEF Succeeds, Reset, NoAttempt, LoginTypeOK
  <2>3. \A n \in Names \ {name[a]} : attempts'[n] = attempts[n]
    BY <1>5, <2>1 DEF Succeeds, Reset, LoginTypeOK
  <2>4. /\ pc[a] = "verify" /\ pc' = [pc EXCEPT ![a] = "idle"] /\ name' = name
        /\ 0 \in Nat /\ 0 <= 1
    BY <1>5 DEF Succeeds
  <2>. QED
    BY <1>3, <2>2, <2>3, <2>4
<1>6. CASE Tick
  BY <1>0, <1>6 DEF Tick, Verifying
<1>7. CASE UNCHANGED loginVars
  BY <1>0, <1>7 DEF loginVars, Verifying
<1>. QED
  BY <1>1, <1>2, <1>4, <1>5, <1>6, <1>7 DEF LoginNext

\* No goroutine verifies in the first state.
LEMMA InitInv == LoginInit => LoginInv
<1>. SUFFICES ASSUME LoginInit PROVE LoginInv
  OBVIOUS
<1>1. LoginTypeOK
  BY DEF LoginInit, LoginTypeOK, LoginAttempt, NoAttempt
<1>2. ASSUME NEW n \in Names PROVE Verifying(n) = {}
  BY DEF LoginInit, Verifying
<1>3. Slack
  BY <1>2, FS_EmptySet, SubsetSize, LoginAssumption
  DEF Slack, LoginInit, NoAttempt, LoginAssumption
<1>. QED
  BY <1>1, <1>3 DEF LoginInv

LEMMA InvHolds == LoginSpec => []LoginInv
<1>1. LoginInv /\ [LoginNext]_loginVars => LoginInv'
  BY TypeStep, SlackStep DEF LoginInv
<1>. QED
  BY InitInv, <1>1, PTL DEF LoginSpec

\* The limiter's entries and the goroutines keep their types.
THEOREM LoginTypeCorrect == LoginSpec => []LoginTypeOK
<1>1. LoginInv => LoginTypeOK
  BY DEF LoginInv
<1>. QED
  BY InvHolds, <1>1, PTL

\* The slack is not negative.
LEMMA SlackGivesBound == LoginInv => GuessBound
<1>. SUFFICES ASSUME LoginTypeOK, Slack, NEW n \in Names
              PROVE  attempts[n].count <= Limit + Cardinality(Attempters) - 1
  BY DEF LoginInv, GuessBound
<1>1. Verifying(n) \in SUBSET Attempters
  BY DEF Verifying
<1>2. Cardinality(Verifying(n)) \in Nat /\ Cardinality(Attempters) \in Nat
  BY <1>1, SubsetSize
<1>3. attempts[n].count \in Nat /\ Limit \in Nat
  BY LoginAssumption DEF LoginTypeOK, LoginAttempt, LoginAssumption
<1>4. attempts[n].count + Cardinality(Verifying(n)) <= Limit + Cardinality(Attempters) - 1
  BY DEF Slack
<1>. QED
  BY <1>2, <1>3, <1>4

\* However many logins for one name run side by side, the limiter never counts
\* more than Limit failures and one for each goroutine but the last.
THEOREM GuessBoundCorrect == LoginSpec => []GuessBound
BY InvHolds, SlackGivesBound, PTL

\* A failure while the name is locked leaves the time of the lock alone.
THEOREM LockNeverExtendedCorrect == LoginSpec => LockNeverExtended
<1> DEFINE Kept == \A n \in Names :
       Locked(n) /\ attempts'[n].count >= Limit => attempts'[n].firstFail = attempts[n].firstFail
<1>1. LoginInv /\ [LoginNext]_loginVars => [Kept]_loginVars
  <2>. SUFFICES ASSUME LoginTypeOK, LoginNext, NEW n \in Names,
                       Locked(n), attempts'[n].count >= Limit
                PROVE  attempts'[n].firstFail = attempts[n].firstFail
    BY DEF LoginInv
  <2>. USE LoginAssumption DEF LoginAssumption, LoginTypeOK, LoginAttempt
  <2>1. ASSUME NEW a \in Attempters, NEW m \in Names, Refused(a, m)
        PROVE  attempts'[n].firstFail = attempts[n].firstFail
    BY <2>1 DEF Refused
  <2>2. ASSUME NEW a \in Attempters, NEW m \in Names, Attempt(a, m)
        PROVE  attempts'[n].firstFail = attempts[n].firstFail
    BY <2>2 DEF Attempt, Forget
  <2>3. ASSUME NEW a \in Attempters, Fails(a)
        PROVE  attempts'[n].firstFail = attempts[n].firstFail
    BY <2>3 DEF Fails, RecordFail, Locked
  <2>4. ASSUME NEW a \in Attempters, Succeeds(a)
        PROVE  attempts'[n].firstFail = attempts[n].firstFail
    BY <2>4 DEF Succeeds, Reset, NoAttempt
  <2>5. CASE Tick
    BY <2>5 DEF Tick
  <2>. QED
    BY <2>1, <2>2, <2>3, <2>4, <2>5 DEF LoginNext
<1>. QED
  BY InvHolds, <1>1, PTL DEF LoginSpec, LockNeverExtended

-----------------------------------------------------------------------------
(* The failures of a name, by entries of the limiter.                      *)

\* No entry counts more than this.
EntrySize == Limit + Cardinality(Attempters) - 1

\* The failures of the entry that began at time s, where st says when the entry of
\* each failure began.
Block(n, st, s) == {i \in DOMAIN fails[n] : st[i] = s}

\* Failures belong to entries: within Lockout of its beginning, and entries begin
\* more than Lockout apart.  The limiter's own entry is the last, and counts its
\* failures; if there is none, the last has expired.
Fits(n, st) ==
  /\ st \in [DOMAIN fails[n] -> Nat]
  /\ \A i \in DOMAIN fails[n] : st[i] <= fails[n][i] /\ fails[n][i] <= st[i] + Lockout
  /\ \A i, j \in DOMAIN fails[n] : st[i] < st[j] => st[i] + Lockout < st[j]
  /\ \A s \in Nat : Cardinality(Block(n, st, s)) <= EntrySize
  /\ attempts[n].count = 0 => \A i \in DOMAIN fails[n] : st[i] + Lockout < now
  /\ attempts[n].count > 0 =>
       LET ff == attempts[n].firstFail
       IN  /\ ff <= now
           /\ Cardinality(Block(n, st, ff)) = attempts[n].count
           /\ \A i \in DOMAIN fails[n] : st[i] = ff \/ st[i] + Lockout < ff

HasEntries == \A n \in Names : \E st : Fits(n, st)

EntryInv == LoginInv /\ GuessBound /\ HasEntries

\* What the arithmetic of the limiter's entries needs.
LEMMA EntryTypes ==
  ASSUME LoginTypeOK
  PROVE  /\ now \in Nat /\ Lockout \in Nat /\ Limit \in Nat /\ Limit > 0 /\ EntrySize \in Nat
         /\ \A n \in Names : /\ attempts[n].count \in Nat /\ attempts[n].firstFail \in Nat
                             /\ fails[n] \in Seq(Nat)
                             /\ DOMAIN fails[n] = 1..Len(fails[n]) /\ Len(fails[n]) \in Nat
                             /\ IsFiniteSet(DOMAIN fails[n])
                             /\ \A i \in DOMAIN fails[n] : fails[n][i] \in Nat
<1>1. now \in Nat /\ Lockout \in Nat /\ Limit \in Nat /\ Limit > 0 /\ EntrySize \in Nat
  <2>1. Cardinality(Attempters) \in Nat
    BY LoginAssumption, FS_CardinalityType DEF LoginAssumption
  <2>. QED
    BY <2>1, LoginAssumption DEF LoginTypeOK, EntrySize, LoginAssumption
<1>2. ASSUME NEW n \in Names
      PROVE  /\ attempts[n].count \in Nat /\ attempts[n].firstFail \in Nat
             /\ fails[n] \in Seq(Nat)
             /\ DOMAIN fails[n] = 1..Len(fails[n]) /\ Len(fails[n]) \in Nat
             /\ IsFiniteSet(DOMAIN fails[n])
             /\ \A i \in DOMAIN fails[n] : fails[n][i] \in Nat
  <2>1. attempts[n].count \in Nat /\ attempts[n].firstFail \in Nat /\ fails[n] \in Seq(Nat)
    BY DEF LoginTypeOK, LoginAttempt
  <2>2. /\ DOMAIN fails[n] = 1..Len(fails[n]) /\ Len(fails[n]) \in Nat
        /\ \A i \in DOMAIN fails[n] : fails[n][i] \in Nat
    BY <2>1
  <2>3. IsFiniteSet(1..Len(fails[n]))
    BY <2>2, FS_Interval
  <2>. QED
    BY <2>1, <2>2, <2>3
<1>. QED
  BY <1>1, <1>2

\* Nothing but the clock moves.
LEMMA FitsStays ==
  ASSUME LoginTypeOK, LoginTypeOK', NEW n \in Names, NEW st, Fits(n, st),
         fails'[n] = fails[n], attempts'[n] = attempts[n], now' >= now
  PROVE  Fits(n, st)'
<1>1. now \in Nat /\ now' \in Nat /\ Lockout \in Nat /\ attempts[n].firstFail \in Nat
  BY EntryTypes DEF LoginTypeOK
<1>. QED
  BY <1>1 DEF Fits, Block, EntrySize

\* An entry that has expired is forgotten.
LEMMA FitsForgotten ==
  ASSUME LoginTypeOK, NEW n \in Names, NEW st, Fits(n, st), Expired(n), attempts[n].count > 0,
         fails'[n] = fails[n], attempts'[n] = NoAttempt, now' = now
  PROVE  Fits(n, st)'
<1>1. /\ now \in Nat /\ Lockout \in Nat /\ attempts[n].firstFail \in Nat
      /\ \A i \in DOMAIN fails[n] : st[i] \in Nat
  BY EntryTypes DEF Fits
<1>2. \A i \in DOMAIN fails[n] : st[i] + Lockout < now
  BY <1>1 DEF Fits, Expired
<1>3. attempts'[n].count = 0
  BY DEF NoAttempt
<1>. QED
  BY <1>2, <1>3 DEF Fits, Block, EntrySize

\* A failure joins the entry of the limiter, or begins one.
LEMMA FitsFailure ==
  ASSUME LoginTypeOK, LoginTypeOK', GuessBound', NEW n \in Names, NEW st, Fits(n, st),
         now' = now, fails'[n] = Append(fails[n], now), RecordFail(n)
  PROVE  \E new : Fits(n, new)'
<1>0. PICK l \in Nat, g \in Nat, k \in Nat :
        l = Len(fails[n]) /\ attempts'[n].firstFail = g /\ attempts'[n].count = k
  BY EntryTypes DEF LoginTypeOK, LoginAttempt
<1> DEFINE c == attempts[n].count
           ff == attempts[n].firstFail
           new == [i \in 1..(l + 1) |-> IF i <= l THEN st[i] ELSE g]
           b == Block(n, st, g)
<1>1. /\ now \in Nat /\ Lockout \in Nat /\ EntrySize \in Nat
      /\ c \in Nat /\ ff \in Nat
      /\ DOMAIN fails[n] = 1..l /\ IsFiniteSet(1..l)
  BY <1>0, EntryTypes
<1>2. /\ DOMAIN fails'[n] = 1..(l + 1) /\ fails'[n][l + 1] = now
      /\ \A i \in 1..l : fails'[n][i] = fails[n][i]
      /\ \A i \in 1..l : fails[n][i] \in Nat
  <2>1. fails[n] \in Seq(Nat)
    BY EntryTypes
  <2>. QED
    BY <1>1, <2>1
<1>3. /\ st \in [1..l -> Nat]
      /\ \A i \in 1..l : st[i] <= fails[n][i] /\ fails[n][i] <= st[i] + Lockout
      /\ \A i, j \in 1..l : st[i] < st[j] => st[i] + Lockout < st[j]
      /\ \A s \in Nat : Cardinality(Block(n, st, s)) <= EntrySize
      /\ c = 0 => \A i \in 1..l : st[i] + Lockout < now
      /\ c > 0 => /\ ff <= now /\ Cardinality(Block(n, st, ff)) = c
                  /\ \A i \in 1..l : st[i] = ff \/ st[i] + Lockout < ff
  BY <1>1 DEF Fits
<1>4. \/ (c = 0 \/ Expired(n)) /\ k = 1 /\ g = now
      \/ c > 0 /\ ~Expired(n) /\ k = c + 1 /\ g = ff
  BY <1>0, <1>1 DEF RecordFail, LoginTypeOK
<1>5. /\ g <= now /\ now <= g + Lockout
      /\ \A i \in 1..l : st[i] = g \/ st[i] + Lockout < g
      /\ Cardinality(b) + 1 = k
  <2>1. CASE (c = 0 \/ Expired(n)) /\ k = 1 /\ g = now
    <3>1. \A i \in 1..l : st[i] + Lockout < now
      <4>1. CASE c = 0
        BY <1>3, <4>1
      <4>2. CASE c > 0 /\ Expired(n)
        <5>1. ff + Lockout < now
          BY <1>1, <4>2 DEF Expired
        <5>2. \A i \in 1..l : st[i] \in Nat /\ (st[i] = ff \/ st[i] + Lockout < ff)
          BY <1>3, <4>2
        <5>. QED
          BY <1>1, <5>1, <5>2
      <4>. QED
        BY <1>1, <2>1, <4>1, <4>2
    <3>2. b = {}
      BY <1>1, <1>3, <2>1, <3>1 DEF Block
    <3>3. Cardinality(b) = 0
      BY <3>2, FS_EmptySet
    <3>. QED
      BY <1>1, <2>1, <3>1, <3>3
  <2>2. CASE c > 0 /\ ~Expired(n) /\ k = c + 1 /\ g = ff
    <3>1. now <= ff + Lockout
      BY <1>1, <2>2 DEF Expired
    <3>. QED
      BY <1>1, <1>3, <2>2, <3>1
  <2>. QED
    BY <1>4, <2>1, <2>2
<1>6. /\ new \in [1..(l + 1) -> Nat] /\ new[l + 1] = g
      /\ \A i \in 1..l : new[i] = st[i]
  BY <1>1, <1>3
<1>7. \A i \in 1..(l + 1) : i \in 1..l \/ i = l + 1
  BY <1>1
<1>8. k <= EntrySize /\ k > 0
  <2>1. k <= EntrySize
    BY <1>0 DEF GuessBound, EntrySize
  <2>. QED
    BY <1>1, <1>4, <2>1
<1>9. IsFiniteSet(b) /\ l + 1 \notin b /\ b \subseteq 1..l
  <2>1. b \subseteq 1..l
    BY <1>1 DEF Block
  <2>2. l + 1 \notin 1..l
    BY <1>1
  <2>. QED
    BY <1>1, <2>1, <2>2, FS_Subset
<1> HIDE DEF new, c, ff
<1>10. /\ Block(n, new, g)' = b \cup {l + 1}
       /\ \A s \in Nat : s # g => Block(n, new, s)' = Block(n, st, s)
  <2>1. \A s : Block(n, new, s)' = {i \in 1..(l + 1) : new[i] = s}
    BY <1>2 DEF Block, new
  <2>2. \A s : Block(n, st, s) = {i \in 1..l : st[i] = s}
    BY <1>1 DEF Block
  <2>3. 1..(l + 1) = (1..l) \cup {l + 1} /\ l + 1 \notin 1..l
    BY <1>1
  <2>4. ASSUME NEW s \in Nat, s # g PROVE Block(n, new, s)' = Block(n, st, s)
    <3>1. {i \in 1..(l + 1) : new[i] = s} = {i \in 1..l : st[i] = s}
      BY <1>6, <2>3, <2>4
    <3>2. Block(n, new, s)' = {i \in 1..(l + 1) : new[i] = s}
      BY <2>1
    <3>3. Block(n, st, s) = {i \in 1..l : st[i] = s}
      BY <2>2
    <3>. QED
      BY <3>1, <3>2, <3>3
  <2>5. b = {i \in 1..l : st[i] = g}
    BY <2>2
  <2>6. Block(n, new, g)' = {i \in 1..l : st[i] = g} \cup {l + 1}
    <3>1. {i \in 1..(l + 1) : new[i] = g} = {i \in 1..l : st[i] = g} \cup {l + 1}
      BY <1>6, <2>3
    <3>2. Block(n, new, g)' = {i \in 1..(l + 1) : new[i] = g}
      BY <2>1
    <3>. QED
      BY <3>1, <3>2
  <2>. QED
    BY <2>4, <2>5, <2>6
<1>11. Cardinality(Block(n, new, g)') = k
  BY <1>5, <1>9, <1>10, FS_AddElement
<1>12. \A s \in Nat : Cardinality(Block(n, new, s)') <= EntrySize
  BY <1>3, <1>8, <1>10, <1>11
<1>13. /\ \A i \in 1..(l + 1) : new[i] <= fails'[n][i] /\ fails'[n][i] <= new[i] + Lockout
       /\ \A i \in 1..(l + 1) : new[i] = g \/ new[i] + Lockout < g
  BY <1>2, <1>3, <1>5, <1>6, <1>7
<1>14. \A i, j \in 1..(l + 1) : new[i] < new[j] => new[i] + Lockout < new[j]
  <2>. SUFFICES ASSUME NEW i \in 1..(l + 1), NEW j \in 1..(l + 1), new[i] < new[j]
                PROVE  new[i] + Lockout < new[j]
    OBVIOUS
  <2>1. new[i] \in Nat /\ new[j] \in Nat
    BY <1>6
  <2>2. CASE new[j] = g
    BY <1>1, <1>13, <2>1, <2>2
  <2>3. CASE new[i] = g
    BY <1>1, <1>13, <2>1, <2>3
  <2>4. CASE new[i] # g /\ new[j] # g
    BY <1>3, <1>6, <1>7, <2>4
  <2>. QED
    BY <2>2, <2>3, <2>4
<1>15. now' = now /\ attempts'[n].count = k /\ attempts'[n].firstFail = g
  BY <1>0
<1>16. EntrySize' = EntrySize
  BY DEF EntrySize
<1>17. Fits(n, new)'
  <2>1. Cardinality(Block(n, new, attempts[n].firstFail)') = attempts'[n].count
    BY <1>11, <1>15 DEF Block
  <2>2. new \in [DOMAIN fails'[n] -> Nat]
    BY <1>2, <1>6
  <2>3. \A i \in DOMAIN fails'[n] : new[i] <= fails'[n][i] /\ fails'[n][i] <= new[i] + Lockout
    BY <1>2, <1>13
  <2>4. \A i, j \in DOMAIN fails'[n] : new[i] < new[j] => new[i] + Lockout < new[j]
    BY <1>2, <1>14
  <2>5. ~(attempts'[n].count = 0)
    BY <1>8, <1>15
  <2>6. attempts'[n].firstFail <= now'
    BY <1>5, <1>15
  <2>7. \A i \in DOMAIN fails'[n] : \/ new[i] = attempts'[n].firstFail
                                    \/ new[i] + Lockout < attempts'[n].firstFail
    BY <1>2, <1>13, <1>15
  <2>. QED
    BY <1>12, <1>16, <2>1, <2>2, <2>3, <2>4, <2>5, <2>6, <2>7 DEF Fits
<1>. QED
  BY <1>17

\* A name that no password of which was wrong.
LEMMA NothingFits ==
  ASSUME NEW n \in Names, attempts[n] = NoAttempt, fails[n] = <<>>, NEW st \in [{} -> Nat]
  PROVE  Fits(n, st)
<1>1. DOMAIN fails[n] = {} /\ attempts[n].count = 0
  BY DEF NoAttempt
<1>2. \A s \in Nat : Block(n, st, s) = {}
  BY <1>1 DEF Block
<1>3. EntrySize \in Nat /\ Cardinality({}) = 0
  BY FS_EmptySet, FS_CardinalityType, LoginAssumption DEF EntrySize, LoginAssumption
<1>4. \A i \in DOMAIN fails[n] : FALSE
  BY <1>1
<1>5. st \in [DOMAIN fails[n] -> Nat]
  BY <1>1
<1>6. \A s \in Nat : Cardinality(Block(n, st, s)) <= EntrySize
  <2>. SUFFICES ASSUME NEW s \in Nat PROVE Cardinality(Block(n, st, s)) <= EntrySize
    OBVIOUS
  <2>1. Block(n, st, s) = {}
    BY <1>2
  <2>2. Cardinality(Block(n, st, s)) = 0
    BY <1>3, <2>1
  <2>. QED
    BY <1>3, <2>2
<1>7. ~(attempts[n].count > 0)
  BY <1>1
<1>. QED
  BY <1>4, <1>5, <1>6, <1>7 DEF Fits

\* A password that fits leaves the same.
LEMMA NothingFitsNext ==
  ASSUME NEW n \in Names, attempts'[n] = NoAttempt, fails'[n] = <<>>, NEW st \in [{} -> Nat]
  PROVE  Fits(n, st)'
<1>1. DOMAIN fails'[n] = {} /\ attempts'[n].count = 0
  BY DEF NoAttempt
<1>2. \A s \in Nat : Block(n, st, s)' = {}
  BY <1>1 DEF Block
<1>3. EntrySize \in Nat /\ Cardinality({}) = 0
  BY FS_EmptySet, FS_CardinalityType, LoginAssumption DEF EntrySize, LoginAssumption
<1>4. \A i \in DOMAIN fails'[n] : FALSE
  BY <1>1
<1>5. st \in [DOMAIN fails'[n] -> Nat]
  BY <1>1
<1>6. \A s \in Nat : Cardinality(Block(n, st, s)') <= EntrySize
  <2>. SUFFICES ASSUME NEW s \in Nat PROVE Cardinality(Block(n, st, s)') <= EntrySize
    OBVIOUS
  <2>1. Block(n, st, s)' = {}
    BY <1>2
  <2>2. Cardinality(Block(n, st, s)') = 0
    BY <1>3, <2>1
  <2>. QED
    BY <1>3, <2>2
<1>7. ~(attempts'[n].count > 0)
  BY <1>1
<1>. QED
  BY <1>4, <1>5, <1>6, <1>7 DEF Fits, EntrySize

\* The bound holds after a step as well.
LEMMA BoundNext == LoginInv' => GuessBound'
BY SlackGivesBound, PTL

\* The division into entries is kept by every step.
LEMMA EntryNext == EntryInv /\ [LoginNext]_loginVars => EntryInv'
<1>. SUFFICES ASSUME EntryInv, [LoginNext]_loginVars PROVE EntryInv'
  OBVIOUS
<1>1. LoginInv' /\ GuessBound'
  BY TypeStep, SlackStep, BoundNext DEF EntryInv, LoginInv
<1>. SUFFICES ASSUME NEW n \in Names PROVE \E new : Fits(n, new)'
  BY <1>1 DEF EntryInv, HasEntries
<1>2. PICK st : Fits(n, st)
  BY DEF EntryInv, HasEntries
<1>3. LoginTypeOK /\ LoginTypeOK'
  BY <1>1 DEF EntryInv, LoginInv
<1>4. ASSUME fails'[n] = fails[n], attempts'[n] = attempts[n], now' = now \/ now' = now + 1
      PROVE  \E new : Fits(n, new)'
  <2>1. now' >= now
    BY <1>3, <1>4 DEF LoginTypeOK
  <2>. QED
    BY <1>2, <1>3, <1>4, <2>1, FitsStays
<1>5. ASSUME NEW a \in Attempters, NEW m \in Names, Refused(a, m) PROVE \E new : Fits(n, new)'
  BY <1>4, <1>5 DEF Refused
<1>6. ASSUME NEW a \in Attempters, NEW m \in Names, Attempt(a, m) PROVE \E new : Fits(n, new)'
  <2>1. CASE m = n /\ attempts[n].count > 0 /\ Expired(n)
    <3>1. attempts'[n] = NoAttempt /\ fails'[n] = fails[n] /\ now' = now
      BY <1>3, <1>6, <2>1 DEF Attempt, Forget, LoginTypeOK
    <3>. QED
      BY <1>2, <1>3, <2>1, <3>1, FitsForgotten
  <2>2. CASE ~(m = n /\ attempts[n].count > 0 /\ Expired(n))
    <3>1. attempts'[n] = attempts[n] /\ fails'[n] = fails[n] /\ now' = now
      BY <1>3, <1>6, <2>2 DEF Attempt, Forget, LoginTypeOK
    <3>. QED
      BY <1>4, <3>1
  <2>. QED
    BY <2>1, <2>2
<1>7. ASSUME NEW a \in Attempters, Fails(a) PROVE \E new : Fits(n, new)'
  <2>1. name[a] \in Names /\ now' = now
    BY <1>3, <1>7 DEF Fails, LoginTypeOK
  <2>2. CASE name[a] = n
    <3>1. RecordFail(n) /\ fails'[n] = Append(fails[n], now)
      BY <1>3, <1>7, <2>2 DEF Fails, LoginTypeOK
    <3>. QED
      BY <1>1, <1>2, <1>3, <2>1, <3>1, FitsFailure
  <2>3. CASE name[a] # n
    <3>1. attempts'[n] = attempts[n] /\ fails'[n] = fails[n]
      BY <1>3, <1>7, <2>1, <2>3 DEF Fails, RecordFail, LoginTypeOK
    <3>. QED
      BY <1>4, <2>1, <3>1
  <2>. QED
    BY <2>2, <2>3
<1>8. ASSUME NEW a \in Attempters, Succeeds(a) PROVE \E new : Fits(n, new)'
  <2>1. name[a] \in Names /\ now' = now
    BY <1>3, <1>8 DEF Succeeds, LoginTypeOK
  <2>2. CASE name[a] = n
    <3>1. attempts'[n] = NoAttempt /\ fails'[n] = <<>>
      BY <1>3, <1>8, <2>2 DEF Succeeds, Reset, LoginTypeOK
    <3>2. PICK st2 \in [{} -> Nat] : TRUE
      <4>1. [x \in {} |-> 0] \in [{} -> Nat]
        OBVIOUS
      <4>. QED
        BY <4>1
    <3>3. Fits(n, st2)'
      BY <3>1, <3>2, NothingFitsNext
    <3>. QED
      BY <3>3
  <2>3. CASE name[a] # n
    <3>1. attempts'[n] = attempts[n] /\ fails'[n] = fails[n]
      BY <1>3, <1>8, <2>1, <2>3 DEF Succeeds, Reset, LoginTypeOK
    <3>. QED
      BY <1>4, <2>1, <3>1
  <2>. QED
    BY <2>2, <2>3
<1>9. CASE Tick
  BY <1>4, <1>9 DEF Tick
<1>10. CASE UNCHANGED loginVars
  BY <1>4, <1>10 DEF loginVars
<1>. QED
  BY <1>5, <1>6, <1>7, <1>8, <1>9, <1>10 DEF LoginNext

\* In the first state there is nothing to divide.
LEMMA EntryInit == LoginInit => EntryInv
<1>. SUFFICES ASSUME LoginInit PROVE EntryInv
  OBVIOUS
<1>1. LoginInv /\ GuessBound
  BY InitInv, SlackGivesBound
<1>2. ASSUME NEW n \in Names PROVE \E st : Fits(n, st)
  <2>1. PICK st \in [{} -> Nat] : TRUE
    <3>1. [x \in {} |-> 0] \in [{} -> Nat]
      OBVIOUS
    <3>. QED
      BY <3>1
  <2>. QED
    BY <2>1, NothingFits DEF LoginInit
<1>. QED
  BY <1>1, <1>2 DEF EntryInv, HasEntries

\* Failures can always be divided into entries.
LEMMA EntriesHold == LoginSpec => []EntryInv
BY EntryInit, EntryNext, PTL DEF LoginSpec

\* Nobody is locked out by fewer than Limit failures.
THEOREM LockIsEarnedCorrect == LoginSpec => []LockIsEarned
<1>1. EntryInv => LockIsEarned
  <2>. SUFFICES ASSUME EntryInv, NEW n \in Names, Locked(n)
                PROVE  Cardinality(Among(n, attempts[n].firstFail, attempts[n].firstFail + Lockout))
                         >= Limit
    BY DEF LockIsEarned
  <2> DEFINE ff == attempts[n].firstFail
             A == Among(n, ff, ff + Lockout)
  <2>1. PICK st : Fits(n, st)
    BY DEF EntryInv, HasEntries
  <2>2. LoginTypeOK
    BY DEF EntryInv, LoginInv
  <2>3. attempts[n].count >= Limit /\ attempts[n].count > 0 /\ attempts[n].count \in Nat /\ Limit \in Nat
    BY <2>2, EntryTypes DEF Locked
  <2>4. /\ Cardinality(Block(n, st, ff)) = attempts[n].count
        /\ \A i \in DOMAIN fails[n] : st[i] <= fails[n][i] /\ fails[n][i] <= st[i] + Lockout
    BY <2>1, <2>3 DEF Fits
  <2>5. Block(n, st, ff) \subseteq A
    BY <2>2, <2>4, EntryTypes DEF Block, Among
  <2>6. IsFiniteSet(A) /\ IsFiniteSet(Block(n, st, ff))
    BY <2>2, EntryTypes, FS_Subset DEF Block, Among
  <2>7. Cardinality(Block(n, st, ff)) <= Cardinality(A) /\ Cardinality(A) \in Nat
    BY <2>5, <2>6, FS_Subset, FS_CardinalityType
  <2> HIDE DEF A, ff
  <2>8. Cardinality(A) >= Limit
    BY <2>3, <2>4, <2>7
  <2>. QED
    BY <2>8 DEF A, ff
<1>. QED
  BY EntriesHold, <1>1, PTL

\* Two entries at most have failures in one stretch of Lockout: three begin more
\* than twice as long apart.
LEMMA TwoBlocks ==
  ASSUME LoginTypeOK, NEW n \in Names, NEW st, Fits(n, st), NEW t \in Nat
  PROVE  \E a, b \in Nat : Among(n, t, t + Lockout) \subseteq Block(n, st, a) \cup Block(n, st, b)
<1> DEFINE A == Among(n, t, t + Lockout)
<1>1. /\ Lockout \in Nat
      /\ \A i \in A : /\ i \in DOMAIN fails[n] /\ st[i] \in Nat /\ fails[n][i] \in Nat
                      /\ t <= fails[n][i] /\ fails[n][i] <= t + Lockout
                      /\ st[i] <= fails[n][i] /\ fails[n][i] <= st[i] + Lockout
      /\ \A i, j \in A : st[i] < st[j] => st[i] + Lockout < st[j]
  <2>1. /\ Lockout \in Nat /\ st \in [DOMAIN fails[n] -> Nat]
        /\ \A i \in DOMAIN fails[n] : /\ fails[n][i] \in Nat
                                      /\ st[i] <= fails[n][i] /\ fails[n][i] <= st[i] + Lockout
        /\ \A i, j \in DOMAIN fails[n] : st[i] < st[j] => st[i] + Lockout < st[j]
    BY EntryTypes DEF Fits
  <2>2. \A i \in A : i \in DOMAIN fails[n] /\ fails[n][i] \in t..(t + Lockout)
    BY DEF Among
  <2> HIDE DEF A
  <2>. QED
    BY <2>1, <2>2
<1>2. \A i, j, k \in A : ~(st[i] < st[j] /\ st[j] < st[k])
  BY <1>1
<1>3. \A i \in A, s \in Nat : st[i] = s => i \in Block(n, st, s)
  BY <1>1 DEF Block
<1> HIDE DEF A
<1>4. ASSUME A = {}
      PROVE  \E a, b \in Nat : A \subseteq Block(n, st, a) \cup Block(n, st, b)
  BY <1>4
<1>5. ASSUME NEW i \in A, \A j \in A : st[j] = st[i]
      PROVE  \E a, b \in Nat : A \subseteq Block(n, st, a) \cup Block(n, st, b)
  <2>1. st[i] \in Nat /\ A \subseteq Block(n, st, st[i]) \cup Block(n, st, st[i])
    BY <1>1, <1>3, <1>5
  <2>. QED
    BY <2>1
<1>6. ASSUME NEW i \in A, NEW j \in A, st[j] # st[i]
      PROVE  \E a, b \in Nat : A \subseteq Block(n, st, a) \cup Block(n, st, b)
  <2>1. \A k \in A : st[k] = st[i] \/ st[k] = st[j]
    BY <1>1, <1>2, <1>6
  <2>2. A \subseteq Block(n, st, st[i]) \cup Block(n, st, st[j])
    BY <1>1, <1>3, <2>1
  <2>. QED
    BY <1>1, <2>2
<1>. QED
  BY <1>4, <1>5, <1>6 DEF A

\* No stretch of time as long as the lockout sees more wrong passwords than two
\* entries of the limiter count, however many logins run side by side.
THEOREM GuessesPerLockoutCorrect == LoginSpec => []GuessesPerLockout
<1>1. EntryInv => GuessesPerLockout
  <2>. SUFFICES ASSUME EntryInv, NEW n \in Names, NEW t \in 0..now
                PROVE  Cardinality(Among(n, t, t + Lockout)) <= 2 * EntrySize
    BY DEF GuessesPerLockout, EntrySize
  <2> DEFINE A == Among(n, t, t + Lockout)
  <2>1. PICK st : Fits(n, st)
    BY DEF EntryInv, HasEntries
  <2>2. LoginTypeOK /\ t \in Nat /\ EntrySize \in Nat
    BY EntryTypes DEF EntryInv, LoginInv
  <2>3. PICK a \in Nat, b \in Nat : A \subseteq Block(n, st, a) \cup Block(n, st, b)
    BY <2>1, <2>2, TwoBlocks
  <2> DEFINE X == Block(n, st, a)
             Y == Block(n, st, b)
  <2>4. IsFiniteSet(X) /\ IsFiniteSet(Y) /\ IsFiniteSet(X \cup Y)
    <3>1. IsFiniteSet(DOMAIN fails[n])
      BY <2>2, EntryTypes
    <3>2. X \subseteq DOMAIN fails[n] /\ Y \subseteq DOMAIN fails[n]
      BY DEF Block
    <3>. QED
      BY <3>1, <3>2, FS_Subset
  <2>5. Cardinality(X) <= EntrySize /\ Cardinality(Y) <= EntrySize
    BY <2>1 DEF Fits
  <2>6. Cardinality(X) \in Nat /\ Cardinality(Y) \in Nat /\ Cardinality(X \cap Y) \in Nat
        /\ Cardinality(X \cup Y) = Cardinality(X) + Cardinality(Y) - Cardinality(X \cap Y)
    <3>1. IsFiniteSet(X \cap Y)
      BY <2>4, FS_Subset
    <3>. QED
      BY <2>4, <3>1, FS_Union, FS_CardinalityType
  <2>7. Cardinality(A) <= Cardinality(X \cup Y) /\ Cardinality(A) \in Nat
    BY <2>3, <2>4, FS_Subset, FS_CardinalityType
  <2> HIDE DEF A, X, Y
  <2>. QED
    BY <2>2, <2>5, <2>6, <2>7 DEF A
<1>. QED
  BY EntriesHold, <1>1, PTL
=============================================================================
