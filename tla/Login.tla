------------------------------- MODULE Login -------------------------------
(***************************************************************************)
(* POST /auth/login: HandleLogin of internal/server/routes.go,             *)
(* Authenticator.Login of internal/auth/auth.go and LoginRateLimiter of    *)
(* internal/auth/password.go.                                              *)
(*                                                                         *)
(* An attempt asks the limiter, verifies the password (which takes Argon2  *)
(* its time, with no lock held), and tells the limiter what came out.      *)
(* Attempts for one name run side by side, and the clock runs on.          *)
(***************************************************************************)
EXTENDS Integers, Sequences, FiniteSets

CONSTANTS
  Attempters,   \* goroutines that serve logins
  Names,        \* user names, the limiter's keys
  Limit,        \* LoginLimit: failures that lock a name
  Lockout,      \* LockoutTime, in ticks of the clock
  MaxTime       \* bound: the clock stops there

ASSUME LoginAssumption ==
  /\ IsFiniteSet(Attempters)
  /\ Limit \in Nat \ {0}
  /\ Lockout \in Nat
  /\ MaxTime \in Nat

VARIABLES
  now,        \* time.Now()
  attempts,   \* the limiter's map; a count of 0 stands for a missing entry
  pc,         \* where the goroutine is
  name,       \* the name it works for
  fails       \* history: when a password did not fit, since the last that did

loginVars == <<now, attempts, pc, name, fails>>

LoginAttempt == [count : Nat, firstFail : Nat]

LoginTypeOK ==
  /\ now \in Nat
  /\ attempts \in [Names -> LoginAttempt]
  /\ pc \in [Attempters -> {"idle", "verify"}]
  /\ name \in [Attempters -> Names]
  /\ fails \in [Names -> Seq(Nat)]

NoAttempt == [count |-> 0, firstFail |-> 0]

LoginInit ==
  /\ now = 0
  /\ attempts = [n \in Names |-> NoAttempt]
  /\ pc = [a \in Attempters |-> "idle"]
  /\ \E n \in Names : name = [a \in Attempters |-> n]
  /\ fails = [n \in Names |-> <<>>]

-----------------------------------------------------------------------------
(* The limiter.  Each of its methods runs under its mutex.                 *)

\* time.Since(FirstFail) > lockout
Expired(n) == now - attempts[n].firstFail > Lockout

\* What IsLocked answers.
Locked(n) == attempts[n].count >= Limit /\ ~Expired(n)

\* IsLocked deletes an entry that has expired.
Forget(n) ==
  attempts' = [attempts EXCEPT ![n] = IF @.count > 0 /\ Expired(n) THEN NoAttempt ELSE @]

\* Mutant: every failure starts the time of the lock afresh.
RecordFail_Renews(n) ==
  attempts' = [attempts EXCEPT ![n] =
                 [count |-> IF Expired(n) THEN 1 ELSE @.count + 1, firstFail |-> now]]

\* Mutant: a failure always starts a new entry.
RecordFail_Restarts(n) ==
  attempts' = [attempts EXCEPT ![n] = [count |-> 1, firstFail |-> now]]

RecordFail(n) ==
  attempts' = [attempts EXCEPT ![n] =
                 IF @.count = 0 \/ Expired(n)
                 THEN [count |-> 1, firstFail |-> now]
                 ELSE [count |-> @.count + 1, firstFail |-> @.firstFail]]

\* Mutant: an entry is only emptied when it has locked the name.
Reset_LockedOnly(n) ==
  attempts' = [attempts EXCEPT ![n] = IF @.count >= Limit THEN NoAttempt ELSE @]

Reset(n) == attempts' = [attempts EXCEPT ![n] = NoAttempt]

-----------------------------------------------------------------------------
(* Login.                                                                  *)

\* The name is locked: 401, and the password is not looked at.
Refused(a, n) ==
  /\ pc[a] = "idle"
  /\ Locked(n)
  /\ name' = [name EXCEPT ![a] = n]
  /\ UNCHANGED <<now, attempts, pc, fails>>

\* Mutant: the name is locked by one failure more.
Attempt_OneMore(a, n) ==
  /\ pc[a] = "idle"
  /\ ~(attempts[n].count > Limit /\ ~Expired(n))
  /\ Forget(n)
  /\ pc' = [pc EXCEPT ![a] = "verify"]
  /\ name' = [name EXCEPT ![a] = n]
  /\ UNCHANGED <<now, fails>>

Attempt(a, n) ==
  /\ pc[a] = "idle"
  /\ ~Locked(n)
  /\ Forget(n)
  /\ pc' = [pc EXCEPT ![a] = "verify"]
  /\ name' = [name EXCEPT ![a] = n]
  /\ UNCHANGED <<now, fails>>

\* No such user, or VerifyPassword says no.
Fails(a) ==
  /\ pc[a] = "verify"
  /\ RecordFail(name[a])
  /\ fails' = [fails EXCEPT ![name[a]] = Append(@, now)]
  /\ pc' = [pc EXCEPT ![a] = "idle"]
  /\ UNCHANGED <<now, name>>

\* The password fits, the client gets a token.
Succeeds(a) ==
  /\ pc[a] = "verify"
  /\ Reset(name[a])
  /\ fails' = [fails EXCEPT ![name[a]] = <<>>]
  /\ pc' = [pc EXCEPT ![a] = "idle"]
  /\ UNCHANGED <<now, name>>

Tick ==
  /\ now < MaxTime
  /\ now' = now + 1
  /\ UNCHANGED <<attempts, pc, name, fails>>

LoginNext ==
  \/ \E a \in Attempters : \/ \E n \in Names : Refused(a, n) \/ Attempt(a, n)
                           \/ Fails(a)
                           \/ Succeeds(a)
  \/ Tick

LoginSpec == LoginInit /\ [][LoginNext]_loginVars

-----------------------------------------------------------------------------
(* Properties.                                                             *)

Among(n, first, last) == {i \in DOMAIN fails[n] : fails[n][i] \in first..last}

\* Guesses at one password are bounded however many logins run side by side:
\* IsLocked and RecordFail are two critical sections, so every goroutine but
\* one may still be on its way when the limit is reached, and no more than that.
GuessBound ==
  \A n \in Names : attempts[n].count <= Limit + Cardinality(Attempters) - 1

\* A stretch of time as long as the lockout sees wrong passwords of at most two
\* entries of the limiter, since its time runs from the first failure.
GuessesPerLockout ==
  \A n \in Names, t \in 0..now :
    Cardinality(Among(n, t, t + Lockout)) <= 2 * (Limit + Cardinality(Attempters) - 1)

\* Nobody is locked out who has not failed Limit times within the lockout time
\* and since the last password that fitted (Login resets the entry then).
LockIsEarned ==
  \A n \in Names :
    Locked(n) => Cardinality(Among(n, attempts[n].firstFail, attempts[n].firstFail + Lockout)) >= Limit

\* Failing while the name is locked does not make the lock last longer.
LockNeverExtended ==
  [][\A n \in Names :
       Locked(n) /\ attempts'[n].count >= Limit => attempts'[n].firstFail = attempts[n].firstFail]_loginVars

-----------------------------------------------------------------------------
(* A claim of the documentation that the code does not meet (see the       *)
(* README; no run checks it).                                              *)

\* What docs/security.md says: the failure that locks the name locks it for
\* Lockout (the code counts from the first failure instead).
LockLasts ==
  \A n \in Names :
    LET locking == fails[n][Limit]
    IN  Len(fails[n]) = Limit /\ locking - fails[n][1] <= Lockout /\ now - locking <= Lockout
          => Locked(n)
=============================================================================
