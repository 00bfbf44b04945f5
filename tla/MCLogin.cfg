\* Three logins side by side, time for three entries of the limiter.
CONSTANTS
  a1 = a1
  a2 = a2
  a3 = a3
  alice = alice
  Attempters = {a1, a2, a3}
  Names = {alice}
  Limit = 2
  Lockout = 1
  MaxTime = 6
SYMMETRY AttemptersSymmetry
SPECIFICATION LoginSpec
INVARIANTS
  GuessBound
  GuessesPerLockout
  LockIsEarned
PROPERTY LockNeverExtended
