\* Plain and encrypted, with a backup, restores, commands, a full disk and crashes.
CONSTANTS
  c1 = c1
  c2 = c2
  Conns = {c1, c2}
  MayFail = TRUE
  MaxCommits = 2
  MaxFiles = 4
  MaxStarts = 3
  Nothing = Nothing
SYMMETRY ConnsSymmetry
SPECIFICATION FilesSpec
INVARIANTS
  OpensAgain
  NothingDestroyed
  ConnectionsAgree
  SealedAtRest
CHECK_DEADLOCK FALSE
