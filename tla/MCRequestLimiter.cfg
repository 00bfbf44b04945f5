\* Two connections, the clock runs between the two limiters.
CONSTANTS
  r1 = r1
  r2 = r2
  conn1 = conn1
  conn2 = conn2
  host1 = host1
  alice = alice
  Requests = {r1, r2}
  Addrs = {conn1, conn2}
  Hosts = {host1}
  HostOf <- MCHostOf
  Users = {alice}
  UserLimit = 2
  IPLimit = 3
  Window = 2
  MaxTime = 3
SYMMETRY RequestsSymmetry
SPECIFICATION LimiterSpec
INVARIANTS
  WindowBound
  UserRefusalEarned
