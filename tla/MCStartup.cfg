\* A server, create-user and gen-cert, two faults.
CONSTANTS
  server = server
  create_user = create_user
  gen_cert = gen_cert
  q1 = q1
  q2 = q2
  q3 = q3
  q4 = q4
  Servers = {server}
  UserCommands = {create_user}
  CertCommands = {gen_cert}
  Pairs = {q1, q2, q3, q4}
  Missing = Missing
  Blank = Blank
  MaxFaults = 2
SPECIFICATION StartupLive
INVARIANT RecordedIsThere
PROPERTY ServerComesUp
CHECK_DEADLOCK FALSE
