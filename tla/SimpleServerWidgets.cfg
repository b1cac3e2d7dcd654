\* Every kind of request to a chain of three widgets, a descriptor for every
\* connection, clients that may stay silent for ever.
SPECIFICATION FairSpec
CONSTANTS
  c1 = c1
  c2 = c2
  c3 = c3
  Conns = {c1, c2}
  k1 = k1
  k2 = k2
  Fds = {k1, k2}
  NoConn = NoConn
  Requests <- MCRequests
  Chain <- MCChain
  CatchAll = 404
  Failures = FALSE
INVARIANTS
  OneResponse
  RightStatus
  Answered
PROPERTIES
  Served
\* The server is quiet once every client has gone.
CHECK_DEADLOCK FALSE
