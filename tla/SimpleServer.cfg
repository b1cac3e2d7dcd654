\* Three connections over two descriptor numbers: numbers are reused while
\* other threads still run.  accept() and thread creation may fail.
SPECIFICATION Spec
CONSTANTS
  c1 = c1
  c2 = c2
  c3 = c3
  Conns = {c1, c2, c3}
  k1 = k1
  k2 = k2
  Fds = {k1, k2}
  NoConn = NoConn
  Requests <- MCPlainRequests
  Chain <- MCPlain
  CatchAll = 404
  Failures = TRUE
SYMMETRY Sym
INVARIANTS
  NoCrossTalk
  OwnDescriptor
  NoLeak
\* The server is quiet once every client has gone.
CHECK_DEADLOCK FALSE
