\* Resets, and errors of ::write and ::read on a live connection; clients of the
\* programs that break off, leave, or ask for what nobody handles.
SPECIFICATION MCSpec
CONSTANTS
  WriteBuf = 2
  ReadBuf = 2
  NOut = 4
  NIn = 3
  MaxErr = 2
  Clients = {"a", "b"}
  Requests = {"greet", "reset", "badBody", "unknown", "malformed", "coded"}
  Buf = 2
  Queue = 2
  EchoBytes = 4
  Behind = 1
  ResetCount = 5
  Sinks = {1, 2}
  Chars = {"a", "b", "c", "d"}
  Patterns <- MCPatterns
  Endings <- MCEndings
  TeeBuf = 3
  MaxGets = 6
  MaxTold = 3
  MaxRoom = 3
INVARIANTS
  OutAtLeastOnce
  NothingLost
  InputComplete
  OwnAnswer
  TeeRight
PROPERTIES
  WriteAllReturns
  ImplementsChannel
  EveryoneServed
\* The stream ends once it is destroyed, the programs with their process.
CHECK_DEADLOCK FALSE
