SPECIFICATION FairSpec
CONSTANTS
  WBuf = 3
  RBuf = 2
  NBytes = 4
INVARIANTS
  BodyOnly
  StopsAtTheEnd
PROPERTIES
  MessageEnds
  ImplementsChannel
\* Both programs are done once the message is read.
CHECK_DEADLOCK FALSE
