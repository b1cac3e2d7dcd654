\* Two requests, bodies longer than what the kernel holds.
SPECIFICATION FairSpec
CONSTANTS
  MaxExchanges = 2
  MaxPieces = 3
  Cap = 2
INVARIANTS
  Framed
  WholeBody
  NoStandstill
PROPERTIES
  Answered
\* The client leaves; a server that answers before it has read may stand still.
CHECK_DEADLOCK FALSE
