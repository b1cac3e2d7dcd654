SPECIFICATION Spec
CONSTANTS
  BlockSize = 2
  BufSize = 6
  MaxLen = 9
INVARIANTS
  OstreamEncryptsAll
\* The programs stop when the message is decrypted.
CHECK_DEADLOCK FALSE
