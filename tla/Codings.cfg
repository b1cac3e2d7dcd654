SPECIFICATION MCSpec
CONSTANTS
  Values <- MCValues
  Texts <- MCTexts
  Huge = 1000000
  Messages <- MCMessages
  Codes <- MCCodes
  Inputs <- MCInputs
  Additions <- MCAdditions
  MaxReads = 2
  MaxLines = 2
  UintSize = 16
  Operands <- MCOperands
INVARIANTS
  Reads
  RoundTrip
  AllOrNothing
  Base64Right
  HeaderRight
  RationalRight
\* A text is read once.
CHECK_DEADLOCK FALSE
