SPECIFICATION Spec
CONSTANTS
  Values <- None
  Texts <- MCCapitalE
  Huge = 1000000
INVARIANTS
  ExponentCounts
\* A text is read once.
CHECK_DEADLOCK FALSE
