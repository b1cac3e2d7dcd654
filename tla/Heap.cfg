SPECIFICATION MCSpec
CONSTANTS
  Values = {0, 1, 2, 4}
  Less <- MCLess
  MaxSize = 6
  o1 = o1
  o2 = o2
  o3 = o3
  Objects = {o1, o2, o3}
  r1 = r1
  r2 = r2
  r3 = r3
  Resources = {r1, r2, r3}
INVARIANTS
  HeapInv
  Ownership
PROPERTIES
  Returns
  ImplementsQueue
\* Every resource may end up deleted and every object destroyed.
CHECK_DEADLOCK FALSE
