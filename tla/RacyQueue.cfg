SPECIFICATION Spec
CONSTANTS
  r1 = r1
  w1 = w1
  n1 = n1
  n2 = n2
  n3 = n3
  NULL = NULL
  Readers <- MCReaders
  Writers <- MCWriters
  Nodes <- MCNodes
  MAX_COUNT = 2
  VALUES = 4
  LOCKED = FALSE
INVARIANTS
  ReaderInOrder
CHECK_DEADLOCK FALSE
