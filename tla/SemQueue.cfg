SPECIFICATION Spec
CONSTANTS
  r1 = r1
  r2 = r2
  w1 = w1
  w2 = w2
  Readers <- TwoReaders
  Writers <- TwoWriters
  MAX_COUNT = 2
  VALUES = 2
INVARIANTS
  AssertsHold
  NeverTakesFromEmpty
PROPERTIES
  ValuesFlow
  FifoSpec
