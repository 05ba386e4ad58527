SPECIFICATION RWSpec
CONSTANTS
  Programs <- BothPrograms
  f1 = f1
  f2 = f2
  f3 = f3
  s1 = s1
  s2 = s2
  s3 = s3
  NoThread = NoThread
  Swappers <- None
  Counters <- ThreeCounters
  Kind <- Kinds
  VALUES = 5
  Lengths <- Lengths5
INVARIANTS
  CountsPairs
  OwnLocksOnly
PROPERTIES
  PassesContinue
