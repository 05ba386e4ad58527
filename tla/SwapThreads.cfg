SPECIFICATION RWSpec
CONSTANTS
  Programs = {"mutex"}
  f1 = f1
  f2 = f2
  f3 = f3
  s1 = s1
  s2 = s2
  s3 = s3
  NoThread = NoThread
  Swappers <- ThreeSwappers
  Counters <- None
  Kind <- Kinds
  VALUES = 6
  Lengths <- LengthsMoving
INVARIANTS
  ListIntact
PROPERTIES
  SwapListSpec
  SwapsContinue
