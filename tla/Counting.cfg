SPECIFICATION Spec
CONSTANTS
  t1 = t1
  t2 = t2
  t3 = t3
  Threads <- MCThreads
  ITERATIONS <- MCIterations
INVARIANTS
  MutualExclusion
  NoLostWakeup
  PrintedTotal
PROPERTIES
  Termination
  AbstractSpec
