SPECIFICATION Spec
CONSTANTS
  MAX_CREATED = 3
INVARIANTS
  ContextsKept
PROPERTIES
  RoundRobin
  EveryThreadRuns
