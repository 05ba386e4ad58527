SPECIFICATION Spec
CONSTANTS
  ADDS = 10
  Gets = {8, 10, 12}
INVARIANTS
  MonitorReadsQueue
PROPERTIES
  ExampleEnds
\* Without a monitor (queue-semaphores.c:53), the eleventh get waits for ever.
CHECK_DEADLOCK FALSE
