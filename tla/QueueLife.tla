----------------------------- MODULE QueueLife -----------------------------
(***************************************************************************)
(* A queue from queue_init to queue_destroy, in the five variants of       *)
(* sync/ok_job, as queue-example.c uses it: a main thread that adds, gets  *)
(* and destroys, and the monitor thread that queue_init has started, which *)
(* prints the queue's statistics once a second until it is cancelled.      *)
(***************************************************************************)
EXTENDS Naturals, Sequences

CONSTANTS
  ADDS,   \* how often main calls queue_add; 10 in the program
  Gets    \* how often it may then call queue_get; 12 in the program

ASSUME QueueLifeAssumption == ADDS \in Nat /\ Gets \subseteq Nat

Variants == {"queue", "mutex", "spinlock", "signal", "semaphores"}
\* In these queue_get waits for an item; in the others it returns 0.
Blocking == {"signal", "semaphores"}

VARIABLES
  variant,    \* the file that is linked; it does not change
  todo,       \* the calls that main still has to make
  items,      \* the length of the list, which q->count agrees with here
  memory,     \* what is allocated, besides the nodes
  monitor,    \* what the monitor thread does next
  cancelled   \* pthread_cancel has been called for it

vars == <<variant, todo, items, memory, monitor, cancelled>>

\* BUG (mutant): the monitor is cancelled, but not waited for.
queue_destroy_NoJoin(v) ==
  CASE v = "signal"     -> <<"freeCondition", "cancel", "freeNodes",
                             "freeQueue">>
    [] v = "semaphores" -> <<"freeNodes", "freeQueue">>
    [] OTHER            -> <<"cancel", "freeNodes", "freeQueue">>

\* BUG (mutant): the monitor is waited for, but not cancelled.
queue_destroy_NoCancel(v) ==
  CASE v = "signal"     -> <<"freeCondition", "join", "freeNodes",
                             "freeQueue">>
    [] v = "semaphores" -> <<"freeNodes", "freeQueue">>
    [] OTHER            -> <<"join", "freeNodes", "freeQueue">>

\* What queue_destroy does in each variant.
queue_destroy(v) ==
  CASE v = "signal"     -> <<"freeCondition", "cancel", "join", "freeNodes",
                             "freeQueue">>
    [] v = "semaphores" -> <<"freeNodes", "freeQueue">>
    [] OTHER            -> <<"cancel", "join", "freeNodes", "freeQueue">>

\* main of queue-example.c, with a number of gets.
Calls(v, gets) ==
  <<"init">> \o [i \in 1..ADDS |-> "add"] \o [i \in 1..gets |-> "get"]
    \o queue_destroy(v) \o <<"return">>

Init ==
  /\ variant \in Variants
  /\ \E gets \in Gets : todo = Calls(variant, gets)
  /\ items = 0 /\ memory = {}
  /\ monitor = "none" /\ cancelled = FALSE

\* main makes its next call, or the next step of it.
Do(call) == todo # <<>> /\ Head(todo) = call /\ todo' = Tail(todo)

\* pthread_create may fail: then queue_init aborts, or, with semaphores, goes
\* on without a monitor.
queue_init ==
  /\ todo # <<>> /\ Head(todo) = "init"
  /\ memory' = {"queue"} \cup IF variant = "signal" THEN {"condition"} ELSE {}
  /\ \/ monitor' = "reads" /\ todo' = Tail(todo)
     \/ /\ monitor' = monitor
        /\ todo' = IF variant = "semaphores" THEN Tail(todo) ELSE <<>>
  /\ UNCHANGED <<variant, items, cancelled>>

\* The queue has room for 1000 items.
queue_add ==
  /\ Do("add") /\ items' = items + 1
  /\ UNCHANGED <<variant, memory, monitor, cancelled>>

queue_get ==
  /\ Do("get")
  /\ variant \in Blocking => items > 0
  /\ items' = IF items > 0 THEN items - 1 ELSE 0
  /\ UNCHANGED <<variant, memory, monitor, cancelled>>

Cancel ==
  /\ Do("cancel") /\ cancelled' = TRUE
  /\ UNCHANGED <<variant, items, memory, monitor>>

Join ==
  /\ Do("join") /\ monitor = "ended"
  /\ UNCHANGED <<variant, items, memory, monitor, cancelled>>

\* The loop over the nodes.
FreeNodes ==
  /\ \/ /\ todo # <<>> /\ Head(todo) = "freeNodes" /\ UNCHANGED todo
        /\ items > 0 /\ items' = items - 1
     \/ items = 0 /\ Do("freeNodes") /\ UNCHANGED items
  /\ UNCHANGED <<variant, memory, monitor, cancelled>>

\* The step "call" frees something.
Free(call, what) ==
  /\ Do(call) /\ memory' = memory \ {what}
  /\ UNCHANGED <<variant, items, monitor, cancelled>>

\* main returns, which ends the process and with it the monitor.
Return ==
  /\ Do("return")
  /\ monitor' = IF monitor = "none" THEN "none" ELSE "ended"
  /\ UNCHANGED <<variant, items, memory, cancelled>>

Main ==
  \/ queue_init \/ queue_add \/ queue_get
  \/ Cancel \/ Join \/ FreeNodes \/ Return
  \/ Free("freeCondition", "condition") \/ Free("freeQueue", "queue")

\* The monitor reads the queue, prints and sleeps.  sleep is where a thread
\* that is cancelled ends; printf may be.
qmonitor ==
  /\ todo # <<>>
  /\ \/ monitor = "reads" /\ monitor' = "prints"
     \/ monitor = "prints" /\ monitor' = "sleeps"
     \/ monitor = "prints" /\ cancelled /\ monitor' = "ended"
     \/ monitor = "sleeps" /\ monitor' = IF cancelled THEN "ended" ELSE "reads"
  /\ UNCHANGED <<variant, todo, items, memory, cancelled>>

Next == Main \/ qmonitor \/ (todo = <<>> /\ UNCHANGED vars)

Spec == Init /\ [][Next]_vars /\ WF_vars(Main) /\ WF_vars(qmonitor)
-----------------------------------------------------------------------------
\* The monitor does not read the queue after queue_destroy has freed it, except
\* in queue-semaphores.c, where nothing stops it (line 58).
MonitorReadsQueue ==
  monitor = "reads" => "queue" \in memory \/ variant = "semaphores"

\* queue-example.c comes to its end with everything freed; where queue_get
\* waits, it comes there only if it takes no more than it has put in, and
\* otherwise stays in queue_get (lines 28-31).
ExampleEnds ==
  \/ <>(todo = <<>> /\ ((memory = {} /\ items = 0) \/ monitor = "none"))
  \/ variant \in Blocking /\ <>[](items = 0 /\ todo # <<>> /\ Head(todo) = "get")
=============================================================================
