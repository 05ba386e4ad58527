------------------------------ MODULE SemQueue ------------------------------
(***************************************************************************)
(* The queue of sync/ok_job/queue-semaphores.c: semaphore_spaces counts    *)
(* the room left, semaphore_items the values to take, and queue_mutex, a   *)
(* third semaphore, protects the list.  The unlocked part of each call is  *)
(* its assert on q->count.                                                 *)
(***************************************************************************)
EXTENDS Integers, FiniteSets, Sequences

CONSTANTS
  Writers, Readers,  \* threads that call queue_add and queue_get for ever
  MAX_COUNT,         \* the max_count given to queue_init
  VALUES             \* bound: a writer's counter i wraps at VALUES

ASSUME SemQueueAssumption ==
  /\ IsFiniteSet(Writers) /\ Writers # {}
  /\ IsFiniteSet(Readers) /\ Readers # {}
  /\ Writers \cap Readers = {}
  /\ MAX_COUNT \in Nat \ {0}
  /\ VALUES \in Nat \ {0}

VARIABLES
  queue,        \* the values in the list, oldest first
  count,        \* q->count
  spaces,       \* semaphore_spaces
  items,        \* semaphore_items
  queue_mutex,  \* queue_mutex: 1 free, 0 taken
  pc,           \* what each thread does next
  num           \* i of a writer

vars == <<queue, count, spaces, items, queue_mutex, pc, num>>

Threads == Writers \cup Readers

\* queue_init
Init ==
  /\ queue = <<>> /\ count = 0
  /\ spaces = MAX_COUNT /\ items = 0 /\ queue_mutex = 1
  /\ pc = [t \in Threads |-> "call"]
  /\ num = [w \in Writers |-> 0]

Goto(t, from, to) == pc[t] = from /\ pc' = [pc EXCEPT ![t] = to]

\* assert(q->count <= q->max_count) or assert(q->count >= 0).
Assert(t) ==
  /\ Goto(t, "call",
          IF IF t \in Writers THEN count <= MAX_COUNT ELSE count >= 0
          THEN "wait" ELSE "aborted")
  /\ UNCHANGED <<queue, count, spaces, items, queue_mutex, num>>

\* BUG (mutant): queue_get does not wait for an item.
Wait_WritersOnly(t) ==
  /\ Goto(t, "wait", "lock")
  /\ IF t \in Writers
     THEN spaces > 0 /\ spaces' = spaces - 1 /\ UNCHANGED items
     ELSE UNCHANGED <<spaces, items>>
  /\ UNCHANGED <<queue, count, queue_mutex, num>>

\* sem_wait on semaphore_spaces (queue_add) or semaphore_items (queue_get).
Wait(t) ==
  /\ Goto(t, "wait", "lock")
  /\ IF t \in Writers
     THEN spaces > 0 /\ spaces' = spaces - 1 /\ UNCHANGED items
     ELSE items > 0 /\ items' = items - 1 /\ UNCHANGED spaces
  /\ UNCHANGED <<queue, count, queue_mutex, num>>

\* sem_wait(&q->queue_mutex).
LockMutex(t) ==
  /\ Goto(t, "lock", "link")
  /\ queue_mutex > 0 /\ queue_mutex' = queue_mutex - 1
  /\ UNCHANGED <<queue, count, spaces, items, num>>

\* BUG (mutant): the new node goes to the front of the list.
Enqueue_Front(v) == queue' = <<v>> \o queue

Enqueue(v) == queue' = Append(queue, v)

\* A new node at the end of the list, or the first node taken off it.
Link(t) ==
  /\ Goto(t, "link", "count")
  /\ IF t \in Writers THEN Enqueue(num[t]) ELSE queue' = Tail(queue)
  /\ UNCHANGED <<count, spaces, items, queue_mutex, num>>

\* BUG (mutant): queue_get does not decrement the counter.
Count_AddOnly(t) ==
  /\ Goto(t, "count", "unlock")
  /\ count' = count + (IF t \in Writers THEN 1 ELSE 0)
  /\ UNCHANGED <<queue, spaces, items, queue_mutex, num>>

\* q->count++ or q->count--.
Count(t) ==
  /\ Goto(t, "count", "unlock")
  /\ count' = count + (IF t \in Writers THEN 1 ELSE -1)
  /\ UNCHANGED <<queue, spaces, items, queue_mutex, num>>

\* sem_post(&q->queue_mutex).
UnlockMutex(t) ==
  /\ Goto(t, "unlock", "post")
  /\ queue_mutex' = queue_mutex + 1
  /\ UNCHANGED <<queue, count, spaces, items, num>>

\* BUG (mutant): queue_get posts nothing for the writers.
Post_AddOnly(t) ==
  /\ Goto(t, "post", "call")
  /\ IF t \in Writers
     THEN /\ items' = items + 1
          /\ num' = [num EXCEPT ![t] = (@ + 1) % VALUES]
     ELSE UNCHANGED <<items, num>>
  /\ UNCHANGED <<queue, count, spaces, queue_mutex>>

\* sem_post on the other side's semaphore, and return 1; the caller's loop
\* increments i.
Post(t) ==
  /\ Goto(t, "post", "call")
  /\ IF t \in Writers
     THEN /\ items' = items + 1 /\ UNCHANGED spaces
          /\ num' = [num EXCEPT ![t] = (@ + 1) % VALUES]
     ELSE spaces' = spaces + 1 /\ UNCHANGED <<items, num>>
  /\ UNCHANGED <<queue, count, queue_mutex>>

Thread(t) == Assert(t) \/ Wait(t) \/ LockMutex(t) \/ Link(t) \/ Count(t)
             \/ UnlockMutex(t) \/ Post(t)

Next == \E t \in Threads : Thread(t)

\* The operating system runs every thread that can run; a semaphore that is
\* posted goes to any of the threads that wait for it, or to a newcomer.
Fairness == \A t \in Threads : WF_vars(Thread(t))

Spec == Init /\ [][Next]_vars /\ Fairness
-----------------------------------------------------------------------------
InMutex == {"link", "count", "unlock"}

TypeOK ==
  /\ queue \in Seq(0..VALUES-1)
  /\ count \in Int
  /\ spaces \in 0..MAX_COUNT
  /\ items \in 0..MAX_COUNT
  /\ queue_mutex \in {0, 1}
  /\ pc \in [Threads -> InMutex \cup {"call", "wait", "lock", "post",
                                      "aborted"}]
  /\ num \in [Writers -> 0..VALUES-1]

\* queue_mutex works as a mutex although it is a semaphore that anyone may
\* post: at most one thread is between lines 79 and 99, or 111 and 121.
MutexInv ==
  /\ \A t, u \in Threads : pc[t] \in InMutex /\ pc[u] \in InMutex => t = u
  /\ queue_mutex = 0 <=> \E t \in Threads : pc[t] \in InMutex

\* Writers that have a space and have not filled it, and readers that have
\* emptied one and have not given it back.
Reserved == {w \in Writers : pc[w] \in {"lock", "link"}}
            \cup {r \in Readers : pc[r] \in {"count", "unlock", "post"}}

\* Readers that have an item and have not taken it, and writers that have
\* added one and have not announced it.
Owed == {r \in Readers : pc[r] \in {"lock", "link"}}
        \cup {w \in Writers : pc[w] \in {"count", "unlock", "post"}}

\* The two semaphores, with the calls in progress, always account for every
\* place in the list.
SpacesInv == spaces + Cardinality(Reserved) = MAX_COUNT - Len(queue)
ItemsInv == items + Cardinality(Owed) = Len(queue)

\* q->count tells the length of the list except between lines 94 and 97, or
\* 118 and 119.
CountInv ==
  /\ \A t \in Threads : pc[t] = "count" =>
       Len(queue) = count + (IF t \in Writers THEN 1 ELSE -1)
  /\ (\A t \in Threads : pc[t] # "count") => Len(queue) = count

\* The assertions of queue-semaphores.c:76 and :108 hold although they read
\* q->count outside the mutex.
AssertsHold == 0 <= count /\ count <= MAX_COUNT

\* queue_get never takes a node off an empty list (line 115 would follow a
\* null pointer): whoever got past semaphore_items finds a node.
NeverTakesFromEmpty ==
  \A r \in Readers : pc[r] = "link" => queue # <<>>

IInv == TypeOK /\ MutexInv /\ SpacesInv /\ ItemsInv /\ CountInv

\* Some thread can always take its next step: whatever the numbers of readers
\* and writers, they never all wait on the three semaphores.
CanStep(t) ==
  CASE pc[t] = "wait" -> IF t \in Writers THEN spaces > 0 ELSE items > 0
    [] pc[t] = "lock" -> queue_mutex > 0
    [] OTHER -> pc[t] # "aborted"
NeverStuck == \E t \in Threads : CanStep(t)

\* Values keep going in and coming out, whichever threads the semaphores
\* favour.
ValuesFlow ==
  /\ []<>(\E w \in Writers : pc[w] = "post")
  /\ []<>(\E r \in Readers : pc[r] = "post")

\* The queue is a bounded FIFO.
Fifo == INSTANCE FifoQueue WITH Values <- 0..VALUES-1
FifoSpec == Fifo!Spec
=============================================================================
