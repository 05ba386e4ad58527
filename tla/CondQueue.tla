----------------------------- MODULE CondQueue -----------------------------
(***************************************************************************)
(* The blocking queue of sync/ok_job/queue-mutex-signal.c: writers wait    *)
(* while it is full, readers while it is empty, both on the same condition *)
(* variable, and every successful call signals it once.  The list is a     *)
(* sequence here (ListQueue has its pointers); q->count is kept apart from *)
(* it, as in the code, and the code between two calls into pthread is cut  *)
(* where the list and the counter disagree.                                *)
(***************************************************************************)
EXTENDS Integers, FiniteSets, Sequences

CONSTANTS
  Writers, Readers,  \* threads that call queue_add and queue_get for ever
  NoThread,          \* nobody holds the mutex
  MAX_COUNT,         \* the max_count given to queue_init
  VALUES,            \* bound: a writer's counter i wraps at VALUES
  MAX_SPURIOUS       \* bound: spurious wake-ups in one behaviour

ASSUME CondQueueAssumption ==
  /\ Writers \cap Readers = {}
  /\ NoThread \notin Writers \cup Readers
  /\ MAX_COUNT \in Nat \ {0}
  /\ VALUES \in Nat \ {0}
  /\ MAX_SPURIOUS \in Nat

VARIABLES
  queue,      \* the values in the list, oldest first
  count,      \* q->count
  mutex,      \* the thread that holds condition->mutex, or NoThread
  pc,         \* what each thread does next
  num,        \* i of a writer, expected of a reader
  got,        \* the *val a reader was given
  spurious    \* spurious wake-ups so far

vars == <<queue, count, mutex, pc, num, got, spurious>>

Threads == Writers \cup Readers

Init ==
  /\ queue = <<>> /\ count = 0
  /\ mutex = NoThread
  /\ pc = [t \in Threads |-> "call"]
  /\ num = [t \in Threads |-> 0]
  /\ got = [r \in Readers |-> 0]
  /\ spurious = 0

Goto(t, from, to) == pc[t] = from /\ pc' = [pc EXCEPT ![t] = to]

Free == mutex = NoThread

\* pthread_mutex_lock at the start of a call ("call"), or the mutex taken
\* again inside pthread_cond_wait after a wake-up ("woken").
Lock(t) ==
  /\ Free
  /\ mutex' = t
  /\ Goto(t, "call", "check") \/ Goto(t, "woken", "check")
  /\ UNCHANGED <<queue, count, num, got, spurious>>

Full == count = MAX_COUNT

Blocked(t) == IF t \in Writers THEN Full ELSE count = 0

\* pthread_cond_wait: release the mutex and sleep, in one step.
Wait(t) ==
  /\ Blocked(t)
  /\ Goto(t, "check", "asleep")
  /\ mutex' = NoThread
  /\ UNCHANGED <<queue, count, num, got, spurious>>

\* BUG (mutant): a woken thread does not test its condition again.
LeaveLoop_IfNotWhile(t) ==
  /\ \/ ~Blocked(t) /\ Goto(t, "check", "recheck")
     \/ Goto(t, "woken", "recheck")
  /\ mutex \in {t, NoThread}
  /\ mutex' = t
  /\ UNCHANGED <<queue, count, num, got, spurious>>

\* The while loop ends.
LeaveLoop(t) ==
  /\ ~Blocked(t)
  /\ Goto(t, "check", "recheck")
  /\ UNCHANGED <<queue, count, mutex, num, got, spurious>>

\* The second test of the same condition, after the loop: its branch unlocks
\* q->lock, a mutex the thread never took, and returns 0 with
\* condition->mutex still held ("giveup").
Recheck(t) ==
  /\ Goto(t, "recheck", IF Blocked(t) THEN "giveup" ELSE "link")
  /\ UNCHANGED <<queue, count, mutex, num, got, spurious>>

\* BUG (mutant): the new node goes to the front of the list.
Enqueue_Front(v) == queue' = <<v>> \o queue

Enqueue(v) == queue' = Append(queue, v)

\* A new node at the end of the list, or the first node taken off it.
Link(t) ==
  /\ Goto(t, "link", "count")
  /\ IF t \in Writers
     THEN Enqueue(num[t]) /\ UNCHANGED got
     ELSE queue' = Tail(queue) /\ got' = [got EXCEPT ![t] = Head(queue)]
  /\ UNCHANGED <<count, mutex, num, spurious>>

\* q->count++ or q->count--.
Count(t) ==
  /\ Goto(t, "count", "signal")
  /\ count' = count + (IF t \in Writers THEN 1 ELSE -1)
  /\ UNCHANGED <<queue, mutex, num, got, spurious>>

Asleep == {t \in Threads : pc[t] = "asleep"}

\* BUG (mutant): queue_get does not signal.
Signal_WritersOnly(t) ==
  /\ pc[t] = "signal"
  /\ IF t \in Readers \/ Asleep = {}
     THEN pc' = [pc EXCEPT ![t] = "unlock"]
     ELSE \E s \in Asleep : pc' = [pc EXCEPT ![t] = "unlock", ![s] = "woken"]
  /\ UNCHANGED <<queue, count, mutex, num, got, spurious>>

\* pthread_cond_signal: one waiter, of either kind, is woken if there is one.
Signal(t) ==
  /\ pc[t] = "signal"
  /\ IF Asleep = {}
     THEN pc' = [pc EXCEPT ![t] = "unlock"]
     ELSE \E s \in Asleep : pc' = [pc EXCEPT ![t] = "unlock", ![s] = "woken"]
  /\ UNCHANGED <<queue, count, mutex, num, got, spurious>>

\* pthread_mutex_unlock and return 1; a writer then increments i, a reader
\* compares the value with expected and sets expected = val + 1.
Unlock(t) ==
  /\ Goto(t, "unlock", "call")
  /\ mutex' = NoThread
  /\ num' = [num EXCEPT ![t] =
               ((IF t \in Writers THEN num[t] ELSE got[t]) + 1) % VALUES]
  /\ UNCHANGED <<queue, count, got, spurious>>

\* A wake-up nobody asked for, which pthread_cond_wait allows.
SpuriousWakeup(t) ==
  /\ spurious < MAX_SPURIOUS
  /\ spurious' = spurious + 1
  /\ Goto(t, "asleep", "woken")
  /\ UNCHANGED <<queue, count, mutex, num, got>>

Thread(t) == Lock(t) \/ Wait(t) \/ LeaveLoop(t) \/ Recheck(t) \/ Link(t)
             \/ Count(t) \/ Signal(t) \/ Unlock(t)

Next == \E t \in Threads : Thread(t) \/ SpuriousWakeup(t)

\* The operating system runs every thread that can run.  A thread gets the
\* mutex only if it stays free: nothing orders the threads that ask for it.
Fairness == \A t \in Threads : WF_vars(Thread(t))

Spec == Init /\ [][Next]_vars /\ Fairness
-----------------------------------------------------------------------------
Holding == {"check", "recheck", "giveup", "link", "count", "signal", "unlock"}

TypeOK ==
  /\ queue \in Seq(0..VALUES-1)
  /\ count \in 0..MAX_COUNT
  /\ mutex \in Threads \cup {NoThread}
  /\ pc \in [Threads -> Holding \cup {"call", "asleep", "woken"}]
  /\ num \in [Threads -> 0..VALUES-1]
  /\ got \in [Readers -> 0..VALUES-1]
  /\ spurious \in 0..MAX_SPURIOUS

\* The thread past pthread_mutex_lock, and only it, owns condition->mutex.
MutexInv == \A t \in Threads : pc[t] \in Holding <=> mutex = t

\* The length of the list as q->count tells it, given where the owner of the
\* mutex is between the list and the counter.
CountInv ==
  LET Skew(t) == IF pc[t] # "count" THEN 0
                 ELSE IF t \in Writers THEN 1 ELSE -1
  IN  IF mutex = NoThread
      THEN Len(queue) = count
      ELSE Len(queue) = count + Skew(mutex)

\* Past the second test there is room for a writer and a value for a reader.
RoomInv ==
  /\ \A w \in Writers :
       pc[w] \in {"recheck", "link", "count"} => count < MAX_COUNT
  /\ \A r \in Readers : pc[r] \in {"recheck", "link", "count"} => count > 0

\* The "return 0" branches of queue_add and queue_get (queue-mutex-signal.c
\* lines 103-106 and 145-148), which would unlock the wrong mutex and keep
\* the right one, are dead code whatever the wake-ups.
NeverGivesUp == \A t \in Threads : pc[t] # "giveup"

\* No reader takes a node off an empty list (line 152 would follow a null
\* pointer), and no writer overfills it.
WithinCapacity ==
  /\ Len(queue) <= MAX_COUNT
  /\ \A r \in Readers : pc[r] = "link" => queue # <<>>

IInv == TypeOK /\ MutexInv /\ CountInv /\ RoomInv /\ NeverGivesUp

\* Not all threads are waiting for a signal (lines 98 and 140), which no one
\* would then send.
SomeoneAwake == Asleep # Threads

\* Calls of queue_add and of queue_get complete for ever, although the mutex
\* is not fair and a signal (lines 127 and 159) may wake the wrong side: with
\* one reader and one writer, neither starves.
CallsComplete ==
  /\ []<>(\E w \in Writers : pc[w] = "unlock")
  /\ []<>(\E r \in Readers : pc[r] = "unlock")

\* The queue is a bounded FIFO.
Fifo == INSTANCE FifoQueue WITH Values <- 0..VALUES-1
FifoSpec == Fifo!Spec
=============================================================================
