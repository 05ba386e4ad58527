----------------------------- MODULE ListQueue -----------------------------
(***************************************************************************)
(* The linked-list queue of sync/ok_job with the reader and writer threads *)
(* of queue-threads.c.  queue-mutex.c and queue-spinlock.c are the same    *)
(* code around different locks (LOCKED = TRUE); queue.c is that code with  *)
(* no lock at all (LOCKED = FALSE).  Memory accesses of one thread that    *)
(* the other can come between are separate steps.                          *)
(***************************************************************************)
EXTENDS Integers, FiniteSets, Sequences

CONSTANTS
  Writers, Readers,  \* threads that run writer() and reader()
  Nodes,             \* memory for queue nodes; free() makes it reusable
  NULL,              \* the null pointer, and "nobody" for the lock
  MAX_COUNT,         \* the max_count given to queue_init
  VALUES,            \* bound: the writer's counter i wraps at VALUES
  LOCKED             \* whether the variant takes q->lock

ASSUME ListQueueAssumption ==
  /\ Writers \cap Readers = {}
  /\ NULL \notin Nodes \cup Writers \cup Readers
  /\ IsFiniteSet(Nodes)
  /\ MAX_COUNT \in Nat \ {0}
  /\ VALUES \in Nat /\ VALUES > MAX_COUNT + 1
  /\ LOCKED \in BOOLEAN

VARIABLES
  first, last, count,  \* the fields of queue_t
  val, next,           \* the fields of each qnode_t
  live,                \* nodes malloc'ed and not freed
  lock,                \* the thread that holds q->lock, or NULL
  pc,                  \* what each thread does next
  node,                \* each thread's new (writer) or tmp (reader)
  reg,                 \* each thread's loaded count, or first->next
  num,                 \* i of a writer, expected of a reader
  got,                 \* the *val a reader was given
  fault                \* a null or freed node was dereferenced

heap == <<val, next, live>>
fields == <<first, last, count>>
locals == <<node, reg, num, got>>
vars == <<fields, heap, lock, pc, locals, fault>>

Threads == Writers \cup Readers

\* queue_init, and the first round of both threads' loops.
Init ==
  /\ first = NULL /\ last = NULL /\ count = 0
  /\ val = [n \in Nodes |-> 0] /\ next = [n \in Nodes |-> NULL]
  /\ live = {}
  /\ lock = NULL
  /\ pc = [t \in Threads |-> "call"]
  /\ node = [t \in Threads |-> NULL] /\ reg = [t \in Threads |-> 0]
  /\ num = [t \in Threads |-> 0] /\ got = [t \in Readers |-> 0]
  /\ fault = FALSE

Goto(t, from, to) == pc[t] = from /\ pc' = [pc EXCEPT ![t] = to]

\* BUG (mutant): the lock is taken without waiting for it.
Acquire_NoWait(t) == lock' = t

\* pthread_mutex_lock or pthread_spin_lock of q->lock; queue.c has no lock.
Acquire(t) == IF LOCKED THEN lock = NULL /\ lock' = t ELSE UNCHANGED lock

Release == IF LOCKED THEN lock' = NULL ELSE UNCHANGED lock

\* The start of queue_add and of queue_get.
Call(t) ==
  /\ Goto(t, "call", "check")
  /\ Acquire(t)
  /\ UNCHANGED <<fields, heap, locals, fault>>

IsFull == count = MAX_COUNT

\* queue_add of a full queue returns 0 and the writer calls it again.
AddFull(w) ==
  /\ IsFull
  /\ Goto(w, "check", "call")
  /\ Release
  /\ UNCHANGED <<fields, heap, locals, fault>>

\* malloc and initialisation of the new node.
AddNode(w) ==
  /\ ~IsFull
  /\ Goto(w, "check", "test")
  /\ \E n \in Nodes \ live :
       /\ node' = [node EXCEPT ![w] = n]
       /\ live' = live \cup {n}
       /\ val' = [val EXCEPT ![n] = num[w]]
       /\ next' = [next EXCEPT ![n] = NULL]
  /\ UNCHANGED <<fields, lock, reg, num, got, fault>>

\* BUG (mutant): emptiness is judged by q->last, which queue_get leaves behind.
SeesEmpty_ByLast == last = NULL

\* The test !q->first.
SeesEmpty == first = NULL

AddTest(w) ==
  /\ Goto(w, "test", IF SeesEmpty THEN "first" ELSE "append")
  /\ UNCHANGED <<fields, heap, lock, locals, fault>>

\* q->first = q->last = new.
AddFirst(w) ==
  /\ Goto(w, "first", "load")
  /\ first' = node[w] /\ last' = node[w]
  /\ UNCHANGED <<count, heap, lock, locals, fault>>

\* BUG (mutant): q->last is not moved to the appended node.
Advance_Never(w) == UNCHANGED last

Advance(w) == last' = node[w]

\* q->last->next = new; q->last = q->last->next.
AddAppend(w) ==
  /\ Goto(w, "append", "load")
  /\ IF last \in live
     THEN next' = [next EXCEPT ![last] = node[w]] /\ UNCHANGED fault
     ELSE fault' = TRUE /\ UNCHANGED next
  /\ Advance(w)
  /\ UNCHANGED <<first, count, val, live, lock, locals>>

\* queue_get of an empty queue returns 0 and the reader calls it again.
GetEmpty(r) ==
  /\ count = 0
  /\ Goto(r, "check", "call")
  /\ Release
  /\ UNCHANGED <<fields, heap, locals, fault>>

\* tmp = q->first; *val = tmp->val; and the load of q->first->next.
GetNode(r) ==
  /\ count # 0
  /\ Goto(r, "check", "unlink")
  /\ IF first \in live
     THEN /\ node' = [node EXCEPT ![r] = first]
          /\ got' = [got EXCEPT ![r] = val[first]]
          /\ reg' = [reg EXCEPT ![r] = next[first]]
          /\ UNCHANGED fault
     ELSE fault' = TRUE /\ UNCHANGED <<node, got, reg>>
  /\ UNCHANGED <<fields, heap, lock, num>>

\* BUG (mutant): the removed node is not freed.
Freed_Never(n) == {}

Freed(n) == {n}

\* The store to q->first, and free(tmp).
GetUnlink(r) ==
  /\ Goto(r, "unlink", "load")
  /\ first' = reg[r]
  /\ live' = live \ Freed(node[r])
  /\ UNCHANGED <<last, count, val, next, lock, locals, fault>>

\* q->count++ and q->count-- are a load and a store.
CountLoad(t) ==
  /\ Goto(t, "load", "store")
  /\ reg' = [reg EXCEPT ![t] = count]
  /\ UNCHANGED <<fields, heap, lock, node, num, got, fault>>

Delta(t) == IF t \in Writers THEN 1 ELSE -1

CountStore(t) ==
  /\ Goto(t, "store", "return")
  /\ count' = reg[t] + Delta(t)
  /\ UNCHANGED <<first, last, heap, lock, locals, fault>>

\* The unlock and return 1; writer() then does i++, and reader() compares the
\* value with expected and sets expected = val + 1.
Return(t) ==
  /\ Goto(t, "return", "call")
  /\ Release
  /\ num' = [num EXCEPT ![t] =
               ((IF t \in Writers THEN num[t] ELSE got[t]) + 1) % VALUES]
  /\ UNCHANGED <<fields, heap, node, reg, got, fault>>

writer(w) == Call(w) \/ AddFull(w) \/ AddNode(w) \/ AddTest(w) \/ AddFirst(w)
             \/ AddAppend(w) \/ CountLoad(w) \/ CountStore(w) \/ Return(w)

reader(r) == Call(r) \/ GetEmpty(r) \/ GetNode(r) \/ GetUnlink(r)
             \/ CountLoad(r) \/ CountStore(r) \/ Return(r)

\* The process dies with the first fault.
Next ==
  /\ ~fault
  /\ (\E w \in Writers : writer(w)) \/ (\E r \in Readers : reader(r))

Spec == Init /\ [][Next]_vars
-----------------------------------------------------------------------------
\* The pointers one meets from head along link; NULL from the end on.
Walk(head, link) ==
  LET f[i \in 1..Cardinality(Nodes) + 1] ==
        IF i = 1 THEN head ELSE IF f[i-1] = NULL THEN NULL ELSE link[f[i-1]]
  IN  f

NodesFrom(head, link) ==
  LET w == Walk(head, link) IN
  SubSeq(w, 1, Cardinality({i \in DOMAIN w : w[i] # NULL}))

\* The nodes of the list, in order.
NodeSeq == NodesFrom(first, next)

Contents == [i \in DOMAIN NodeSeq |-> val[NodeSeq[i]]]

\* No thread dereferences a null or a freed node: in particular q->last,
\* which queue_get leaves pointing at a freed node (queue-mutex.c:117-119),
\* is only followed when it is the end of the list.
NoFault == ~fault

\* The check queue-threads.c makes of every value it gets (lines 44-46):
\* values come out in the order they went in, none lost and none repeated.
\* It prints "ERROR: get value is %d but expected" otherwise.
ReaderInOrder ==
  \A r \in Readers : pc[r] = "return" => got[r] = num[r]

\* While nobody is inside queue_add or queue_get, q->count is the length of
\* the list, so that the asserts on it (queue-mutex.c:74 and 107) mean
\* something, and q->last is the node queue_add must append to.
FieldsAgree ==
  (\A t \in Threads : pc[t] = "call") =>
    /\ count = Len(NodeSeq)
    /\ NodeSeq # <<>> => last = NodeSeq[Len(NodeSeq)]

\* While nobody is inside queue_add or queue_get, the allocated nodes are
\* those of the list: nothing leaks and nothing in the list is freed.
NoLeak ==
  (\A t \in Threads : pc[t] = "call") =>
    live = {NodeSeq[i] : i \in DOMAIN NodeSeq}

\* The list, read along its pointers, is a bounded FIFO at every step.
Fifo == INSTANCE FifoQueue WITH queue <- Contents, Values <- 0..VALUES-1
FifoSpec == Fifo!Spec
=============================================================================
