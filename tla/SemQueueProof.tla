--------------------------- MODULE SemQueueProof ---------------------------
(***************************************************************************)
(* The semaphore queue for every number of readers and writers and every   *)
(* capacity: the semaphores account for every place in the list, so that   *)
(* no call takes from an empty list, no assertion fails, the threads never *)
(* all wait, and the queue is a bounded FIFO.                              *)
(***************************************************************************)
EXTENDS SemQueue, FiniteSetTheorems, TLAPS

\* Sets of threads are finite, so their sizes are numbers.
LEMMA ThreadsFinite ==
  \A S \in SUBSET Threads : IsFiniteSet(S) /\ Cardinality(S) \in Nat
<1>1. IsFiniteSet(Threads)
  BY SemQueueAssumption, FS_Union DEF Threads
<1>2. QED
  BY <1>1, FS_Subset, FS_CardinalityType

\* The two sets behind the accounting are finite sets of threads.
LEMMA AccountFinite ==
  /\ IsFiniteSet(Reserved) /\ Cardinality(Reserved) \in Nat
  /\ IsFiniteSet(Owed) /\ Cardinality(Owed) \in Nat
<1>1. Reserved \in SUBSET Threads /\ Owed \in SUBSET Threads
  BY DEF Reserved, Owed, Threads
<1>2. QED
  BY <1>1, ThreadsFinite

\* The invariant holds when queue_init has returned.
LEMMA InitIInv == Init => IInv
<1> SUFFICES ASSUME Init PROVE IInv
  OBVIOUS
<1> USE SemQueueAssumption DEF Init
<1>1. Reserved = {} /\ Owed = {}
  BY DEF Reserved, Owed, Threads
<1>2. Cardinality(Reserved) = 0 /\ Cardinality(Owed) = 0
  BY <1>1, FS_EmptySet
<1>3. TypeOK /\ MutexInv /\ CountInv
  BY DEF TypeOK, MutexInv, CountInv, InMutex, Threads
<1>4. SpacesInv /\ ItemsInv
  BY <1>2 DEF SpacesInv, ItemsInv
<1>5. QED
  BY <1>3, <1>4 DEF IInv

\* The places in its call where a thread counts as Reserved or as Owed.
ReservedAt(t) ==
  IF t \in Writers THEN {"lock", "link"} ELSE {"count", "unlock", "post"}
OwedAt(t) ==
  IF t \in Writers THEN {"count", "unlock", "post"} ELSE {"lock", "link"}
One(b) == IF b THEN 1 ELSE 0

\* The size of a set of threads after one joins or leaves it.
LEMMA AddOrRemove ==
  ASSUME NEW S, IsFiniteSet(S), NEW t
  PROVE  /\ Cardinality(S \cup {t}) = Cardinality(S) + 1 - One(t \in S)
         /\ Cardinality(S \ {t}) = Cardinality(S) - One(t \in S)
<1>1. Cardinality(S) \in Nat
  BY FS_CardinalityType
<1>2. Cardinality(S \cup {t}) = IF t \in S THEN Cardinality(S)
                               ELSE Cardinality(S) + 1
  BY FS_AddElement
<1>3. Cardinality(S \ {t}) = IF t \in S THEN Cardinality(S) - 1
                             ELSE Cardinality(S)
  BY FS_RemoveElement
<1>4. QED
  BY <1>1, <1>2, <1>3 DEF One

\* What one step of a thread does to the two sets: they gain or lose it.
LEMMA Move ==
  ASSUME TypeOK, NEW t \in Threads, NEW to, pc' = [pc EXCEPT ![t] = to]
  PROVE  /\ Cardinality(Reserved)' = Cardinality(Reserved)
              + One(to \in ReservedAt(t)) - One(pc[t] \in ReservedAt(t))
         /\ Cardinality(Owed)' = Cardinality(Owed)
              + One(to \in OwedAt(t)) - One(pc[t] \in OwedAt(t))
         /\ Cardinality(Reserved)' \in Nat
         /\ Cardinality(Owed)' \in Nat
<1>1. \A u \in Threads : pc'[u] = IF u = t THEN to ELSE pc[u]
  BY DEF TypeOK
<1>2. Writers \cap Readers = {} /\ t \in Writers \cup Readers
  BY SemQueueAssumption DEF Threads
<1>3. /\ t \in Reserved <=> pc[t] \in ReservedAt(t)
      /\ t \in Owed <=> pc[t] \in OwedAt(t)
  BY <1>2 DEF Reserved, Owed, ReservedAt, OwedAt
<1>4. Reserved' = IF to \in ReservedAt(t) THEN Reserved \cup {t}
                  ELSE Reserved \ {t}
  BY <1>1, <1>2 DEF Reserved, ReservedAt, Threads
<1>5. Owed' = IF to \in OwedAt(t) THEN Owed \cup {t} ELSE Owed \ {t}
  BY <1>1, <1>2 DEF Owed, OwedAt, Threads
<1>6. /\ Cardinality(Reserved \cup {t})
            = Cardinality(Reserved) + 1 - One(t \in Reserved)
      /\ Cardinality(Reserved \ {t})
            = Cardinality(Reserved) - One(t \in Reserved)
      /\ Cardinality(Owed \cup {t})
            = Cardinality(Owed) + 1 - One(t \in Owed)
      /\ Cardinality(Owed \ {t}) = Cardinality(Owed) - One(t \in Owed)
  BY AccountFinite, AddOrRemove
<1>7. Cardinality(Reserved)' = Cardinality(Reserved)
              + One(to \in ReservedAt(t)) - One(pc[t] \in ReservedAt(t))
  BY <1>3, <1>4, <1>6, AccountFinite DEF One
<1>8. Cardinality(Owed)' = Cardinality(Owed)
              + One(to \in OwedAt(t)) - One(pc[t] \in OwedAt(t))
  BY <1>3, <1>5, <1>6, AccountFinite DEF One
<1>9. Reserved' \in SUBSET Threads /\ Owed' \in SUBSET Threads
  BY <1>2, <1>4, <1>5 DEF Reserved, Owed, Threads
<1>10. QED
  BY <1>7, <1>8, <1>9, ThreadsFinite

\* A thread that holds a place or an item keeps the sets from being empty.
LEMMA Claims ==
  /\ \A t \in Threads : pc[t] \in ReservedAt(t) => Cardinality(Reserved) > 0
  /\ \A t \in Threads : pc[t] \in OwedAt(t) => Cardinality(Owed) > 0
<1>1. SUFFICES ASSUME NEW t \in Threads
      PROVE /\ pc[t] \in ReservedAt(t) => t \in Reserved
            /\ pc[t] \in OwedAt(t) => t \in Owed
  BY AccountFinite, FS_EmptySet
<1>2. QED
  BY SemQueueAssumption DEF Reserved, Owed, ReservedAt, OwedAt, Threads
\* How each step of a call changes the two cardinalities.
LEMMA WaitMoves ==
  ASSUME TypeOK, NEW t \in Threads, Goto(t, "wait", "lock")
  PROVE  /\ Cardinality(Reserved)' = Cardinality(Reserved)
              + (IF t \in Writers THEN 1 ELSE 0)
         /\ Cardinality(Owed)' = Cardinality(Owed)
              + (IF t \in Writers THEN 0 ELSE 1)
<1>1. pc' = [pc EXCEPT ![t] = "lock"] /\ pc[t] = "wait"
  BY DEF Goto
<1>2. /\ Cardinality(Reserved)' = Cardinality(Reserved)
            + One("lock" \in ReservedAt(t)) - One(pc[t] \in ReservedAt(t))
      /\ Cardinality(Owed)' = Cardinality(Owed)
            + One("lock" \in OwedAt(t)) - One(pc[t] \in OwedAt(t))
      /\ Cardinality(Reserved)' \in Nat /\ Cardinality(Owed)' \in Nat
  BY <1>1, Move
<1>3. QED
  BY <1>1, <1>2, AccountFinite DEF ReservedAt, OwedAt, One

\* Linking a node turns the place a writer has reserved into an item it owes,
\* and unlinking one an item into a place.
LEMMA LinkMoves ==
  ASSUME TypeOK, NEW t \in Threads, Goto(t, "link", "count")
  PROVE  /\ Cardinality(Reserved)' = Cardinality(Reserved)
              + (IF t \in Writers THEN -1 ELSE 1)
         /\ Cardinality(Owed)' = Cardinality(Owed)
              + (IF t \in Writers THEN 1 ELSE -1)
<1>1. pc' = [pc EXCEPT ![t] = "count"] /\ pc[t] = "link"
  BY DEF Goto
<1>2. /\ Cardinality(Reserved)' = Cardinality(Reserved)
            + One("count" \in ReservedAt(t)) - One(pc[t] \in ReservedAt(t))
      /\ Cardinality(Owed)' = Cardinality(Owed)
            + One("count" \in OwedAt(t)) - One(pc[t] \in OwedAt(t))
      /\ Cardinality(Reserved)' \in Nat /\ Cardinality(Owed)' \in Nat
  BY <1>1, Move
<1>3. QED
  BY <1>1, <1>2, AccountFinite DEF ReservedAt, OwedAt, One

\* A post takes the call out of the accounts.
LEMMA PostMoves ==
  ASSUME TypeOK, NEW t \in Threads, Goto(t, "post", "call")
  PROVE  /\ Cardinality(Reserved)' = Cardinality(Reserved)
              - (IF t \in Writers THEN 0 ELSE 1)
         /\ Cardinality(Owed)' = Cardinality(Owed)
              - (IF t \in Writers THEN 1 ELSE 0)
         /\ Cardinality(Reserved)' \in Nat /\ Cardinality(Owed)' \in Nat
<1>1. pc' = [pc EXCEPT ![t] = "call"] /\ pc[t] = "post"
  BY DEF Goto
<1>2. /\ Cardinality(Reserved)' = Cardinality(Reserved)
            + One("call" \in ReservedAt(t)) - One(pc[t] \in ReservedAt(t))
      /\ Cardinality(Owed)' = Cardinality(Owed)
            + One("call" \in OwedAt(t)) - One(pc[t] \in OwedAt(t))
      /\ Cardinality(Reserved)' \in Nat /\ Cardinality(Owed)' \in Nat
  BY <1>1, Move
<1>3. QED
  BY <1>1, <1>2, AccountFinite DEF ReservedAt, OwedAt, One

\* The other steps of a call leave both accounts alone.
LEMMA OtherMoves ==
  ASSUME TypeOK, NEW t \in Threads, NEW from, NEW to, Goto(t, from, to),
         <<from, to>> \in {<<"call", "wait">>, <<"call", "aborted">>,
                          <<"lock", "link">>, <<"count", "unlock">>,
                          <<"unlock", "post">>}
  PROVE  /\ Cardinality(Reserved)' = Cardinality(Reserved)
         /\ Cardinality(Owed)' = Cardinality(Owed)
<1>1. pc' = [pc EXCEPT ![t] = to] /\ pc[t] = from
  BY DEF Goto
<1>2. /\ to \in ReservedAt(t) <=> pc[t] \in ReservedAt(t)
      /\ to \in OwedAt(t) <=> pc[t] \in OwedAt(t)
  BY <1>1 DEF ReservedAt, OwedAt
<1>3. /\ Cardinality(Reserved)' = Cardinality(Reserved)
            + One(to \in ReservedAt(t)) - One(pc[t] \in ReservedAt(t))
      /\ Cardinality(Owed)' = Cardinality(Owed)
            + One(to \in OwedAt(t)) - One(pc[t] \in OwedAt(t))
  BY <1>1, Move
<1>4. QED
  BY <1>2, <1>3, AccountFinite DEF One
-----------------------------------------------------------------------------
\* No step of queue_add or queue_get breaks the invariant.
LEMMA NextIInv == IInv /\ [Next]_vars => IInv'
<1> SUFFICES ASSUME IInv, [Next]_vars PROVE IInv'
  OBVIOUS
<1>0. /\ TypeOK /\ Writers \cap Readers = {} /\ MAX_COUNT \in Nat \ {0}
      /\ VALUES \in Nat \ {0}
      /\ Cardinality(Reserved) \in Nat /\ Cardinality(Owed) \in Nat
  BY AccountFinite, SemQueueAssumption DEF IInv
<1> USE <1>0 DEF IInv, TypeOK, MutexInv, SpacesInv, ItemsInv, CountInv, InMutex
<1>1. ASSUME NEW t \in Threads, Assert(t) PROVE IInv'
  <2> DEFINE to == IF IF t \in Writers THEN count <= MAX_COUNT ELSE count >= 0
                   THEN "wait" ELSE "aborted"
  <2>1. /\ pc[t] = "call" /\ pc' = [pc EXCEPT ![t] = to]
        /\ UNCHANGED <<queue, count, spaces, items, queue_mutex, num>>
    BY <1>1 DEF Assert, Goto
  <2>2. to \in {"wait", "aborted"}
    OBVIOUS
  <2> HIDE DEF to
  <2>3. /\ Cardinality(Reserved)' = Cardinality(Reserved)
        /\ Cardinality(Owed)' = Cardinality(Owed)
    <3> HIDE DEF IInv, TypeOK
    <3>1. Goto(t, "call", to)
      BY <2>1 DEF Goto
    <3>2. QED
      BY <1>0, <2>2, <3>1, OtherMoves
  <2>4. QED
    BY <2>1, <2>2, <2>3
<1>2. ASSUME NEW t \in Threads, Wait(t) PROVE IInv'
  <2>1. /\ pc[t] = "wait" /\ pc' = [pc EXCEPT ![t] = "lock"]
        /\ UNCHANGED <<queue, count, queue_mutex, num>>
    BY <1>2 DEF Wait, Goto
  <2>2. CASE t \in Writers
    <3>1. /\ spaces > 0 /\ spaces' = spaces - 1 /\ items' = items
      BY <1>2, <2>2 DEF Wait
    <3>2. /\ Cardinality(Reserved)' = Cardinality(Reserved) + 1
          /\ Cardinality(Owed)' = Cardinality(Owed)
      BY <2>2, <1>0, <1>2, WaitMoves DEF Wait
    <3>3. QED
      BY <2>1, <3>1, <3>2
  <2>3. CASE t \notin Writers
    <3>1. /\ items > 0 /\ items' = items - 1 /\ spaces' = spaces
      BY <1>2, <2>3 DEF Wait
    <3>2. /\ Cardinality(Owed)' = Cardinality(Owed) + 1
          /\ Cardinality(Reserved)' = Cardinality(Reserved)
      BY <2>3, <1>0, <1>2, WaitMoves DEF Wait
    <3>3. QED
      BY <2>1, <3>1, <3>2
  <2>4. QED
    BY <2>2, <2>3
<1>3. ASSUME NEW t \in Threads, LockMutex(t) PROVE IInv'
  <2>1. /\ pc[t] = "lock" /\ pc' = [pc EXCEPT ![t] = "link"]
        /\ queue_mutex = 1 /\ queue_mutex' = 0
        /\ UNCHANGED <<queue, count, spaces, items, num>>
    BY <1>3 DEF LockMutex, Goto
  <2>2. /\ Cardinality(Reserved)' = Cardinality(Reserved)
        /\ Cardinality(Owed)' = Cardinality(Owed)
    BY <1>0, <1>3, OtherMoves DEF LockMutex
  <2>3. QED
    BY <2>1, <2>2
<1>4. ASSUME NEW t \in Threads, Link(t) PROVE IInv'
  <2>1. /\ pc[t] = "link" /\ pc' = [pc EXCEPT ![t] = "count"]
        /\ UNCHANGED <<count, spaces, items, queue_mutex, num>>
    BY <1>4 DEF Link, Goto
  <2>2. /\ queue_mutex = 0 /\ Len(queue) = count
        /\ \A u \in Threads : pc[u] \in InMutex => u = t
    BY <2>1
  <2>3. CASE t \in Writers
    <3>1. num[t] \in 0..VALUES-1 /\ queue' = Append(queue, num[t])
      BY <1>4, <2>3 DEF Link, Enqueue
    <3>2. queue' \in Seq(0..VALUES-1) /\ Len(queue') = Len(queue) + 1
      BY <3>1
    <3>3. /\ Cardinality(Reserved)' = Cardinality(Reserved) - 1
          /\ Cardinality(Owed)' = Cardinality(Owed) + 1
      BY <2>3, <1>0, <1>4, LinkMoves DEF Link
    <3>4. TypeOK' /\ MutexInv'
      BY <2>1, <2>2, <3>2
    <3>5. SpacesInv' /\ ItemsInv'
      <4>1. /\ spaces + Cardinality(Reserved) = MAX_COUNT - Len(queue)
            /\ items + Cardinality(Owed) = Len(queue)
            /\ spaces \in Int /\ items \in Int /\ Len(queue) \in Int
            /\ spaces' = spaces /\ items' = items
        BY <2>1
      <4>2. Len(queue') = Len(queue) + 1
        BY <3>2
      <4> HIDE <1>0 DEF IInv, TypeOK, MutexInv, CountInv
      <4>3. ItemsInv'
        BY <3>3, <4>1, <4>2, AccountFinite
      <4>4. SpacesInv'
        BY <3>3, <4>1, <4>2, AccountFinite, SemQueueAssumption
      <4>5. QED
        BY <4>3, <4>4
    <3>6. CountInv'
      BY <2>1, <2>2, <2>3, <3>2
    <3>7. QED
      BY <3>4, <3>5, <3>6
  <2>4. CASE t \notin Writers
    <3>1. Cardinality(Owed) > 0
      BY <2>1, <2>4, Claims DEF OwedAt
    <3>2. queue # <<>>
      BY <3>1
    <3>3. queue' = Tail(queue)
      BY <1>4, <2>4 DEF Link
    <3>4. queue' \in Seq(0..VALUES-1) /\ Len(queue') = Len(queue) - 1
      BY <3>2, <3>3
    <3>5. /\ Cardinality(Reserved)' = Cardinality(Reserved) + 1
          /\ Cardinality(Owed)' = Cardinality(Owed) - 1
      BY <2>4, <1>0, <1>4, LinkMoves DEF Link
    <3>6. TypeOK' /\ MutexInv'
      BY <2>1, <2>2, <3>4
    <3>7. SpacesInv' /\ ItemsInv'
      <4>1. /\ spaces + Cardinality(Reserved) = MAX_COUNT - Len(queue)
            /\ items + Cardinality(Owed) = Len(queue)
            /\ spaces \in Int /\ items \in Int /\ Len(queue) \in Int
            /\ spaces' = spaces /\ items' = items
        BY <2>1
      <4>2. Len(queue') = Len(queue) - 1
        BY <3>4
      <4> HIDE <1>0 DEF IInv, TypeOK, MutexInv, CountInv
      <4>3. ItemsInv'
        BY <3>5, <4>1, <4>2, AccountFinite
      <4>4. SpacesInv'
        BY <3>5, <4>1, <4>2, AccountFinite, SemQueueAssumption
      <4>5. QED
        BY <4>3, <4>4
    <3>8. CountInv'
      BY <2>1, <2>2, <2>4, <3>4
    <3>9. QED
      BY <3>6, <3>7, <3>8
  <2>5. QED
    BY <2>3, <2>4
<1>5. ASSUME NEW t \in Threads, Count(t) PROVE IInv'
  <2>1. /\ pc[t] = "count" /\ pc' = [pc EXCEPT ![t] = "unlock"]
        /\ count' = count + (IF t \in Writers THEN 1 ELSE -1)
        /\ UNCHANGED <<queue, spaces, items, queue_mutex, num>>
    BY <1>5 DEF Count, Goto
  <2>2. /\ Cardinality(Reserved)' = Cardinality(Reserved)
        /\ Cardinality(Owed)' = Cardinality(Owed)
    BY <1>0, <1>5, OtherMoves DEF Count
  <2>3. QED
    BY <2>1, <2>2
<1>6. ASSUME NEW t \in Threads, UnlockMutex(t) PROVE IInv'
  <2>1. /\ pc[t] = "unlock" /\ pc' = [pc EXCEPT ![t] = "post"]
        /\ queue_mutex' = queue_mutex + 1
        /\ UNCHANGED <<queue, count, spaces, items, num>>
    BY <1>6 DEF UnlockMutex, Goto
  <2>2. /\ Cardinality(Reserved)' = Cardinality(Reserved)
        /\ Cardinality(Owed)' = Cardinality(Owed)
    BY <1>0, <1>6, OtherMoves DEF UnlockMutex
  <2>3. queue_mutex = 0 /\ \A u \in Threads : pc[u] \in InMutex => u = t
    BY <2>1
  <2>4. TypeOK' /\ MutexInv'
    BY <2>1, <2>3
  <2>5. SpacesInv' /\ ItemsInv'
    BY <2>1, <2>2
  <2>6. CountInv'
    BY <2>1
  <2>7. QED
    BY <2>4, <2>5, <2>6
<1>7. ASSUME NEW t \in Threads, Post(t) PROVE IInv'
  <2>1. /\ pc[t] = "post" /\ pc' = [pc EXCEPT ![t] = "call"]
        /\ UNCHANGED <<queue, count, queue_mutex>>
    BY <1>7 DEF Post, Goto
  <2>2. MutexInv' /\ CountInv'
    BY <2>1
  <2>3. items + Cardinality(Owed) + spaces + Cardinality(Reserved) = MAX_COUNT
    OBVIOUS
  <2>4. CASE t \in Writers
    <3>1. items' = items + 1 /\ spaces' = spaces
      BY <1>7, <2>4 DEF Post
    <3>2. num' \in [Writers -> 0..VALUES-1]
      <4>1. num' = [num EXCEPT ![t] = (num[t] + 1) % VALUES]
        BY <1>7, <2>4 DEF Post
      <4>2. (num[t] + 1) % VALUES \in 0..VALUES-1
        BY <2>4
      <4>3. QED
        BY <4>1, <4>2
    <3>3. /\ Cardinality(Owed)' = Cardinality(Owed) - 1
          /\ Cardinality(Owed)' \in Nat
          /\ Cardinality(Reserved)' = Cardinality(Reserved)
      BY <2>4, <1>0, <1>7, PostMoves DEF Post
    <3>4. SpacesInv' /\ ItemsInv'
      BY <2>1, <3>1, <3>3
    <3>5. items' \in 0..MAX_COUNT
      BY <2>3, <3>1, <3>3
    <3>6. TypeOK'
      BY <2>1, <3>1, <3>2, <3>5
    <3>7. QED
      BY <2>2, <3>4, <3>6
  <2>5. CASE t \notin Writers
    <3>1. /\ spaces' = spaces + 1 /\ UNCHANGED <<items, num>>
      BY <1>7, <2>5 DEF Post
    <3>2. /\ Cardinality(Reserved)' = Cardinality(Reserved) - 1
          /\ Cardinality(Reserved)' \in Nat
          /\ Cardinality(Owed)' = Cardinality(Owed)
      BY <2>5, <1>0, <1>7, PostMoves DEF Post
    <3>3. SpacesInv' /\ ItemsInv'
      BY <2>1, <3>1, <3>2
    <3>4. spaces' \in 0..MAX_COUNT
      BY <2>3, <3>1, <3>2
    <3>5. TypeOK'
      BY <2>1, <3>1, <3>4
    <3>6. QED
      BY <2>2, <3>3, <3>5
  <2>6. QED
    BY <2>4, <2>5
<1>8. CASE UNCHANGED vars
  <2>1. Reserved' = Reserved /\ Owed' = Owed
    BY <1>8 DEF vars, Reserved, Owed
  <2>2. QED
    BY <1>8, <2>1 DEF vars
<1>9. QED
  BY <1>1, <1>2, <1>3, <1>4, <1>5, <1>6, <1>7, <1>8 DEF Next, Thread

\* So it holds in every reachable state of the queue.
LEMMA SpecIInv == Spec => []IInv
  BY InitIInv, NextIInv, PTL DEF Spec
-----------------------------------------------------------------------------
\* Every variable keeps its type; the semaphores stay in 0..MAX_COUNT.
THEOREM SemTypeCorrect == Spec => []TypeOK
  BY SpecIInv, PTL DEF IInv

\* Where q->count can be, given the accounting and who is between lines.
LEMMA CountBounds == IInv => AssertsHold
<1> SUFFICES ASSUME IInv PROVE AssertsHold
  OBVIOUS
<1>1. /\ Len(queue) \in Nat /\ count \in Int /\ MAX_COUNT \in Nat
      /\ spaces \in Nat /\ items \in Nat
      /\ Cardinality(Reserved) \in Nat /\ Cardinality(Owed) \in Nat
      /\ spaces + Cardinality(Reserved) = MAX_COUNT - Len(queue)
      /\ items + Cardinality(Owed) = Len(queue)
  BY AccountFinite, SemQueueAssumption DEF IInv, TypeOK, SpacesInv, ItemsInv
<1>2. CASE \A t \in Threads : pc[t] # "count"
  BY <1>1, <1>2 DEF IInv, CountInv, AssertsHold
<1>3. ASSUME NEW t \in Threads, pc[t] = "count" PROVE AssertsHold
  <2>1. Len(queue) = count + (IF t \in Writers THEN 1 ELSE -1)
    BY <1>3 DEF IInv, CountInv
  <2>2. CASE t \in Writers
    <3>1. Cardinality(Owed) > 0
      BY <1>3, <2>2, Claims DEF OwedAt
    <3>2. QED
      BY <1>1, <2>1, <2>2, <3>1 DEF AssertsHold
  <2>3. CASE t \notin Writers
    <3>1. Cardinality(Reserved) > 0
      BY <1>3, <2>3, Claims DEF ReservedAt
    <3>2. QED
      BY <1>1, <2>1, <2>3, <3>1 DEF AssertsHold
  <2>4. QED
    BY <2>2, <2>3
<1>4. QED
  BY <1>2, <1>3

\* The assertions of queue_add and queue_get never fail, although they read
\* the counter while other threads are changing it.
THEOREM SemAssertsHold == Spec => []AssertsHold
  BY CountBounds, SpecIInv, PTL

\* A reader that has passed semaphore_items finds a node to take.
LEMMA ReaderFindsNode == IInv => NeverTakesFromEmpty
<1> SUFFICES ASSUME IInv, NEW r \in Readers, pc[r] = "link" PROVE queue # <<>>
  BY DEF NeverTakesFromEmpty
<1>1. r \in Threads /\ r \notin Writers
  BY SemQueueAssumption DEF Threads
<1>2. Cardinality(Owed) > 0
  BY <1>1, Claims DEF OwedAt
<1>3. Len(queue) > 0
  BY <1>2, AccountFinite DEF IInv, TypeOK, ItemsInv
<1>4. QED
  BY <1>3

\* queue_get finds a node whenever semaphore_items let it through.
THEOREM SemNeverTakesFromEmpty == Spec => []NeverTakesFromEmpty
  BY ReaderFindsNode, SpecIInv, PTL

\* No call runs into a failed assertion.
NoneAborted == \A t \in Threads : pc[t] # "aborted"

\* If every thread waited for a space or an item there would be neither a
\* space nor an item nor a thread that holds one: the list would have to be
\* both full and empty.
LEMMA SomeoneCanStep == IInv /\ NoneAborted => NeverStuck
<1> SUFFICES ASSUME IInv, NoneAborted, \A t \in Threads : ~CanStep(t)
             PROVE  FALSE
  BY DEF NeverStuck
<1>1. \A t \in Threads : pc[t] \in {"wait", "lock"}
  BY DEF CanStep, NoneAborted
<1>2. queue_mutex = 1
  BY <1>1 DEF IInv, TypeOK, MutexInv, InMutex
<1>3. \A t \in Threads : pc[t] = "wait"
  BY <1>1, <1>2 DEF CanStep
<1>4. Reserved = {} /\ Owed = {}
  BY <1>3 DEF Reserved, Owed, Threads
<1>5. Cardinality(Reserved) = 0 /\ Cardinality(Owed) = 0
  BY <1>4, FS_EmptySet
<1>6. spaces + items = MAX_COUNT
  BY <1>5, SemQueueAssumption DEF IInv, TypeOK, SpacesInv, ItemsInv
<1>7. PICK w \in Writers, r \in Readers : TRUE
  BY SemQueueAssumption
<1>8. ~(spaces > 0) /\ ~(items > 0)
  <2>1. w \in Threads /\ r \in Threads /\ r \notin Writers
    BY SemQueueAssumption DEF Threads
  <2>2. ~CanStep(w) /\ ~CanStep(r) /\ pc[w] = "wait" /\ pc[r] = "wait"
    BY <1>3, <2>1
  <2>3. QED
    BY <2>1, <2>2 DEF CanStep
<1>9. QED
  BY <1>6, <1>8, SemQueueAssumption DEF IInv, TypeOK

\* As long as the asserts of queue_add and queue_get hold nobody aborts.
LEMMA NoneAbortedInv ==
  NoneAborted /\ IInv /\ AssertsHold /\ [Next]_vars => NoneAborted'
<1> SUFFICES ASSUME NoneAborted, IInv, AssertsHold, [Next]_vars
             PROVE  NoneAborted'
  OBVIOUS
<1>1. ASSUME NEW t \in Threads, NEW from, NEW to, to # "aborted",
             Goto(t, from, to)
      PROVE  NoneAborted'
  BY <1>1 DEF Goto, NoneAborted, IInv, TypeOK
<1>2. ASSUME NEW t \in Threads, Assert(t) PROVE NoneAborted'
  <2>1. Goto(t, "call", "wait")
    BY <1>2 DEF Assert, AssertsHold, Goto
  <2>2. QED
    BY <1>1, <2>1
<1>3. ASSUME NEW t \in Threads,
             \/ Wait(t) \/ LockMutex(t) \/ Link(t) \/ Count(t)
             \/ UnlockMutex(t) \/ Post(t)
      PROVE  NoneAborted'
  BY <1>1, <1>3 DEF Wait, LockMutex, Link, Count, UnlockMutex, Post
<1>4. CASE UNCHANGED vars
  BY <1>4 DEF vars, NoneAborted
<1>5. QED
  BY <1>2, <1>3, <1>4 DEF Next, Thread

\* Whatever the numbers of readers and writers and the capacity, the threads
\* never all wait on the semaphores.
THEOREM SemNeverStuck == Spec => []NeverStuck
<1>1. Init => NoneAborted
  BY DEF Init, NoneAborted
<1>2. QED
  BY <1>1, SomeoneCanStep, NoneAbortedInv, CountBounds, SpecIInv, PTL DEF Spec
-----------------------------------------------------------------------------
\* Both queues start empty.
LEMMA FifoInit == Init => Fifo!Init
  BY DEF Init, Fifo!Init

\* Each step of queue_add or queue_get adds, takes or changes no value.
LEMMA FifoNext == IInv /\ [Next]_vars => [Fifo!Next]_queue
<1> SUFFICES ASSUME IInv, [Next]_vars PROVE [Fifo!Next]_queue
  OBVIOUS
<1>1. ASSUME NEW t \in Threads, Link(t) PROVE Fifo!Next
  <2>1. pc[t] = "link"
    BY <1>1 DEF Link, Goto
  <2>2. CASE t \in Writers
    <3>1. num[t] \in 0..VALUES-1 /\ queue' = Append(queue, num[t])
      BY <1>1, <2>2 DEF Link, Enqueue, IInv, TypeOK
    <3>2. Cardinality(Reserved) > 0
      BY <2>1, <2>2, Claims DEF ReservedAt
    <3>3. Len(queue) < MAX_COUNT
      BY <3>2, AccountFinite, SemQueueAssumption
      DEF IInv, TypeOK, SpacesInv
    <3>4. QED
      BY <3>1, <3>3 DEF Fifo!Next, Fifo!Add
  <2>3. CASE t \notin Writers
    <3>1. queue' = Tail(queue)
      BY <1>1, <2>3 DEF Link
    <3>2. queue # <<>>
      BY <2>1, <2>3, ReaderFindsNode DEF NeverTakesFromEmpty, Threads
    <3>3. QED
      BY <3>1, <3>2 DEF Fifo!Next, Fifo!Get
  <2>4. QED
    BY <2>2, <2>3
<1>2. ASSUME NEW t \in Threads,
             \/ Assert(t) \/ Wait(t) \/ LockMutex(t) \/ Count(t)
             \/ UnlockMutex(t) \/ Post(t)
      PROVE  UNCHANGED queue
  BY <1>2 DEF Assert, Wait, LockMutex, Count, UnlockMutex, Post
<1>3. CASE UNCHANGED vars
  BY <1>3 DEF vars
<1>4. QED
  BY <1>1, <1>2, <1>3 DEF Next, Thread

\* Every behaviour of the semaphore queue is one of a bounded FIFO.
THEOREM SemImplementsFifo == Spec => FifoSpec
  BY FifoInit, FifoNext, SpecIInv, PTL DEF Spec, FifoSpec, Fifo!Spec
=============================================================================
