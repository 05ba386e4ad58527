--------------------------- MODULE CondQueueProof ---------------------------
(***************************************************************************)
(* The blocking queue for every number of readers and writers and every    *)
(* capacity: IInv is inductive, the queue is a bounded FIFO, and with no   *)
(* more threads than twice the capacity the single condition variable      *)
(* cannot leave all of them asleep.                                        *)
(***************************************************************************)
EXTENDS CondQueue, FiniteSetTheorems, TLAPS

\* The invariant holds when queue_init has returned.
LEMMA InitIInv == Init => IInv
  BY CondQueueAssumption
  DEF Init, IInv, TypeOK, MutexInv, CountInv, RoomInv, NeverGivesUp, Holding,
      Threads

\* Two threads past pthread_mutex_lock are one thread.
LEMMA OneHolder ==
  ASSUME IInv, NEW t \in Threads, NEW u \in Threads,
         pc[t] \in Holding, pc[u] \in Holding
  PROVE  t = u
  BY DEF IInv, MutexInv

\* No step of queue_add or queue_get, and no wake-up, breaks it.
LEMMA NextIInv == IInv /\ [Next]_vars => IInv'
<1> SUFFICES ASSUME IInv, [Next]_vars PROVE IInv'
  OBVIOUS
<1> USE CondQueueAssumption
    DEF IInv, TypeOK, MutexInv, CountInv, RoomInv, NeverGivesUp, Holding,
        Threads
<1>1. ASSUME NEW t \in Threads, Lock(t) PROVE IInv'
  BY <1>1 DEF Lock, Goto, Free
<1>2. ASSUME NEW t \in Threads, Wait(t) PROVE IInv'
  BY <1>2 DEF Wait, Goto
<1>3. ASSUME NEW t \in Threads, LeaveLoop(t) PROVE IInv'
  BY <1>3 DEF LeaveLoop, Goto, Blocked, Full
<1>4. ASSUME NEW t \in Threads, Recheck(t) PROVE IInv'
  BY <1>4 DEF Recheck, Goto, Blocked, Full
<1>5. ASSUME NEW t \in Threads, Link(t) PROVE IInv'
  <2>1. pc[t] = "link" /\ mutex = t /\ mutex # NoThread
    BY <1>5 DEF Link, Goto
  <2>2. \A u \in Threads : pc[u] \in Holding => u = t
    BY <2>1
  <2>3. pc' = [pc EXCEPT ![t] = "count"] /\ UNCHANGED <<count, mutex>>
    BY <1>5 DEF Link, Goto
  <2>4. t \in Writers <=> t \notin Readers
    OBVIOUS
  <2>5. Len(queue) = count
    BY <2>1
  <2>6. CASE t \in Writers
    <3>1. /\ queue' \in Seq(0..VALUES-1) /\ Len(queue') = Len(queue) + 1
          /\ got' = got
      <4>1. num[t] \in 0..VALUES-1
        OBVIOUS
      <4>2. queue' = Append(queue, num[t]) /\ got' = got
        BY <1>5, <2>6 DEF Link, Enqueue
      <4>3. QED
        BY <4>1, <4>2
    <3>2. TypeOK'
      BY <1>5, <2>3, <3>1 DEF Link
    <3>3. MutexInv'
      BY <2>1, <2>3
    <3>4. CountInv'
      BY <2>1, <2>3, <2>5, <2>6, <3>1
    <3>5. RoomInv'
      BY <2>1, <2>3, <2>4, <2>6
    <3>6. NeverGivesUp'
      BY <2>3
    <3>7. QED
      BY <3>2, <3>3, <3>4, <3>5, <3>6
  <2>7. CASE t \in Readers
    <3>1. count > 0 /\ t \notin Writers
      BY <2>1, <2>7
    <3>2. queue # <<>>
      BY <2>5, <3>1
    <3>3. /\ queue' = Tail(queue) /\ got' = [got EXCEPT ![t] = Head(queue)]
          /\ UNCHANGED <<num, spurious>>
      BY <1>5, <3>1 DEF Link
    <3>4. /\ Tail(queue) \in Seq(0..VALUES-1)
          /\ Len(Tail(queue)) = Len(queue) - 1
          /\ Head(queue) \in 0..VALUES-1
      BY <3>2
    <3>5. TypeOK'
      BY <2>3, <3>3, <3>4
    <3>6. MutexInv'
      BY <2>1, <2>3
    <3>7. CountInv'
      BY <2>1, <2>3, <2>5, <3>1, <3>3, <3>4
    <3>8. RoomInv'
      BY <2>1, <2>3, <2>4, <2>7
    <3>9. NeverGivesUp'
      BY <2>3
    <3>10. QED
      BY <3>5, <3>6, <3>7, <3>8, <3>9
  <2>8. QED
    BY <2>6, <2>7
<1>6. ASSUME NEW t \in Threads, Count(t) PROVE IInv'
  BY <1>6 DEF Count, Goto
<1>7. ASSUME NEW t \in Threads, Signal(t) PROVE IInv'
  BY <1>7 DEF Signal, Asleep
<1>8. ASSUME NEW t \in Threads, Unlock(t) PROVE IInv'
  BY <1>8 DEF Unlock, Goto
<1>9. ASSUME NEW t \in Threads, SpuriousWakeup(t) PROVE IInv'
  BY <1>9 DEF SpuriousWakeup, Goto
<1>10. CASE UNCHANGED vars
  BY <1>10 DEF vars
<1>11. QED
  BY <1>1, <1>2, <1>3, <1>4, <1>5, <1>6, <1>7, <1>8, <1>9, <1>10
  DEF Next, Thread

\* So it holds in every reachable state of the queue.
LEMMA SpecIInv == Spec => []IInv
  BY InitIInv, NextIInv, PTL DEF Spec

\* Every variable keeps its type; count in particular stays in 0..MAX_COUNT.
THEOREM CondTypeCorrect == Spec => []TypeOK
  BY SpecIInv, PTL DEF IInv

\* The branches of queue_add and queue_get that unlock a mutex the thread does
\* not hold are never taken.
THEOREM CondNeverGivesUp == Spec => []NeverGivesUp
  BY SpecIInv, PTL DEF IInv

\* The list holds at most MAX_COUNT nodes and is not empty where queue_get
\* dereferences its first node.
THEOREM CondWithinCapacity == Spec => []WithinCapacity
<1>1. IInv => WithinCapacity
  <2> SUFFICES ASSUME IInv PROVE WithinCapacity
    OBVIOUS
  <2> USE CondQueueAssumption
      DEF IInv, TypeOK, MutexInv, CountInv, RoomInv, Holding, Threads
  <2>1. Len(queue) <= MAX_COUNT
    <3>1. CASE mutex = NoThread
      BY <3>1
    <3>2. CASE mutex # NoThread /\ pc[mutex] # "count"
      BY <3>2
    <3>3. CASE mutex # NoThread /\ pc[mutex] = "count"
      <4>1. mutex \in Threads
        BY <3>3
      <4>2. CASE mutex \in Writers
        BY <3>3, <4>2
      <4>3. CASE mutex \in Readers
        BY <3>3, <4>3
      <4>4. QED
        BY <4>1, <4>2, <4>3
    <3>4. QED
      BY <3>1, <3>2, <3>3
  <2>2. ASSUME NEW r \in Readers, pc[r] = "link" PROVE queue # <<>>
    <3>1. mutex = r /\ mutex # NoThread /\ count > 0
      BY <2>2
    <3>2. Len(queue) > 0
      BY <2>2, <3>1
    <3>3. QED
      BY <3>2
  <2>3. QED
    BY <2>1, <2>2 DEF WithinCapacity
<1>2. QED
  BY <1>1, SpecIInv, PTL
-----------------------------------------------------------------------------
\* Both queues start empty.
LEMMA FifoInit == Init => Fifo!Init
  BY DEF Init, Fifo!Init

\* Only Link touches the list, and it is there that a call takes effect.
LEMMA FifoNext == IInv /\ [Next]_vars => [Fifo!Next]_queue
<1> SUFFICES ASSUME IInv, [Next]_vars PROVE [Fifo!Next]_queue
  OBVIOUS
<1>1. ASSUME NEW t \in Threads, Link(t) PROVE Fifo!Next
  <2> USE CondQueueAssumption
      DEF IInv, TypeOK, MutexInv, CountInv, RoomInv, Holding, Threads
  <2>1. mutex = t /\ mutex # NoThread /\ pc[t] = "link"
    BY <1>1 DEF Link, Goto
  <2>2. Len(queue) = count
    BY <2>1
  <2>3. CASE t \in Writers
    <3>1. num[t] \in 0..VALUES-1
      OBVIOUS
    <3>2. queue' = Append(queue, num[t])
      BY <1>1, <2>3 DEF Link, Enqueue
    <3>3. Len(queue) < MAX_COUNT
      BY <2>1, <2>2, <2>3
    <3>4. QED
      BY <3>1, <3>2, <3>3 DEF Fifo!Next, Fifo!Add
  <2>4. CASE t \in Readers
    <3>1. queue' = Tail(queue)
      BY <1>1, <2>4 DEF Link
    <3>2. queue # <<>>
      BY <2>1, <2>2, <2>4
    <3>3. QED
      BY <3>1, <3>2 DEF Fifo!Next, Fifo!Get
  <2>5. QED
    BY <2>3, <2>4 DEF Threads
<1>2. ASSUME NEW t \in Threads,
             \/ Lock(t) \/ Wait(t) \/ LeaveLoop(t) \/ Recheck(t)
             \/ Count(t) \/ Signal(t) \/ Unlock(t) \/ SpuriousWakeup(t)
      PROVE UNCHANGED queue
  BY <1>2
  DEF Lock, Wait, LeaveLoop, Recheck, Count, Signal, Unlock, SpuriousWakeup
<1>3. CASE UNCHANGED vars
  BY <1>3 DEF vars
<1>4. QED
  BY <1>1, <1>2, <1>3 DEF Next, Thread

\* Every behaviour of the blocking queue is one of a bounded FIFO.
THEOREM CondImplementsFifo == Spec => FifoSpec
  BY FifoInit, FifoNext, SpecIInv, PTL DEF Spec, FifoSpec, Fifo!Spec
-----------------------------------------------------------------------------
(* One condition variable is enough for as many threads as twice the      *)
(* capacity, whomever the signals wake.                                    *)

Sleeping(T) == {t \in T : pc[t] = "asleep"}

At(T, place) == \E t \in T : pc[t] = place

\* q->count without the call whose signal is still to come.
Items == IF At(Writers, "signal") THEN count - 1
         ELSE IF At(Readers, "signal") THEN count + 1 ELSE count

\* w of W writers and r of R readers sleep while there are c items.  A writer
\* that is awake can fill the queue and wake others on the way, at worst
\* writers; how many readers may then sleep depends on how many writers there
\* are to be woken.  Likewise for a reader that is awake.
Enough(w, r, c, W, R) ==
  /\ w < W => r < MAX_COUNT \/ w + r < 2 * MAX_COUNT - c
  /\ r < R => w < MAX_COUNT \/ w + r < MAX_COUNT + c
  /\ w = W => r < c
  /\ r = R => w < MAX_COUNT - c
  /\ ~ (w = W /\ r = R)

\* The calls that fall asleep, that wake somebody, and that nobody asked for.
LEMMA EnoughKept ==
  ASSUME NEW W \in Nat \ {0}, NEW R \in Nat \ {0}, W + R <= 2 * MAX_COUNT,
         NEW w \in 0 .. W, NEW r \in 0 .. R, NEW c \in 0 .. MAX_COUNT,
         Enough(w, r, c, W, R)
  PROVE  /\ c = MAX_COUNT /\ w < W => Enough(w + 1, r, c, W, R)
         /\ c = 0 /\ r < R => Enough(w, r + 1, c, W, R)
         /\ c < MAX_COUNT /\ w < W =>
              /\ w = 0 /\ r = 0 => Enough(w, r, c + 1, W, R)
              /\ w > 0 => Enough(w - 1, r, c + 1, W, R)
              /\ r > 0 => Enough(w, r - 1, c + 1, W, R)
         /\ c > 0 /\ r < R =>
              /\ w = 0 /\ r = 0 => Enough(w, r, c - 1, W, R)
              /\ w > 0 => Enough(w - 1, r, c - 1, W, R)
              /\ r > 0 => Enough(w, r - 1, c - 1, W, R)
         /\ w > 0 => Enough(w - 1, r, c, W, R)
         /\ r > 0 => Enough(w, r - 1, c, W, R)
  BY CondQueueAssumption DEF Enough

\* The number of threads of one kind that sleep, and how it can change.
LEMMA Sleepers ==
  ASSUME NEW T, T \subseteq Threads, IsFiniteSet(T)
  PROVE  /\ Cardinality(T) \in Nat /\ (T # {} => Cardinality(T) > 0)
         /\ Cardinality(Sleeping(T)) \in 0 .. Cardinality(T)
         /\ Cardinality(Sleeping(T)) = Cardinality(T) <=> Sleeping(T) = T
         /\ Sleeping(T) = {} => Cardinality(Sleeping(T)) = 0
         /\ Sleeping(T)' = Sleeping(T)
              => Cardinality(Sleeping(T))' = Cardinality(Sleeping(T))
         /\ \A t \in T :
              /\ t \notin Sleeping(T) => Cardinality(Sleeping(T)) < Cardinality(T)
              /\ t \notin Sleeping(T) /\ Sleeping(T)' = Sleeping(T) \cup {t} =>
                   Cardinality(Sleeping(T))' = Cardinality(Sleeping(T)) + 1
              /\ t \in Sleeping(T) /\ Sleeping(T)' = Sleeping(T) \ {t} =>
                   /\ Cardinality(Sleeping(T))' = Cardinality(Sleeping(T)) - 1
                   /\ Cardinality(Sleeping(T)) > 0
<1>1. Sleeping(T) \subseteq T /\ IsFiniteSet(Sleeping(T))
  BY FS_Subset DEF Sleeping
<1>2. /\ Cardinality(T) \in Nat /\ Cardinality(Sleeping(T)) \in Nat
      /\ Cardinality(Sleeping(T)) <= Cardinality(T)
      /\ Cardinality(Sleeping(T)) = Cardinality(T) => Sleeping(T) = T
  BY <1>1, FS_Subset, FS_CardinalityType
<1>3. T # {} => Cardinality(T) > 0
  BY <1>2, FS_EmptySet
<1>4. Sleeping(T) = {} => Cardinality(Sleeping(T)) = 0
  BY FS_EmptySet
<1>5. Sleeping(T)' = Sleeping(T)
        => Cardinality(Sleeping(T))' = Cardinality(Sleeping(T))
  OBVIOUS
<1>6. ASSUME NEW t \in T, t \notin Sleeping(T),
             Sleeping(T)' = Sleeping(T) \cup {t}
      PROVE  Cardinality(Sleeping(T))' = Cardinality(Sleeping(T)) + 1
  <2>1. Cardinality(Sleeping(T) \cup {t}) = Cardinality(Sleeping(T)) + 1
    BY <1>1, <1>6, FS_AddElement
  <2>2. QED
    BY <1>6, <2>1
<1>7. ASSUME NEW t \in T, t \in Sleeping(T), Sleeping(T)' = Sleeping(T) \ {t}
      PROVE  /\ Cardinality(Sleeping(T))' = Cardinality(Sleeping(T)) - 1
             /\ Cardinality(Sleeping(T)) > 0
  <2>1. Cardinality(Sleeping(T) \ {t}) = Cardinality(Sleeping(T)) - 1
    BY <1>1, <1>7, FS_RemoveElement
  <2>2. Cardinality(Sleeping(T)) # 0
    BY <1>1, <1>7, FS_EmptySet
  <2>3. QED
    BY <1>2, <1>7, <2>1, <2>2
<1>8. QED
  BY <1>1, <1>2, <1>3, <1>4, <1>5, <1>6, <1>7

\* The invariant.
AwakeInv ==
  /\ Items \in 0 .. MAX_COUNT
  /\ At(Writers, "signal") => Items < MAX_COUNT
  /\ At(Readers, "signal") => Items > 0
  /\ Enough(Cardinality(Sleeping(Writers)), Cardinality(Sleeping(Readers)),
            Items, Cardinality(Writers), Cardinality(Readers))

Few == /\ IsFiniteSet(Writers) /\ Writers # {}
       /\ IsFiniteSet(Readers) /\ Readers # {}
       /\ Cardinality(Writers) + Cardinality(Readers) <= 2 * MAX_COUNT

\* A step that leaves the sleepers asleep and the items where they are.
LEMMA AwakeKept ==
  ASSUME AwakeInv, Items' = Items,
         \A T \in {Writers, Readers} : Sleeping(T)' = Sleeping(T),
         At(Writers, "signal")' => Items < MAX_COUNT,
         At(Readers, "signal")' => Items > 0
  PROVE  AwakeInv'
<1>1. /\ Cardinality(Sleeping(Writers))' = Cardinality(Sleeping(Writers))
      /\ Cardinality(Sleeping(Readers))' = Cardinality(Sleeping(Readers))
  OBVIOUS
<1>2. QED
  BY <1>1 DEF AwakeInv, Enough

\* No step of a thread or of the kernel breaks the invariant.
LEMMA AwakeNext ==
  ASSUME Few, IInv, AwakeInv, [Next]_vars
  PROVE  AwakeInv'
<1> DEFINE w == Cardinality(Sleeping(Writers))
           r == Cardinality(Sleeping(Readers))
           W == Cardinality(Writers)
           R == Cardinality(Readers)
<1>a. /\ Writers \cap Readers = {} /\ Threads = Writers \cup Readers
      /\ MAX_COUNT \in Nat \ {0} /\ count \in 0 .. MAX_COUNT
      /\ NoThread \notin Threads
      /\ pc \in [Threads -> Holding \cup {"call", "asleep", "woken"}]
      /\ \A t \in Threads : pc[t] \in Holding <=> mutex = t
  BY CondQueueAssumption DEF Threads, IInv, TypeOK, MutexInv
<1>b. /\ w \in 0 .. W /\ r \in 0 .. R /\ W \in Nat \ {0} /\ R \in Nat \ {0}
      /\ W + R <= 2 * MAX_COUNT
      /\ Items \in 0 .. MAX_COUNT /\ Enough(w, r, Items, W, R)
  BY <1>a, Sleepers DEF Few, AwakeInv
<1>1. ASSUME NEW t \in Threads, NEW from, NEW to, Goto(t, from, to),
             count' = count, from \notin {"asleep", "signal"},
             to \notin {"asleep", "signal"}
      PROVE  AwakeInv'
  <2>1. /\ \A u \in Threads : pc[u] \in {"asleep", "signal"} \/
                              pc'[u] \in {"asleep", "signal"} => pc'[u] = pc[u]
        /\ Writers \subseteq Threads /\ Readers \subseteq Threads
    BY <1>1, <1>a DEF Goto
  <2>2. \A T \in {Writers, Readers} :
          /\ Sleeping(T)' = Sleeping(T)
          /\ At(T, "signal")' <=> At(T, "signal")
    BY <2>1 DEF Sleeping, At
  <2>3. Items' = Items
    BY <1>1, <2>2 DEF Items
  <2>4. QED
    BY <2>2, <2>3, AwakeKept DEF AwakeInv
<1>2. ASSUME NEW t \in Threads,
             Lock(t) \/ LeaveLoop(t) \/ Recheck(t) \/ Link(t)
      PROVE  AwakeInv'
  BY <1>1, <1>2 DEF Lock, LeaveLoop, Recheck, Link
<1>3. ASSUME NEW t \in Threads, Unlock(t) PROVE AwakeInv'
  BY <1>1, <1>3 DEF Unlock
<1>4. ASSUME NEW t \in Threads, Count(t) PROVE AwakeInv'
  <2>1. /\ pc[t] = "count" /\ pc' = [pc EXCEPT ![t] = "signal"]
        /\ count' = count + (IF t \in Writers THEN 1 ELSE -1)
    BY <1>4 DEF Count, Goto
  <2>2. \A u \in Threads : pc[u] \in Holding => u = t
    BY <1>a, <2>1 DEF Holding
  <2>3. \A u \in Threads : pc[u] # "signal" /\ (pc'[u] = "signal" <=> u = t)
    BY <1>a, <2>1, <2>2 DEF Holding
  <2>4. \A T \in {Writers, Readers} : Sleeping(T)' = Sleeping(T)
    BY <1>a, <2>1 DEF Sleeping
  <2>5. /\ ~At(Writers, "signal") /\ ~At(Readers, "signal")
        /\ At(Writers, "signal")' <=> t \in Writers
        /\ At(Readers, "signal")' <=> t \in Readers
    BY <1>a, <2>3 DEF At
  <2>6. Items = count /\ Items' = count
    BY <1>a, <2>1, <2>5 DEF Items
  <2>7. /\ t \in Writers => count < MAX_COUNT
        /\ t \in Readers => count > 0
    BY <2>1 DEF IInv, RoomInv
  <2>8. QED
    BY <2>4, <2>5, <2>6, <2>7, AwakeKept
<1>5. ASSUME NEW t \in Threads, Wait(t) PROVE AwakeInv'
  <2>1. /\ pc[t] = "check" /\ pc' = [pc EXCEPT ![t] = "asleep"] /\ count' = count
        /\ t \in Writers => count = MAX_COUNT
        /\ t \in Readers => count = 0
    BY <1>5, <1>a DEF Wait, Goto, Blocked, Full
  <2>2. \A u \in Threads : pc[u] # "signal" /\ pc'[u] # "signal"
    BY <1>a, <2>1 DEF Holding
  <2>3. /\ ~At(Writers, "signal") /\ ~At(Readers, "signal")
        /\ ~At(Writers, "signal")' /\ ~At(Readers, "signal")'
    BY <1>a, <2>2 DEF At
  <2>4. Items = count /\ Items' = count
    BY <2>1, <2>3 DEF Items
  <2>5. /\ t \notin Sleeping(Writers) /\ t \notin Sleeping(Readers)
        /\ t \in Writers => /\ Sleeping(Writers)' = Sleeping(Writers) \cup {t}
                            /\ Sleeping(Readers)' = Sleeping(Readers)
        /\ t \in Readers => /\ Sleeping(Readers)' = Sleeping(Readers) \cup {t}
                            /\ Sleeping(Writers)' = Sleeping(Writers)
    BY <1>a, <2>1 DEF Sleeping
  <2>6. CASE t \in Writers
    <3>1. w' = w + 1 /\ r' = r /\ w < W
      BY <1>a, <2>5, <2>6, Sleepers DEF Few
    <3>2. Enough(w + 1, r, Items, W, R)
      BY <1>b, <2>1, <2>4, <2>6, <3>1, EnoughKept
    <3>3. QED
      BY <1>b, <2>3, <2>4, <3>1, <3>2 DEF AwakeInv, Enough
  <2>7. CASE t \in Readers
    <3>1. r' = r + 1 /\ w' = w /\ r < R
      BY <1>a, <2>5, <2>7, Sleepers DEF Few
    <3>2. Enough(w, r + 1, Items, W, R)
      BY <1>b, <2>1, <2>4, <2>7, <3>1, EnoughKept
    <3>3. QED
      BY <1>b, <2>3, <2>4, <3>1, <3>2 DEF AwakeInv, Enough
  <2>8. QED
    BY <1>a, <2>6, <2>7
<1>6. ASSUME NEW s \in Threads, pc[s] = "asleep",
             \A u \in Threads : pc'[u] = "asleep" <=> pc[u] = "asleep" /\ u # s
      PROVE  \/ w > 0 /\ w' = w - 1 /\ r' = r
             \/ r > 0 /\ r' = r - 1 /\ w' = w
  <2>1. \/ /\ s \in Writers /\ s \in Sleeping(Writers)
           /\ Sleeping(Writers)' = Sleeping(Writers) \ {s}
           /\ Sleeping(Readers)' = Sleeping(Readers)
        \/ /\ s \in Readers /\ s \in Sleeping(Readers)
           /\ Sleeping(Readers)' = Sleeping(Readers) \ {s}
           /\ Sleeping(Writers)' = Sleeping(Writers)
    BY <1>6, <1>a DEF Sleeping
  <2>2. QED
    BY <1>a, <2>1, Sleepers DEF Few
<1>7. ASSUME NEW t \in Threads, Signal(t) PROVE AwakeInv'
  <2>1. /\ pc[t] = "signal" /\ count' = count
        /\ \A u \in Threads : pc'[u] # "signal"
        /\ \/ /\ Asleep = {} /\ \A u \in Threads : pc[u] # "asleep" /\ pc'[u] # "asleep"
           \/ \E s \in Threads :
                /\ pc[s] = "asleep"
                /\ \A u \in Threads :
                     pc'[u] = "asleep" <=> pc[u] = "asleep" /\ u # s
    <3>1. \A u \in Threads : pc[u] = "signal" => u = t
      BY <1>7, <1>a DEF Signal, Holding
    <3>2. CASE Asleep = {}
      BY <1>7, <1>a, <3>1, <3>2 DEF Signal, Asleep
    <3>3. CASE Asleep # {}
      <4>1. PICK s \in Asleep : pc' = [pc EXCEPT ![t] = "unlock", ![s] = "woken"]
        BY <1>7, <3>3 DEF Signal
      <4>2. s \in Threads /\ pc[s] = "asleep" /\ s # t
        BY <1>7 DEF Asleep, Signal
      <4>3. QED
        BY <1>7, <1>a, <3>1, <4>1, <4>2 DEF Signal
    <3>4. QED
      BY <3>2, <3>3
  <2>2. ~At(Writers, "signal")' /\ ~At(Readers, "signal")' /\ Items' = count
    BY <1>a, <2>1 DEF At, Items
  <2>3. \/ w = 0 /\ r = 0 /\ w' = w /\ r' = r
        \/ w > 0 /\ w' = w - 1 /\ r' = r
        \/ r > 0 /\ r' = r - 1 /\ w' = w
    <3>1. CASE \A u \in Threads : pc[u] # "asleep" /\ pc'[u] # "asleep"
      <4>1. /\ Sleeping(Writers) = {} /\ Sleeping(Readers) = {}
            /\ Sleeping(Writers)' = {} /\ Sleeping(Readers)' = {}
        BY <1>a, <3>1 DEF Sleeping
      <4>2. QED
        BY <1>a, <4>1, Sleepers DEF Few
    <3>2. QED
      BY <1>6, <2>1, <3>1
  <2>4. CASE t \in Writers
    <3>1. /\ At(Writers, "signal") /\ Items = count - 1 /\ Items < MAX_COUNT
          /\ Items' = Items + 1
      BY <1>a, <2>1, <2>2, <2>4 DEF At, Items, AwakeInv
    <3>2. w < W
      BY <1>a, <2>1, <2>4, Sleepers DEF Few, Sleeping
    <3>3. Enough(w', r', Items + 1, W, R)
      BY <1>b, <2>3, <3>1, <3>2, EnoughKept
    <3>4. Enough(w, r, Items, W, R)'
      BY <3>1, <3>3 DEF Enough
    <3>5. Items' \in 0 .. MAX_COUNT
      BY <1>a, <1>b, <3>1
    <3>6. QED
      BY <2>2, <3>4, <3>5 DEF AwakeInv
  <2>5. CASE t \in Readers
    <3>1. /\ ~At(Writers, "signal") /\ At(Readers, "signal")
          /\ Items = count + 1 /\ Items > 0 /\ Items' = Items - 1
      <4>1. \A u \in Threads : pc[u] = "signal" => u = t
        BY <1>a, <2>1 DEF Holding
      <4>2. ~At(Writers, "signal") /\ At(Readers, "signal")
        BY <1>a, <2>1, <2>5, <4>1 DEF At
      <4>3. QED
        BY <1>a, <2>2, <4>2 DEF Items, AwakeInv
    <3>2. r < R
      BY <1>a, <2>1, <2>5, Sleepers DEF Few, Sleeping
    <3>3. Enough(w', r', Items - 1, W, R)
      BY <1>b, <2>3, <3>1, <3>2, EnoughKept
    <3>4. Enough(w, r, Items, W, R)'
      BY <3>1, <3>3 DEF Enough
    <3>5. Items' \in 0 .. MAX_COUNT
      BY <1>a, <1>b, <3>1
    <3>6. QED
      BY <2>2, <3>4, <3>5 DEF AwakeInv
  <2>6. QED
    BY <1>a, <2>4, <2>5
<1>8. ASSUME NEW t \in Threads, SpuriousWakeup(t) PROVE AwakeInv'
  <2>1. /\ pc[t] = "asleep" /\ pc' = [pc EXCEPT ![t] = "woken"] /\ count' = count
    BY <1>8 DEF SpuriousWakeup, Goto
  <2>2. /\ \A u \in Threads : pc'[u] = "asleep" <=> pc[u] = "asleep" /\ u # t
        /\ \A u \in Threads : pc'[u] = "signal" <=> pc[u] = "signal"
    BY <1>a, <2>1
  <2>3. /\ At(Writers, "signal")' <=> At(Writers, "signal")
        /\ At(Readers, "signal")' <=> At(Readers, "signal")
    BY <1>a, <2>2 DEF At
  <2>4. Items' = Items
    BY <2>1, <2>3 DEF Items
  <2>5. \/ w > 0 /\ w' = w - 1 /\ r' = r
        \/ r > 0 /\ r' = r - 1 /\ w' = w
    BY <1>6, <2>1, <2>2
  <2>6. Enough(w', r', Items, W, R)
    BY <1>b, <2>5, EnoughKept
  <2>7. QED
    BY <1>b, <2>3, <2>4, <2>6 DEF AwakeInv, Enough
<1>9. CASE UNCHANGED vars
  <2>1. /\ \A T \in {Writers, Readers} : Sleeping(T)' = Sleeping(T)
        /\ At(Writers, "signal")' = At(Writers, "signal")
        /\ At(Readers, "signal")' = At(Readers, "signal")
    BY <1>9 DEF vars, Sleeping, At
  <2>2. Items' = Items
    BY <1>9, <2>1 DEF Items, vars
  <2>3. QED
    BY <2>1, <2>2, AwakeKept DEF AwakeInv
<1>10. QED
  BY <1>2, <1>3, <1>4, <1>5, <1>7, <1>8, <1>9 DEF Next, Thread

\* For any capacity and any threads, at least one of each kind and together no
\* more than twice the capacity: they are never all asleep in
\* pthread_cond_wait, although one condition variable serves both sides and a
\* signal may wake the wrong one (queue-mutex-signal.c:98, 127, 140 and 159).
THEOREM FewNeverStuck ==
  ASSUME Few
  PROVE  Spec => []SomeoneAwake
<1>a. /\ Cardinality(Writers) \in Nat \ {0} /\ Cardinality(Readers) \in Nat \ {0}
      /\ Writers \subseteq Threads /\ Readers \subseteq Threads
  BY Sleepers DEF Few, Threads
<1>1. Init => AwakeInv
  <2> SUFFICES ASSUME Init PROVE AwakeInv
    OBVIOUS
  <2>1. /\ Sleeping(Writers) = {} /\ Sleeping(Readers) = {}
        /\ ~At(Writers, "signal") /\ ~At(Readers, "signal") /\ count = 0
    BY <1>a DEF Init, Sleeping, At
  <2>2. Cardinality(Sleeping(Writers)) = 0 /\ Cardinality(Sleeping(Readers)) = 0
    BY <2>1, FS_EmptySet
  <2>3. Items = 0
    BY <2>1 DEF Items
  <2>4. QED
    BY <1>a, <2>1, <2>2, <2>3, CondQueueAssumption DEF AwakeInv, Enough
<1>2. IInv /\ AwakeInv /\ [Next]_vars => AwakeInv'
  BY AwakeNext
<1>3. AwakeInv => SomeoneAwake
  <2> SUFFICES ASSUME AwakeInv, Asleep = Threads PROVE FALSE
    BY DEF SomeoneAwake
  <2>1. Sleeping(Writers) = Writers /\ Sleeping(Readers) = Readers
    BY <1>a DEF Asleep, Sleeping
  <2>2. QED
    BY <2>1 DEF AwakeInv, Enough
<1>4. QED
  BY <1>1, <1>2, <1>3, SpecIInv, PTL DEF Spec

\* In particular with one reader and one writer, which are the threads of
\* queue-threads.c, whatever max_count is.
THEOREM OneToOneNeverStuck ==
  ASSUME NEW w, NEW r, Writers = {w}, Readers = {r}
  PROVE  Spec => []SomeoneAwake
<1>1. /\ IsFiniteSet({w}) /\ Cardinality({w}) = 1
      /\ IsFiniteSet({r}) /\ Cardinality({r}) = 1
  BY FS_Singleton
<1>2. Few
  BY <1>1, CondQueueAssumption DEF Few
<1>3. QED
  BY <1>2, FewNeverStuck
=============================================================================
