------------------------------ MODULE Storage ------------------------------
(***************************************************************************)
(* The list of sync/good_job/mutex.c and spinlock.c: threads that swap     *)
(* neighbouring nodes under the locks of three of them, and threads that   *)
(* count pairs under the locks of two.  Everyone walks the list without a  *)
(* lock.  A step is one access to a pointer that another thread may be     *)
(* changing, or the taking of a lock with the reads it protects.           *)
(***************************************************************************)
EXTENDS Integers, FiniteSets

CONSTANTS
  Swappers,  \* threads that run swapNodes...
  Counters,  \* threads that run find...LengthStrings
  Kind,      \* which of the three functions each thread runs
  NoThread,  \* nobody holds a node's lock
  VALUES,    \* the number of nodes
  Lengths    \* the strlen of each node's value, in the initial order

Threads == Swappers \cup Counters
Nodes == 1..VALUES
Null == 0

ASSUME StorageAssumption ==
  /\ Swappers \cap Counters = {} /\ NoThread \notin Threads
  /\ Kind \in [Threads -> {"increase", "decrease", "equal"}]
  /\ VALUES \in Nat /\ VALUES > 4
  /\ Lengths \in [Nodes -> Nat]

VARIABLES
  next,    \* node->next
  holder,  \* the thread that has node->sync, or NoThread
  pc,      \* what each thread does next
  local,   \* the local variables of each thread's loop body
  stray    \* a thread has released a lock it did not hold

vars == <<next, holder, pc, local, stray>>

\* The locals before the first assignment to each.
Fresh == [current |-> Null, n |-> 0, count |-> 0,
          temp1 |-> Null, temp2 |-> Null, temp3 |-> Null]

\* initStorage; storage->first is node 1 for good.
first == 1
Init ==
  /\ next = [i \in Nodes |-> IF i < VALUES THEN i + 1 ELSE Null]
  /\ holder = [i \in Nodes |-> NoThread]
  /\ pc = [t \in Threads |-> "start"]
  /\ local = [t \in Threads |-> Fresh]
  /\ stray = FALSE

\* Thread t goes on to "to" with locals l, which are gone when the loop body
\* starts anew.
Goto(t, from, to, l) ==
  /\ pc[t] = from
  /\ pc' = [pc EXCEPT ![t] = to]
  /\ local' = [local EXCEPT ![t] = IF to = "start" THEN Fresh ELSE l]

\* BUG (mutant): <= and >= for < and >.
Compares_OrEqual(t, a, b) ==
  CASE Kind[t] = "increase" -> Lengths[a] <= Lengths[b]
    [] Kind[t] = "decrease" -> Lengths[a] >= Lengths[b]
    [] Kind[t] = "equal"    -> Lengths[a] = Lengths[b]

\* The comparison that each function makes of the lengths at nodes a and b.
Compares(t, a, b) ==
  CASE Kind[t] = "increase" -> Lengths[a] < Lengths[b]
    [] Kind[t] = "decrease" -> Lengths[a] > Lengths[b]
    [] Kind[t] = "equal"    -> Lengths[a] = Lengths[b]

\* rand() % (VALUES - 4)
Random == 0 .. VALUES - 5

\* pthread_mutex_lock of node p.  The address is computed from pointers of
\* nodes that t has locked already, so it is the same when t gets the lock.
LockNode(t, p) ==
  /\ holder[p] = NoThread
  /\ holder' = [holder EXCEPT ![p] = t]

\* pthread_mutex_unlock of the nodes in P; a normal mutex does not check who
\* releases it.
UnlockNodes(t, P) ==
  /\ holder' = [p \in Nodes |-> IF p \in P THEN NoThread ELSE holder[p]]
  /\ stray' = (stray \/ \E p \in P : holder[p] # t)

\* A null pointer is followed: the program dies of a segmentation fault.
Fault(t) ==
  Goto(t, pc[t], "fault", local[t]) /\ UNCHANGED <<next, holder, stray>>
-----------------------------------------------------------------------------
(* swapNodesIncrease, swapNodesDecrease and swapNodesEqual.                *)

\* The head of the do loop: this is the node to swap after, or walk on.
Arrived(l) == IF l.count = l.n THEN "lock1" ELSE "walk"

\* The endless loop: pick a target and go to the first node.
Start(s) ==
  \E c \in Random :
    LET l == [Fresh EXCEPT !.current = first, !.count = c] IN
    Goto(s, "start", Arrived(l), l) /\ UNCHANGED <<next, holder, stray>>

\* current = current->next; n++; current != NULL.  An n of VALUES stands for
\* every larger one: none of them is a target.
Walk(s) ==
  LET p == next[local[s].current] IN
  /\ Goto(s, "walk", IF p = Null THEN "start" ELSE "test",
          [local[s] EXCEPT !.current = p, !.n = IF @ < VALUES THEN @ + 1 ELSE @])
  /\ UNCHANGED <<next, holder, stray>>

\* current->next != NULL
TestNext(s) ==
  /\ Goto(s, "test", IF next[local[s].current] = Null THEN "start" ELSE "read",
          local[s])
  /\ UNCHANGED <<next, holder, stray>>

\* current->next is read a second time, to be followed ...
ReadNext(s) ==
  /\ pc[s] = "read"
  /\ LET p == next[local[s].current] IN
     IF p = Null THEN Fault(s)
     ELSE /\ Goto(s, "read", "test2", [local[s] EXCEPT !.temp1 = p])
          /\ UNCHANGED <<next, holder, stray>>

\* ... and current->next->next != NULL.
TestNextNext(s) ==
  LET l == [local[s] EXCEPT !.temp1 = Null] IN
  /\ Goto(s, "test2",
          IF next[local[s].temp1] = Null THEN "start" ELSE Arrived(l), l)
  /\ UNCHANGED <<next, holder, stray>>

Lock1(s) ==
  /\ Goto(s, "lock1", "lock2", local[s])
  /\ LockNode(s, local[s].current)
  /\ UNCHANGED <<next, stray>>

\* BUG (mutant): the second node is not locked.
Lock2_Skipped(s) ==
  Goto(s, "lock2", "lock3", local[s]) /\ UNCHANGED <<next, holder, stray>>

Lock2(s) ==
  /\ pc[s] = "lock2"
  /\ LET p == next[local[s].current] IN
     IF p = Null THEN Fault(s)
     ELSE /\ Goto(s, "lock2", "lock3", local[s])
          /\ LockNode(s, p)
          /\ UNCHANGED <<next, stray>>

\* The third lock, then the reads of temp1, temp2 and temp3 and the
\* comparison, under the three locks.
Lock3(s) ==
  /\ pc[s] = "lock3"
  /\ LET c  == local[s].current
         t1 == next[c]
         t2 == IF t1 = Null THEN Null ELSE next[t1]
     IN  IF t2 = Null THEN Fault(s)
         ELSE /\ Goto(s, "lock3", IF Compares(s, c, t1) THEN "store1" ELSE "unlock",
                      [local[s] EXCEPT !.temp1 = t1, !.temp2 = t2,
                                       !.temp3 = next[t2]])
              /\ LockNode(s, t2)
              /\ UNCHANGED <<next, stray>>

Store(s, from, to, node, value) ==
  /\ Goto(s, from, to, local[s])
  /\ next' = [next EXCEPT ![node] = value]
  /\ UNCHANGED <<holder, stray>>

\* temp0->next = temp2; temp2->next = temp1; temp1->next = temp3
Store1(s) == Store(s, "store1", "store2", local[s].current, local[s].temp2)
Store2(s) == Store(s, "store2", "store3", local[s].temp2, local[s].temp1)

\* BUG (mutant): the last store is lost.
Store3_Lost(s) == Store(s, "store3", "unlock", local[s].temp1,
                        next[local[s].temp1])

Store3(s) == Store(s, "store3", "unlock", local[s].temp1, local[s].temp3)

\* BUG (mutant): temp2 is not unlocked.
Unlock_TwoOfThree(s) ==
  /\ Goto(s, "unlock", "start", local[s])
  /\ UnlockNodes(s, {local[s].current, local[s].temp1})
  /\ UNCHANGED next

\* The three unlocks, and break.
Unlock(s) ==
  /\ Goto(s, "unlock", "start", local[s])
  /\ UnlockNodes(s, {local[s].current, local[s].temp1, local[s].temp2})
  /\ UNCHANGED next

Swapper(s) ==
  \/ Start(s) \/ Walk(s) \/ TestNext(s) \/ ReadNext(s) \/ TestNextNext(s)
  \/ Lock1(s) \/ Lock2(s) \/ Lock3(s)
  \/ Store1(s) \/ Store2(s) \/ Store3(s) \/ Unlock(s)
-----------------------------------------------------------------------------
(* findIncreasing-, findDecreasing- and findEqualLengthStrings.            *)

\* storage->first, and the result starts from nothing; findEqualLengthStrings
\* starts it from a random number (line 160).
CStart(c) ==
  \E k \in (IF Kind[c] = "equal" THEN Random ELSE {0}) :
    /\ Goto(c, "start", "clock1", [Fresh EXCEPT !.current = first, !.count = k])
    /\ UNCHANGED <<next, holder, stray>>

\* BUG (mutant): the first node is not locked.
CLock1_Skipped(c) ==
  Goto(c, "clock1", "clock2", local[c]) /\ UNCHANGED <<next, holder, stray>>

CLock1(c) ==
  /\ Goto(c, "clock1", "clock2", local[c])
  /\ LockNode(c, local[c].current)
  /\ UNCHANGED <<next, stray>>

\* The second lock and the comparison; the result is at most the bound
\* 2 * VALUES.
CLock2(c) ==
  /\ pc[c] = "clock2"
  /\ LET p == next[local[c].current]
         one == IF Compares(c, local[c].current, p) THEN 1 ELSE 0
     IN  IF p = Null THEN Fault(c)
         ELSE /\ Goto(c, "clock2", "cunlock1",
                      [local[c] EXCEPT !.count = IF @ < 2 * VALUES THEN @ + one
                                              ELSE @])
              /\ LockNode(c, p)
              /\ UNCHANGED <<next, stray>>

CUnlock1(c) ==
  /\ Goto(c, "cunlock1", "cunlock2", local[c])
  /\ UnlockNodes(c, {local[c].current})
  /\ UNCHANGED next

\* BUG (mutant): the second node stays locked.
CUnlock2_Forgotten(c) ==
  Goto(c, "cunlock2", "cwalk", local[c]) /\ UNCHANGED <<next, holder, stray>>

\* The second unlock reads current->next again, current being unlocked.
CUnlock2(c) ==
  /\ pc[c] = "cunlock2"
  /\ LET p == next[local[c].current] IN
     IF p = Null THEN Fault(c)
     ELSE /\ Goto(c, "cunlock2", "cwalk", local[c])
          /\ UnlockNodes(c, {p})
          /\ UNCHANGED next

\* current = current->next, and current != NULL.
CWalk(c) ==
  LET p == next[local[c].current] IN
  /\ Goto(c, "cwalk", IF p = Null THEN "report" ELSE "ctest",
          [local[c] EXCEPT !.current = p])
  /\ UNCHANGED <<next, holder, stray>>

\* current->next != NULL
CTest(c) ==
  /\ Goto(c, "ctest",
          IF next[local[c].current] = Null THEN "report" ELSE "clock1", local[c])
  /\ UNCHANGED <<next, holder, stray>>

\* The result is printed.
Report(c) ==
  Goto(c, "report", "start", local[c]) /\ UNCHANGED <<next, holder, stray>>

Counter(c) ==
  \/ CStart(c) \/ CLock1(c) \/ CLock2(c) \/ CUnlock1(c) \/ CUnlock2(c)
  \/ CWalk(c) \/ CTest(c) \/ Report(c)
-----------------------------------------------------------------------------
Dead == \E t \in Threads : pc[t] = "fault"

Next ==
  \/ ~Dead /\ \E s \in Swappers : Swapper(s)
  \/ ~Dead /\ \E c \in Counters : Counter(c)
  \/ Dead /\ UNCHANGED vars

\* The operating system runs every thread that can run; a lock goes to any of
\* the threads that want it.
Fairness == /\ \A s \in Swappers : WF_vars(~Dead /\ Swapper(s))
            /\ \A c \in Counters : WF_vars(~Dead /\ Counter(c))

Spec == Init /\ [][Next]_vars /\ Fairness
-----------------------------------------------------------------------------
TypeOK ==
  /\ next \in [Nodes -> Nodes \cup {Null}]
  /\ holder \in [Nodes -> Threads \cup {NoThread}]
  /\ pc \in [Threads -> {"start", "walk", "test", "read", "test2", "lock1",
                         "lock2", "lock3", "store1", "store2", "store3",
                         "unlock", "clock1", "clock2", "cunlock1", "cunlock2",
                         "cwalk", "ctest", "report", "fault"}]
  /\ local \in [Threads ->
       [current : Nodes \cup {Null}, n : 0..VALUES, count : 0 .. 2 * VALUES,
        temp1 : Nodes \cup {Null}, temp2 : Nodes \cup {Null},
        temp3 : Nodes \cup {Null}]]
  /\ stray \in BOOLEAN

\* A thread between its loop's head and its loop's test is at a node.
AtNode ==
  \A t \in Threads :
    /\ pc[t] \notin {"start", "report", "fault"} => local[t].current \in Nodes
    /\ pc[t] = "test2" => local[t].temp1 \in Nodes

\* The nodes that a thread at each place has locked; a counter at cunlock2 has
\* one, which its variables do not name.
Held(t) ==
  LET c == local[t].current IN
  CASE pc[t] \in {"lock2", "clock2"}    -> {c}
    [] pc[t] \in {"lock3", "cunlock1"}  -> {c, next[c]}
    [] pc[t] \in {"store1", "store2", "store3", "unlock"} ->
         {c, local[t].temp1, local[t].temp2}
    [] OTHER -> {}

HoldInv ==
  \A t \in Threads :
    /\ pc[t] = "cunlock2" =>
         \A p, q \in Nodes : holder[p] = t /\ holder[q] = t => p = q
    /\ pc[t] \notin {"cunlock2", "fault"} =>
         {p \in Nodes : holder[p] = t} = Held(t)

\* Nobody but its swapper changes the nodes of a swap in progress.
SwapInv ==
  \A s \in Swappers :
    LET l == local[s] IN
    /\ pc[s] = "lock3" => next[l.current] # l.current
    /\ pc[s] \in {"store1", "store2", "store3"} =>
         l.current # l.temp1 /\ l.current # l.temp2 /\ l.temp1 # l.temp2
    /\ pc[s] = "store1" => next[l.current] = l.temp1
    /\ pc[s] \in {"store2", "store3"} => next[l.current] = l.temp2
    /\ pc[s] \in {"store1", "store2", "store3"} => next[l.temp1] = l.temp2
    /\ pc[s] \in {"store1", "store2"} => next[l.temp2] = l.temp3
    /\ pc[s] = "store3" => next[l.temp2] = l.temp1

IInv == TypeOK /\ AtNode /\ (stray \/ (HoldInv /\ SwapInv))

\* The list as it is when the swaps in progress have not happened: a node
\* that a thread has locked for a swap is followed by the one it read.
InSwap == {s \in Swappers : pc[s] \in {"store2", "store3"}}
Settled ==
  [p \in Nodes |->
     LET l == local[holder[p]] IN
     IF holder[p] \in InSwap /\ p = l.current THEN l.temp1
     ELSE IF holder[p] \in InSwap /\ p = l.temp2 THEN l.temp3
     ELSE next[p]]

After(p) == IF p = Null THEN Null ELSE Settled[p]

\* Its nodes in order, and what follows the last of them.
Chain ==
  LET f[i \in 1 .. VALUES + 1] == IF i = 1 THEN first ELSE After(f[i - 1])
  IN  [i \in 1 .. VALUES + 1 |-> f[i]]

\* The three stores of a swap (mutex.c:200-202), interleaved with those of
\* other swaps, never lose, repeat or cut off a node, as long as every thread
\* has only released its own locks.
ListIntact ==
  LET chain == Chain IN
  stray \/ /\ \A p \in Nodes : \E i \in Nodes : chain[i] = p
           /\ chain[VALUES + 1] = Null

\* A pair that is compared under two locks is a pair of neighbours: no swap
\* has come between them since the first lock.
PairIsAdjacent ==
  stray \/ \A c \in Counters : pc[c] = "cunlock1" =>
    LET p == Settled[local[c].current] IN
    p = next[local[c].current] /\ p # Null

\* A thread that starts anew has left no lock behind.
NothingLeftLocked ==
  stray \/ \A p \in Nodes : holder[p] # NoThread => pc[holder[p]] # "start"

\* What a counter prints is the number of pairs in the list of the kind its
\* function is named for, which findEqualLengthStrings adds to a random number
\* (line 160).
Pairs(kind) ==
  {i \in 1 .. VALUES - 1 :
     LET a == Lengths[i]
         b == Lengths[i + 1]
     IN  kind = (IF a < b THEN "increase" ELSE IF a > b THEN "decrease"
                 ELSE "equal")}
CountsPairs ==
  \A c \in Counters : pc[c] = "report" =>
    local[c].count - Cardinality(Pairs(Kind[c]))
      \in (IF Kind[c] = "equal" THEN Random ELSE {0})

\* Unless a null pointer is followed, some thread releases the locks of a
\* swap again and again: the threads do not wait for each other in a circle,
\* although the order in which they take the locks changes with the list.
SwapsContinue == <>Dead \/ []<>(\E s \in Swappers : pc[s] = "unlock")

\* Some counter finishes its pass again and again: the counters, which lock
\* along the list too, do not block each other for good.  (A lock need not go
\* to the one that has waited longest: any one of them may be starved.)
PassesContinue == []<>(\E c \in Counters : pc[c] = "report")

\* No thread releases a lock that it does not hold.  True of the counters and
\* of the swappers by themselves; together, line 115 can release the lock of a
\* node that has come after current since line 110 (see the README).
OwnLocksOnly == ~stray

\* The swappers only exchange neighbours.
List == INSTANCE SwapList WITH
  InitialNext <- [i \in Nodes |-> IF i < VALUES THEN i + 1 ELSE Null],
  succ <- Settled
SwapListSpec == List!Spec
=============================================================================
