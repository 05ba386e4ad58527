---------------------------- MODULE StorageProof ----------------------------
(***************************************************************************)
(* The swapper threads by themselves, and the counter threads by           *)
(* themselves, only release their own locks, whatever the list, and until  *)
(* one of them does otherwise every thread has exactly the locks that its  *)
(* place in the code says.                                                 *)
(***************************************************************************)
EXTENDS RWStorage, FiniteSetTheorems, WellFoundedInduction, TLAPS

Places == {"start", "walk", "test", "read", "test2", "lock1", "lock2", "lock3",
           "store1", "store2", "store3", "unlock", "clock1", "clock2",
           "cunlock1", "cunlock2", "cwalk", "ctest", "report", "fault"}
Locals == [current : Nodes \cup {Null}, n : 0..VALUES, count : 0 .. 2 * VALUES,
           temp1 : Nodes \cup {Null}, temp2 : Nodes \cup {Null},
           temp3 : Nodes \cup {Null}]

\* What one step of a thread needs to keep types and walks in order.
LEMMA GotoType ==
  ASSUME TypeOK, AtNode, NEW t \in Threads, NEW from, NEW to \in Places,
         NEW l \in Locals, Goto(t, from, to, l),
         to \notin {"start", "report", "fault"} => l.current \in Nodes,
         to = "test2" => l.temp1 \in Nodes
  PROVE  /\ pc' \in [Threads -> Places]
         /\ local' \in [Threads -> Locals]
         /\ AtNode'
<1>1. Fresh \in Locals
  BY StorageAssumption DEF Fresh, Locals
<1>2. /\ pc' = [pc EXCEPT ![t] = to]
      /\ local' = [local EXCEPT ![t] = IF to = "start" THEN Fresh ELSE l]
  BY DEF Goto
<1>3. pc \in [Threads -> Places] /\ local \in [Threads -> Locals]
  BY DEF TypeOK, Places, Locals
<1>4. QED
  BY <1>1, <1>2, <1>3 DEF AtNode

\* Taking a lock of a node leaves an owner for each lock.
LEMMA LockType ==
  ASSUME TypeOK, NEW t \in Threads, NEW p \in Nodes, LockNode(t, p)
  PROVE  holder' \in [Nodes -> Threads \cup {NoThread}]
  BY DEF LockNode, TypeOK

\* So does releasing locks, which may show one that was a stranger's.
LEMMA UnlockType ==
  ASSUME TypeOK, NEW t \in Threads, NEW P, UnlockNodes(t, P)
  PROVE  /\ holder' \in [Nodes -> Threads \cup {NoThread}]
         /\ stray' \in BOOLEAN
  BY DEF UnlockNodes, TypeOK

\* Following a null pointer changes no lock and no pointer.
LEMMA FaultType ==
  ASSUME TypeOK, AtNode, NEW t \in Threads, Fault(t)
  PROVE  TypeOK' /\ AtNode'
<1>1. local[t] \in Locals
  BY DEF TypeOK, Locals
<1>2. /\ pc' \in [Threads -> Places] /\ local' \in [Threads -> Locals]
      /\ AtNode'
  BY <1>1, GotoType DEF Fault, Places
<1>3. QED
  BY <1>2 DEF Fault, TypeOK, Places, Locals

\* A step of a swapping thread keeps the types.
LEMMA SwapperType ==
  ASSUME TypeOK, AtNode, NEW s \in Swappers, Swapper(s)
  PROVE  TypeOK' /\ AtNode'
<1> DEFINE Moved == /\ pc' \in [Threads -> Places]
                    /\ local' \in [Threads -> Locals]
                    /\ AtNode'
           Kept == UNCHANGED <<next, holder, stray>>
<1>a. s \in Threads /\ local[s] \in Locals
  BY DEF Threads, TypeOK, Locals
<1>b. VALUES \in Nat /\ VALUES > 4 /\ first \in Nodes
  BY StorageAssumption DEF first, Nodes
<1>c. ASSUME NEW p \in Nodes
      PROVE  next[p] \in Nodes \cup {Null} /\ (next[p] # Null => next[p] \in Nodes)
  BY DEF TypeOK
<1>d. Moved /\ Kept => TypeOK' /\ AtNode'
  BY DEF TypeOK, Places, Locals
<1>1. CASE Start(s)
  <2>1. PICK c \in Random :
          Goto(s, "start", Arrived([Fresh EXCEPT !.current = first, !.count = c]),
               [Fresh EXCEPT !.current = first, !.count = c])
    BY <1>1 DEF Start
  <2> DEFINE l == [Fresh EXCEPT !.current = first, !.count = c]
  <2>2. c \in 0 .. 2 * VALUES
    BY <1>b DEF Random
  <2>3. Fresh \in Locals
    BY <1>b DEF Fresh, Locals
  <2>4. l \in Locals /\ l.current = first
    BY <1>b, <2>2, <2>3 DEF Locals
  <2>5. Arrived(l) \in {"lock1", "walk"}
    BY DEF Arrived
  <2>6. Goto(s, "start", Arrived(l), l)
    BY <2>1
  <2>7. Moved
    <3> HIDE DEF l
    <3>1. QED
      BY <1>a, <1>b, <2>4, <2>5, <2>6, GotoType DEF Places
  <2>8. QED
    BY <1>1, <1>d, <2>7 DEF Start
<1>2. CASE Walk(s)
  <2>1. local[s].current \in Nodes
    BY <1>a, <1>2 DEF Walk, Goto, AtNode
  <2> DEFINE p == next[local[s].current]
             l == [local[s] EXCEPT !.current = p,
                                   !.n = IF @ < VALUES THEN @ + 1 ELSE @]
  <2>2. l \in Locals /\ l.current = p
    <3>1. local[s].n \in 0..VALUES
      BY <1>a DEF Locals
    <3>2. (IF local[s].n < VALUES THEN local[s].n + 1 ELSE local[s].n)
            \in 0..VALUES
      BY <1>b, <3>1
    <3>3. p \in Nodes \cup {Null}
      BY <1>c, <2>1
    <3> HIDE DEF p
    <3>4. QED
      BY <1>a, <3>2, <3>3 DEF Locals
  <2>3. Goto(s, "walk", IF p = Null THEN "start" ELSE "test", l) /\ Kept
    BY <1>2 DEF Walk
  <2>4. p # Null => p \in Nodes
    BY <1>c, <2>1
  <2>5. Moved
    <3> HIDE DEF l, p
    <3>1. QED
      BY <1>a, <2>2, <2>3, <2>4, GotoType DEF Places
  <2>6. QED
    BY <1>d, <2>3, <2>5
<1>3. CASE TestNext(s)
  <2>1. local[s].current \in Nodes
    BY <1>a, <1>3 DEF TestNext, Goto, AtNode
  <2>2. Moved
    BY <1>a, <1>3, <2>1, GotoType DEF TestNext, Places
  <2>3. QED
    BY <1>3, <1>d, <2>2 DEF TestNext
<1>4. CASE ReadNext(s)
  <2>1. local[s].current \in Nodes
    BY <1>a, <1>4 DEF ReadNext, AtNode
  <2> DEFINE p == next[local[s].current]
             l == [local[s] EXCEPT !.temp1 = p]
  <2>2. CASE p = Null
    BY <1>4, <1>a, <2>2, FaultType DEF ReadNext
  <2>3. CASE p # Null
    <3>1. p \in Nodes /\ l \in Locals /\ l.current = local[s].current
          /\ l.temp1 = p
      BY <1>a, <1>c, <2>1, <2>3 DEF Locals
    <3>2. Goto(s, "read", "test2", l) /\ Kept
      BY <1>4, <2>3 DEF ReadNext
    <3>3. Moved
      <4> HIDE DEF l, p
      <4>1. QED
        BY <1>a, <2>1, <3>1, <3>2, GotoType DEF Places
    <3>4. QED
      BY <1>d, <3>2, <3>3
  <2>4. QED
    BY <2>2, <2>3
<1>5. CASE TestNextNext(s)
  <2>1. local[s].current \in Nodes
    BY <1>a, <1>5 DEF TestNextNext, Goto, AtNode
  <2> DEFINE l == [local[s] EXCEPT !.temp1 = Null]
             to == IF next[local[s].temp1] = Null THEN "start" ELSE Arrived(l)
  <2>2. l \in Locals /\ l.current = local[s].current
    BY <1>a DEF Locals
  <2>3. to \in {"start", "lock1", "walk"}
    BY DEF Arrived
  <2>4. Goto(s, "test2", to, l) /\ Kept
    BY <1>5 DEF TestNextNext
  <2>5. Moved
    <3> HIDE DEF l, to
    <3>1. QED
      BY <1>a, <2>1, <2>2, <2>3, <2>4, GotoType DEF Places
  <2>6. QED
    BY <1>d, <2>4, <2>5
<1>6. CASE Lock1(s)
  <2>1. local[s].current \in Nodes
    BY <1>a, <1>6 DEF Lock1, Goto, AtNode
  <2>2. Moved
    BY <1>a, <1>6, <2>1, GotoType DEF Lock1, Places
  <2>3. holder' \in [Nodes -> Threads \cup {NoThread}]
    BY <1>a, <1>6, <2>1, LockType DEF Lock1
  <2>4. QED
    BY <1>6, <2>2, <2>3 DEF Lock1, TypeOK, Places, Locals
<1>7. CASE Lock2(s)
  <2>1. local[s].current \in Nodes
    BY <1>a, <1>7 DEF Lock2, AtNode
  <2>2. CASE next[local[s].current] = Null
    BY <1>7, <1>a, <2>2, FaultType DEF Lock2
  <2>3. CASE next[local[s].current] # Null
    <3>1. /\ Goto(s, "lock2", "lock3", local[s])
          /\ LockNode(s, next[local[s].current]) /\ UNCHANGED <<next, stray>>
      BY <1>7, <2>3 DEF Lock2
    <3>2. Moved
      BY <1>a, <2>1, <3>1, GotoType DEF Places
    <3>3. holder' \in [Nodes -> Threads \cup {NoThread}]
      BY <1>a, <1>c, <2>1, <2>3, <3>1, LockType
    <3>4. QED
      BY <3>1, <3>2, <3>3 DEF TypeOK, Places, Locals
  <2>4. QED
    BY <2>2, <2>3
<1>8. CASE Lock3(s)
  <2>1. local[s].current \in Nodes /\ pc[s] = "lock3"
    BY <1>a, <1>8 DEF Lock3, AtNode
  <2> DEFINE c == local[s].current
             t1 == next[c]
             t2 == IF t1 = Null THEN Null ELSE next[t1]
             l == [local[s] EXCEPT !.temp1 = t1, !.temp2 = t2, !.temp3 = next[t2]]
             to == IF Compares(s, c, t1) THEN "store1" ELSE "unlock"
  <2>2. CASE t2 = Null
    BY <1>8, <1>a, <2>2, FaultType DEF Lock3
  <2>3. CASE t2 # Null
    <3>1. t1 \in Nodes /\ t2 \in Nodes /\ next[t2] \in Nodes \cup {Null}
      BY <1>c, <2>1, <2>3
    <3>2. l \in Locals /\ l.current = c
      BY <1>a, <3>1 DEF Locals
    <3>3. /\ Goto(s, "lock3", to, l) /\ LockNode(s, t2)
          /\ UNCHANGED <<next, stray>>
      BY <1>8, <2>3 DEF Lock3
    <3>4. to \in {"store1", "unlock"}
      OBVIOUS
    <3>5. Moved
      <4> HIDE DEF l, to
      <4>1. QED
        BY <1>a, <2>1, <3>2, <3>3, <3>4, GotoType DEF Places
    <3>6. holder' \in [Nodes -> Threads \cup {NoThread}]
      BY <1>a, <3>1, <3>3, LockType
    <3>7. QED
      BY <3>3, <3>5, <3>6 DEF TypeOK, Places, Locals
  <2>4. QED
    BY <2>2, <2>3
<1>9. ASSUME NEW from, NEW to \in Places \ {"test2"}, NEW node \in Nodes \cup {Null},
             NEW value \in Nodes \cup {Null}, from \notin {"start", "report", "fault"},
             Store(s, from, to, node, value)
      PROVE  TypeOK' /\ AtNode'
  <2>1. local[s].current \in Nodes
    BY <1>a, <1>9 DEF Store, Goto, AtNode
  <2>2. Moved
    BY <1>a, <1>9, <2>1, GotoType DEF Store
  <2>3. next' \in [Nodes -> Nodes \cup {Null}]
    BY <1>9 DEF Store, TypeOK
  <2>4. QED
    BY <1>9, <2>2, <2>3 DEF Store, TypeOK, Places, Locals
<1>10. CASE Store1(s) \/ Store2(s) \/ Store3(s)
  <2>1. /\ local[s].current \in Nodes \cup {Null}
        /\ local[s].temp1 \in Nodes \cup {Null}
        /\ local[s].temp2 \in Nodes \cup {Null}
        /\ local[s].temp3 \in Nodes \cup {Null}
    BY <1>a DEF Locals
  <2>2. QED
    BY <1>9, <1>10, <2>1 DEF Store1, Store2, Store3, Places
<1>11. CASE Unlock(s)
  <2>1. local[s].current \in Nodes
    BY <1>a, <1>11 DEF Unlock, Goto, AtNode
  <2>2. Moved
    BY <1>a, <1>11, <2>1, GotoType DEF Unlock, Places
  <2>3. holder' \in [Nodes -> Threads \cup {NoThread}] /\ stray' \in BOOLEAN
    BY <1>a, <1>11, UnlockType DEF Unlock
  <2>4. QED
    BY <1>11, <2>2, <2>3 DEF Unlock, TypeOK, Places, Locals
<1>12. QED
  BY <1>1, <1>2, <1>3, <1>4, <1>5, <1>6, <1>7, <1>8, <1>10, <1>11 DEF Swapper

\* Counting a pair or not leaves the result in its bounds.
LEMMA Counted ==
  ASSUME NEW l \in Locals, NEW one \in {0, 1}
  PROVE  LET m == [l EXCEPT !.count = IF @ < 2 * VALUES THEN @ + one ELSE @]
         IN  m \in Locals /\ m.current = l.current
<1>1. l.count \in 0 .. 2 * VALUES /\ VALUES \in Nat
  BY StorageAssumption DEF Locals
<1>2. (IF l.count < 2 * VALUES THEN l.count + one ELSE l.count) \in 0 .. 2 * VALUES
  BY <1>1
<1>3. QED
  BY <1>2 DEF Locals

\* A step of a counting thread keeps the types.
LEMMA CounterType ==
  ASSUME TypeOK, AtNode, NEW c \in Counters, Counter(c)
  PROVE  TypeOK' /\ AtNode'
<1> DEFINE Moved == /\ pc' \in [Threads -> Places]
                    /\ local' \in [Threads -> Locals]
                    /\ AtNode'
           Kept == UNCHANGED <<next, holder, stray>>
<1>a. c \in Threads /\ local[c] \in Locals
  BY DEF Threads, TypeOK, Locals
<1>b. VALUES \in Nat /\ VALUES > 4 /\ first \in Nodes
  BY StorageAssumption DEF first, Nodes
<1>c. ASSUME NEW p \in Nodes
      PROVE  next[p] \in Nodes \cup {Null} /\ (next[p] # Null => next[p] \in Nodes)
  BY DEF TypeOK
<1>d. Moved /\ Kept => TypeOK' /\ AtNode'
  BY DEF TypeOK, Places, Locals
<1>1. CASE CStart(c)
  <2>1. PICK k \in (IF Kind[c] = "equal" THEN Random ELSE {0}) :
          Goto(c, "start", "clock1",
               [Fresh EXCEPT !.current = first, !.count = k])
    BY <1>1 DEF CStart
  <2> DEFINE l == [Fresh EXCEPT !.current = first, !.count = k]
  <2>2. k \in 0 .. 2 * VALUES
    BY <1>b DEF Random
  <2>3. Fresh \in Locals
    BY <1>b DEF Fresh, Locals
  <2>4. l \in Locals /\ l.current = first
    BY <1>b, <2>2, <2>3 DEF Locals
  <2>5. Goto(c, "start", "clock1", l)
    BY <2>1
  <2>6. Moved
    <3> HIDE DEF l
    <3>1. QED
      BY <1>a, <1>b, <2>4, <2>5, GotoType DEF Places
  <2>7. QED
    BY <1>1, <1>d, <2>6 DEF CStart
<1>2. CASE CLock1(c)
  <2>1. local[c].current \in Nodes
    BY <1>a, <1>2 DEF CLock1, Goto, AtNode
  <2>2. Moved
    BY <1>a, <1>2, <2>1, GotoType DEF CLock1, Places
  <2>3. holder' \in [Nodes -> Threads \cup {NoThread}]
    BY <1>a, <1>2, <2>1, LockType DEF CLock1
  <2>4. QED
    BY <1>2, <2>2, <2>3 DEF CLock1, TypeOK, Places, Locals
<1>3. CASE CLock2(c)
  <2>1. local[c].current \in Nodes
    BY <1>a, <1>3 DEF CLock2, AtNode
  <2> DEFINE p == next[local[c].current]
             one == IF Compares(c, local[c].current, p) THEN 1 ELSE 0
             l == [local[c] EXCEPT !.count = IF @ < 2 * VALUES THEN @ + one
                                             ELSE @]
  <2>4. one \in {0, 1}
    OBVIOUS
  <2>2. CASE p = Null
    BY <1>3, <1>a, <2>2, FaultType DEF CLock2
  <2>3. CASE p # Null
    <3>1. /\ Goto(c, "clock2", "cunlock1", l)
          /\ LockNode(c, p) /\ UNCHANGED <<next, stray>>
      BY <1>3, <2>3 DEF CLock2
    <3>2. p \in Nodes
      BY <1>c, <2>1, <2>3
    <3>3. l \in Locals /\ l.current = local[c].current
      <4> HIDE DEF one
      <4>1. QED
        BY <1>a, <2>4, Counted
    <3>4. Moved
      <4> HIDE DEF l, p
      <4>1. QED
        BY <1>a, <2>1, <3>1, <3>3, GotoType DEF Places
    <3>5. holder' \in [Nodes -> Threads \cup {NoThread}]
      BY <1>a, <3>1, <3>2, LockType
    <3>6. QED
      BY <3>1, <3>4, <3>5 DEF TypeOK, Places, Locals
  <2>5. QED
    BY <2>2, <2>3
<1>4. CASE CUnlock1(c)
  <2>1. local[c].current \in Nodes
    BY <1>a, <1>4 DEF CUnlock1, Goto, AtNode
  <2>2. Moved
    BY <1>a, <1>4, <2>1, GotoType DEF CUnlock1, Places
  <2>3. holder' \in [Nodes -> Threads \cup {NoThread}] /\ stray' \in BOOLEAN
    BY <1>a, <1>4, UnlockType DEF CUnlock1
  <2>4. QED
    BY <1>4, <2>2, <2>3 DEF CUnlock1, TypeOK, Places, Locals
<1>5. CASE CUnlock2(c)
  <2>1. local[c].current \in Nodes
    BY <1>a, <1>5 DEF CUnlock2, AtNode
  <2>2. CASE next[local[c].current] = Null
    BY <1>5, <1>a, <2>2, FaultType DEF CUnlock2
  <2>3. CASE next[local[c].current] # Null
    <3>1. /\ Goto(c, "cunlock2", "cwalk", local[c])
          /\ UnlockNodes(c, {next[local[c].current]}) /\ UNCHANGED next
      BY <1>5, <2>3 DEF CUnlock2
    <3>2. Moved
      BY <1>a, <2>1, <3>1, GotoType DEF Places
    <3>3. holder' \in [Nodes -> Threads \cup {NoThread}] /\ stray' \in BOOLEAN
      BY <1>a, <3>1, UnlockType
    <3>4. QED
      BY <3>1, <3>2, <3>3 DEF TypeOK, Places, Locals
  <2>4. QED
    BY <2>2, <2>3
<1>6. CASE CWalk(c)
  <2>1. local[c].current \in Nodes
    BY <1>a, <1>6 DEF CWalk, Goto, AtNode
  <2> DEFINE p == next[local[c].current]
             l == [local[c] EXCEPT !.current = p]
  <2>2. p \in Nodes \cup {Null} /\ (p # Null => p \in Nodes)
    BY <1>c, <2>1
  <2>3. l \in Locals /\ l.current = p
    BY <1>a, <2>2 DEF Locals
  <2>4. Goto(c, "cwalk", IF p = Null THEN "report" ELSE "ctest", l) /\ Kept
    BY <1>6 DEF CWalk
  <2>5. Moved
    <3> HIDE DEF l, p
    <3>1. QED
      BY <1>a, <2>2, <2>3, <2>4, GotoType DEF Places
  <2>6. QED
    BY <1>d, <2>4, <2>5
<1>7. CASE CTest(c)
  <2>1. local[c].current \in Nodes
    BY <1>a, <1>7 DEF CTest, Goto, AtNode
  <2>2. Moved
    BY <1>a, <1>7, <2>1, GotoType DEF CTest, Places
  <2>3. QED
    BY <1>7, <1>d, <2>2 DEF CTest
<1>8. CASE Report(c)
  <2>1. Moved
    BY <1>a, <1>8, GotoType DEF Report, Places
  <2>2. QED
    BY <1>8, <1>d, <2>1 DEF Report
<1>9. QED
  BY <1>1, <1>2, <1>3, <1>4, <1>5, <1>6, <1>7, <1>8 DEF Counter
-----------------------------------------------------------------------------
(* Who holds which lock.                                                   *)

HoldOK(t) ==
  /\ pc[t] = "cunlock2" =>
       \A p, q \in Nodes : holder[p] = t /\ holder[q] = t => p = q
  /\ pc[t] \notin {"cunlock2", "fault"} =>
       {p \in Nodes : holder[p] = t} = Held(t)

SwapOK(s) ==
  LET l == local[s] IN
  /\ pc[s] = "lock3" => next[l.current] # l.current
  /\ pc[s] \in {"store1", "store2", "store3"} =>
       l.current # l.temp1 /\ l.current # l.temp2 /\ l.temp1 # l.temp2
  /\ pc[s] = "store1" => next[l.current] = l.temp1
  /\ pc[s] \in {"store2", "store3"} => next[l.current] = l.temp2
  /\ pc[s] \in {"store1", "store2", "store3"} => next[l.temp1] = l.temp2
  /\ pc[s] \in {"store1", "store2"} => next[l.temp2] = l.temp3
  /\ pc[s] = "store3" => next[l.temp2] = l.temp1

\* The threads in T have the locks that their places say, and no swap is
\* disturbed.
Steady(T) == /\ \A t \in T : HoldOK(t)
             /\ \A s \in Swappers : SwapOK(s)

\* The invariant says this of all threads.
LEMMA PerThread ==
  /\ HoldInv /\ SwapInv <=> Steady(Threads)
  /\ HoldInv' /\ SwapInv' <=> Steady(Threads)'
  BY DEF HoldInv, HoldOK, SwapInv, SwapOK, Steady

\* A thread keeps its locks, and what it knows of their nodes, while another
\* one takes or releases locks of its own and writes to nodes of its own.
LEMMA Others ==
  ASSUME NEW u \in Threads, HoldOK(u), u \in Swappers => SwapOK(u),
         pc'[u] = pc[u], local'[u] = local[u],
         \A p \in Nodes : holder'[p] = u <=> holder[p] = u,
         \A p \in Nodes : holder[p] = u => next'[p] = next[p]
  PROVE  HoldOK(u)' /\ (u \in Swappers => SwapOK(u)')
<1>1. {p \in Nodes : holder'[p] = u} = {p \in Nodes : holder[p] = u}
  OBVIOUS
<1>2. pc[u] \in {"lock3", "cunlock1"} =>
        next'[local[u].current] = next[local[u].current]
  BY DEF HoldOK, Held
<1>3. Held(u)' = Held(u)
  BY <1>2 DEF Held
<1>4. HoldOK(u)'
  BY <1>1, <1>3 DEF HoldOK
<1>5. ASSUME pc[u] \in {"store1", "store2", "store3"}
      PROVE  /\ next'[local[u].current] = next[local[u].current]
             /\ next'[local[u].temp1] = next[local[u].temp1]
             /\ next'[local[u].temp2] = next[local[u].temp2]
  BY <1>5 DEF HoldOK, Held
<1>6. ASSUME u \in Swappers PROVE SwapOK(u)'
  BY <1>2, <1>5, <1>6 DEF SwapOK
<1>7. QED
  BY <1>4, <1>6

\* All the swappers, and it may be other threads too.
Some(T) == Swappers \subseteq T /\ T \subseteq Threads

\* Hence a step of t only has to be checked for t.
LEMMA Frame ==
  ASSUME TypeOK, NEW T, Some(T), Steady(T), NEW t \in Threads,
         NEW from, NEW to, NEW l, Goto(t, from, to, l),
         \A u \in Threads \ {t} : \A p \in Nodes :
            /\ holder'[p] = u <=> holder[p] = u
            /\ holder[p] = u => next'[p] = next[p],
         HoldOK(t)', t \in Swappers => SwapOK(t)'
  PROVE  Steady(T)'
<1>1. ASSUME NEW u \in T, u # t
      PROVE  HoldOK(u)' /\ (u \in Swappers => SwapOK(u)')
  <2>1. u \in Threads /\ pc'[u] = pc[u] /\ local'[u] = local[u]
    BY <1>1 DEF Goto, TypeOK, Some
  <2>2. HoldOK(u) /\ (u \in Swappers => SwapOK(u))
    BY DEF Steady
  <2>3. \A p \in Nodes : /\ holder'[p] = u <=> holder[p] = u
                         /\ holder[p] = u => next'[p] = next[p]
    BY <1>1, <2>1
  <2>4. QED
    BY <2>1, <2>2, <2>3, Others
<1>2. \A u \in T : HoldOK(u)' /\ (u \in Swappers => SwapOK(u)')
  BY <1>1
<1>3. QED
  BY <1>2 DEF Steady, Some

Unlocked == {"start", "walk", "test", "read", "test2", "lock1", "clock1",
             "cwalk", "ctest", "report"}

\* A step between places where the thread has no lock.
LEMMA IdleStep ==
  ASSUME TypeOK, NEW T, Some(T), Steady(T), NEW t \in T,
         NEW from \in Unlocked, NEW to \in Unlocked \cup {"fault"}, NEW l,
         Goto(t, from, to, l), UNCHANGED <<next, holder>>
  PROVE  Steady(T)'
<1>1. t \in Threads /\ pc[t] = from /\ pc'[t] = to
  BY DEF Goto, TypeOK, Some
<1>2. HoldOK(t)
  BY DEF Steady
<1>3. HoldOK(t)' /\ SwapOK(t)'
  BY <1>1, <1>2 DEF HoldOK, SwapOK, Held, Unlocked
<1>4. QED
  BY <1>1, <1>3, Frame

\* A thread that follows a null pointer disturbs no other thread.
LEMMA FaultStep ==
  ASSUME TypeOK, NEW T, Some(T), Steady(T), NEW t \in T, Fault(t)
  PROVE  Steady(T)'
<1>1. t \in Threads /\ pc'[t] = "fault" /\ Goto(t, pc[t], "fault", local[t])
  BY DEF Fault, Goto, TypeOK, Some
<1>2. HoldOK(t)' /\ SwapOK(t)'
  BY <1>1 DEF HoldOK, SwapOK
<1>3. QED
  BY <1>1, <1>2, Frame DEF Fault

\* What taking and releasing a lock mean to the other threads.
LEMMA LockStep ==
  ASSUME TypeOK, NEW t \in Threads, NEW p \in Nodes, LockNode(t, p)
  PROVE  /\ {q \in Nodes : holder'[q] = t}
              = {q \in Nodes : holder[q] = t} \cup {p}
         /\ p \notin {q \in Nodes : holder[q] = t}
         /\ \A u \in Threads \ {t} : \A q \in Nodes :
              holder'[q] = u <=> holder[q] = u
  BY StorageAssumption DEF LockNode, TypeOK

\* The locks a thread has after it has released some.
LEMMA UnlockStep ==
  ASSUME TypeOK, NEW t \in Threads, NEW P, UnlockNodes(t, P)
  PROVE  /\ {q \in Nodes : holder'[q] = t}
              = {q \in Nodes : holder[q] = t} \ P
         /\ ~stray' => \A u \in Threads \ {t} : \A q \in Nodes :
              holder'[q] = u <=> holder[q] = u
<1>1. \A q \in Nodes : holder'[q] = IF q \in P THEN NoThread ELSE holder[q]
  BY DEF UnlockNodes
<1>2. NoThread \notin Threads
  BY StorageAssumption
<1>3. {q \in Nodes : holder'[q] = t} = {q \in Nodes : holder[q] = t} \ P
  BY <1>1, <1>2
<1>4. ASSUME ~stray', NEW u \in Threads \ {t}, NEW q \in Nodes
      PROVE  holder'[q] = u <=> holder[q] = u
  <2>1. q \in P => holder[q] = t
    BY <1>4 DEF UnlockNodes
  <2>2. QED
    BY <1>1, <1>2, <2>1
<1>5. QED
  BY <1>3, <1>4

\* A step of a swapping thread keeps the invariant, or is a stray unlock.
LEMMA SwapperHolds ==
  ASSUME TypeOK, AtNode, NEW T, Some(T), Steady(T), NEW s \in Swappers,
         Swapper(s)
  PROVE  stray' \/ Steady(T)'
<1>a. s \in T /\ s \in Threads /\ HoldOK(s) /\ SwapOK(s)
  BY DEF Threads, Some, Steady
<1> DEFINE Mine == {p \in Nodes : holder[p] = s}
           l == local[s]
           c == local[s].current
<1>b. pc[s] \notin {"start", "report", "fault"} => c \in Nodes
  BY <1>a DEF AtNode
<1>1. CASE Start(s)
  <2>1. PICK k \in Random :
          Goto(s, "start", Arrived([Fresh EXCEPT !.current = first, !.count = k]),
               [Fresh EXCEPT !.current = first, !.count = k])
    BY <1>1 DEF Start
  <2>2. QED
    BY <1>1, <1>a, <2>1, IdleStep DEF Start, Arrived, Unlocked
<1>2. CASE Walk(s)
  BY <1>2, <1>a, IdleStep DEF Walk, Unlocked
<1>3. CASE TestNext(s)
  BY <1>3, <1>a, IdleStep DEF TestNext, Unlocked
<1>4. CASE ReadNext(s)
  BY <1>4, <1>a, IdleStep, FaultStep DEF ReadNext, Unlocked
<1>5. CASE TestNextNext(s)
  BY <1>5, <1>a, IdleStep DEF TestNextNext, Arrived, Unlocked
<1>6. CASE Lock1(s)
  <2>1. /\ pc[s] = "lock1" /\ Goto(s, "lock1", "lock2", l)
        /\ LockNode(s, c) /\ next' = next
    BY <1>6 DEF Lock1, Goto
  <2>2. pc'[s] = "lock2" /\ local'[s] = l
    BY <1>a, <2>1 DEF Goto, TypeOK
  <2>3. Mine = {}
    BY <1>a, <2>1 DEF HoldOK, Held
  <2>4. {p \in Nodes : holder'[p] = s} = {c}
    BY <1>a, <1>b, <2>1, <2>3, LockStep
  <2>5. HoldOK(s)' /\ SwapOK(s)'
    BY <2>2, <2>4 DEF HoldOK, SwapOK, Held
  <2>6. QED
    BY <1>a, <1>b, <2>1, <2>5, LockStep, Frame
<1>7. CASE Lock2(s)
  <2>1. CASE next[c] = Null
    BY <1>7, <1>a, <2>1, FaultStep DEF Lock2
  <2>2. CASE next[c] # Null
    <3>1. /\ pc[s] = "lock2" /\ Goto(s, "lock2", "lock3", l)
          /\ LockNode(s, next[c]) /\ next' = next
      BY <1>7, <2>2 DEF Lock2
    <3>2. pc'[s] = "lock3" /\ local'[s] = l
      BY <1>a, <3>1 DEF Goto, TypeOK
    <3>3. Mine = {c} /\ next[c] \in Nodes
      BY <1>a, <1>b, <2>2, <3>1 DEF HoldOK, Held, TypeOK
    <3>4. /\ {p \in Nodes : holder'[p] = s} = {c, next[c]}
          /\ next[c] # c
      BY <1>a, <3>1, <3>3, LockStep
    <3>5. HoldOK(s)' /\ SwapOK(s)'
      BY <3>1, <3>2, <3>4 DEF HoldOK, SwapOK, Held
    <3>6. QED
      BY <1>a, <3>1, <3>3, <3>5, LockStep, Frame
  <2>3. QED
    BY <2>1, <2>2
<1>8. CASE Lock3(s)
  <2> DEFINE t1 == next[c]
             t2 == IF t1 = Null THEN Null ELSE next[t1]
             m == [l EXCEPT !.temp1 = t1, !.temp2 = t2, !.temp3 = next[t2]]
             to == IF Compares(s, c, t1) THEN "store1" ELSE "unlock"
  <2>1. CASE t2 = Null
    BY <1>8, <1>a, <2>1, FaultStep DEF Lock3
  <2>2. CASE t2 # Null
    <3>1. /\ pc[s] = "lock3" /\ Goto(s, "lock3", to, m)
          /\ LockNode(s, t2) /\ next' = next
      BY <1>8, <2>2 DEF Lock3
    <3>2. pc'[s] = to /\ local'[s] = m /\ to \in {"store1", "unlock"}
      BY <1>a, <3>1 DEF Goto, TypeOK
    <3>3. /\ m.current = c /\ m.temp1 = t1 /\ m.temp2 = t2
          /\ m.temp3 = next[t2]
      <4>1. local[s] \in Locals
        BY <1>a DEF TypeOK, Locals
      <4> HIDE DEF t1, t2
      <4>2. QED
        BY <4>1 DEF Locals
    <3>4. /\ Mine = {c, t1} /\ t1 # c /\ t1 \in Nodes /\ t2 \in Nodes
          /\ t2 = next[t1]
      BY <1>a, <1>b, <2>2, <3>1 DEF HoldOK, SwapOK, Held, TypeOK
    <3>5. /\ {p \in Nodes : holder'[p] = s} = {c, t1, t2}
          /\ t2 # c /\ t2 # t1
      BY <1>a, <3>1, <3>4, LockStep
    <3> HIDE DEF m, to
    <3>6. HoldOK(s)'
      BY <3>2, <3>3, <3>5 DEF HoldOK, Held
    <3>7. SwapOK(s)'
      BY <3>1, <3>2, <3>3, <3>4, <3>5 DEF SwapOK
    <3>8. QED
      BY <1>a, <3>1, <3>4, <3>6, <3>7, LockStep, Frame
  <2>3. QED
    BY <2>1, <2>2
<1>9. ASSUME NEW from \in {"store1", "store2", "store3"},
             NEW to \in {"store2", "store3", "unlock"},
             NEW node \in {c, l.temp1, l.temp2}, NEW value,
             Store(s, from, to, node, value), SwapOK(s)'
      PROVE  Steady(T)'
  <2>1. /\ pc[s] = from /\ Goto(s, from, to, l) /\ holder' = holder
        /\ next' = [next EXCEPT ![node] = value]
    BY <1>9 DEF Store, Goto
  <2>2. pc'[s] = to /\ local'[s] = l
    BY <1>a, <2>1 DEF Goto, TypeOK
  <2>3. Mine = {c, l.temp1, l.temp2}
    BY <1>a, <2>1 DEF HoldOK, Held
  <2>4. HoldOK(s)'
    BY <2>1, <2>2, <2>3 DEF HoldOK, Held
  <2>5. \A u \in Threads \ {s} : \A p \in Nodes :
           holder[p] = u => next'[p] = next[p]
    BY <2>1, <2>3 DEF TypeOK
  <2>6. QED
    BY <1>9, <1>a, <2>1, <2>4, <2>5, Frame
<1>10. CASE Store1(s) \/ Store2(s) \/ Store3(s)
  <2>1. pc[s] \in {"store1", "store2", "store3"}
        /\ Mine = {c, l.temp1, l.temp2}
    BY <1>10, <1>a
    DEF Store1, Store2, Store3, Store, Goto, HoldOK, Held
  <2>2. c \in Nodes /\ l.temp1 \in Nodes /\ l.temp2 \in Nodes
    BY <2>1
  <2>3. next \in [Nodes -> Nodes \cup {Null}]
    BY DEF TypeOK
  <2>4. CASE Store1(s)
    <3>1. /\ pc'[s] = "store2" /\ local'[s] = l /\ pc[s] = "store1"
          /\ next' = [next EXCEPT ![c] = l.temp2]
      BY <1>a, <2>4 DEF Store1, Store, Goto, TypeOK
    <3>2. SwapOK(s)'
      BY <1>a, <2>2, <2>3, <3>1 DEF SwapOK
    <3>3. QED
      BY <1>9, <2>4, <3>2 DEF Store1
  <2>5. CASE Store2(s)
    <3>1. /\ pc'[s] = "store3" /\ local'[s] = l /\ pc[s] = "store2"
          /\ next' = [next EXCEPT ![l.temp2] = l.temp1]
      BY <1>a, <2>5 DEF Store2, Store, Goto, TypeOK
    <3>2. SwapOK(s)'
      BY <1>a, <2>2, <2>3, <3>1 DEF SwapOK
    <3>3. QED
      BY <1>9, <2>5, <3>2 DEF Store2
  <2>6. CASE Store3(s)
    <3>1. pc'[s] = "unlock"
      BY <1>a, <2>6 DEF Store3, Store, Goto, TypeOK
    <3>2. SwapOK(s)'
      BY <3>1 DEF SwapOK
    <3>3. QED
      BY <1>9, <2>6, <3>2 DEF Store3
  <2>7. QED
    BY <1>10, <2>4, <2>5, <2>6
<1>11. CASE Unlock(s)
  <2>1. /\ pc[s] = "unlock" /\ Goto(s, "unlock", "start", l) /\ next' = next
        /\ UnlockNodes(s, {c, l.temp1, l.temp2})
    BY <1>11 DEF Unlock, Goto
  <2>2. pc'[s] = "start"
    BY <1>a, <2>1 DEF Goto, TypeOK
  <2>3. Mine = {c, l.temp1, l.temp2}
    BY <1>a, <2>1 DEF HoldOK, Held
  <2>4. {p \in Nodes : holder'[p] = s} = {}
    BY <1>a, <2>1, <2>3, UnlockStep
  <2>5. HoldOK(s)' /\ SwapOK(s)'
    BY <2>2, <2>4 DEF HoldOK, SwapOK, Held
  <2>6. CASE ~stray'
    BY <1>a, <2>1, <2>5, <2>6, UnlockStep, Frame
  <2>7. QED
    BY <2>6
<1>12. QED
  BY <1>1, <1>2, <1>3, <1>4, <1>5, <1>6, <1>7, <1>8, <1>10, <1>11 DEF Swapper

\* A step of a counting thread keeps the invariant, or is a stray unlock.
LEMMA CounterHolds ==
  ASSUME TypeOK, AtNode, Steady(Threads), NEW f \in Counters, Counter(f)
  PROVE  stray' \/ Steady(Threads)'
<1>a. f \in Threads /\ f \notin Swappers /\ HoldOK(f)
  BY StorageAssumption DEF Threads, Steady
<1>c. Some(Threads)
  BY DEF Some, Threads
<1> DEFINE Mine == {p \in Nodes : holder[p] = f}
           l == local[f]
           c == local[f].current
<1>b. pc[f] \notin {"start", "report", "fault"} => c \in Nodes
  BY <1>a DEF AtNode
<1>1. CASE CStart(f)
  <2>1. PICK k \in (IF Kind[f] = "equal" THEN Random ELSE {0}) :
          Goto(f, "start", "clock1",
               [Fresh EXCEPT !.current = first, !.count = k])
    BY <1>1 DEF CStart
  <2>2. QED
    BY <1>1, <1>a, <1>c, <2>1, IdleStep DEF CStart, Unlocked
<1>2. CASE CLock1(f)
  <2>1. /\ pc[f] = "clock1" /\ Goto(f, "clock1", "clock2", l)
        /\ LockNode(f, c) /\ next' = next
    BY <1>2 DEF CLock1, Goto
  <2>2. pc'[f] = "clock2" /\ local'[f] = l
    BY <1>a, <2>1 DEF Goto, TypeOK
  <2>3. Mine = {}
    BY <1>a, <2>1 DEF HoldOK, Held
  <2>4. {p \in Nodes : holder'[p] = f} = {c}
    BY <1>a, <1>b, <2>1, <2>3, LockStep
  <2>5. HoldOK(f)'
    BY <2>2, <2>4 DEF HoldOK, Held
  <2>6. QED
    BY <1>a, <1>b, <2>1, <2>5, LockStep, <1>c, Frame
<1>3. CASE CLock2(f)
  <2>1. CASE next[c] = Null
    BY <1>3, <1>a, <2>1, <1>c, FaultStep DEF CLock2
  <2>2. CASE next[c] # Null
    <3> DEFINE one == IF Compares(f, c, next[c]) THEN 1 ELSE 0
               m == [l EXCEPT !.count = IF @ < 2 * VALUES THEN @ + one ELSE @]
    <3>1. /\ pc[f] = "clock2" /\ Goto(f, "clock2", "cunlock1", m)
          /\ LockNode(f, next[c]) /\ next' = next
      BY <1>3, <2>2 DEF CLock2
    <3>2. pc'[f] = "cunlock1" /\ local'[f] = m
      BY <1>a, <3>1 DEF Goto, TypeOK
    <3>3. m.current = c
      BY <1>a DEF TypeOK
    <3>4. Mine = {c} /\ next[c] \in Nodes
      BY <1>a, <1>b, <2>2, <3>1 DEF HoldOK, Held, TypeOK
    <3>5. {p \in Nodes : holder'[p] = f} = {c, next[c]}
      BY <1>a, <3>1, <3>4, LockStep
    <3> HIDE DEF m
    <3>6. HoldOK(f)'
      BY <3>1, <3>2, <3>3, <3>5 DEF HoldOK, Held
    <3>7. QED
      BY <1>a, <3>1, <3>4, <3>6, LockStep, <1>c, Frame
  <2>3. QED
    BY <2>1, <2>2
<1>4. CASE CUnlock1(f)
  <2>1. /\ pc[f] = "cunlock1" /\ Goto(f, "cunlock1", "cunlock2", l)
        /\ UnlockNodes(f, {c}) /\ next' = next
    BY <1>4 DEF CUnlock1, Goto
  <2>2. pc'[f] = "cunlock2"
    BY <1>a, <2>1 DEF Goto, TypeOK
  <2>3. Mine = {c, next[c]}
    BY <1>a, <2>1 DEF HoldOK, Held
  <2>4. {p \in Nodes : holder'[p] = f} = {c, next[c]} \ {c}
    BY <1>a, <2>1, <2>3, UnlockStep
  <2>5. HoldOK(f)'
    BY <2>2, <2>4 DEF HoldOK
  <2>6. CASE ~stray'
    BY <1>a, <2>1, <2>5, <2>6, UnlockStep, <1>c, Frame
  <2>7. QED
    BY <2>6
<1>5. CASE CUnlock2(f)
  <2>1. CASE next[c] = Null
    BY <1>5, <1>a, <2>1, <1>c, FaultStep DEF CUnlock2
  <2>2. CASE next[c] # Null
    <3>1. /\ pc[f] = "cunlock2" /\ Goto(f, "cunlock2", "cwalk", l)
          /\ UnlockNodes(f, {next[c]}) /\ next' = next
      BY <1>5, <2>2 DEF CUnlock2
    <3>2. pc'[f] = "cwalk"
      BY <1>a, <3>1 DEF Goto, TypeOK
    <3>3. next[c] \in Nodes
      BY <1>b, <2>2, <3>1 DEF TypeOK
    <3>4. CASE ~stray'
      <4>1. holder[next[c]] = f
        BY <3>1, <3>4 DEF UnlockNodes
      <4>2. Mine \ {next[c]} = {}
        BY <1>a, <3>1, <3>3, <4>1 DEF HoldOK
      <4>3. {p \in Nodes : holder'[p] = f} = {}
        BY <1>a, <3>1, <4>2, UnlockStep
      <4>4. HoldOK(f)'
        BY <3>2, <4>3 DEF HoldOK, Held
      <4>5. QED
        BY <1>a, <3>1, <3>4, <4>4, UnlockStep, <1>c, Frame
    <3>5. QED
      BY <3>4
  <2>3. QED
    BY <2>1, <2>2
<1>6. CASE CWalk(f)
  BY <1>6, <1>a, <1>c, IdleStep DEF CWalk, Unlocked
<1>7. CASE CTest(f)
  BY <1>7, <1>a, <1>c, IdleStep DEF CTest, Unlocked
<1>8. CASE Report(f)
  BY <1>8, <1>a, <1>c, IdleStep DEF Report, Unlocked
<1>9. QED
  BY <1>1, <1>2, <1>3, <1>4, <1>5, <1>6, <1>7, <1>8 DEF Counter
-----------------------------------------------------------------------------
\* The invariant holds after initStorage.
LEMMA InitIInv == Init => IInv
<1> SUFFICES ASSUME Init PROVE IInv
  OBVIOUS
<1>1. Fresh \in Locals
  BY StorageAssumption DEF Fresh, Locals
<1>2. TypeOK
  <2>1. local \in [Threads -> Locals] /\ pc \in [Threads -> Places]
    BY <1>1 DEF Init, Places
  <2>2. /\ next \in [Nodes -> Nodes \cup {Null}]
        /\ holder \in [Nodes -> Threads \cup {NoThread}] /\ stray \in BOOLEAN
    <3>1. ASSUME NEW i \in Nodes
          PROVE  (IF i < VALUES THEN i + 1 ELSE Null) \in Nodes \cup {Null}
      BY StorageAssumption DEF Nodes
    <3>2. next \in [Nodes -> Nodes \cup {Null}]
      BY <3>1, Zenon DEF Init
    <3>3. QED
      BY <3>2 DEF Init
  <2>3. QED
    BY <2>1, <2>2 DEF TypeOK, Locals, Places
<1>5. AtNode
  BY DEF Init, AtNode
<1>3. HoldInv /\ SwapInv
  BY StorageAssumption DEF Init, HoldInv, SwapInv, Held, Threads
<1>4. QED
  BY <1>2, <1>3, <1>5 DEF IInv

\* That a lock of another thread was released is not forgotten.
LEMMA StrayStays ==
  ASSUME stray, NEW t, Swapper(t) \/ Counter(t)
  PROVE  stray'
  BY DEF Swapper, Counter, Start, Walk, TestNext, ReadNext, TestNextNext, Lock1,
         Lock2, Lock3, Store1, Store2, Store3, Store, Unlock, CStart, CLock1,
         CLock2, CUnlock1, CUnlock2, CWalk, CTest, Report, Fault, UnlockNodes

\* No step of a counting or swapping thread breaks the invariant.
LEMMA NextIInv == IInv /\ [Next]_vars => IInv'
<1> SUFFICES ASSUME IInv, [Next]_vars PROVE IInv'
  OBVIOUS
<1>4. Some(Threads)
  BY DEF Some, Threads
<1>1. ASSUME NEW s \in Swappers, Swapper(s) PROVE IInv'
  BY <1>1, SwapperType, SwapperHolds, StrayStays, PerThread, <1>4 DEF IInv
<1>2. ASSUME NEW f \in Counters, Counter(f) PROVE IInv'
  BY <1>2, CounterType, CounterHolds, StrayStays, PerThread DEF IInv
<1>3. CASE UNCHANGED vars
  BY <1>3 DEF vars, IInv, TypeOK, AtNode, HoldInv, SwapInv, Held
<1>5. QED
  BY <1>1, <1>2, <1>3 DEF Next

\* So it holds in every reachable state of the list.
LEMMA SpecIInv == Spec => []IInv
  BY InitIInv, NextIInv, PTL DEF Spec

\* Every variable keeps its type, whatever the threads release.
THEOREM StorageTypeCorrect == Spec => []TypeOK
  BY SpecIInv, PTL DEF IInv

\* Until a thread releases a lock it does not hold, no thread starts its loop
\* anew with a lock left behind.
THEOREM StorageNothingLeftLocked == Spec => []NothingLeftLocked
<1>1. IInv => NothingLeftLocked
  <2> SUFFICES ASSUME IInv, ~stray, NEW p \in Nodes, holder[p] # NoThread,
                      pc[holder[p]] = "start"
               PROVE  FALSE
    BY DEF NothingLeftLocked
  <2>1. holder[p] \in Threads
    BY DEF IInv, TypeOK
  <2>2. QED
    BY <2>1 DEF IInv, HoldInv, Held
<1>2. QED
  BY <1>1, SpecIInv, PTL

\* Until then, the two nodes that a counter compares are neighbours, also
\* when the swaps in progress are taken back.
THEOREM StoragePairIsAdjacent == Spec => []PairIsAdjacent
<1>1. IInv => PairIsAdjacent
  <2> SUFFICES ASSUME IInv, ~stray, NEW f \in Counters, pc[f] = "cunlock1"
               PROVE  LET p == Settled[local[f].current] IN
                      /\ p = next[local[f].current]
                      /\ p # Null /\ holder[p] = f
    BY DEF PairIsAdjacent
  <2> DEFINE c == local[f].current
  <2>1. f \in Threads /\ f \notin Swappers
    BY StorageAssumption DEF Threads
  <2>2. /\ c \in Nodes /\ next[c] \in Nodes
        /\ holder[c] = f /\ holder[next[c]] = f
    BY <2>1 DEF IInv, HoldInv, Held
  <2>3. Settled[c] = next[c]
    BY <2>1, <2>2 DEF Settled, InSwap
  <2>4. QED
    BY <2>2, <2>3, StorageAssumption DEF Null, Nodes
<1>2. QED
  BY <1>1, SpecIInv, PTL

\* A swapper whose locks are undisturbed releases none that it does not hold.
LEMMA SwapperOwnLocks ==
  ASSUME NEW T, Some(T), Steady(T), ~stray, NEW s \in Swappers, Swapper(s)
  PROVE  ~stray'
<1>1. CASE Unlock(s)
  <2>1. {p \in Nodes : holder[p] = s}
          = {local[s].current, local[s].temp1, local[s].temp2}
    BY <1>1 DEF Unlock, Goto, Steady, Some, HoldOK, Held
  <2>2. QED
    BY <1>1, <2>1 DEF Unlock, UnlockNodes
<1>2. CASE ~Unlock(s)
  BY <1>2
  DEF Swapper, Start, Walk, TestNext, ReadNext, TestNextNext, Lock1, Lock2,
      Lock3, Store1, Store2, Store3, Store, Fault
<1>3. QED
  BY <1>1, <1>2

\* Any number of swappers, with no counters beside them, only release locks
\* that they hold: no two swaps ever work on the same node.
THEOREM SwappersOwnLocksOnly ==
  ASSUME Counters = {}
  PROVE  Spec => []OwnLocksOnly
<1>1. Init => OwnLocksOnly
  BY DEF Init, OwnLocksOnly
<1>2. IInv /\ OwnLocksOnly /\ [Next]_vars => OwnLocksOnly'
  <2> SUFFICES ASSUME IInv, ~stray, [Next]_vars PROVE ~stray'
    BY DEF OwnLocksOnly
  <2>1. Some(Threads) /\ Steady(Threads)
    BY PerThread DEF IInv, Some, Threads
  <2>2. CASE UNCHANGED vars
    BY <2>2 DEF vars
  <2>3. QED
    BY <2>1, <2>2, SwapperOwnLocks DEF Next
<1>3. QED
  BY <1>1, <1>2, SpecIInv, PTL DEF Spec

\* Without swappers nothing moves, and line 115 releases what line 110 locked.
Unchanging ==
  /\ next = [p \in Nodes |-> IF p < VALUES THEN p + 1 ELSE Null]
  /\ \A f \in Counters : pc[f] = "cunlock2" =>
       \/ next[local[f].current] = Null
       \/ holder[next[local[f].current]] = f

\* Any number of counters, with no swappers beside them, only release locks
\* that they hold.
THEOREM CountersOwnLocksOnly ==
  ASSUME Swappers = {}
  PROVE  Spec => []OwnLocksOnly
<1> DEFINE Inv == Unchanging /\ ~stray
<1>1. Init => Inv
  BY DEF Init, Unchanging, Threads
<1>2. IInv /\ Inv /\ [Next]_vars => Inv'
  <2> SUFFICES ASSUME IInv, Unchanging, ~stray, [Next]_vars PROVE Inv'
    OBVIOUS
  <2>1. ASSUME NEW f \in Counters, Counter(f) PROVE Inv'
    <3>a. f \in Threads /\ VALUES \in Nat
      BY StorageAssumption DEF Threads
    <3>b. ASSUME NEW p \in Nodes PROVE next[p] # p
      BY <3>a, <3>b DEF Unchanging, Nodes, Null
    <3>1. next' = next
      BY <2>1
      DEF Counter, CStart, CLock1, CLock2, CUnlock1, CUnlock2, CWalk, CTest,
          Report, Fault
    <3>2. ~stray'
      <4>1. CASE CUnlock1(f)
        <5>1. holder[local[f].current] = f
          BY <3>a, <4>1 DEF CUnlock1, Goto, IInv, HoldInv, Held
        <5>2. QED
          BY <4>1, <5>1 DEF CUnlock1, UnlockNodes
      <4>2. CASE CUnlock2(f)
        BY <4>2 DEF CUnlock2, UnlockNodes, Unchanging, Fault
      <4>3. CASE ~CUnlock1(f) /\ ~CUnlock2(f)
        BY <2>1, <4>3
        DEF Counter, CStart, CLock1, CLock2, CWalk, CTest, Report, Fault
      <4>4. QED
        BY <4>1, <4>2, <4>3
    <3>3. HoldInv'
      BY <2>1, <3>2, CounterHolds, PerThread DEF IInv
    <3>4. ASSUME NEW g \in Counters, pc'[g] = "cunlock2",
                 next'[local'[g].current] # Null
          PROVE  holder'[next'[local'[g].current]] = g
      <4>a. g \in Threads
        BY DEF Threads
      <4>1. CASE g = f
        <5>1. CUnlock1(f)
          <6>1. ASSUME NEW from, NEW to, NEW l, Goto(f, from, to, l)
                PROVE  to = "cunlock2"
            BY <3>4, <3>a, <4>1, <6>1 DEF Goto, IInv, TypeOK
          <6>2. QED
            BY <2>1, <6>1
            DEF Counter, CStart, CLock1, CLock2, CUnlock2, CWalk, CTest, Report,
                Fault
        <5> DEFINE c == local[f].current
        <5>2. /\ {p \in Nodes : holder[p] = f} = {c, next[c]}
              /\ c \in Nodes /\ local'[f] = local[f]
          BY <3>a, <5>1
          DEF CUnlock1, Goto, IInv, HoldInv, Held, AtNode, TypeOK
        <5>3. next[c] # c
          BY <3>b, <5>2
        <5>4. QED
          BY <3>1, <3>4, <4>1, <5>1, <5>2, <5>3 DEF CUnlock1, UnlockNodes
      <4>2. CASE g # f
        <5>1. pc'[g] = pc[g] /\ local'[g] = local[g]
          <6>1. \E from, to, l : Goto(f, from, to, l)
            BY <2>1
            DEF Counter, CStart, CLock1, CLock2, CUnlock1, CUnlock2, CWalk,
                CTest, Report, Fault
          <6>2. QED
            BY <3>a, <4>a, <4>2, <6>1 DEF Goto, IInv, TypeOK
        <5>2. local[g].current \in Nodes /\ next[local[g].current] \in Nodes
          BY <3>1, <3>4, <4>a, <5>1 DEF IInv, AtNode, TypeOK
        <5>3. holder[next[local[g].current]] = g
          BY <3>1, <3>4, <5>1 DEF Unchanging
        <5>4. \A p \in Nodes : holder[p] = g => holder'[p] = g
          <6>1. ASSUME NEW p \in Nodes, LockNode(f, p)
                PROVE  \A q \in Nodes : holder[q] = g => holder'[q] = g
            BY <4>a, <6>1, StorageAssumption DEF LockNode, IInv, TypeOK
          <6>2. ASSUME NEW P, UnlockNodes(f, P)
                PROVE  \A q \in Nodes : holder[q] = g => holder'[q] = g
            BY <3>2, <4>2, <6>2 DEF UnlockNodes
          <6>3. CASE CLock1(f)
            <7>1. local[f].current \in Nodes
              BY <3>a, <6>3 DEF CLock1, Goto, IInv, AtNode
            <7>2. QED
              BY <6>1, <6>3, <7>1 DEF CLock1
          <6>4. CASE CLock2(f)
            <7>1. local[f].current \in Nodes
              BY <3>a, <6>4 DEF CLock2, IInv, AtNode
            <7>2. next[local[f].current] # Null => next[local[f].current] \in Nodes
              BY <7>1 DEF IInv, TypeOK
            <7>3. QED
              BY <6>1, <6>4, <7>2 DEF CLock2, Fault
          <6>5. CASE CUnlock1(f) \/ CUnlock2(f)
            BY <6>2, <6>5 DEF CUnlock1, CUnlock2, Fault
          <6>6. CASE CStart(f) \/ CWalk(f) \/ CTest(f) \/ Report(f)
            BY <6>6 DEF CStart, CWalk, CTest, Report
          <6>7. QED
            BY <2>1, <6>3, <6>4, <6>5, <6>6 DEF Counter
        <5>5. QED
          BY <3>1, <5>1, <5>2, <5>3, <5>4
      <4>3. QED
        BY <4>1, <4>2
    <3>5. QED
      BY <3>1, <3>2, <3>4 DEF Unchanging
  <2>2. CASE UNCHANGED vars
    BY <2>2 DEF vars, Unchanging
  <2>3. QED
    BY <2>1, <2>2 DEF Next
<1>3. Inv => OwnLocksOnly
  BY DEF OwnLocksOnly
<1>4. QED
  BY <1>1, <1>2, <1>3, SpecIInv, PTL DEF Spec
-----------------------------------------------------------------------------
(* The three stores of a swap, interleaved with those of other swaps and   *)
(* with counters, amount to one exchange of two neighbours, which takes    *)
(* place at the last store.                                                *)

\* A step that neither starts nor ends a swap's stores, and only takes or
\* releases locks of its own thread, leaves the settled list alone.
LEMMA SettledKept ==
  ASSUME TypeOK, NEW t \in Threads, t \notin InSwap,
         NEW from, NEW to, to \notin {"store2", "store3"}, NEW l,
         Goto(t, from, to, l), next' = next,
         \A u \in Threads \ {t} : \A p \in Nodes : holder'[p] = u <=> holder[p] = u,
         holder' \in [Nodes -> Threads \cup {NoThread}]
  PROVE  Settled' = Settled
<1>1. \A u \in Threads \ {t} : pc'[u] = pc[u] /\ local'[u] = local[u]
  BY DEF Goto, TypeOK
<1>2. pc'[t] = to
  BY DEF Goto, TypeOK
<1>3. InSwap' = InSwap /\ t \notin InSwap'
  BY <1>1, <1>2 DEF InSwap, Threads
<1>4. InSwap \subseteq Threads \ {t}
  BY DEF InSwap, Threads
<1>5. ASSUME NEW p \in Nodes PROVE Settled'[p] = Settled[p]
  <2>1. CASE holder[p] \in InSwap
    <3>1. holder'[p] = holder[p] /\ local'[holder[p]] = local[holder[p]]
      BY <2>1, <1>1, <1>4
    <3>2. QED
      BY <2>1, <3>1, <1>3 DEF Settled
  <2>2. CASE holder[p] \notin InSwap
    <3>1. holder'[p] \notin InSwap
      BY <2>2, <1>4
    <3>2. QED
      BY <2>2, <3>1, <1>3 DEF Settled
  <2>3. QED
    BY <2>1, <2>2
<1>6. QED
  BY <1>5 DEF Settled

\* A swapper that stores has the nodes of its swap to itself.
LEMMA SwapNodes ==
  ASSUME TypeOK, NEW T, Some(T), Steady(T), NEW s \in Swappers,
         pc[s] \in {"store1", "store2", "store3", "unlock"}
  PROVE  /\ {p \in Nodes : holder[p] = s}
              = {local[s].current, local[s].temp1, local[s].temp2}
         /\ local[s].current \in Nodes /\ local[s].temp1 \in Nodes
         /\ local[s].temp2 \in Nodes
<1>1. {p \in Nodes : holder[p] = s}
        = {local[s].current, local[s].temp1, local[s].temp2}
  BY DEF Steady, Some, HoldOK, Held
<1>2. QED
  BY <1>1

\* The first store begins a swap: what it overwrites is remembered in temp1.
LEMMA Store1Settled ==
  ASSUME TypeOK, NEW T, Some(T), Steady(T), NEW s \in Swappers, Store1(s)
  PROVE  Settled' = Settled
<1> DEFINE l == local[s]
<1>1. /\ pc[s] = "store1" /\ pc' = [pc EXCEPT ![s] = "store2"]
      /\ local' = local /\ holder' = holder
      /\ next' = [next EXCEPT ![l.current] = l.temp2]
  BY DEF Store1, Store, Goto, TypeOK, Threads
<1>2. /\ {p \in Nodes : holder[p] = s} = {l.current, l.temp1, l.temp2}
      /\ l.current \in Nodes /\ l.temp1 \in Nodes /\ l.temp2 \in Nodes
  BY <1>1, SwapNodes
<1>3. /\ l.current # l.temp1 /\ l.current # l.temp2 /\ l.temp1 # l.temp2
      /\ next[l.current] = l.temp1 /\ next[l.temp2] = l.temp3
  BY <1>1 DEF Steady, SwapOK
<1>4. InSwap' = InSwap \cup {s} /\ s \notin InSwap
  BY <1>1 DEF InSwap, TypeOK, Threads
<1>5. ASSUME NEW p \in Nodes PROVE Settled'[p] = Settled[p]
  <2>1. next'[p] = IF p = l.current THEN l.temp2 ELSE next[p]
    BY <1>1 DEF TypeOK
  <2>2. CASE holder[p] = s
    <3>1. Settled[p] = next[p]
      BY <1>4, <2>2 DEF Settled
    <3>2. Settled'[p] = IF p = l.current THEN l.temp1
                        ELSE IF p = l.temp2 THEN l.temp3 ELSE next'[p]
      BY <1>1, <1>4, <2>2 DEF Settled
    <3>3. QED
      BY <3>1, <3>2, <2>1, <1>3
  <2>3. CASE holder[p] # s
    <3>1. p # l.current
      BY <1>2, <2>3
    <3>2. QED
      BY <1>1, <1>4, <2>1, <2>3, <3>1 DEF Settled
  <2>4. QED
    BY <2>2, <2>3
<1>6. QED
  BY <1>5 DEF Settled

\* The second store writes to a node whose successor is remembered in temp3.
LEMMA Store2Settled ==
  ASSUME TypeOK, NEW T, Some(T), Steady(T), NEW s \in Swappers, Store2(s)
  PROVE  Settled' = Settled
<1> DEFINE l == local[s]
<1>1. /\ pc[s] = "store2" /\ pc' = [pc EXCEPT ![s] = "store3"]
      /\ local' = local /\ holder' = holder
      /\ next' = [next EXCEPT ![l.temp2] = l.temp1]
  BY DEF Store2, Store, Goto, TypeOK, Threads
<1>2. holder[l.temp2] = s
  BY <1>1, SwapNodes
<1>3. InSwap' = InSwap /\ s \in InSwap
  BY <1>1 DEF InSwap, TypeOK, Threads
<1>4. ASSUME NEW p \in Nodes PROVE Settled'[p] = Settled[p]
  <2>1. next'[p] = IF p = l.temp2 THEN l.temp1 ELSE next[p]
    BY <1>1 DEF TypeOK
  <2>2. CASE p = l.temp2
    BY <1>1, <1>2, <1>3, <2>2 DEF Settled
  <2>3. CASE p # l.temp2
    BY <1>1, <1>3, <2>1, <2>3 DEF Settled
  <2>4. QED
    BY <2>2, <2>3
<1>5. QED
  BY <1>4 DEF Settled

\* The third store ends it: the two nodes after current have changed places.
LEMMA Store3Exchanges ==
  ASSUME TypeOK, NEW T, Some(T), Steady(T), NEW s \in Swappers, Store3(s)
  PROVE  /\ local[s].current \in Nodes
         /\ Settled[local[s].current] = local[s].temp1
         /\ Settled[local[s].temp1] = local[s].temp2
         /\ local[s].temp1 # Null /\ local[s].temp2 # Null
         /\ Settled' = List!Exchanged(Settled, local[s].current)
<1> DEFINE l == local[s]
<1>1. /\ pc[s] = "store3" /\ pc' = [pc EXCEPT ![s] = "unlock"]
      /\ local' = local /\ holder' = holder
      /\ next' = [next EXCEPT ![l.temp1] = l.temp3]
  BY DEF Store3, Store, Goto, TypeOK, Threads
<1>2. /\ {p \in Nodes : holder[p] = s} = {l.current, l.temp1, l.temp2}
      /\ l.current \in Nodes /\ l.temp1 \in Nodes /\ l.temp2 \in Nodes
  BY <1>1, SwapNodes
<1>3. /\ l.current # l.temp1 /\ l.current # l.temp2 /\ l.temp1 # l.temp2
      /\ next[l.current] = l.temp2 /\ next[l.temp1] = l.temp2
      /\ next[l.temp2] = l.temp1
  BY <1>1 DEF Steady, SwapOK
<1>4. InSwap' = InSwap \ {s} /\ s \in InSwap
  BY <1>1 DEF InSwap, TypeOK, Threads
<1>5. /\ Settled[l.current] = l.temp1 /\ Settled[l.temp1] = l.temp2
      /\ Settled[l.temp2] = l.temp3
  BY <1>2, <1>3, <1>4 DEF Settled
<1>6. l.temp1 # Null /\ l.temp2 # Null
  BY <1>2, StorageAssumption DEF Nodes, Null
<1>7. ASSUME NEW p \in Nodes
      PROVE  Settled'[p] = IF p = l.temp1 THEN l.temp3
                           ELSE IF p = l.temp2 THEN l.temp1
                           ELSE IF p = l.current THEN l.temp2
                           ELSE Settled[p]
  <2>1. next'[p] = IF p = l.temp1 THEN l.temp3 ELSE next[p]
    BY <1>1 DEF TypeOK
  <2>2. CASE holder[p] = s
    <3>1. p \in {l.current, l.temp1, l.temp2}
      BY <1>2, <2>2
    <3>2. Settled'[p] = next'[p]
      BY <1>1, <1>4, <2>2 DEF Settled
    <3>3. QED
      BY <1>3, <2>1, <3>1, <3>2
  <2>3. CASE holder[p] # s
    <3>1. p \notin {l.current, l.temp1, l.temp2}
      BY <1>2, <2>3
    <3>2. QED
      BY <1>1, <1>4, <2>1, <2>3, <3>1 DEF Settled
  <2>4. QED
    BY <2>2, <2>3
<1>8. Settled' = List!Exchanged(Settled, l.current)
  <2> DEFINE new == [Settled EXCEPT ![l.current] = l.temp2, ![l.temp2] = l.temp1,
                                    ![l.temp1] = l.temp3]
  <2>1. List!Exchanged(Settled, l.current) = new
    BY <1>5 DEF List!Exchanged
  <2>2. \A p \in Nodes : new[p] = Settled'[p]
    BY <1>2, <1>7 DEF Settled
  <2>3. QED
    BY <2>1, <2>2 DEF Settled
<1>9. QED
  BY <1>2, <1>5, <1>6, <1>8

\* Every other step of a swapper keeps the list.
LEMMA SwapperSettled ==
  ASSUME TypeOK, AtNode, NEW T, Some(T), Steady(T), TypeOK', ~stray',
         NEW s \in Swappers, Swapper(s), ~Store3(s)
  PROVE  Settled' = Settled
<1>a. s \in Threads /\ TypeOK /\ TypeOK' /\ AtNode
  BY DEF Threads
<1>b. holder' \in [Nodes -> Threads \cup {NoThread}]
  BY <1>a DEF TypeOK
<1>1. CASE Store1(s)
  BY <1>1, Store1Settled
<1>2. CASE Store2(s)
  BY <1>2, Store2Settled
<1>3. CASE Lock1(s)
  <2>1. local[s].current \in Nodes
    BY <1>a, <1>3 DEF Lock1, Goto, AtNode
  <2>2. pc[s] = "lock1" /\ s \notin InSwap
    BY <1>3 DEF Lock1, Goto, InSwap
  <2>3. \A u \in Threads \ {s} : \A p \in Nodes : holder'[p] = u <=> holder[p] = u
    BY <1>3, <1>a, <2>1, LockStep DEF Lock1
  <2>4. QED
    BY <1>3, <1>a, <1>b, <2>2, <2>3, SettledKept DEF Lock1
<1>4. CASE Unlock(s)
  <2>1. pc[s] = "unlock" /\ s \notin InSwap
    BY <1>4 DEF Unlock, Goto, InSwap
  <2>2. \A u \in Threads \ {s} : \A p \in Nodes : holder'[p] = u <=> holder[p] = u
    BY <1>4, <1>a, UnlockStep DEF Unlock
  <2>3. QED
    BY <1>4, <1>a, <1>b, <2>1, <2>2, SettledKept DEF Unlock
<1>5. CASE Lock2(s)
  <2>1. local[s].current \in Nodes /\ pc[s] = "lock2" /\ s \notin InSwap
    BY <1>a, <1>5 DEF Lock2, AtNode, InSwap
  <2>2. CASE Fault(s)
    BY <1>a, <1>b, <2>1, <2>2, SettledKept DEF Fault
  <2>3. CASE ~Fault(s)
    <3>1. PICK p \in Nodes : /\ Goto(s, "lock2", "lock3", local[s])
                             /\ LockNode(s, p) /\ next' = next
      BY <1>a, <1>5, <2>1, <2>3 DEF Lock2, TypeOK
    <3>2. \A u \in Threads \ {s} : \A q \in Nodes : holder'[q] = u <=> holder[q] = u
      BY <1>a, <3>1, LockStep
    <3>3. QED
      BY <1>a, <1>b, <2>1, <3>1, <3>2, SettledKept
  <2>4. QED
    BY <2>2, <2>3
<1>6. CASE Lock3(s)
  <2>1. local[s].current \in Nodes /\ pc[s] = "lock3" /\ s \notin InSwap
    BY <1>a, <1>6 DEF Lock3, AtNode, InSwap
  <2>2. CASE Fault(s)
    BY <1>a, <1>b, <2>1, <2>2, SettledKept DEF Fault
  <2>3. CASE ~Fault(s)
    <3> DEFINE c  == local[s].current
               t1 == next[c]
               t2 == IF t1 = Null THEN Null ELSE next[t1]
               to == IF Compares(s, c, t1) THEN "store1" ELSE "unlock"
               l  == [local[s] EXCEPT !.temp1 = t1, !.temp2 = t2,
                                      !.temp3 = next[t2]]
    <3>1. t2 # Null /\ Goto(s, "lock3", to, l) /\ LockNode(s, t2) /\ next' = next
      BY <1>6, <2>3 DEF Lock3
    <3>2. t2 \in Nodes
      BY <1>a, <2>1, <3>1 DEF TypeOK
    <3>3. to \notin {"store2", "store3"}
      OBVIOUS
    <3> HIDE DEF to, l, t2
    <3>4. \A u \in Threads \ {s} : \A q \in Nodes : holder'[q] = u <=> holder[q] = u
      BY <1>a, <3>1, <3>2, LockStep
    <3>5. QED
      BY <1>a, <1>b, <2>1, <3>1, <3>3, <3>4, SettledKept
  <2>4. QED
    BY <2>2, <2>3
<1>7. CASE Start(s) \/ Walk(s) \/ TestNext(s) \/ ReadNext(s) \/ TestNextNext(s)
  <2>1. /\ UNCHANGED <<next, holder>> /\ s \notin InSwap
        /\ \E from, l : \E to \in {"start", "lock1", "walk", "test", "read",
                                   "test2", "fault"} : Goto(s, from, to, l)
    BY <1>7
    DEF Start, Walk, TestNext, ReadNext, TestNextNext, Arrived, Fault, Goto, InSwap
  <2>2. QED
    BY <1>a, <1>b, <2>1, SettledKept
<1>8. QED
  BY <1>1, <1>2, <1>3, <1>4, <1>5, <1>6, <1>7 DEF Swapper

\* The steps of a counter keep it too.
LEMMA CounterSettled ==
  ASSUME IInv, ~stray, IInv', ~stray', NEW f \in Counters, Counter(f)
  PROVE  Settled' = Settled
<1>a. /\ f \in Threads /\ f \notin InSwap /\ TypeOK /\ AtNode
      /\ holder' \in [Nodes -> Threads \cup {NoThread}]
  BY StorageAssumption DEF IInv, TypeOK, Threads, InSwap
<1> DEFINE Own == \A u \in Threads \ {f} : \A p \in Nodes :
                    holder'[p] = u <=> holder[p] = u
           Move == \E from, l :
                     \E to \in {"start", "clock1", "clock2", "cunlock1", "cunlock2",
                               "cwalk", "ctest", "report", "fault"} :
                       Goto(f, from, to, l)
<1>1. next' = next /\ Move
  BY DEF Counter, CStart, CLock1, CLock2, CUnlock1, CUnlock2, CWalk, CTest,
         Report, Fault
<1>2. ASSUME NEW p \in Nodes, LockNode(f, p) PROVE Own
  BY <1>a, <1>2, LockStep
<1>3. ASSUME NEW P, UnlockNodes(f, P) PROVE Own
  BY <1>a, <1>3, UnlockStep
<1>4. Own
  <2>1. CASE CLock1(f)
    <3>1. local[f].current \in Nodes
      BY <1>a, <2>1 DEF CLock1, Goto, AtNode
    <3>2. QED
      BY <2>1, <3>1, <1>2 DEF CLock1
  <2>2. CASE CLock2(f)
    <3>1. local[f].current \in Nodes
      BY <1>a, <2>2 DEF CLock2, AtNode
    <3>2. UNCHANGED holder \/ \E p \in Nodes : LockNode(f, p)
      BY <1>a, <2>2, <3>1 DEF CLock2, Fault, TypeOK
    <3>3. QED
      BY <3>2, <1>2
  <2>3. CASE CUnlock1(f)
    BY <2>3, <1>3 DEF CUnlock1
  <2>4. CASE CUnlock2(f)
    BY <2>4, <1>3 DEF CUnlock2, Fault
  <2>5. CASE CStart(f) \/ CWalk(f) \/ CTest(f) \/ Report(f)
    BY <2>5 DEF CStart, CWalk, CTest, Report
  <2>6. QED
    BY <2>1, <2>2, <2>3, <2>4, <2>5 DEF Counter
<1>5. QED
  BY <1>a, <1>1, <1>4, SettledKept

\* Until a thread releases a lock it does not hold, whatever swappers and
\* counters do, each step leaves the list or exchanges two neighbours.
LEMMA StepExchanges ==
  ASSUME IInv, ~stray, IInv', ~stray', [Next]_vars
  PROVE  [List!Next]_Settled
<1>a. /\ TypeOK /\ AtNode /\ TypeOK' /\ Some(Threads) /\ Steady(Threads)
  BY PerThread DEF IInv, Some, Threads
<1>1. ASSUME NEW s \in Swappers, Store3(s) PROVE List!Next
  <2>1. /\ local[s].current \in Nodes
        /\ Settled[local[s].current] # Null
        /\ Settled[Settled[local[s].current]] # Null
        /\ Settled' = List!Exchanged(Settled, local[s].current)
    BY <1>1, <1>a, Store3Exchanges
  <2>2. Settled' \in List!Exchanges(Settled)
    BY <2>1 DEF List!Exchanges
  <2>3. QED
    BY <2>2 DEF List!Next
<1>2. ASSUME NEW s \in Swappers, Swapper(s), ~Store3(s) PROVE Settled' = Settled
  BY <1>2, <1>a, SwapperSettled
<1>3. ASSUME NEW f \in Counters, Counter(f) PROVE Settled' = Settled
  BY <1>3, CounterSettled
<1>4. CASE UNCHANGED vars
  BY <1>4 DEF vars, Settled, InSwap
<1>5. QED
  BY <1>1, <1>2, <1>3, <1>4 DEF Next

\* initStorage makes the list that SwapList starts with.
LEMMA ListInit == Init => List!Init
  BY DEF Init, List!Init, Settled, InSwap, Threads

\* Any number of swappers, with no counters beside them, exchange neighbours
\* and nothing else, for a list of any length (mutex.c:181-289).
THEOREM SwappersImplementSwapList ==
  ASSUME Counters = {}
  PROVE  Spec => SwapListSpec
<1>1. IInv /\ OwnLocksOnly /\ IInv' /\ OwnLocksOnly' /\ [Next]_vars
        => [List!Next]_Settled
  BY StepExchanges DEF OwnLocksOnly
<1>2. Spec => []OwnLocksOnly
  BY SwappersOwnLocksOnly
<1>3. QED
  BY <1>1, <1>2, ListInit, SpecIInv, PTL DEF Spec, SwapListSpec, List!Spec

-----------------------------------------------------------------------------
(* Both programs: mutexes in the nodes, or reader-writer locks, of which    *)
(* the counters take theirs for reading.                                   *)

\* A counter has the nodes that its place says, for reading.
ReadOK(c) ==
  /\ pc[c] = "cunlock2" =>
       \A p, q \in Nodes : c \in readers[p] /\ c \in readers[q] => p = q
  /\ pc[c] \notin {"cunlock2", "fault"} =>
       {p \in Nodes : c \in readers[p]} = Held(c)

\* No node has a reader and a writer, and only swappers write.
RWHolds ==
  /\ program = "mutex" => Steady(Threads) /\ readers = [p \in Nodes |-> {}]
  /\ program # "mutex" =>
       /\ Steady(Swappers) /\ \A c \in Counters : ReadOK(c)
       /\ \A p \in Nodes : /\ readers[p] # {} => holder[p] = NoThread
                           /\ holder[p] \in Swappers \cup {NoThread}

RWIInv ==
  /\ TypeOK /\ AtNode /\ readers \in [Nodes -> SUBSET Counters]
  /\ stray \/ RWHolds

\* The steps of a counter of rwlock.c, without and with locks.
RWWalks(c) == (CStart(c) \/ CWalk(c) \/ CTest(c) \/ Report(c)) /\ UNCHANGED readers
RWCounts(c) == RLock1(c) \/ RLock2(c) \/ RUnlock1(c) \/ RUnlock2(c)

\* What the two programs have in common with Storage.
LEMMA RWCases ==
  ASSUME [RWNext]_rwVars
  PROVE  \/ UNCHANGED rwVars
         \/ \E s \in Swappers : RWSwapper(s)
         \/ \E c \in Counters : /\ program = "mutex" /\ Counter(c)
                                /\ UNCHANGED <<program, readers>>
         \/ \E c \in Counters : /\ program = "rwlock" /\ program' = program
                                /\ RWWalks(c) \/ RWCounts(c)
BY DEF RWNext, RWCounter, RWWalks, RWCounts

\* Swappers store to nodes that they have locked, and lock no node that has a
\* reader.
LEMMA SwapperEffect ==
  ASSUME TypeOK, AtNode, NEW T, Some(T), Steady(T), NEW s \in Swappers, Swapper(s)
  PROVE  /\ \A p \in Nodes : holder'[p] \in {holder[p], s, NoThread}
         /\ \A p \in Nodes : holder[p] # s => next'[p] = next[p]
         /\ \A u \in Threads \ {s} : pc'[u] = pc[u] /\ local'[u] = local[u]
<1> DEFINE l == local[s]
<1>a. s \in Threads /\ HoldOK(s)
  BY DEF Threads, Some, Steady
<1>1. ASSUME NEW P PROVE UnlockNodes(s, P) =>
        \A p \in Nodes : holder'[p] \in {holder[p], s, NoThread}
  BY DEF UnlockNodes
<1>2. ASSUME NEW q PROVE LockNode(s, q) =>
        \A p \in Nodes : holder'[p] \in {holder[p], s, NoThread}
  BY DEF LockNode, TypeOK
<1>3. \A p \in Nodes : holder'[p] \in {holder[p], s, NoThread}
  BY <1>1, <1>2
  DEF Swapper, Start, Walk, TestNext, ReadNext, TestNextNext, Lock1, Lock2,
      Lock3, Store1, Store2, Store3, Store, Unlock, Fault
<1>4. ASSUME NEW p \in Nodes, holder[p] # s PROVE next'[p] = next[p]
  <2>1. CASE Store1(s) \/ Store2(s) \/ Store3(s)
    <3>1. /\ pc[s] \in {"store1", "store2", "store3"}
          /\ \E v : \E q \in {l.current, l.temp1, l.temp2} :
               next' = [next EXCEPT ![q] = v]
      BY <2>1 DEF Store1, Store2, Store3, Store, Goto
    <3>2. p \notin {l.current, l.temp1, l.temp2}
      BY <1>a, <1>4, <3>1 DEF HoldOK, Held
    <3>3. QED
      BY <3>1, <3>2 DEF TypeOK
  <2>2. CASE ~(Store1(s) \/ Store2(s) \/ Store3(s))
    BY <2>2
    DEF Swapper, Start, Walk, TestNext, ReadNext, TestNextNext, Lock1, Lock2,
        Lock3, Unlock, Fault
  <2>3. QED
    BY <2>1, <2>2
<1>5. ASSUME NEW u \in Threads \ {s}
      PROVE  pc'[u] = pc[u] /\ local'[u] = local[u]
  <2>1. \E from, to, m : Goto(s, from, to, m)
    BY DEF Swapper, Start, Walk, TestNext, ReadNext, TestNextNext, Lock1, Lock2,
           Lock3, Store1, Store2, Store3, Store, Unlock, Fault
  <2>2. QED
    BY <2>1 DEF Goto, TypeOK
<1>6. QED
  BY <1>3, <1>4, <1>5

\* The steps that take and release locks for reading keep the types.
LEMMA RWCountsType ==
  ASSUME TypeOK, AtNode, readers \in [Nodes -> SUBSET Counters],
         NEW c \in Counters, RWCounts(c)
  PROVE  TypeOK' /\ AtNode' /\ readers' \in [Nodes -> SUBSET Counters]
<1> DEFINE p == next[local[c].current]
           Moved == /\ pc' \in [Threads -> Places]
                    /\ local' \in [Threads -> Locals]
                    /\ AtNode'
<1>a. c \in Threads /\ local[c] \in Locals
  BY DEF Threads, TypeOK, Locals
<1>b. pc[c] \in {"clock1", "clock2", "cunlock1", "cunlock2"}
  BY DEF RWCounts, RLock1, RLock2, RUnlock1, RUnlock2, Goto
<1>c. local[c].current \in Nodes /\ p \in Nodes \cup {Null}
  BY <1>a, <1>b DEF AtNode, TypeOK
<1>d. Moved /\ UNCHANGED <<next, holder>> /\ stray' \in BOOLEAN
        => TypeOK' /\ AtNode'
  BY DEF TypeOK, Places, Locals
<1>e. readers' \in [Nodes -> SUBSET Counters] /\ stray' \in BOOLEAN
        /\ UNCHANGED <<next, holder>>
  <2>1. \A q : ReadLock(c, q) => readers' \in [Nodes -> SUBSET Counters]
    BY DEF ReadLock
  <2>2. \A q : ReadUnlock(c, q) => /\ readers' \in [Nodes -> SUBSET Counters]
                                   /\ stray' \in BOOLEAN
    BY DEF ReadUnlock, TypeOK
  <2>3. QED
    BY <2>1, <2>2 DEF RWCounts, RLock1, RLock2, RUnlock1, RUnlock2, Fault, TypeOK
<1>1. CASE Fault(c)
  BY <1>1, <1>a, <1>e, FaultType
<1>2. CASE RLock1(c)
  <2>1. Moved
    BY <1>a, <1>c, <1>2, GotoType DEF RLock1, Places
  <2>2. QED
    BY <1>d, <1>e, <2>1
<1>3. CASE RLock2(c) /\ ~Fault(c)
  <2> DEFINE one == IF Compares(c, local[c].current, p) THEN 1 ELSE 0
             l == [local[c] EXCEPT !.count = IF @ < 2 * VALUES THEN @ + one
                                             ELSE @]
  <2>1. Goto(c, "clock2", "cunlock1", l)
    BY <1>3 DEF RLock2
  <2>4. one \in {0, 1}
    OBVIOUS
  <2>2. l \in Locals /\ l.current = local[c].current
    <3> HIDE DEF one
    <3>1. QED
      BY <1>a, <2>4, Counted
  <2>3. Moved
    <3> HIDE DEF l, p
    <3>1. QED
      BY <1>a, <1>c, <2>1, <2>2, GotoType DEF Places
  <2>5. QED
    BY <1>d, <1>e, <2>3
<1>4. CASE RUnlock1(c)
  <2>1. Moved
    BY <1>a, <1>c, <1>4, GotoType DEF RUnlock1, Places
  <2>2. QED
    BY <1>d, <1>e, <2>1
<1>5. CASE RUnlock2(c) /\ ~Fault(c)
  <2>1. Goto(c, "cunlock2", "cwalk", local[c])
    BY <1>5 DEF RUnlock2
  <2>2. Moved
    BY <1>a, <1>c, <2>1, GotoType DEF Places
  <2>3. QED
    BY <1>d, <1>e, <2>2
<1>6. QED
  BY <1>1, <1>2, <1>3, <1>4, <1>5 DEF RWCounts

\* A swapper, which waits for the readers of a node, leaves the readers theirs.
LEMMA ReadersKept ==
  ASSUME TypeOK, AtNode, RWHolds, program # "mutex", NEW s \in Swappers,
         RWSwapper(s)
  PROVE  /\ \A c \in Counters : ReadOK(c)'
         /\ \A p \in Nodes : /\ readers'[p] # {} => holder'[p] = NoThread
                             /\ holder'[p] \in Swappers \cup {NoThread}
<1>1. Some(Swappers) /\ Steady(Swappers) /\ s \in Threads /\ s # NoThread
  BY StorageAssumption DEF Some, RWHolds, Threads
<1>2. /\ \A p \in Nodes : holder'[p] \in {holder[p], s, NoThread}
      /\ \A p \in Nodes : holder[p] # s => next'[p] = next[p]
      /\ \A u \in Threads \ {s} : pc'[u] = pc[u] /\ local'[u] = local[u]
      /\ readers' = readers
  BY <1>1, SwapperEffect DEF RWSwapper
<1>3. ASSUME NEW p \in Nodes, readers'[p] # {}
      PROVE  holder'[p] = NoThread
  BY <1>1, <1>2, <1>3 DEF RWSwapper, RWHolds
<1>6. \A p \in Nodes : holder'[p] \in Swappers \cup {NoThread}
  BY <1>2 DEF RWHolds
<1>4. ASSUME NEW c \in Counters PROVE ReadOK(c)'
  <2>1. c \in Threads \ {s} /\ ReadOK(c)
    BY StorageAssumption DEF Threads, RWHolds
  <2>2. pc'[c] = pc[c] /\ local'[c] = local[c]
    BY <1>2, <2>1
  <2>3. pc[c] \in {"lock3", "cunlock1"} =>
          next'[local[c].current] = next[local[c].current]
    <3> SUFFICES ASSUME pc[c] \in {"lock3", "cunlock1"}
                 PROVE  next'[local[c].current] = next[local[c].current]
      OBVIOUS
    <3>1. local[c].current \in Nodes /\ c \in readers[local[c].current]
      BY <2>1 DEF ReadOK, Held
    <3>2. QED
      BY <1>1, <1>2, <3>1 DEF RWHolds
  <2>4. Held(c)' = Held(c)
    BY <2>2, <2>3 DEF Held
  <2>5. QED
    BY <1>2, <2>1, <2>2, <2>4 DEF ReadOK
<1>5. QED
  BY <1>3, <1>4, <1>6

\* What locking and unlocking for reading do to the readers.
LEMMA ReadLockStep ==
  ASSUME readers \in [Nodes -> SUBSET Counters], NEW c \in Counters,
         NEW p \in Nodes, ReadLock(c, p)
  PROVE  /\ {q \in Nodes : c \in readers'[q]}
              = {q \in Nodes : c \in readers[q]} \cup {p}
         /\ \A d \in Counters \ {c} : \A q \in Nodes :
              d \in readers'[q] <=> d \in readers[q]
         /\ \A q \in Nodes : readers'[q] # {} =>
              readers[q] # {} \/ holder[q] = NoThread
  BY DEF ReadLock

\* A reader that unlocks a node is the only one to leave it.
LEMMA ReadUnlockStep ==
  ASSUME readers \in [Nodes -> SUBSET Counters], NEW c \in Counters,
         NEW p \in Nodes, ReadUnlock(c, p)
  PROVE  /\ {q \in Nodes : c \in readers'[q]}
              = {q \in Nodes : c \in readers[q]} \ {p}
         /\ \A d \in Counters \ {c} : \A q \in Nodes :
              d \in readers'[q] <=> d \in readers[q]
         /\ \A q \in Nodes : readers'[q] # {} => readers[q] # {}
  BY DEF ReadUnlock

\* A step of a counter of rwlock.c keeps the invariant, or is a stray unlock.
LEMMA CounterReads ==
  ASSUME TypeOK, AtNode, readers \in [Nodes -> SUBSET Counters], RWHolds,
         program # "mutex", NEW c \in Counters, RWWalks(c) \/ RWCounts(c)
  PROVE  \/ stray'
         \/ /\ Steady(Swappers)' /\ \A d \in Counters : ReadOK(d)'
            /\ \A p \in Nodes : readers'[p] # {} => holder'[p] = NoThread
<1> DEFINE l == local[c]
           Mine == {q \in Nodes : c \in readers[q]}
           Mine1 == {q \in Nodes : c \in readers'[q]}
           Rest == \A d \in Counters \ {c} : \A q \in Nodes :
                     d \in readers'[q] <=> d \in readers[q]
           Excl == \A q \in Nodes : readers'[q] # {} =>
                     readers[q] # {} \/ holder[q] = NoThread
<1>a. /\ c \in Threads /\ c \notin Swappers /\ ReadOK(c)
      /\ Some(Swappers) /\ Steady(Swappers)
  BY StorageAssumption DEF Threads, RWHolds, Some
<1>1. /\ UNCHANGED <<next, holder>>
      /\ \E from, to, m : Goto(c, from, to, m)
  BY DEF RWWalks, RWCounts, CStart, CWalk, CTest, Report, RLock1, RLock2,
         RUnlock1, RUnlock2, Fault
<1>2. \A u \in Threads \ {c} : pc'[u] = pc[u] /\ local'[u] = local[u]
  BY <1>1 DEF Goto, TypeOK
<1>3. Steady(Swappers)'
  <2>1. ASSUME NEW s \in Swappers PROVE HoldOK(s)' /\ SwapOK(s)'
    <3>1. s \in Threads /\ s # c /\ HoldOK(s) /\ SwapOK(s)
      BY <1>a DEF Some, Steady
    <3>2. QED
      BY <1>1, <1>2, <3>1, Others
  <2>2. QED
    BY <2>1 DEF Steady
<1>4. ReadOK(c)' /\ Rest /\ Excl
        => /\ \A d \in Counters : ReadOK(d)'
           /\ \A p \in Nodes : readers'[p] # {} => holder'[p] = NoThread
  <2> SUFFICES ASSUME ReadOK(c)', Rest, Excl
               PROVE  /\ \A d \in Counters : ReadOK(d)'
                      /\ \A p \in Nodes : readers'[p] # {} => holder'[p] = NoThread
    OBVIOUS
  <2>1. ASSUME NEW d \in Counters, d # c PROVE ReadOK(d)'
    <3>1. ReadOK(d) /\ pc'[d] = pc[d] /\ local'[d] = local[d]
      BY <1>2, <2>1 DEF RWHolds, Threads
    <3>2. {q \in Nodes : d \in readers'[q]} = {q \in Nodes : d \in readers[q]}
      BY <2>1
    <3>3. Held(d)' = Held(d)
      BY <1>1, <3>1 DEF Held
    <3>4. \A q \in Nodes : d \in readers'[q] <=> d \in readers[q]
      BY <2>1
    <3>5. QED
      BY <3>1, <3>2, <3>3, <3>4 DEF ReadOK
  <2>2. QED
    BY <1>1, <2>1 DEF RWHolds
<1>5. CASE RWWalks(c) \/ (Fault(c) /\ UNCHANGED readers)
  <2>1. Rest /\ Excl /\ Mine1 = Mine
    BY <1>5 DEF RWWalks
  <2>2. \/ pc'[c] = "fault"
        \/ pc[c] \in Unlocked /\ pc'[c] \in Unlocked
    BY <1>5, <1>a
    DEF RWWalks, CStart, CWalk, CTest, Report, Fault, Goto, TypeOK, Unlocked
  <2>3. ReadOK(c)'
    BY <1>a, <2>1, <2>2 DEF ReadOK, Held, Unlocked
  <2>4. QED
    BY <1>3, <1>4, <2>1, <2>3
<1>6. CASE RLock1(c)
  <2>1. /\ pc[c] = "clock1" /\ pc'[c] = "clock2" /\ local'[c] = l
        /\ ReadLock(c, l.current)
    BY <1>6, <1>a DEF RLock1, Goto, TypeOK
  <2>2. l.current \in Nodes /\ Mine = {}
    BY <1>a, <2>1 DEF AtNode, ReadOK, Held
  <2>3. Rest /\ Excl /\ Mine1 = {l.current}
    BY <2>1, <2>2, ReadLockStep
  <2>4. ReadOK(c)'
    BY <2>1, <2>3 DEF ReadOK, Held
  <2>5. QED
    BY <1>3, <1>4, <2>3, <2>4
<1>7. CASE RLock2(c) /\ next[l.current] # Null
  <2> DEFINE p == next[l.current]
             one == IF Compares(c, l.current, p) THEN 1 ELSE 0
             m == [l EXCEPT !.count = IF @ < 2 * VALUES THEN @ + one ELSE @]
  <2>1. pc[c] = "clock2" /\ Goto(c, "clock2", "cunlock1", m) /\ ReadLock(c, p)
    BY <1>7 DEF RLock2
  <2>2. pc'[c] = "cunlock1" /\ local'[c] = m
    BY <1>a, <2>1 DEF Goto, TypeOK
  <2>3. m.current = l.current
    BY <1>a DEF TypeOK
  <2>4. Mine = {l.current} /\ p \in Nodes
    BY <1>a, <1>7, <2>1 DEF ReadOK, Held, AtNode, TypeOK
  <2>5. Rest /\ Excl /\ Mine1 = {l.current, p}
    BY <2>1, <2>4, ReadLockStep
  <2> HIDE DEF m
  <2>6. ReadOK(c)'
    BY <1>1, <2>2, <2>3, <2>5 DEF ReadOK, Held
  <2>7. QED
    BY <1>3, <1>4, <2>5, <2>6
<1>8. CASE RUnlock1(c)
  <2>1. pc[c] = "cunlock1" /\ pc'[c] = "cunlock2" /\ ReadUnlock(c, l.current)
    BY <1>8, <1>a DEF RUnlock1, Goto, TypeOK
  <2>2. l.current \in Nodes /\ Mine = {l.current, next[l.current]}
    BY <1>a, <2>1 DEF AtNode, ReadOK, Held
  <2>3. Rest /\ Excl /\ Mine1 = {l.current, next[l.current]} \ {l.current}
    BY <2>1, <2>2, ReadUnlockStep
  <2>4. \A p, q \in Nodes : c \in readers'[p] /\ c \in readers'[q] => p = q
    <3>1. \A p \in Mine1 : p = next[l.current]
      BY <2>3
    <3>2. QED
      BY <3>1
  <2>5. ReadOK(c)'
    BY <2>1, <2>4 DEF ReadOK
  <2>6. QED
    BY <1>3, <1>4, <2>3, <2>5
<1>9. CASE RUnlock2(c) /\ next[l.current] # Null
  <2> DEFINE p == next[l.current]
  <2>1. pc[c] = "cunlock2" /\ pc'[c] = "cwalk" /\ ReadUnlock(c, p)
    BY <1>9, <1>a DEF RUnlock2, Goto, TypeOK
  <2>2. p \in Nodes
    BY <1>a, <1>9, <2>1 DEF AtNode, TypeOK
  <2>3. Rest /\ Excl /\ Mine1 = Mine \ {p}
    BY <2>1, <2>2, ReadUnlockStep
  <2>4. CASE ~stray'
    <3>1. c \in readers[p]
      BY <2>1, <2>4 DEF ReadUnlock
    <3>2. Mine1 = {}
      BY <1>a, <2>1, <2>2, <2>3, <3>1 DEF ReadOK
    <3>3. ReadOK(c)'
      BY <2>1, <3>2 DEF ReadOK, Held
    <3>4. QED
      BY <1>3, <1>4, <2>3, <3>3
  <2>5. QED
    BY <2>4
<1>10. CASE (RLock2(c) \/ RUnlock2(c)) /\ next[l.current] = Null
  BY <1>5, <1>10 DEF RLock2, RUnlock2
<1>11. QED
  BY <1>5, <1>6, <1>7, <1>8, <1>9, <1>10 DEF RWCounts

\* Both programs keep the invariant.
LEMMA RWStepIInv == RWIInv /\ [RWNext]_rwVars => RWIInv'
<1> SUFFICES ASSUME RWIInv, [RWNext]_rwVars PROVE RWIInv'
  OBVIOUS
<1>a. /\ TypeOK /\ AtNode /\ readers \in [Nodes -> SUBSET Counters]
      /\ Some(Threads) /\ Some(Swappers)
  BY DEF RWIInv, Some, Threads
<1>1. ASSUME NEW s \in Swappers, RWSwapper(s) PROVE RWIInv'
  <2>1. Swapper(s) /\ program' = program /\ readers' = readers
    BY <1>1 DEF RWSwapper
  <2>2. TypeOK' /\ AtNode'
    BY <1>a, <2>1, SwapperType
  <2>3. CASE stray
    BY <1>a, <2>1, <2>2, <2>3, StrayStays DEF RWIInv
  <2>4. CASE ~stray
    <3>1. RWHolds
      BY <2>4 DEF RWIInv
    <3>2. CASE program = "mutex"
      <4>1. stray' \/ Steady(Threads)'
        BY <1>a, <2>1, <3>1, <3>2, SwapperHolds DEF RWHolds
      <4>2. QED
        BY <1>a, <2>1, <2>2, <3>1, <3>2, <4>1 DEF RWIInv, RWHolds
    <3>3. CASE program # "mutex"
      <4>1. stray' \/ Steady(Swappers)'
        BY <1>a, <2>1, <3>1, <3>3, SwapperHolds DEF RWHolds
      <4>2. /\ \A c \in Counters : ReadOK(c)'
            /\ \A p \in Nodes : /\ readers'[p] # {} => holder'[p] = NoThread
                                /\ holder'[p] \in Swappers \cup {NoThread}
        BY <1>1, <1>a, <3>1, <3>3, ReadersKept
      <4>3. QED
        BY <1>a, <2>1, <2>2, <3>3, <4>1, <4>2 DEF RWIInv, RWHolds
    <3>4. QED
      BY <3>2, <3>3
  <2>5. QED
    BY <2>3, <2>4
<1>2. ASSUME NEW c \in Counters, program = "mutex", Counter(c),
             UNCHANGED <<program, readers>>
      PROVE  RWIInv'
  <2>1. TypeOK' /\ AtNode'
    BY <1>a, <1>2, CounterType
  <2>2. stray' \/ Steady(Threads)'
    BY <1>a, <1>2, CounterHolds, StrayStays DEF RWIInv, RWHolds
  <2>3. stray \/ readers = [p \in Nodes |-> {}]
    BY <1>2 DEF RWIInv, RWHolds
  <2>4. stray => stray'
    BY <1>2, StrayStays
  <2>5. QED
    BY <1>a, <1>2, <2>1, <2>2, <2>3, <2>4 DEF RWIInv, RWHolds
<1>3. ASSUME NEW c \in Counters, program = "rwlock", program' = program,
             RWWalks(c) \/ RWCounts(c)
      PROVE  RWIInv'
  <2>1. TypeOK' /\ AtNode' /\ readers' \in [Nodes -> SUBSET Counters]
    <3>1. RWWalks(c) => Counter(c) /\ readers' = readers
      BY DEF RWWalks, Counter
    <3>2. QED
      BY <1>a, <1>3, <3>1, CounterType, RWCountsType
  <2>2. stray => stray'
    BY <1>3 DEF RWWalks, RWCounts, CStart, CWalk, CTest, Report, RLock1, RLock2,
      RUnlock1, RUnlock2, Fault, ReadUnlock
  <2>3. ASSUME ~stray PROVE stray' \/ RWHolds'
    <3>1. RWHolds
      BY <2>3 DEF RWIInv
    <3>2. holder' = holder
      BY <1>3 DEF RWWalks, RWCounts, CStart, CWalk, CTest, Report, RLock1,
        RLock2, RUnlock1, RUnlock2, Fault
    <3>3. QED
      BY <1>a, <1>3, <3>1, <3>2, CounterReads DEF RWHolds
  <2>4. QED
    BY <2>1, <2>2, <2>3 DEF RWIInv
<1>4. CASE UNCHANGED rwVars
  <2>1. /\ UNCHANGED <<next, holder, pc, local, stray, program, readers>>
    BY <1>4 DEF rwVars, vars
  <2>2. TypeOK' /\ AtNode' /\ readers' \in [Nodes -> SUBSET Counters]
    BY <1>a, <2>1 DEF TypeOK, AtNode
  <2>3. \A t : HoldOK(t)' = HoldOK(t) /\ SwapOK(t)' = SwapOK(t)
               /\ ReadOK(t)' = ReadOK(t)
    BY <2>1 DEF HoldOK, SwapOK, ReadOK, Held
  <2>4. RWHolds => RWHolds'
    BY <2>1, <2>3 DEF RWHolds, Steady
  <2>5. QED
    BY <2>1, <2>2, <2>4 DEF RWIInv
<1>5. QED
  BY <1>1, <1>2, <1>3, <1>4, RWCases

\* And they start with it.
LEMMA RWInitIInv == RWInit => RWIInv
<1> SUFFICES ASSUME RWInit PROVE RWIInv
  OBVIOUS
<1>1. IInv
  BY InitIInv DEF RWInit
<1>2. ~stray /\ pc = [t \in Threads |-> "start"]
      /\ holder = [i \in Nodes |-> NoThread] /\ readers = [p \in Nodes |-> {}]
  BY DEF RWInit, Init
<1>3. Steady(Threads)
  BY <1>1, <1>2, PerThread DEF IInv
<1>4. Steady(Swappers) /\ \A c \in Counters : ReadOK(c)
  BY <1>2, <1>3 DEF Steady, Threads, ReadOK, Held
<1>5. QED
  BY <1>1, <1>2, <1>3, <1>4 DEF IInv, RWIInv, RWHolds

\* So they always have it.
LEMMA RWInvariance == RWSpec => []RWIInv
BY RWInitIInv, RWStepIInv, PTL DEF RWSpec

\* No thread starts its loop anew with a lock left behind, for writing or for
\* reading, although mutex.c:115 and rwlock.c:116 look for the second lock
\* through a pointer that may have changed.
THEOREM RWLocksGivenBack == RWSpec => []LocksGivenBack
<1>1. RWIInv => LocksGivenBack
  <2> SUFFICES ASSUME RWIInv, ~stray PROVE LocksGivenBack
    BY DEF LocksGivenBack, Over
  <2>a. /\ TypeOK /\ RWHolds
        /\ Some(Threads) /\ Some(Swappers)
    BY DEF RWIInv, Some, Threads
  <2>1. ASSUME NEW p \in Nodes, holder[p] # NoThread, pc[holder[p]] = "start",
               HoldOK(holder[p])
        PROVE  FALSE
    BY <2>1 DEF HoldOK, Held
  <2>2. CASE program = "mutex"
    <3>1. NothingLeftLocked
      BY <2>1, <2>2, <2>a DEF NothingLeftLocked, RWHolds, Steady, TypeOK
    <3>2. QED
      BY <2>2, <2>a, <3>1 DEF LocksGivenBack, RWHolds
  <2>3. CASE program # "mutex"
    <3>1. NothingLeftLocked
      BY <2>1, <2>3, <2>a DEF NothingLeftLocked, RWHolds, Steady
    <3>2. \A p \in Nodes : \A c \in readers[p] : pc[c] # "start"
      <4> SUFFICES ASSUME NEW p \in Nodes, NEW c \in readers[p], pc[c] = "start"
                   PROVE  FALSE
        OBVIOUS
      <4>1. c \in Counters
        BY DEF RWIInv
      <4>2. QED
        BY <4>1, <2>3, <2>a DEF RWHolds, ReadOK, Held
    <3>3. QED
      BY <3>1, <3>2 DEF LocksGivenBack
  <2>4. QED
    BY <2>2, <2>3
<1>2. QED
  BY <1>1, RWInvariance, PTL

\* The two nodes that a counter compares are neighbours, in both programs,
\* also when the swaps in progress are taken back.
THEOREM RWPairIsAdjacent == RWSpec => []PairIsAdjacent
<1>1. RWIInv => PairIsAdjacent
  <2> SUFFICES ASSUME RWIInv, ~stray, NEW f \in Counters, pc[f] = "cunlock1"
               PROVE  LET p == Settled[local[f].current] IN
                      p = next[local[f].current] /\ p # Null
    BY DEF PairIsAdjacent
  <2> DEFINE c == local[f].current
  <2>1. f \in Threads /\ f \notin InSwap /\ NoThread \notin InSwap /\ RWHolds
    BY StorageAssumption DEF Threads, RWIInv, InSwap
  <2>2. c \in Nodes /\ next[c] \in Nodes /\ holder[c] \in {f, NoThread}
    <3>1. c \in Nodes
      BY <2>1 DEF RWIInv, AtNode
    <3>2. CASE program = "mutex"
      <4>1. {p \in Nodes : holder[p] = f} = {c, next[c]}
        BY <2>1, <3>2 DEF RWHolds, Steady, HoldOK, Held
      <4>2. QED
        BY <3>1, <4>1
    <3>3. CASE program # "mutex"
      <4>1. {p \in Nodes : f \in readers[p]} = {c, next[c]}
        BY <2>1, <3>3 DEF RWHolds, ReadOK, Held
      <4>2. f \in readers[c] /\ next[c] \in Nodes
        BY <3>1, <4>1
      <4>3. QED
        BY <2>1, <3>1, <3>3, <4>2 DEF RWHolds
    <3>4. QED
      BY <3>2, <3>3
  <2>3. Settled[c] = next[c]
    BY <2>1, <2>2 DEF Settled
  <2>4. QED
    BY <2>2, <2>3, StorageAssumption DEF Null, Nodes
<1>2. QED
  BY <1>1, RWInvariance, PTL

\* Until a thread releases a lock it does not hold, each step of either
\* program leaves the list or exchanges two neighbours.
LEMMA RWStepExchanges ==
  ASSUME RWIInv, ~stray, RWIInv', ~stray', [RWNext]_rwVars
  PROVE  \/ Settled' = Settled
         \/ /\ \E p \in Nodes : /\ Settled[p] # Null /\ Settled[Settled[p]] # Null
                                /\ Settled' = List!Exchanged(Settled, p)
            /\ List!Next
<1>a. /\ TypeOK /\ AtNode /\ TypeOK' /\ Some(Threads) /\ Some(Swappers)
      /\ Steady(Swappers) /\ (program = "mutex" => Steady(Threads))
  BY DEF RWIInv, RWHolds, Steady, Some, Threads
<1>1. ASSUME NEW s \in Swappers, Swapper(s), Store3(s)
      PROVE  /\ \E p \in Nodes : /\ Settled[p] # Null /\ Settled[Settled[p]] # Null
                                 /\ Settled' = List!Exchanged(Settled, p)
             /\ List!Next
  <2>1. /\ local[s].current \in Nodes
        /\ Settled[local[s].current] # Null
        /\ Settled[Settled[local[s].current]] # Null
        /\ Settled' = List!Exchanged(Settled, local[s].current)
    BY <1>1, <1>a, Store3Exchanges
  <2>2. Settled' \in List!Exchanges(Settled)
    BY <2>1 DEF List!Exchanges
  <2>3. QED
    BY <2>1, <2>2 DEF List!Next
<1>2. ASSUME NEW s \in Swappers, Swapper(s), ~Store3(s) PROVE Settled' = Settled
  BY <1>2, <1>a, SwapperSettled
<1>3. ASSUME NEW c \in Counters, program = "mutex", Counter(c),
             UNCHANGED <<program, readers>>
      PROVE  Settled' = Settled
  <2>1. IInv /\ IInv'
    BY <1>3, <1>a, PerThread DEF IInv, RWIInv, RWHolds
  <2>2. QED
    BY <1>3, <2>1, CounterSettled
<1>4. ASSUME NEW c \in Counters, RWWalks(c) \/ RWCounts(c)
      PROVE  Settled' = Settled
  <2>1. c \in Threads /\ c \notin InSwap
    BY StorageAssumption DEF Threads, InSwap
  <2>2. /\ next' = next /\ holder' = holder
        /\ \E from, l : \E to \in {"start", "clock1", "clock2", "cunlock1",
                                   "cunlock2", "cwalk", "ctest", "report", "fault"} :
             Goto(c, from, to, l)
    BY <1>4 DEF RWWalks, RWCounts, CStart, CWalk, CTest, Report, RLock1, RLock2,
      RUnlock1, RUnlock2, Fault
  <2>3. holder' \in [Nodes -> Threads \cup {NoThread}]
    BY <1>a, <2>2 DEF TypeOK
  <2>4. QED
    BY <1>a, <2>1, <2>2, <2>3, SettledKept
<1>5. CASE UNCHANGED rwVars
  BY <1>5 DEF rwVars, vars, Settled, InSwap
<1>6. QED
  BY <1>1, <1>2, <1>3, <1>4, <1>5, RWCases DEF RWSwapper

-----------------------------------------------------------------------------
(* The list that the pointers make.                                        *)

\* o is the order of the nodes in the list succ.
OrderOf(o, succ) ==
  /\ o \in [Nodes -> Nodes] /\ o[1] = first
  /\ \A i, j \in Nodes : o[i] = o[j] => i = j
  /\ \A p \in Nodes : \E i \in Nodes : o[i] = p
  /\ \A i \in Nodes : succ[o[i]] = IF i = VALUES THEN Null ELSE o[i + 1]

\* Two nodes after the first change places, and the nodes are still in an
\* order.
LEMMA ExchangeOrder ==
  ASSUME NEW o, NEW succ \in [Nodes -> Nodes \cup {Null}], OrderOf(o, succ),
         NEW p \in Nodes, succ[p] # Null, succ[succ[p]] # Null
  PROVE  \E r : OrderOf(r, List!Exchanged(succ, p))
<1>a. VALUES \in Nat /\ VALUES > 4 /\ Null \notin Nodes
  BY StorageAssumption DEF Null, Nodes
<1>1. PICK k \in Nodes : o[k] = p
  BY DEF OrderOf
<1>2. k \in Nat /\ k >= 1 /\ k < VALUES /\ k + 1 \in Nodes
  BY <1>1, <1>a DEF OrderOf, Nodes
<1>3. succ[p] = o[k + 1]
  BY <1>1, <1>2 DEF OrderOf
<1>4. k + 1 < VALUES /\ k + 2 \in Nodes /\ (k + 1) + 1 = k + 2
  BY <1>2, <1>3, <1>a DEF OrderOf, Nodes
<1>5. succ[o[k + 1]] = o[k + 2]
  BY <1>2, <1>4 DEF OrderOf
<1> DEFINE a == o[k + 1]
           b == o[k + 2]
           n == List!Exchanged(succ, p)
           r == [o EXCEPT ![k + 1] = b, ![k + 2] = a]
<1>6. /\ a \in Nodes /\ b \in Nodes /\ p # a /\ p # b /\ a # b
  BY <1>1, <1>2, <1>4 DEF OrderOf
<1>7. /\ \A i \in Nodes : r[i] = IF i = k + 1 THEN b ELSE IF i = k + 2 THEN a
                                 ELSE o[i]
      /\ r \in [Nodes -> Nodes]
  BY <1>2, <1>4, <1>6 DEF OrderOf
<1>8. n = [succ EXCEPT ![p] = b, ![b] = a, ![a] = succ[b]]
  BY <1>3, <1>5 DEF List!Exchanged
<1>9. \A q \in Nodes : n[q] = IF q = p THEN b ELSE IF q = b THEN a
                              ELSE IF q = a THEN succ[b] ELSE succ[q]
  BY <1>6, <1>8
<1> HIDE DEF n, r
<1>10. r[1] = first
  <2>1. 1 \in Nodes /\ 1 # k + 1 /\ 1 # k + 2
    BY <1>2, <1>a DEF Nodes
  <2>2. QED
    BY <1>7, <2>1 DEF OrderOf
<1>11. \A i, j \in Nodes : r[i] = r[j] => i = j
  BY <1>2, <1>4, <1>7 DEF OrderOf
<1>12. ASSUME NEW q \in Nodes PROVE \E i \in Nodes : r[i] = q
  <2>1. PICK i \in Nodes : o[i] = q
    BY DEF OrderOf
  <2>2. CASE i = k + 1
    BY <1>4, <1>7, <2>1, <2>2
  <2>3. CASE i = k + 2
    BY <1>2, <1>4, <1>7, <2>1, <2>3
  <2>4. CASE i # k + 1 /\ i # k + 2
    BY <1>7, <2>1, <2>4
  <2>5. QED
    BY <2>2, <2>3, <2>4
<1>13. ASSUME NEW i \in Nodes
       PROVE  n[r[i]] = IF i = VALUES THEN Null ELSE r[i + 1]
  <2>a. i \in Nat /\ (i # VALUES => i + 1 \in Nodes)
    BY <1>a DEF Nodes
  <2>1. CASE i = k
    BY <1>1, <1>2, <1>7, <1>9, <2>1
  <2>2. CASE i = k + 1
    <3>1. i # VALUES /\ i + 1 = k + 2 /\ k + 2 # k + 1
      BY <1>2, <1>4, <2>2
    <3>2. r[i] = b /\ r[i + 1] = a
      BY <1>4, <1>7, <2>2, <3>1
    <3>3. n[b] = a
      BY <1>6, <1>9
    <3>4. QED
      BY <3>1, <3>2, <3>3
  <2>3. CASE i = k + 2
    <3>1. r[i] = a /\ n[a] = succ[b]
      BY <1>2, <1>6, <1>7, <1>9, <2>3
    <3>2. succ[b] = IF i = VALUES THEN Null ELSE o[i + 1]
      BY <2>3 DEF OrderOf
    <3>3. i # VALUES => r[i + 1] = o[i + 1]
      BY <1>2, <1>7, <2>a, <2>3
    <3>4. QED
      BY <3>1, <3>2, <3>3
  <2>4. CASE i \notin {k, k + 1, k + 2}
    <3>1. r[i] = o[i] /\ o[i] \in Nodes
      BY <1>7, <2>4 DEF OrderOf
    <3>2. o[i] # p /\ o[i] # a /\ o[i] # b
      BY <1>1, <1>2, <1>4, <2>4 DEF OrderOf
    <3>3. n[r[i]] = succ[o[i]]
      BY <1>9, <3>1, <3>2
    <3>4. i # VALUES => r[i + 1] = o[i + 1]
      BY <1>2, <1>7, <2>a, <2>4
    <3>5. QED
      BY <3>3, <3>4 DEF OrderOf
  <2>5. QED
    BY <2>1, <2>2, <2>3, <2>4
<1>14. QED
  BY <1>7, <1>10, <1>11, <1>12, <1>13 DEF OrderOf, n

\* A set of natural numbers that is not empty has a least member.
LEMMA LeastMember ==
  ASSUME NEW T, T \subseteq Nat, T # {}
  PROVE  \E m \in T : \A n \in T : m <= n
<1>1. PICK m \in T : \A n \in T : ~ <<n, m>> \in OpToRel(<, Nat)
  BY NatLessThanWellFounded, WFMin, Zenon
<1>2. ASSUME NEW n \in T, n < m PROVE FALSE
  <2>1. <<n, m>> \in Nat \X Nat /\ <<n, m>>[1] < <<n, m>>[2]
    BY <1>2
  <2>2. <<n, m>> \in OpToRel(<, Nat)
    BY <2>1, Zenon DEF OpToRel
  <2>3. QED
    BY <1>1, <2>2, Zenon
<1>3. m \in T
  BY <1>1, Zenon
<1>4. QED
  BY <1>2, <1>3

\* Following the pointers from the first node visits the nodes in that order.
\* (If not, there is a first place where it does not.)
LEMMA ChainFollowsOrder ==
  ASSUME NEW o, OrderOf(o, Settled)
  PROVE  \A i \in 1 .. VALUES + 1 : Chain[i] = IF i = VALUES + 1 THEN Null ELSE o[i]
<1> DEFINE D == 1 .. VALUES + 1
           W == [i \in D |-> IF i = VALUES + 1 THEN Null ELSE o[i]]
           Eq(f) == f = [i \in D |-> IF i = 1 THEN first
                                     ELSE After(f[i - 1])]
           F == CHOOSE f : Eq(f)
<1>1. VALUES \in Nat /\ VALUES > 4 /\ Null \notin Nodes
  BY StorageAssumption DEF Null, Nodes
<1>2. Eq(W)
  <2>1. ASSUME NEW i \in D
        PROVE  W[i] = IF i = 1 THEN first
                      ELSE After(W[i - 1])
    <3>1. CASE i = 1
      BY <1>1, <3>1 DEF OrderOf
    <3>2. CASE i # 1
      <4>1. i - 1 \in D /\ i - 1 \in Nodes /\ (i - 1) + 1 = i /\ i - 1 # VALUES + 1
        BY <1>1, <3>2 DEF Nodes
      <4>2. W[i - 1] = o[i - 1] /\ o[i - 1] # Null
        BY <1>1, <4>1 DEF OrderOf
      <4>3. Settled[o[i - 1]] = IF i - 1 = VALUES THEN Null ELSE o[i]
        BY <4>1 DEF OrderOf
      <4>4. W[i] = IF i - 1 = VALUES THEN Null ELSE o[i]
        BY <1>1, <4>1
      <4>5. QED
        BY <3>2, <4>2, <4>3, <4>4 DEF After
    <3>3. QED
      BY <3>1, <3>2
  <2>2. QED
    BY <2>1
<1>3. Chain = [i \in D |-> F[i]]
  BY DEF Chain
<1>4. Eq(F)
  <2> HIDE DEF Eq, W
  <2>1. QED
    BY <1>2, Zenon
<1>5. \A i \in D : F[i] = W[i]
  <2>1. SUFFICES ASSUME NEW k \in D, F[k] # W[k] PROVE FALSE
    OBVIOUS
  <2> DEFINE T == {i \in D : F[i] # W[i]}
  <2>2. T \subseteq Nat /\ T # {}
    <3> HIDE DEF F, W
    <3>1. QED
      BY <1>1, <2>1
  <2>3. PICK m \in T : \A n \in T : m <= n
    BY <2>2, LeastMember
  <2> HIDE DEF F, W
  <2>4. CASE m = 1
    <3>1. F[1] = first /\ W[1] = first
      BY <1>1, <1>2, <1>4
    <3>2. QED
      BY <2>3, <2>4, <3>1
  <2>5. CASE m # 1
    <3>1. m \in D /\ m - 1 \in D /\ m - 1 \notin T /\ F[m] # W[m]
      BY <1>1, <2>3, <2>5
    <3>2. F[m - 1] = W[m - 1]
      BY <3>1
    <3>3. F[m] = After(F[m - 1])
      BY <1>4, <2>5, <3>1, Zenon
    <3>4. W[m] = After(W[m - 1])
      BY <1>2, <2>5, <3>1, Zenon
    <3>5. QED
      BY <3>1, <3>2, <3>3, <3>4
  <2>6. QED
    BY <2>4, <2>5
<1>6. QED
  <2> HIDE DEF F
  <2>1. QED
    BY <1>3, <1>5

Ordered == \E o : OrderOf(o, Settled)

\* initStorage puts the nodes in the order of their numbers.
LEMMA InitOrdered == Init => Ordered
<1> SUFFICES ASSUME Init PROVE Ordered
  OBVIOUS
<1>a. VALUES \in Nat /\ VALUES > 4 /\ NoThread \notin InSwap
  BY StorageAssumption DEF InSwap, Threads
<1>1. \A i \in Nodes : Settled[i] = IF i < VALUES THEN i + 1 ELSE Null
  BY <1>a DEF Init, Settled
<1> DEFINE o == [i \in Nodes |-> i]
<1>2. OrderOf(o, Settled)
  <2>1. 1 \in Nodes /\ \A i \in Nodes : i < VALUES => i + 1 \in Nodes
    BY <1>a DEF Nodes
  <2>2. \A i \in Nodes : i < VALUES <=> i # VALUES
    BY <1>a DEF Nodes
  <2>3. QED
    BY <1>1, <2>1, <2>2 DEF OrderOf, first
<1>3. QED
  BY <1>2 DEF Ordered

\* The three stores of a swap (mutex.c:200-202, rwlock.c:200-202), interleaved
\* with those of other swaps and with counters, never lose, repeat or cut off a
\* node, in a list of any length, until a lock is released that is not held.
THEOREM RWListIntact == RWSpec => []ListIntact
<1>1. RWInit => (stray \/ Ordered)
  BY InitOrdered DEF RWInit
<1>2. RWIInv /\ RWIInv' /\ (stray \/ Ordered) /\ [RWNext]_rwVars
        => (stray \/ Ordered)'
  <2> SUFFICES ASSUME RWIInv, RWIInv', stray \/ Ordered, [RWNext]_rwVars, ~stray'
               PROVE  Ordered'
    OBVIOUS
  <2>1. ~stray
    <3>1. ASSUME stray, NEW c, RWWalks(c) \/ RWCounts(c) PROVE stray'
      BY <3>1 DEF RWWalks, RWCounts, CStart, CWalk, CTest, Report, RLock1, RLock2,
        RUnlock1, RUnlock2, Fault, ReadUnlock
    <3>2. QED
      BY <3>1, RWCases, StrayStays DEF RWSwapper, rwVars, vars
  <2>2. PICK o : OrderOf(o, Settled)
    BY <2>1 DEF Ordered
  <2>3. Settled \in [Nodes -> Nodes \cup {Null}]
    <3>1. ASSUME NEW p \in Nodes PROVE Settled[p] \in Nodes \cup {Null}
      <4>1. holder[p] \in InSwap => local[holder[p]] \in Locals
        BY DEF RWIInv, TypeOK, InSwap, Threads, Locals
      <4>2. QED
        BY <4>1 DEF RWIInv, TypeOK, Settled, Locals
    <3>2. QED
      BY <3>1 DEF Settled
  <2>4. PICK m : m = Settled'
    OBVIOUS
  <2>5. \E r : OrderOf(r, m)
    BY <2>1, <2>2, <2>3, <2>4, RWStepExchanges, ExchangeOrder
  <2>6. QED
    BY <2>4, <2>5 DEF Ordered
<1>3. stray \/ Ordered => ListIntact
  <2> SUFFICES ASSUME NEW o, OrderOf(o, Settled) PROVE ListIntact
    BY DEF Ordered, ListIntact
  <2>a. VALUES \in Nat
    BY StorageAssumption
  <2>1. \A i \in 1 .. VALUES + 1 :
          Chain[i] = IF i = VALUES + 1 THEN Null ELSE o[i]
    BY ChainFollowsOrder
  <2>2. \A i \in Nodes : Chain[i] = o[i]
    BY <2>a, <2>1 DEF Nodes
  <2>3. Chain[VALUES + 1] = Null
    BY <2>a, <2>1
  <2>4. \A p \in Nodes : \E i \in Nodes : Chain[i] = p
    BY <2>2 DEF OrderOf
  <2>5. QED
    BY <2>3, <2>4 DEF ListIntact
<1>4. QED
  BY <1>1, <1>2, <1>3, RWInvariance, PTL DEF RWSpec

\* With no counters beside them, the swappers of both programs, any number of
\* them, only release locks that they hold (mutex.c:207-209, rwlock.c:207-209).
THEOREM RWSwappersOwnLocksOnly ==
  ASSUME Counters = {}
  PROVE  RWSpec => []OwnLocksOnly
<1>1. RWIInv /\ OwnLocksOnly /\ [RWNext]_rwVars => OwnLocksOnly'
  <2> SUFFICES ASSUME RWIInv, ~stray, [RWNext]_rwVars PROVE ~stray'
    BY DEF OwnLocksOnly
  <2>1. Some(Swappers) /\ Steady(Swappers)
    BY DEF RWIInv, RWHolds, Some, Threads, Steady
  <2>2. CASE UNCHANGED rwVars
    BY <2>2 DEF rwVars, vars
  <2>3. QED
    BY <2>1, <2>2, SwapperOwnLocks, RWCases DEF RWSwapper
<1>2. RWInit => OwnLocksOnly
  BY DEF RWInit, Init, OwnLocksOnly
<1>3. QED
  BY <1>1, <1>2, RWInvariance, PTL DEF RWSpec

\* Hence they exchange neighbours and do nothing else to the list, whatever
\* its length (mutex.c:181-295, rwlock.c:181-295).
THEOREM RWSwappersImplementSwapList ==
  ASSUME Counters = {}
  PROVE  RWSpec => SwapListSpec
<1>1. RWIInv /\ OwnLocksOnly /\ [RWNext]_rwVars /\ RWIInv' /\ OwnLocksOnly'
        => [List!Next]_Settled
  <2> SUFFICES ASSUME RWIInv, ~stray, RWIInv', ~stray', [RWNext]_rwVars
               PROVE  Settled' = Settled \/ List!Next
    BY DEF OwnLocksOnly
  <2>1. QED
    BY RWStepExchanges
<1>2. RWInit => List!Init
  BY ListInit DEF RWInit
<1>3. QED
  BY <1>1, <1>2, RWInvariance, RWSwappersOwnLocksOnly, PTL
  DEF RWSpec, SwapListSpec, List!Spec

-----------------------------------------------------------------------------
(* What the counters count, when nobody swaps.                             *)

\* c has the lock of p, for reading if the program has such locks.
Has(c, p) == IF program = "mutex" THEN holder[p] = c ELSE c \in readers[p]

\* What the result starts from.
Extra(c) == IF Kind[c] = "equal" THEN Random ELSE {0}

\* The pairs of a kind up to the one that starts at node k.
Passed(kind, k) == {i \in Pairs(kind) : i <= k}

\* The last pair that c has counted.
Place(c) ==
  IF pc[c] \in {"clock1", "clock2", "ctest"} THEN local[c].current - 1
  ELSE IF pc[c] = "report" THEN VALUES - 1 ELSE local[c].current

CountOK(c) ==
  /\ pc[c] \in {"start", "clock1", "clock2", "cunlock1", "cunlock2", "cwalk",
                "ctest", "report"}
  /\ pc[c] \in {"clock1", "clock2", "cunlock1", "cunlock2", "cwalk"} =>
       local[c].current \in 1 .. VALUES - 1
  /\ pc[c] = "cunlock2" => Has(c, local[c].current + 1)
  /\ pc[c] # "start" =>
       local[c].count - Cardinality(Passed(Kind[c], Place(c))) \in Extra(c)

CountInv ==
  /\ ~stray
  /\ next = [p \in Nodes |-> IF p < VALUES THEN p + 1 ELSE Null]
  /\ \A c \in Counters : CountOK(c)

\* One more pair is passed, and counts if it is of the kind.
LEMMA PassedCount ==
  ASSUME NEW kind
  PROVE  /\ Cardinality(Passed(kind, 0)) = 0
         /\ Passed(kind, VALUES - 1) = Pairs(kind)
         /\ \A k \in 0 .. VALUES - 1 :
              Cardinality(Passed(kind, k)) \in 0 .. VALUES - 1
         /\ \A k \in 1 .. VALUES - 1 :
              Cardinality(Passed(kind, k)) = Cardinality(Passed(kind, k - 1))
                + (IF k \in Pairs(kind) THEN 1 ELSE 0)
<1>a. VALUES \in Nat /\ VALUES - 1 \in Nat /\ Pairs(kind) \subseteq 1 .. VALUES - 1
  BY StorageAssumption DEF Pairs
<1>b. IsFiniteSet(1 .. VALUES - 1) /\ Cardinality(1 .. VALUES - 1) = VALUES - 1
  <2>1. VALUES - 1 \in Nat
    BY <1>a
  <2>2. QED
    BY <2>1, FS_Interval
<1>c. \A k : /\ Passed(kind, k) \subseteq 1 .. VALUES - 1
             /\ IsFiniteSet(Passed(kind, k))
  <2>1. \A k : Passed(kind, k) \subseteq 1 .. VALUES - 1
    BY <1>a DEF Passed
  <2>2. QED
    BY <1>b, <2>1, FS_Subset
<1>1. Cardinality(Passed(kind, 0)) = 0
  <2>1. Passed(kind, 0) = {}
    BY <1>a DEF Passed
  <2>2. QED
    BY <2>1, FS_EmptySet
<1>2. Passed(kind, VALUES - 1) = Pairs(kind)
  BY <1>a DEF Passed
<1>3. ASSUME NEW k \in 0 .. VALUES - 1
      PROVE  Cardinality(Passed(kind, k)) \in 0 .. VALUES - 1
  <2>1. /\ Cardinality(Passed(kind, k)) \in Nat
        /\ Cardinality(Passed(kind, k)) <= Cardinality(1 .. VALUES - 1)
    BY <1>b, <1>c, FS_Subset, FS_CardinalityType
  <2>2. QED
    BY <1>a, <1>b, <2>1
<1>4. ASSUME NEW k \in 1 .. VALUES - 1
      PROVE  Cardinality(Passed(kind, k)) = Cardinality(Passed(kind, k - 1))
               + (IF k \in Pairs(kind) THEN 1 ELSE 0)
  <2>1. CASE k \in Pairs(kind)
    <3>1. /\ Passed(kind, k) = Passed(kind, k - 1) \cup {k}
          /\ k \notin Passed(kind, k - 1)
      BY <1>a, <2>1 DEF Passed
    <3>2. QED
      BY <1>c, <2>1, <3>1, FS_AddElement
  <2>2. CASE k \notin Pairs(kind)
    <3>1. Passed(kind, k) = Passed(kind, k - 1)
      BY <1>a, <2>2 DEF Passed
    <3>2. Cardinality(Passed(kind, k)) \in Nat
      BY <1>c, FS_CardinalityType
    <3>3. QED
      BY <2>2, <3>1, <3>2
  <2>3. QED
    BY <2>1, <2>2
<1>5. QED
  BY <1>1, <1>2, <1>3, <1>4

\* Nodes that nobody has moved compare as their numbers do.
LEMMA ComparesPair ==
  ASSUME NEW c \in Threads, NEW k \in 1 .. VALUES - 1
  PROVE  Compares(c, k, k + 1) <=> k \in Pairs(Kind[c])
<1>1. /\ Lengths[k] \in Nat /\ Lengths[k + 1] \in Nat
      /\ Kind[c] \in {"increase", "decrease", "equal"}
  BY StorageAssumption DEF Nodes
<1> DEFINE a == Lengths[k]
           b == Lengths[k + 1]
           kind == IF a < b THEN "increase" ELSE IF a > b THEN "decrease"
                   ELSE "equal"
<1>2. k \in Pairs(Kind[c]) <=> Kind[c] = kind
  BY DEF Pairs
<1>3. Compares(c, k, k + 1) <=> \/ Kind[c] = "increase" /\ a < b
                                \/ Kind[c] = "decrease" /\ a > b
                                \/ Kind[c] = "equal" /\ a = b
  BY <1>1 DEF Compares
<1>4. QED
  BY <1>1, <1>2, <1>3

\* What a counter does, in both programs.
CountDone(c) ==
  LET l == local[c]
      p == next[l.current]
  IN
  \/ /\ pc[c] = "start" /\ pc'[c] = "clock1" /\ stray' = stray
     /\ local'[c].current = first /\ local'[c].count \in Extra(c)
  \/ /\ pc[c] = "clock1" /\ pc'[c] = "clock2" /\ stray' = stray
     /\ local'[c] = l
  \/ /\ pc[c] = "clock2" /\ pc'[c] = "cunlock1" /\ stray' = stray
     /\ local'[c].current = l.current
     /\ local'[c].count =
          IF l.count < 2 * VALUES
          THEN l.count + (IF Compares(c, l.current, p) THEN 1 ELSE 0)
          ELSE l.count
  \/ /\ pc[c] = "cunlock1" /\ pc'[c] = "cunlock2" /\ local'[c] = l
     /\ Has(c, l.current) => stray' = stray
     /\ \A q \in Nodes \ {l.current} : Has(c, q) => Has(c, q)'
  \/ /\ pc[c] = "cunlock2" /\ pc'[c] = "cwalk" /\ local'[c] = l
     /\ Has(c, p) => stray' = stray
  \/ /\ pc[c] = "cwalk" /\ pc'[c] = (IF p = Null THEN "report" ELSE "ctest")
     /\ stray' = stray
     /\ local'[c].current = p /\ local'[c].count = l.count
  \/ /\ pc[c] = "ctest" /\ pc'[c] = (IF p = Null THEN "report" ELSE "clock1")
     /\ stray' = stray /\ local'[c] = l
  \/ /\ pc[c] = "report" /\ pc'[c] = "start" /\ stray' = stray
  \/ pc[c] \in {"clock2", "cunlock2"} /\ p = Null /\ stray' = stray

\* The steps of a counter, in either program.
CounterStep(c) ==
  \/ program = "mutex" /\ Counter(c) /\ UNCHANGED <<program, readers>>
  \/ program = "rwlock" /\ program' = program /\ (RWWalks(c) \/ RWCounts(c))

\* They are described above, and leave the other counters where they are.
LEMMA CounterDoes ==
  ASSUME RWIInv, NEW c \in Counters, CounterStep(c)
  PROVE  /\ next' = next /\ program' = program
         /\ \A d \in Counters \ {c} : pc'[d] = pc[d] /\ local'[d] = local[d]
         /\ CountDone(c)
<1> DEFINE l == local[c]
           p == next[l.current]
<1>a. /\ c \in Threads /\ pc \in [Threads -> Places] /\ local \in [Threads -> Locals]
      /\ TypeOK /\ l \in Locals /\ stray \in BOOLEAN
  BY DEF RWIInv, TypeOK, Threads, Places, Locals
<1>b. ASSUME NEW from, NEW to, NEW m, Goto(c, from, to, m)
      PROVE  /\ pc[c] = from /\ pc'[c] = to
             /\ to # "start" => local'[c] = m
             /\ \A d \in Counters \ {c} : pc'[d] = pc[d] /\ local'[d] = local[d]
  BY <1>a, <1>b DEF Goto, Threads
<1>1. next' = next /\ program' = program
  BY DEF CounterStep, RWWalks, RWCounts, Counter, CStart, CLock1, CLock2,
         CUnlock1, CUnlock2, CWalk, CTest, Report, RLock1, RLock2, RUnlock1,
         RUnlock2, Fault
<1>2. \A d \in Counters \ {c} : pc'[d] = pc[d] /\ local'[d] = local[d]
  <2>1. \E from, to, m : Goto(c, from, to, m)
    BY DEF CounterStep, RWWalks, RWCounts, Counter, CStart, CLock1, CLock2,
           CUnlock1, CUnlock2, CWalk, CTest, Report, RLock1, RLock2, RUnlock1,
           RUnlock2, Fault
  <2>2. QED
    BY <1>b, <2>1
<1>3. CountDone(c)
  <2>1. CASE CStart(c)
    <3>1. PICK k \in Extra(c) :
            /\ Goto(c, "start", "clock1", [Fresh EXCEPT !.current = first, !.count = k])
            /\ stray' = stray
      BY <2>1 DEF CStart, Extra
    <3> DEFINE m == [Fresh EXCEPT !.current = first, !.count = k]
    <3>2. m.current = first /\ m.count = k
      BY DEF Fresh
    <3>3. Goto(c, "start", "clock1", m) /\ stray' = stray
      BY <3>1
    <3> HIDE DEF m
    <3>4. pc[c] = "start" /\ pc'[c] = "clock1" /\ local'[c] = m
      BY <1>b, <3>3
    <3>5. QED
      BY <3>2, <3>3, <3>4 DEF CountDone
  <2>2. CASE CLock1(c) \/ RLock1(c)
    BY <1>b, <2>2 DEF CLock1, RLock1, CountDone
  <2>3. CASE CLock2(c) \/ RLock2(c)
    <3>1. CASE p = Null
      BY <2>3, <3>1 DEF CLock2, RLock2, Fault, CountDone
    <3>2. CASE p # Null
      <4> DEFINE one == IF Compares(c, l.current, p) THEN 1 ELSE 0
                 m == [l EXCEPT !.count = IF @ < 2 * VALUES THEN @ + one ELSE @]
      <4>1. Goto(c, "clock2", "cunlock1", m) /\ stray' = stray
        BY <2>3, <3>2 DEF CLock2, RLock2
      <4>2. /\ m.current = l.current
            /\ m.count = IF l.count < 2 * VALUES THEN l.count + one ELSE l.count
        BY <1>a DEF Locals
      <4> HIDE DEF m
      <4>3. pc[c] = "clock2" /\ pc'[c] = "cunlock1" /\ local'[c] = m
        BY <1>b, <4>1
      <4>4. QED
        BY <4>1, <4>2, <4>3 DEF CountDone
    <3>3. QED
      BY <3>1, <3>2
  <2>4. CASE CUnlock1(c) \/ RUnlock1(c)
    <3>1. pc[c] = "cunlock1" /\ pc'[c] = "cunlock2" /\ local'[c] = l
      BY <1>b, <2>4 DEF CUnlock1, RUnlock1
    <3>2. l.current \in Nodes
      BY <1>a, <3>1 DEF RWIInv, AtNode
    <3>3. CASE program = "mutex"
      <4>1. UnlockNodes(c, {l.current}) /\ program' = "mutex"
        BY <2>4, <3>3, <1>1 DEF CounterStep, RWWalks, CUnlock1, RUnlock1, Counter,
          CStart, CLock1, CLock2, CUnlock2, CWalk, CTest, Report, Fault, Goto
      <4>2. Has(c, l.current) => stray' = stray
        BY <1>a, <3>3, <4>1 DEF Has, UnlockNodes
      <4>3. \A q \in Nodes \ {l.current} : Has(c, q) => Has(c, q)'
        BY <3>3, <4>1 DEF Has, UnlockNodes
      <4>4. QED
        BY <3>1, <4>2, <4>3 DEF CountDone
    <3>4. CASE program = "rwlock"
      <4>1. ReadUnlock(c, l.current) /\ program' = "rwlock"
        BY <3>1, <3>4, <1>1 DEF CounterStep, RWWalks, RWCounts, RUnlock1, RLock1,
          RLock2, RUnlock2, CStart, CWalk, CTest, Report, Fault, Goto
      <4>2. Has(c, l.current) => stray' = stray
        BY <1>a, <3>4, <4>1 DEF Has, ReadUnlock
      <4>3. \A q \in Nodes \ {l.current} : Has(c, q) => Has(c, q)'
        BY <3>4, <4>1 DEF Has, ReadUnlock, RWIInv
      <4>4. QED
        BY <3>1, <4>2, <4>3 DEF CountDone
    <3>5. QED
      BY <3>3, <3>4 DEF CounterStep
  <2>5. CASE CUnlock2(c) \/ RUnlock2(c)
    <3>1. CASE p = Null
      BY <2>5, <3>1 DEF CUnlock2, RUnlock2, Fault, CountDone
    <3>2. CASE p # Null
      <4>1. pc[c] = "cunlock2" /\ pc'[c] = "cwalk" /\ local'[c] = l
        BY <1>b, <2>5, <3>2 DEF CUnlock2, RUnlock2
      <4>2. CASE program = "mutex"
        <5>1. UnlockNodes(c, {p})
          BY <4>1, <4>2, <3>2 DEF CounterStep, Counter, CUnlock2,
            CStart, CLock1, CLock2, CUnlock1, CWalk, CTest, Report, Goto
        <5>2. QED
          BY <1>a, <4>1, <4>2, <5>1 DEF Has, UnlockNodes, CountDone
      <4>3. CASE program = "rwlock"
        <5>1. ReadUnlock(c, p)
          BY <4>1, <4>3, <3>2 DEF CounterStep, RWWalks, RWCounts, RUnlock1, RLock1,
            RLock2, RUnlock2, CStart, CWalk, CTest, Report, Goto
        <5>2. QED
          BY <1>a, <4>1, <4>3, <5>1 DEF Has, ReadUnlock, CountDone
      <4>4. QED
        BY <4>2, <4>3 DEF CounterStep
    <3>3. QED
      BY <3>1, <3>2
  <2>6. CASE CWalk(c)
    <3> DEFINE m == [l EXCEPT !.current = p]
    <3>1. m.current = p /\ m.count = l.count
      BY <1>a DEF Locals
    <3>2. /\ Goto(c, "cwalk", IF p = Null THEN "report" ELSE "ctest", m)
          /\ stray' = stray
      BY <2>6 DEF CWalk
    <3> HIDE DEF m
    <3>3. /\ pc[c] = "cwalk" /\ local'[c] = m
          /\ pc'[c] = (IF p = Null THEN "report" ELSE "ctest")
      BY <1>b, <3>2
    <3>4. QED
      BY <3>1, <3>2, <3>3 DEF CountDone
  <2>7. CASE CTest(c) \/ Report(c)
    BY <1>b, <2>7 DEF CTest, Report, CountDone
  <2>8. QED
    BY <2>1, <2>2, <2>3, <2>4, <2>5, <2>6, <2>7
    DEF CounterStep, Counter, RWWalks, RWCounts
<1>4. QED
  BY <1>1, <1>2, <1>3

\* No counter loses a lock to another one, unless that one strays.
LEMMA OthersKeep ==
  ASSUME RWIInv, NEW c \in Counters, CounterStep(c), ~stray',
         NEW d \in Counters, d # c, NEW q \in Nodes, Has(d, q)
  PROVE  Has(d, q)'
<1>1. CASE program = "mutex"
  <2>1. holder[q] = d /\ d # NoThread /\ program' = "mutex" /\ Counter(c)
    BY <1>1, StorageAssumption DEF Has, CounterStep, Threads
  <2>2. holder'[q] = d
    <3>1. \A p : LockNode(c, p) => holder'[q] = d
      <4>1. holder \in [Nodes -> Threads \cup {NoThread}]
        BY DEF RWIInv, TypeOK
      <4>2. QED
        BY <2>1, <4>1 DEF LockNode
    <3>2. \A P : UnlockNodes(c, P) => holder'[q] = d
      BY <2>1 DEF UnlockNodes
    <3>3. QED
      BY <2>1, <3>1, <3>2
      DEF Counter, CStart, CLock1, CLock2, CUnlock1, CUnlock2, CWalk, CTest,
          Report, Fault
  <2>3. QED
    BY <2>1, <2>2 DEF Has
<1>2. CASE program = "rwlock"
  <2>1. /\ d \in readers[q] /\ program' = "rwlock" /\ (RWWalks(c) \/ RWCounts(c))
        /\ readers \in [Nodes -> SUBSET Counters]
    BY <1>2 DEF Has, CounterStep, RWIInv
  <2>2. \A p : ReadLock(c, p) \/ ReadUnlock(c, p) => d \in readers'[q]
    BY <2>1 DEF ReadLock, ReadUnlock
  <2>3. d \in readers'[q]
    BY <2>1, <2>2 DEF RWWalks, RWCounts, RLock1, RLock2, RUnlock1, RUnlock2
  <2>4. QED
    BY <2>1, <2>3 DEF Has
<1>3. QED
  BY <1>1, <1>2 DEF CounterStep

\* A counter that has compared a pair has the locks of both.
LEMMA HasPair ==
  ASSUME RWIInv, ~stray, NEW c \in Counters, pc[c] = "cunlock1"
  PROVE  LET i == local[c].current IN
         i \in Nodes /\ next[i] \in Nodes /\ Has(c, i) /\ Has(c, next[i])
<1>1. c \in Threads /\ RWHolds /\ local[c].current \in Nodes
  BY DEF Threads, RWIInv, AtNode
<1>2. CASE program = "mutex"
  <2>1. {p \in Nodes : holder[p] = c} = {local[c].current, next[local[c].current]}
    BY <1>1, <1>2 DEF RWHolds, Steady, HoldOK, Held
  <2>2. QED
    BY <1>1, <1>2, <2>1 DEF Has
<1>3. CASE program # "mutex"
  <2>1. {p \in Nodes : c \in readers[p]}
          = {local[c].current, next[local[c].current]}
    BY <1>1, <1>3 DEF RWHolds, ReadOK, Held
  <2>2. QED
    BY <1>1, <1>3, <2>1 DEF Has
<1>4. QED
  BY <1>2, <1>3

\* A step of a counter keeps what the counters have counted.
LEMMA CounterCounts ==
  ASSUME RWIInv, CountInv, NEW c \in Counters, CounterStep(c)
  PROVE  CountInv'
<1> DEFINE i == local[c].current
           N(k) == Cardinality(Passed(Kind[c], k))
<1>a. /\ c \in Threads /\ VALUES \in Nat /\ VALUES > 4
      /\ pc[c] \notin {"start", "report", "fault"} => i \in Nodes
      /\ ~stray /\ CountOK(c) /\ local[c].count \in Int
  BY StorageAssumption DEF Threads, RWIInv, AtNode, CountInv, TypeOK
<1>b. /\ next' = next /\ program' = program /\ CountDone(c)
      /\ \A d \in Counters \ {c} : pc'[d] = pc[d] /\ local'[d] = local[d]
  BY CounterDoes
<1>c. /\ i \in 1 .. VALUES - 1 => next[i] = i + 1 /\ i + 1 \in Nodes /\ next[i] # Null
      /\ i = VALUES => next[i] = Null
  BY <1>a DEF CountInv, Nodes, Null
<1>d. /\ N(0) = 0 /\ \A k \in 0 .. VALUES - 1 : N(k) \in 0 .. VALUES - 1
      /\ \A k \in 1 .. VALUES - 1 :
           N(k) = N(k - 1) + (IF k \in Pairs(Kind[c]) THEN 1 ELSE 0)
  BY PassedCount
<1>e. Extra(c) \subseteq 0 .. VALUES - 5 /\ Extra(c)' = Extra(c)
  BY <1>a DEF Extra, Random
<1> HIDE DEF N
<1>1. stray' = stray /\ CountOK(c)'
  <2>1. CASE pc[c] = "start"
    <3>1. /\ pc'[c] = "clock1" /\ stray' = stray
          /\ local'[c].current = 1 /\ local'[c].count \in Extra(c)
      BY <2>1, <1>b DEF CountDone, first
    <3>2. local'[c].count - N(0) \in Extra(c)
      BY <3>1, <1>d, <1>e
    <3>3. QED
      BY <1>a, <3>1, <3>2, <1>e DEF CountOK, Place, N
  <2>2. CASE pc[c] = "clock1"
    <3>1. pc'[c] = "clock2" /\ stray' = stray /\ local'[c] = local[c]
      BY <2>2, <1>b DEF CountDone
    <3>2. QED
      BY <1>a, <2>2, <3>1, <1>e DEF CountOK, Place
  <2>3. CASE pc[c] = "clock2"
    <3>1. i \in 1 .. VALUES - 1 /\ local[c].count - N(i - 1) \in Extra(c)
      BY <1>a, <2>3 DEF CountOK, Place, N
    <3>2. local[c].count < 2 * VALUES
      <4>1. i - 1 \in 0 .. VALUES - 1 /\ N(i - 1) \in 0 .. VALUES - 1
        BY <1>a, <1>d, <3>1
      <4>2. local[c].count - N(i - 1) \in 0 .. VALUES - 5
        BY <1>e, <3>1
      <4>3. QED
        BY <1>a, <4>1, <4>2
    <3>3. /\ pc'[c] = "cunlock1" /\ stray' = stray
          /\ local'[c].current = i
          /\ local'[c].count =
               local[c].count + (IF Compares(c, i, i + 1) THEN 1 ELSE 0)
      BY <2>3, <1>b, <1>c, <3>1, <3>2 DEF CountDone
    <3>4. local'[c].count - N(i) \in Extra(c)
      <4>1. Compares(c, i, i + 1) <=> i \in Pairs(Kind[c])
        BY <1>a, <3>1, ComparesPair
      <4>2. local'[c].count - N(i) = local[c].count - N(i - 1)
        BY <1>a, <1>d, <3>1, <3>3, <4>1
      <4>3. QED
        BY <3>1, <4>2
    <3>5. QED
      BY <1>a, <3>1, <3>3, <3>4, <1>e DEF CountOK, Place, N
  <2>4. CASE pc[c] = "cunlock1"
    <3>1. i \in 1 .. VALUES - 1 /\ Has(c, i) /\ Has(c, i + 1)
      BY <1>a, <1>c, <2>4, HasPair DEF CountOK
    <3>2. /\ pc'[c] = "cunlock2" /\ local'[c] = local[c] /\ stray' = stray
          /\ \A q \in Nodes \ {i} : Has(c, q) => Has(c, q)'
      BY <2>4, <1>b, <3>1 DEF CountDone
    <3>3. Has(c, i + 1)'
      BY <1>c, <3>1, <3>2
    <3>4. Has(c, local[c].current + 1)'
      BY <3>2, <3>3 DEF Has
    <3>5. QED
      BY <1>a, <2>4, <3>1, <3>2, <3>4, <1>e DEF CountOK, Place
  <2>5. CASE pc[c] = "cunlock2"
    <3>1. i \in 1 .. VALUES - 1 /\ Has(c, i + 1)
      BY <1>a, <2>5 DEF CountOK
    <3>2. pc'[c] = "cwalk" /\ local'[c] = local[c] /\ stray' = stray
      BY <2>5, <1>b, <1>c, <3>1 DEF CountDone
    <3>3. QED
      BY <1>a, <2>5, <3>1, <3>2, <1>e DEF CountOK, Place
  <2>6. CASE pc[c] = "cwalk"
    <3>1. i \in 1 .. VALUES - 1 /\ local[c].count - N(i) \in Extra(c)
      BY <1>a, <2>6 DEF CountOK, Place, N
    <3>2. /\ pc'[c] = "ctest" /\ stray' = stray
          /\ local'[c].current = i + 1 /\ local'[c].count = local[c].count
      BY <2>6, <1>b, <1>c, <3>1 DEF CountDone
    <3>3. local'[c].current - 1 = i
      BY <3>1, <3>2
    <3>4. QED
      BY <1>a, <3>1, <3>2, <3>3, <1>e DEF CountOK, Place, N
  <2>7. CASE pc[c] = "ctest"
    <3>1. i \in 1 .. VALUES /\ local[c].count - N(i - 1) \in Extra(c)
      BY <1>a, <2>7 DEF CountOK, Place, N, Nodes
    <3>2. /\ pc'[c] = (IF next[i] = Null THEN "report" ELSE "clock1")
          /\ stray' = stray /\ local'[c] = local[c]
      BY <2>7, <1>b DEF CountDone
    <3>3. CASE i = VALUES
      BY <1>a, <1>c, <3>1, <3>2, <3>3, <1>e DEF CountOK, Place, N
    <3>4. CASE i \in 1 .. VALUES - 1
      BY <1>a, <1>c, <3>1, <3>2, <3>4, <1>e DEF CountOK, Place, N
    <3>5. QED
      BY <1>a, <3>1, <3>3, <3>4
  <2>8. CASE pc[c] = "report"
    BY <2>8, <1>a, <1>b DEF CountDone, CountOK
  <2>9. QED
    BY <1>a, <2>1, <2>2, <2>3, <2>4, <2>5, <2>6, <2>7, <2>8 DEF CountOK
<1>2. ASSUME NEW d \in Counters, d # c PROVE CountOK(d)'
  <2>1. pc'[d] = pc[d] /\ local'[d] = local[d] /\ CountOK(d)
    BY <1>b, <1>2 DEF CountInv
  <2>2. pc[d] = "cunlock2" => Has(d, local[d].current + 1)'
    <3> SUFFICES ASSUME pc[d] = "cunlock2" PROVE Has(d, local[d].current + 1)'
      OBVIOUS
    <3> DEFINE q == local[d].current + 1
    <3>1. q \in Nodes /\ Has(d, q)
      BY <1>a, <2>1 DEF CountOK, Nodes
    <3>2. PICK r \in Nodes : r = q
      BY <3>1
    <3>3. Has(d, r)'
      BY <1>1, <1>2, <1>a, <3>1, <3>2, OthersKeep
    <3>4. QED
      BY <2>1, <3>2, <3>3 DEF Has
  <2>3. Extra(d)' = Extra(d) /\ Place(d)' = Place(d)
    BY <2>1 DEF Extra, Place
  <2>4. QED
    BY <2>1, <2>2, <2>3 DEF CountOK, Has
<1>3. QED
  BY <1>a, <1>b, <1>1, <1>2 DEF CountInv

\* Without swappers, the counters have always counted what they have passed.
LEMMA CountInvariance ==
  ASSUME Swappers = {}
  PROVE  RWSpec => []CountInv
<1>1. RWInit => CountInv
  BY DEF RWInit, Init, CountInv, CountOK, Threads
<1>2. RWIInv /\ CountInv /\ [RWNext]_rwVars => CountInv'
  <2> SUFFICES ASSUME RWIInv, CountInv, [RWNext]_rwVars PROVE CountInv'
    OBVIOUS
  <2>1. ASSUME NEW c \in Counters, CounterStep(c) PROVE CountInv'
    BY <2>1, CounterCounts
  <2>2. CASE UNCHANGED rwVars
    BY <2>2 DEF rwVars, vars, CountInv, CountOK, Place, Extra, Has
  <2>3. QED
    BY <2>1, <2>2, RWCases DEF CounterStep
<1>3. QED
  BY <1>1, <1>2, RWInvariance, PTL DEF RWSpec

\* While nobody swaps, any number of counters beside each other print, on each
\* of their passes through a list of any length, the number of neighbours of
\* their kind in it; for findEqualLengthStrings, a random number more
\* (mutex.c:100-179, rwlock.c:101-179).
THEOREM RWCountsPairs ==
  ASSUME Swappers = {}
  PROVE  RWSpec => []CountsPairs
<1>1. CountInv => CountsPairs
  <2> SUFFICES ASSUME CountInv, NEW c \in Counters, pc[c] = "report"
               PROVE  local[c].count - Cardinality(Pairs(Kind[c])) \in Extra(c)
    BY DEF CountsPairs, Extra
  <2>1. local[c].count - Cardinality(Passed(Kind[c], VALUES - 1)) \in Extra(c)
    BY DEF CountInv, CountOK, Place
  <2>2. QED
    BY <2>1, PassedCount
<1>2. QED
  BY <1>1, CountInvariance, PTL

\* And every lock that they release is one they hold, although mutex.c:115
\* (and rwlock.c:116) looks for the second of a pair through a pointer that the
\* first one's lock no longer protects.
THEOREM RWCountersOwnLocksOnly ==
  ASSUME Swappers = {}
  PROVE  RWSpec => []OwnLocksOnly
<1>1. CountInv => OwnLocksOnly
  BY DEF CountInv, OwnLocksOnly
<1>2. QED
  BY <1>1, CountInvariance, PTL

=============================================================================
