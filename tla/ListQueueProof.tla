--------------------------- MODULE ListQueueProof ---------------------------
(***************************************************************************)
(* The linked list of queue-mutex.c and queue-spinlock.c, behind its lock, *)
(* for every number of readers, writers and nodes and every max_count: no  *)
(* bad pointer is followed, nothing leaks, and the list is a bounded FIFO. *)
(* The proofs name the list that the pointers make, a sequence of nodes,   *)
(* and say what each action does to it.                                    *)
(***************************************************************************)
EXTENDS ListQueue, FiniteSetTheorems, SequenceTheorems, WellFoundedInduction,
        TLAPS

\* A set of natural numbers that is not empty has a least member.
LEMMA LeastMember ==
  ASSUME NEW T, T \subseteq Nat, T # {}
  PROVE  \E m \in T : \A n \in T : m <= n
<1>1. PICK m \in T : \A n \in T : ~ <<n, m>> \in OpToRel(<, Nat)
  BY NatLessThanWellFounded, WFMin, Zenon
<1>2. ASSUME NEW n \in T, n < m PROVE FALSE
  <2>1. <<n, m>> \in Nat \X Nat /\ <<n, m>>[1] < <<n, m>>[2]
    BY <1>2
  <2>2. <<n, m>> \in OpToRel(<, Nat)
    BY <2>1, Zenon DEF OpToRel
  <2>3. QED
    BY <1>1, <2>2, Zenon
<1>3. m \in T
  BY <1>1, Zenon
<1>4. QED
  BY <1>2, <1>3

\* s is the list that starts at head, along link.
ListFrom(head, link, s) ==
  /\ s \in Seq(Nodes)
  /\ \A i, j \in 1..Len(s) : s[i] = s[j] => i = j
  /\ head = IF s = <<>> THEN NULL ELSE s[1]
  /\ \A i \in 1..Len(s) : link[s[i]] = IF i = Len(s) THEN NULL ELSE s[i + 1]

\* A list is no longer than there are nodes.
LEMMA ListFits ==
  ASSUME NEW head, NEW link, NEW s, ListFrom(head, link, s)
  PROVE  Len(s) \in 0..Cardinality(Nodes)
<1>1. IsFiniteSet(Nodes) /\ Cardinality(Nodes) \in Nat
  BY ListQueueAssumption, FS_CardinalityType
<1>2. s \in [1..Len(s) -> Nodes] /\ Len(s) \in Nat
  BY LenProperties DEF ListFrom
<1>3. s \in Injection(1..Len(s), Nodes)
  BY <1>2 DEF ListFrom, Injection, IsInjective
<1>4. Cardinality(1..Len(s)) <= Cardinality(Nodes)
  BY <1>1, <1>3, FS_Injection
<1>5. Cardinality(1..Len(s)) = IF 1 > Len(s) THEN 0 ELSE Len(s) - 1 + 1
  BY <1>2, FS_Interval
<1>6. QED
  BY <1>1, <1>2, <1>4, <1>5

\* Walking the pointers of a list meets its nodes in order, and then NULL.
LEMMA WalkMeetsList ==
  ASSUME NEW head, NEW link, NEW s, ListFrom(head, link, s)
  PROVE  Walk(head, link) = [i \in 1..Cardinality(Nodes) + 1 |->
                               IF i <= Len(s) THEN s[i] ELSE NULL]
<1> DEFINE D == 1..Cardinality(Nodes) + 1
           W == [i \in D |-> IF i <= Len(s) THEN s[i] ELSE NULL]
           Eq(f) == f = [i \in D |->
                           IF i = 1 THEN head
                           ELSE IF f[i-1] = NULL THEN NULL ELSE link[f[i-1]]]
           F == Walk(head, link)
<1>1. /\ Cardinality(Nodes) \in Nat /\ Len(s) \in Nat
      /\ Len(s) <= Cardinality(Nodes)
      /\ \A i \in 1..Len(s) : s[i] \in Nodes
      /\ NULL \notin Nodes
      /\ s = <<>> <=> Len(s) = 0
  BY ListFits, ListQueueAssumption, FS_CardinalityType, EmptySeq DEF ListFrom
<1>2. Eq(W)
  <2>1. ASSUME NEW i \in D
        PROVE  W[i] = IF i = 1 THEN head
                      ELSE IF W[i-1] = NULL THEN NULL ELSE link[W[i-1]]
    <3>1. CASE i = 1
      BY <1>1, <3>1 DEF ListFrom
    <3>2. CASE i # 1 /\ i <= Len(s)
      <4>1. i - 1 \in D /\ i - 1 \in 1..Len(s) /\ i - 1 # Len(s) /\ (i-1) + 1 = i
        BY <1>1, <3>2
      <4>2. W[i-1] = s[i-1] /\ W[i] = s[i] /\ s[i-1] # NULL
        BY <1>1, <3>2, <4>1
      <4>3. link[s[i-1]] = s[i]
        BY <4>1 DEF ListFrom
      <4>4. QED
        BY <3>2, <4>2, <4>3
    <3>3. CASE i # 1 /\ i = Len(s) + 1
      <4>1. i - 1 \in D /\ i - 1 \in 1..Len(s) /\ i - 1 = Len(s)
        BY <1>1, <3>3
      <4>2. W[i-1] = s[i-1] /\ W[i] = NULL /\ s[i-1] # NULL
        BY <1>1, <3>3, <4>1
      <4>3. link[s[i-1]] = NULL
        BY <4>1 DEF ListFrom
      <4>4. QED
        BY <3>3, <4>2, <4>3
    <3>4. CASE i # 1 /\ i > Len(s) + 1
      <4>1. i - 1 \in D /\ ~(i - 1 <= Len(s)) /\ ~(i <= Len(s))
        BY <1>1, <3>4
      <4>2. W[i-1] = NULL /\ W[i] = NULL
        BY <4>1
      <4>3. QED
        BY <3>4, <4>2
    <3>5. QED
      BY <1>1, <3>1, <3>2, <3>3, <3>4
  <2>2. QED
    BY <2>1
<1>3. F = CHOOSE f : Eq(f)
  BY DEF Walk
<1>4. Eq(F)
  <2> HIDE DEF Eq, F, W
  <2>1. QED
    BY <1>2, <1>3, Zenon
<1>5. \A i \in D : F[i] = W[i]
  <2>1. SUFFICES ASSUME NEW k \in D, F[k] # W[k] PROVE FALSE
    OBVIOUS
  <2> DEFINE T == {i \in D : F[i] # W[i]}
  <2>2. T \subseteq Nat /\ T # {}
    <3> HIDE DEF F, W
    <3>1. QED
      BY <1>1, <2>1
  <2>3. PICK m \in T : \A n \in T : m <= n
    BY <2>2, LeastMember
  <2>4. CASE m = 1
    BY <1>1, <1>2, <1>4, <2>3, <2>4
  <2>5. CASE m # 1
    <3> HIDE DEF F, W
    <3>1. m \in D /\ m - 1 \in D /\ m - 1 \notin T /\ F[m] # W[m]
      BY <1>1, <2>3, <2>5
    <3>2. F[m-1] = W[m-1]
      BY <3>1
    <3>3. F[m] = IF F[m-1] = NULL THEN NULL ELSE link[F[m-1]]
      BY <1>4, <2>5, <3>1, Zenon
    <3>4. W[m] = IF W[m-1] = NULL THEN NULL ELSE link[W[m-1]]
      BY <1>2, <2>5, <3>1, Zenon
    <3>5. QED
      BY <3>1, <3>2, <3>3, <3>4
  <2>6. QED
    BY <2>4, <2>5
<1>6. QED
  <2> HIDE DEF F
  <2>1. F = [i \in D |-> F[i]]
    BY <1>4
  <2>2. F = W
    BY <1>5, <2>1
  <2>3. QED
    BY <2>2 DEF F

\* So the nodes found by walking are those of the list.
LEMMA NodesOfList ==
  ASSUME NEW head, NEW link, NEW s, ListFrom(head, link, s)
  PROVE  NodesFrom(head, link) = s
<1> DEFINE D == 1..Cardinality(Nodes) + 1
           W == [i \in D |-> IF i <= Len(s) THEN s[i] ELSE NULL]
<1>1. /\ Cardinality(Nodes) \in Nat /\ Len(s) \in Nat
      /\ Len(s) <= Cardinality(Nodes)
      /\ \A i \in 1..Len(s) : s[i] \in Nodes
      /\ NULL \notin Nodes /\ s \in Seq(Nodes)
  BY ListFits, ListQueueAssumption, FS_CardinalityType DEF ListFrom
<1>2. {i \in DOMAIN W : W[i] # NULL} = 1..Len(s)
  BY <1>1
<1>3. Cardinality(1..Len(s)) = Len(s)
  <2>1. Len(s) \in Nat
    BY <1>1
  <2>2. Cardinality(1..Len(s)) = IF 1 > Len(s) THEN 0 ELSE Len(s) - 1 + 1
    BY <2>1, FS_Interval
  <2>3. QED
    BY <2>1, <2>2
<1>4. NodesFrom(head, link) = SubSeq(W, 1, Len(s))
  <2>1. Walk(head, link) = W
    BY WalkMeetsList
  <2> HIDE DEF W
  <2>2. QED
    BY <1>2, <1>3, <2>1 DEF NodesFrom
<1>5. \A i \in 1..Len(s) : W[i] = s[i] /\ W[i] \in Nodes
  BY <1>1
<1>6. /\ SubSeq(W, 1, Len(s)) \in Seq(Nodes)
      /\ Len(SubSeq(W, 1, Len(s))) = Len(s)
      /\ \A i \in 1..Len(s) : SubSeq(W, 1, Len(s))[i] = W[i]
  <2> HIDE DEF W
  <2>1. QED
    BY <1>1, <1>5, SubSeqProperties
<1>7. QED
  <2> HIDE DEF W
  <2>1. QED
    BY <1>1, <1>4, <1>5, <1>6, SeqEqual

\* The nodes of a list.
Members(s) == {s[i] : i \in 1..Len(s)}

\* The members of a list and one more.
LEMMA MembersAppended ==
  ASSUME NEW s \in Seq(Nodes), NEW n \in Nodes
  PROVE  Members(Append(s, n)) = Members(s) \cup {n}
<1> DEFINE a == Append(s, n)
<1>1. Len(s) \in Nat /\ \A i \in 1..Len(s) : s[i] \in Nodes
  OBVIOUS
<1>2. /\ a \in Seq(Nodes) /\ Len(a) = Len(s) + 1
      /\ \A i \in 1..Len(s) : a[i] = s[i]
      /\ a[Len(s) + 1] = n
  BY <1>1, AppendProperties
<1> HIDE DEF a
<1>3. Members(a) = Members(s) \cup {n}
  <2>1. ASSUME NEW p \in Members(a) PROVE p \in Members(s) \cup {n}
    <3>1. PICK i \in 1..Len(a) : p = a[i]
      BY <2>1 DEF Members
    <3>2. CASE i = Len(s) + 1
      BY <1>2, <3>1, <3>2
    <3>3. CASE i \in 1..Len(s)
      BY <1>2, <3>1, <3>3 DEF Members
    <3>4. QED
      BY <1>1, <1>2, <3>1, <3>2, <3>3
  <2>2. ASSUME NEW p \in Members(s) PROVE p \in Members(a)
    <3>1. PICK i \in 1..Len(s) : p = s[i]
      BY <2>2 DEF Members
    <3>2. i \in 1..Len(a) /\ p = a[i]
      BY <1>1, <1>2, <3>1
    <3>3. QED
      BY <3>2 DEF Members
  <2>3. Len(s) + 1 \in 1..Len(a)
    BY <1>1, <1>2
  <2>4. n \in Members(a)
    BY <1>2, <2>3 DEF Members
  <2>5. QED
    BY <2>1, <2>2, <2>4
<1>4. QED
  BY <1>3 DEF a

\* A node that is not in the list, put after its last node, makes it longer.
LEMMA ListAppended ==
  ASSUME NEW head, NEW link \in [Nodes -> Nodes \cup {NULL}], NEW s,
         ListFrom(head, link, s),
         NEW n \in Nodes, n \notin Members(s), link[n] = NULL,
         NEW h, NEW k,
         s = <<>> => h = n /\ k = link,
         s # <<>> => h = head /\ k = [link EXCEPT ![s[Len(s)]] = n]
  PROVE  ListFrom(h, k, Append(s, n))
<1> DEFINE a == Append(s, n)
<1>1. /\ s \in Seq(Nodes) /\ Len(s) \in Nat
      /\ \A i \in 1..Len(s) : s[i] \in Nodes
      /\ s = <<>> <=> Len(s) = 0
  BY EmptySeq DEF ListFrom
<1>2. /\ a \in Seq(Nodes) /\ Len(a) = Len(s) + 1
      /\ \A i \in 1..Len(s) : a[i] = s[i]
      /\ a[Len(s) + 1] = n
      /\ a # <<>>
  BY <1>1, AppendProperties
<1> HIDE DEF a
<1>3. \A i, j \in 1..Len(a) : a[i] = a[j] => i = j
  <2> TAKE i, j \in 1..Len(a)
  <2> HAVE a[i] = a[j]
  <2>1. CASE i <= Len(s) /\ j <= Len(s)
    BY <1>1, <1>2, <2>1 DEF ListFrom
  <2>2. CASE i = Len(s) + 1 \/ j = Len(s) + 1
    BY <1>1, <1>2, <2>2 DEF Members
  <2>3. QED
    BY <1>1, <1>2, <2>1, <2>2
<1>4. h = IF a = <<>> THEN NULL ELSE a[1]
  BY <1>1, <1>2 DEF ListFrom
<1>5. ASSUME NEW i \in 1..Len(a)
      PROVE  k[a[i]] = IF i = Len(a) THEN NULL ELSE a[i + 1]
  <2>1. CASE i = Len(s) + 1
    <3>1. a[i] = n /\ i = Len(a)
      BY <1>2, <2>1
    <3>2. k[n] = NULL
      BY <1>1 DEF Members
    <3>3. QED
      BY <3>1, <3>2
  <2>2. CASE i = Len(s)
    <3>1. s # <<>> /\ a[i] = s[Len(s)] /\ a[i + 1] = n /\ i # Len(a)
      BY <1>1, <1>2, <2>2
    <3>2. k[s[Len(s)]] = n
      BY <1>1, <3>1, <2>2
    <3>3. QED
      BY <3>1, <3>2
  <2>3. CASE i < Len(s)
    <3>1. /\ i \in 1..Len(s) /\ i + 1 \in 1..Len(s) /\ i # Len(a)
          /\ a[i] = s[i] /\ a[i + 1] = s[i + 1] /\ s # <<>>
          /\ i # Len(s) /\ Len(s) \in 1..Len(s)
      BY <1>1, <1>2, <2>3
    <3>2. s[i] # s[Len(s)]
      BY <3>1 DEF ListFrom
    <3>3. k[s[i]] = link[s[i]]
      BY <1>1, <3>1, <3>2
    <3>4. link[s[i]] = s[i + 1]
      BY <3>1 DEF ListFrom
    <3>5. QED
      BY <3>1, <3>3, <3>4
  <2>4. QED
    BY <1>1, <1>2, <2>1, <2>2, <2>3
<1>6. ListFrom(h, k, a)
  BY <1>2, <1>3, <1>4, <1>5 DEF ListFrom
<1>7. QED
  BY <1>6 DEF a

\* The list without its first node is the one from where that node points.
LEMMA ListBeheaded ==
  ASSUME NEW head, NEW link, NEW s, ListFrom(head, link, s), s # <<>>
  PROVE  /\ ListFrom(link[s[1]], link, Tail(s))
         /\ Members(Tail(s)) = Members(s) \ {s[1]}
         /\ Len(Tail(s)) = Len(s) - 1
         /\ Tail(s) # <<>> => Tail(s)[Len(Tail(s))] = s[Len(s)]
<1> DEFINE t == Tail(s)
<1>1. s \in Seq(Nodes) /\ Len(s) \in Nat \ {0}
  BY EmptySeq DEF ListFrom
<1>2. /\ t \in Seq(Nodes) /\ Len(t) = Len(s) - 1
      /\ \A i \in 1..Len(t) : t[i] = s[i + 1]
  BY <1>1, HeadTailProperties
<1>3. t = <<>> <=> Len(t) = 0
  BY <1>2, EmptySeq
<1> HIDE DEF t
<1>4. \A i, j \in 1..Len(t) : t[i] = t[j] => i = j
  BY <1>1, <1>2 DEF ListFrom
<1>5. link[s[1]] = IF t = <<>> THEN NULL ELSE t[1]
  BY <1>1, <1>2, <1>3 DEF ListFrom
<1>6. ASSUME NEW i \in 1..Len(t)
      PROVE  link[t[i]] = IF i = Len(t) THEN NULL ELSE t[i + 1]
  <2>1. i + 1 \in 1..Len(s) /\ t[i] = s[i + 1]
    BY <1>1, <1>2
  <2>2. link[s[i + 1]] = IF i + 1 = Len(s) THEN NULL ELSE s[(i + 1) + 1]
    BY <2>1 DEF ListFrom
  <2>3. i # Len(t) => i + 1 \in 1..Len(t) /\ t[i + 1] = s[(i + 1) + 1]
    BY <1>1, <1>2
  <2>4. QED
    BY <1>1, <1>2, <2>1, <2>2, <2>3
<1>7. Members(t) = Members(s) \ {s[1]}
  <2>1. ASSUME NEW p \in Members(t) PROVE p \in Members(s) /\ p # s[1]
    <3>1. PICK i \in 1..Len(t) : p = t[i]
      BY <2>1 DEF Members
    <3>2. i + 1 \in 1..Len(s) /\ p = s[i + 1] /\ i + 1 # 1 /\ 1 \in 1..Len(s)
      BY <1>1, <1>2, <3>1
    <3>3. QED
      BY <3>2 DEF Members, ListFrom
  <2>2. ASSUME NEW p \in Members(s), p # s[1] PROVE p \in Members(t)
    <3>1. PICK i \in 1..Len(s) : p = s[i]
      BY <2>2 DEF Members
    <3>2. i - 1 \in 1..Len(t) /\ (i - 1) + 1 = i
      BY <1>1, <1>2, <2>2, <3>1
    <3>3. p = t[i - 1]
      BY <1>2, <3>1, <3>2
    <3>4. QED
      BY <3>2, <3>3 DEF Members
  <2>3. QED
    BY <2>1, <2>2
<1>8. t # <<>> => t[Len(t)] = s[Len(s)]
  BY <1>1, <1>2, <1>3
<1>9. ListFrom(link[s[1]], link, t)
  BY <1>2, <1>4, <1>5, <1>6 DEF ListFrom
<1>10. QED
  BY <1>2, <1>7, <1>8, <1>9 DEF t

\* A pointer that changes outside the list does not change the list.
LEMMA ListElsewhere ==
  ASSUME NEW head, NEW link, NEW s, ListFrom(head, link, s),
         NEW k, \A p \in Members(s) : k[p] = link[p]
  PROVE  ListFrom(head, k, s)
  BY DEF ListFrom, Members
-----------------------------------------------------------------------------
\* What every variable holds.
TypeOK ==
  /\ first \in Nodes \cup {NULL} /\ last \in Nodes \cup {NULL}
  /\ count \in 0..MAX_COUNT
  /\ val \in [Nodes -> 0..VALUES-1] /\ next \in [Nodes -> Nodes \cup {NULL}]
  /\ live \subseteq Nodes
  /\ lock \in Threads \cup {NULL}
  /\ pc \in [Threads -> {"call", "check", "test", "first", "append", "unlink",
                         "load", "store", "return"}]
  /\ node \in [Threads -> Nodes \cup {NULL}]
  /\ reg \in [Threads -> 0..MAX_COUNT \cup Nodes \cup {NULL}]
  /\ num \in [Threads -> 0..VALUES-1] /\ got \in [Readers -> 0..VALUES-1]

\* Who is inside queue_add or queue_get has the lock, and runs its own code.
LockInv ==
  /\ \A t \in Threads : pc[t] # "call" <=> lock = t
  /\ \A w \in Writers : pc[w] # "unlink"
  /\ \A r \in Readers : pc[r] \notin {"test", "first", "append"}

\* The places between the allocation of a node and its being linked.
Linking == {"test", "first", "append"}
\* The places between a change of the list and that of count.
Counting == {"load", "store"}

\* The list is s, and count, last and the heap agree with it as far as the
\* thread that has the lock is.
ListInv(s) ==
  /\ ListFrom(first, next, s)
  /\ s # <<>> => last = s[Len(s)]
  /\ Len(s) <= MAX_COUNT
  /\ (\A t \in Threads : pc[t] \notin Counting) => count = Len(s)
  /\ (\A t \in Threads : pc[t] \notin Linking) => live = Members(s)
  /\ \A w \in Writers :
       /\ pc[w] \in Linking =>
            /\ node[w] \in Nodes \ Members(s)
            /\ live = Members(s) \cup {node[w]}
            /\ next[node[w]] = NULL /\ val[node[w]] = num[w]
            /\ Len(s) < MAX_COUNT
       /\ pc[w] = "first" => s = <<>>
       /\ pc[w] = "append" => s # <<>>
       /\ pc[w] \in Counting => count = Len(s) - 1
       /\ pc[w] = "store" => reg[w] = count
  /\ \A r \in Readers :
       /\ pc[r] = "unlink" => s # <<>> /\ node[r] = s[1] /\ reg[r] = next[s[1]]
                                /\ got[r] = val[s[1]]
       /\ pc[r] \in Counting => count = Len(s) + 1 /\ Len(s) < MAX_COUNT
       /\ pc[r] = "store" => reg[r] = count

\* What follows a value of the writer.
Succ(v) == (v + 1) % VALUES

\* The invariant, about the list s; and that there is such a list.
Good(s) == TypeOK /\ LockInv /\ ~fault /\ ListInv(s)
IInv == \E s \in Seq(Nodes) : Good(s)

-----------------------------------------------------------------------------
\* At first nobody has the lock and the list is empty.
LEMMA InitIInv == Init => IInv
<1> SUFFICES ASSUME Init PROVE Good(<<>>)
  BY EmptySeq DEF IInv
<1> USE ListQueueAssumption DEF Init
<1>1. TypeOK
  BY DEF TypeOK, Threads
<1>2. LockInv /\ ~fault
  BY DEF LockInv, Threads
<1>3. ListFrom(first, next, <<>>)
  BY EmptySeq DEF ListFrom
<1>4. Members(<<>>) = {}
  BY DEF Members
<1>5. ListInv(<<>>)
  BY <1>3, <1>4 DEF ListInv, Linking, Counting, Threads
<1>6. QED
  BY <1>1, <1>2, <1>5 DEF Good

\* The numbers that the proofs calculate with, and who is inside.
LEMMA ListFacts ==
  ASSUME NEW s, Good(s)
  PROVE  /\ s \in Seq(Nodes) /\ Len(s) \in 0..MAX_COUNT /\ (s = <<>> <=> Len(s) = 0)
         /\ \A i \in 1..Len(s) : s[i] \in Nodes
         /\ Members(s) \subseteq Nodes
         /\ MAX_COUNT \in Nat \ {0} /\ VALUES \in Nat /\ VALUES > MAX_COUNT + 1
         /\ NULL \notin Nodes \cup Threads
         /\ Writers \cap Readers = {} /\ Threads = Writers \cup Readers
         /\ \A t, u \in Threads : pc[t] # "call" /\ pc[u] # "call" => t = u
<1>1. s \in Seq(Nodes) /\ Len(s) \in Nat
  BY DEF Good, ListInv, ListFrom
<1>2. \A i \in 1..Len(s) : s[i] \in Nodes
  BY <1>1, ElementOfSeq
<1>3. s = <<>> <=> Len(s) = 0
  BY <1>1, EmptySeq
<1>4. \A t, u \in Threads : pc[t] # "call" /\ pc[u] # "call" => t = u
  BY DEF Good, LockInv
<1>5. Len(s) <= MAX_COUNT
  BY DEF Good, ListInv
<1>6. QED
  BY <1>1, <1>2, <1>3, <1>4, <1>5, ListQueueAssumption DEF Members, Threads

\* The lock is taken when nobody is inside.
LEMMA CallInv ==
  ASSUME LOCKED, NEW s, Good(s), NEW t \in Threads, Call(t)
  PROVE  Good(s)'
<1> USE ListFacts DEF Good, Call, Goto, Acquire, fields, heap, locals
<1>1. TypeOK'
  BY DEF TypeOK
<1>2. LockInv'
  <2>1. lock = NULL /\ lock' = t /\ NULL \notin Threads
    OBVIOUS
  <2>2. \A u \in Threads : pc[u] = "call"
    BY <2>1 DEF LockInv
  <2>3. \A u \in Threads : pc'[u] = IF u = t THEN "check" ELSE "call"
    BY <2>2 DEF TypeOK
  <2>4. QED
    BY <2>1, <2>3 DEF LockInv, Threads
<1>3. ListInv(s)'
  BY DEF ListInv, TypeOK, LockInv, Linking, Counting
<1>4. QED
  BY <1>1, <1>2, <1>3

\* A call that finds the queue full, or empty, gives the lock back.
LEMMA RefusedInv ==
  ASSUME LOCKED, NEW s, Good(s), NEW t \in Threads,
         \/ t \in Writers /\ AddFull(t)
         \/ t \in Readers /\ GetEmpty(t)
  PROVE  Good(s)'
<1> USE ListFacts DEF Good, AddFull, GetEmpty, Goto, Release, fields, heap, locals
<1>1. TypeOK'
  BY DEF TypeOK
<1>2. LockInv'
  <2>1. lock = t /\ lock' = NULL /\ NULL \notin Threads
    BY DEF LockInv
  <2>2. \A u \in Threads : pc'[u] = "call"
    BY <2>1 DEF LockInv, TypeOK
  <2>3. QED
    BY <2>1, <2>2 DEF LockInv, Threads
<1>3. ListInv(s)'
  <2>1. \A u \in Threads : pc'[u] = "call" /\ pc[u] \in {"call", "check"}
    BY DEF LockInv, TypeOK
  <2>2. QED
    BY <2>1 DEF ListInv, TypeOK, LockInv, Linking, Counting
<1>4. QED
  BY <1>1, <1>2, <1>3

\* The test !q->first finds out whether the list is empty.
LEMMA AddTestInv ==
  ASSUME LOCKED, NEW s, Good(s), NEW w \in Writers, AddTest(w)
  PROVE  Good(s)'
<1> USE ListFacts DEF Good, AddTest, SeesEmpty, Goto, fields, heap, locals
<1>1. TypeOK'
  BY DEF TypeOK
<1>2. LockInv'
  BY DEF LockInv, TypeOK
<1>3. first = NULL <=> s = <<>>
  BY DEF ListInv, ListFrom
<1>4. ListInv(s)'
  BY <1>3 DEF ListInv, TypeOK, LockInv, Linking, Counting
<1>5. QED
  BY <1>1, <1>2, <1>4

\* The new node comes from outside the list, which it does not disturb.
LEMMA AddNodeInv ==
  ASSUME LOCKED, NEW s, Good(s), NEW w \in Writers, AddNode(w)
  PROVE  Good(s)'
<1> USE ListFacts DEF Good
<1>1. PICK n \in Nodes \ live :
        /\ node' = [node EXCEPT ![w] = n]
        /\ live' = live \cup {n}
        /\ val' = [val EXCEPT ![n] = num[w]]
        /\ next' = [next EXCEPT ![n] = NULL]
  BY DEF AddNode
<1>2. /\ pc[w] = "check" /\ pc' = [pc EXCEPT ![w] = "test"]
      /\ count # MAX_COUNT
      /\ UNCHANGED <<first, last, count, lock, reg, num, got, fault>>
  BY DEF AddNode, Goto, IsFull, fields
<1>3. TypeOK'
  BY <1>1, <1>2 DEF TypeOK
<1>4. LockInv'
  <2>1. \A u \in Threads : pc'[u] = IF u = w THEN "test" ELSE pc[u]
    BY <1>2 DEF TypeOK
  <2>2. w \in Threads /\ \A r \in Readers : r # w /\ r \in Threads
    OBVIOUS
  <2>3. QED
    BY <1>2, <2>1, <2>2 DEF LockInv
<1>5. live = Members(s) /\ count = Len(s)
  BY <1>2 DEF ListInv, LockInv, Linking, Counting
<1>6. ListFrom(first, next', s)
  <2>1. \A p \in Members(s) : next'[p] = next[p]
    <3>1. n \notin Members(s) /\ Members(s) \subseteq Nodes
      BY <1>1, <1>5
    <3>2. next \in [Nodes -> Nodes \cup {NULL}]
      BY DEF TypeOK
    <3>3. QED
      BY <1>1, <3>1, <3>2
  <2>2. ListFrom(first, next, s)
    BY DEF ListInv
  <2>3. QED
    BY <2>1, <2>2, ListElsewhere
<1>7. /\ node'[w] = n /\ live' = Members(s) \cup {n} /\ n \notin Members(s)
      /\ next'[n] = NULL /\ val'[n] = num[w] /\ Len(s) < MAX_COUNT
  <2>1. node'[w] = n /\ live' = Members(s) \cup {n} /\ n \notin Members(s)
    BY <1>1, <1>5 DEF TypeOK
  <2>2. next'[n] = NULL /\ val'[n] = num[w]
    BY <1>1 DEF TypeOK
  <2>3. Len(s) < MAX_COUNT
    BY <1>2, <1>5
  <2>4. QED
    BY <2>1, <2>2, <2>3
<1>8. ListInv(s)'
  BY <1>1, <1>2, <1>5, <1>6, <1>7 DEF ListInv, TypeOK, LockInv, Linking, Counting
<1>9. QED
  BY <1>2, <1>3, <1>4, <1>8

\* The new node is linked: the list grows by it.
LEMMA LinkInv ==
  ASSUME LOCKED, NEW s, Good(s), NEW w \in Writers, AddFirst(w) \/ AddAppend(w),
         NEW n, n = node[w]
  PROVE  Good(Append(s, n))'
<1> USE ListFacts DEF Good
<1> DEFINE a == Append(s, n)
<1>1. /\ pc[w] \in Linking /\ n \in Nodes \ Members(s)
      /\ live = Members(s) \cup {n} /\ next[n] = NULL /\ Len(s) < MAX_COUNT
      /\ count = Len(s)
  <2>1. pc[w] \in {"first", "append"}
    BY DEF AddFirst, AddAppend, Goto
  <2>2. \A t \in Threads : pc[t] \notin Counting
    BY <2>1 DEF Counting, LockInv
  <2>3. QED
    BY <2>1, <2>2 DEF ListInv, Linking
<1>2. /\ pc' = [pc EXCEPT ![w] = "load"] /\ pc[w] \in {"first", "append"}
      /\ first' = (IF s = <<>> THEN n ELSE first)
      /\ next' = (IF s = <<>> THEN next ELSE [next EXCEPT ![s[Len(s)]] = n])
      /\ last' = n /\ UNCHANGED fault
      /\ UNCHANGED <<count, val, live, lock, locals>>
  <2>1. CASE AddFirst(w)
    BY <2>1 DEF AddFirst, Goto, ListInv, heap
  <2>2. CASE AddAppend(w)
    <3>1. s # <<>> /\ last = s[Len(s)]
      BY <2>2 DEF AddAppend, Goto, ListInv
    <3>2. last \in live
      BY <1>1, <3>1 DEF Members
    <3>3. QED
      BY <2>2, <3>1, <3>2 DEF AddAppend, Advance, Goto
  <2>3. QED
    BY <2>1, <2>2
<1>3. ListFrom(first', next', a) /\ Members(a) = Members(s) \cup {n}
  <2>1. ListFrom(first, next, s)
    BY DEF ListInv
  <2>2. next \in [Nodes -> Nodes \cup {NULL}]
    BY DEF TypeOK
  <2>3. n \in Nodes /\ n \notin Members(s) /\ next[n] = NULL
    BY <1>1
  <2>4. /\ s = <<>> => first' = n /\ next' = next
        /\ s # <<>> => first' = first /\ next' = [next EXCEPT ![s[Len(s)]] = n]
    BY <1>2
  <2> HIDE ListFacts DEF Good
  <2>5. PICK h, k : h = first' /\ k = next'
    OBVIOUS
  <2>6. /\ s = <<>> => h = n /\ k = next
        /\ s # <<>> => h = first /\ k = [next EXCEPT ![s[Len(s)]] = n]
    BY <2>4, <2>5
  <2> HIDE DEF a
  <2>7. ListFrom(h, k, Append(s, n))
    BY <2>1, <2>2, <2>3, <2>6, ListAppended
  <2>8. Members(Append(s, n)) = Members(s) \cup {n}
    BY <2>1, <2>3, MembersAppended DEF ListFrom
  <2>9. QED
    BY <2>5, <2>7, <2>8 DEF ListFrom, a
<1>4. /\ a \in Seq(Nodes) /\ Len(a) = Len(s) + 1 /\ a # <<>>
      /\ a[Len(a)] = n
  BY <1>1, AppendProperties
<1> HIDE DEF a
<1>5. TypeOK'
  BY <1>1, <1>2 DEF TypeOK, locals
<1>6. LockInv'
  BY <1>2 DEF LockInv, TypeOK
<1>7. ListInv(a)'
  <2>1. ListFrom(first', next', a)
    BY <1>3
  <2>2. Len(a) <= MAX_COUNT /\ count' = Len(a) - 1 /\ live' = Members(a)
    BY <1>1, <1>2, <1>3, <1>4
  <2>3. /\ pc'[w] = "load"
        /\ \A t \in Threads \ {w} : pc'[t] = "call"
    BY <1>2 DEF TypeOK, LockInv
  <2>4. QED
    BY <1>2, <1>4, <2>1, <2>2, <2>3 DEF ListInv, Linking, Counting
<1>8. QED
  BY <1>2, <1>5, <1>6, <1>7 DEF a

\* queue_get finds the first node allocated, and remembers what follows it.
LEMMA GetNodeInv ==
  ASSUME LOCKED, NEW s, Good(s), NEW r \in Readers, GetNode(r)
  PROVE  Good(s)'
<1> USE ListFacts DEF Good
<1>1. pc[r] = "check" /\ count # 0 /\ pc' = [pc EXCEPT ![r] = "unlink"]
  BY DEF GetNode, Goto
<1>2. count = Len(s) /\ live = Members(s)
  BY <1>1 DEF ListInv, LockInv, Linking, Counting
<1>3. s # <<>> /\ first = s[1] /\ first \in live /\ first \in Nodes
  BY <1>1, <1>2 DEF ListInv, ListFrom, Members
<1>4. /\ node' = [node EXCEPT ![r] = first]
      /\ got' = [got EXCEPT ![r] = val[first]]
      /\ reg' = [reg EXCEPT ![r] = next[first]]
      /\ UNCHANGED <<fault, fields, heap, lock, num>>
  BY <1>3 DEF GetNode
<1>5. TypeOK'
  BY <1>1, <1>3, <1>4 DEF TypeOK, fields, heap
<1>6. LockInv'
  BY <1>1, <1>4 DEF LockInv, TypeOK
<1>7. ListInv(s)'
  BY <1>1, <1>2, <1>3, <1>4
  DEF ListInv, TypeOK, LockInv, Linking, Counting, fields, heap
<1>8. QED
  BY <1>4, <1>5, <1>6, <1>7

\* The first node is unlinked and freed: the list shrinks by it.
LEMMA UnlinkInv ==
  ASSUME LOCKED, NEW s, Good(s), NEW r \in Readers, GetUnlink(r)
  PROVE  s # <<>> /\ Good(Tail(s))'
<1> USE ListFacts DEF Good
<1> DEFINE t == Tail(s)
<1>1. /\ pc[r] = "unlink" /\ pc' = [pc EXCEPT ![r] = "load"]
      /\ first' = reg[r] /\ live' = live \ {node[r]}
      /\ UNCHANGED <<last, count, val, next, lock, locals, fault>>
  BY DEF GetUnlink, Goto, Freed
<1>2. s # <<>> /\ node[r] = s[1] /\ reg[r] = next[s[1]] /\ got[r] = val[s[1]]
  BY <1>1 DEF ListInv
<1>3. count = Len(s) /\ live = Members(s)
  BY <1>1 DEF ListInv, LockInv, Linking, Counting
<1>4. /\ ListFrom(next[s[1]], next, t) /\ Members(t) = Members(s) \ {s[1]}
      /\ Len(t) = Len(s) - 1 /\ (t # <<>> => t[Len(t)] = s[Len(s)])
  BY <1>2, ListBeheaded DEF ListInv
<1> HIDE DEF t
<1>5. TypeOK'
  <2>1. next[s[1]] \in Nodes \cup {NULL}
    <3>1. s[1] \in Nodes
      BY <1>2
    <3>2. QED
      BY <3>1 DEF TypeOK
  <2>2. QED
    BY <1>1, <1>2, <2>1 DEF TypeOK, locals
<1>6. LockInv'
  BY <1>1 DEF LockInv, TypeOK
<1>7. ListInv(t)'
  <2>1. ListFrom(first', next', t)
    BY <1>1, <1>2, <1>4
  <2>2. Len(t) < MAX_COUNT /\ count' = Len(t) + 1 /\ live' = Members(t)
    BY <1>1, <1>2, <1>3, <1>4
  <2>3. t # <<>> => last' = t[Len(t)]
    BY <1>1, <1>2, <1>4 DEF ListInv
  <2>4. /\ pc'[r] = "load"
        /\ \A u \in Threads \ {r} : pc'[u] = "call"
    BY <1>1 DEF TypeOK, LockInv
  <2>5. Len(t) <= MAX_COUNT
    BY <1>4
  <2>6. QED
    BY <2>1, <2>2, <2>3, <2>4, <2>5 DEF ListInv, Linking, Counting
<1>8. QED
  BY <1>1, <1>2, <1>5, <1>6, <1>7 DEF t

\* count++ and count-- lose nothing: nobody comes between load and store ...
LEMMA CountLoadInv ==
  ASSUME LOCKED, NEW s, Good(s), NEW t \in Threads, CountLoad(t)
  PROVE  Good(s)'
<1> USE ListFacts DEF Good, CountLoad, Goto, fields, heap
<1>1. TypeOK'
  BY DEF TypeOK
<1>2. LockInv'
  BY DEF LockInv, TypeOK
<1>3. ListInv(s)'
  BY DEF ListInv, TypeOK, LockInv, Linking, Counting
<1>4. QED
  BY <1>1, <1>2, <1>3

\* ... so that count is the length of the list again.
LEMMA CountStoreInv ==
  ASSUME LOCKED, NEW s, Good(s), NEW t \in Threads, CountStore(t)
  PROVE  Good(s)'
<1> USE ListFacts DEF Good
<1>1. /\ pc[t] = "store" /\ pc' = [pc EXCEPT ![t] = "return"]
      /\ count' = reg[t] + Delta(t)
      /\ UNCHANGED <<first, last, heap, lock, locals, fault>>
  BY DEF CountStore, Goto
<1>2. count' = Len(s) /\ count' \in 0..MAX_COUNT
  <2>1. CASE t \in Writers
    <3>1. reg[t] = Len(s) - 1 /\ Delta(t) = 1
      BY <1>1, <2>1 DEF ListInv, Counting, Delta
    <3>2. QED
      BY <1>1, <3>1
  <2>2. CASE t \in Readers
    <3>1. reg[t] = Len(s) + 1 /\ Delta(t) = -1
      BY <1>1, <2>2 DEF ListInv, Counting, Delta
    <3>2. QED
      BY <1>1, <3>1
  <2>3. QED
    BY <2>1, <2>2
<1>3. TypeOK'
  BY <1>1, <1>2 DEF TypeOK, heap, locals
<1>4. LockInv'
  BY <1>1 DEF LockInv, TypeOK
<1>5. ListInv(s)'
  BY <1>1, <1>2 DEF ListInv, TypeOK, LockInv, Linking, Counting, heap, locals
<1>6. QED
  BY <1>1, <1>3, <1>4, <1>5

\* The unlock; the counters i and expected wrap at VALUES.
LEMMA ReturnInv ==
  ASSUME LOCKED, NEW s, Good(s), NEW t \in Threads, Return(t)
  PROVE  Good(s)'
<1> USE ListFacts DEF Good
<1>1. /\ pc[t] = "return" /\ pc' = [pc EXCEPT ![t] = "call"]
      /\ lock' = NULL
      /\ num' = [num EXCEPT ![t] =
                   Succ(IF t \in Writers THEN num[t] ELSE got[t])]
      /\ UNCHANGED <<fields, heap, node, reg, got, fault>>
  BY DEF Return, Goto, Release, Succ
<1>2. Succ(IF t \in Writers THEN num[t] ELSE got[t]) \in 0..VALUES-1
  <2>1. (IF t \in Writers THEN num[t] ELSE got[t]) \in Nat
    <3>1. num[t] \in Nat
      BY DEF TypeOK
    <3>2. t \in Readers => got[t] \in Nat
      BY DEF TypeOK
    <3>3. QED
      BY <3>1, <3>2
  <2>2. QED
    BY <2>1 DEF Succ
<1>3. TypeOK'
  BY <1>1, <1>2 DEF TypeOK, fields, heap
<1>4. LockInv'
  BY <1>1 DEF LockInv, TypeOK
<1>5. ListInv(s)'
  BY <1>1 DEF ListInv, TypeOK, LockInv, Linking, Counting, fields, heap
<1>6. QED
  BY <1>1, <1>3, <1>4, <1>5

\* What a step does to the list, and that the invariant survives it.
LEMMA StepInv ==
  ASSUME LOCKED, NEW s, Good(s), [Next]_vars
  PROVE  \/ Good(s)' /\ \A i \in 1..Len(s) : val'[s[i]] = val[s[i]]
         \/ \E w \in Writers, n \in Nodes :
              /\ n = node[w]
              /\ AddFirst(w) \/ AddAppend(w)
              /\ Good(Append(s, n))'
         \/ \E r \in Readers : GetUnlink(r) /\ s # <<>> /\ Good(Tail(s))'
<1>1. CASE UNCHANGED vars
  BY <1>1
  DEF vars, fields, heap, locals, Good, TypeOK, LockInv, ListInv, ListFrom,
      Linking, Counting
<1>2. ASSUME NEW w \in Writers, AddFirst(w) \/ AddAppend(w)
      PROVE  \E n \in Nodes : n = node[w] /\ Good(Append(s, n))'
  <2>1. pc[w] \in {"first", "append"}
    BY <1>2 DEF AddFirst, AddAppend, Goto
  <2>2. PICK n \in Nodes : n = node[w]
    BY <2>1 DEF Good, ListInv, Linking
  <2>3. Good(Append(s, n))'
    BY <1>2, <2>2, LinkInv
  <2>4. QED
    BY <2>2, <2>3
<1>3. ASSUME NEW t \in Threads,
             \/ Call(t) \/ CountLoad(t) \/ CountStore(t) \/ Return(t)
             \/ t \in Writers /\ (AddFull(t) \/ AddTest(t))
             \/ t \in Readers /\ (GetEmpty(t) \/ GetNode(t))
      PROVE  Good(s)' /\ val' = val
  <2>1. Good(s)'
    BY <1>3, CallInv, CountLoadInv, CountStoreInv, ReturnInv, RefusedInv,
       AddTestInv, GetNodeInv
  <2>2. val' = val
    BY <1>3 DEF Call, CountLoad, CountStore, Return, AddFull, AddTest, GetEmpty,
                GetNode, heap
  <2>3. QED
    BY <2>1, <2>2
<1>4. ASSUME NEW w \in Writers, AddNode(w)
      PROVE  Good(s)' /\ \A i \in 1..Len(s) : val'[s[i]] = val[s[i]]
  <2>1. Good(s)'
    BY <1>4, AddNodeInv
  <2>2. pc[w] = "check"
    BY <1>4 DEF AddNode, Goto
  <2>3. live = Members(s)
    BY <2>2, ListFacts DEF Good, ListInv, LockInv, Linking
  <2>4. PICK n \in Nodes \ live : val' = [val EXCEPT ![n] = num[w]]
    BY <1>4 DEF AddNode
  <2>5. \A i \in 1..Len(s) : s[i] \in Nodes /\ s[i] # n
    BY <2>3, <2>4, ListFacts DEF Members
  <2>6. val \in [Nodes -> 0..VALUES-1]
    BY DEF Good, TypeOK
  <2>7. QED
    BY <2>1, <2>4, <2>5, <2>6
<1>5. ASSUME NEW r \in Readers, GetUnlink(r)
      PROVE  s # <<>> /\ Good(Tail(s))'
  BY <1>5, UnlinkInv
<1>6. QED
  <2>1. CASE \E w \in Writers : writer(w)
    <3>1. PICK w \in Writers : writer(w)
      BY <2>1
    <3>2. w \in Threads
      BY DEF Threads
    <3>3. QED
      BY <1>2, <1>3, <1>4, <3>1, <3>2 DEF writer
  <2>2. CASE \E r \in Readers : reader(r)
    <3>1. PICK r \in Readers : reader(r)
      BY <2>2
    <3>2. r \in Threads
      BY DEF Threads
    <3>3. QED
      BY <1>3, <1>5, <3>1, <3>2 DEF reader
  <2>3. QED
    BY <1>1, <2>1, <2>2 DEF Next

\* The invariant holds of the queue with its lock, from the start and for good.
LEMMA SpecIInv ==
  ASSUME LOCKED PROVE Spec => []IInv
<1>1. IInv /\ [Next]_vars => IInv'
  <2> SUFFICES ASSUME IInv, [Next]_vars PROVE IInv'
    OBVIOUS
  <2>1. PICK s \in Seq(Nodes) : Good(s)
    BY DEF IInv
  <2>2. CASE Good(s)'
    BY <2>2 DEF IInv
  <2>3. ASSUME NEW n \in Nodes, Good(Append(s, n))' PROVE IInv'
    BY <2>3, AppendProperties DEF IInv
  <2>4. ASSUME s # <<>>, Good(Tail(s))' PROVE IInv'
    BY <2>4, HeadTailProperties DEF IInv
  <2>5. QED
    BY <2>1, <2>2, <2>3, <2>4, StepInv
<1>2. QED
  BY InitIInv, <1>1, PTL DEF Spec

\* The list that one finds by walking is the one of the invariant.
LEMMA NodeSeqIs ==
  ASSUME NEW s, Good(s)
  PROVE  NodeSeq = s
  BY NodesOfList DEF Good, ListInv, NodeSeq

\* With the lock every variable keeps its type; count stays in 0..max_count.
THEOREM LockedTypeCorrect ==
  ASSUME LOCKED PROVE Spec => []TypeOK
<1>1. IInv => TypeOK
  BY DEF IInv, Good
<1>2. QED
  BY SpecIInv, <1>1, PTL

\* With the lock, no thread ever follows a null pointer or one to a freed node,
\* whatever the numbers of threads, nodes and values.
THEOREM LockedNoFault ==
  ASSUME LOCKED PROVE Spec => []NoFault
<1>1. IInv => NoFault
  BY DEF IInv, Good, NoFault
<1>2. QED
  BY SpecIInv, <1>1, PTL

\* With the lock, count and last are those of the list whenever nobody is
\* inside queue_add or queue_get.
THEOREM LockedFieldsAgree ==
  ASSUME LOCKED PROVE Spec => []FieldsAgree
<1>1. IInv => FieldsAgree
  <2> SUFFICES ASSUME NEW s, Good(s), \A t \in Threads : pc[t] = "call"
               PROVE  count = Len(s) /\ (s # <<>> => last = s[Len(s)])
    BY NodeSeqIs DEF IInv, FieldsAgree
  <2>1. QED
    BY DEF Good, ListInv, Counting
<1>2. QED
  BY SpecIInv, <1>1, PTL

\* With the lock, what is allocated while nobody is inside is the list.
THEOREM LockedNoLeak ==
  ASSUME LOCKED PROVE Spec => []NoLeak
<1>1. IInv => NoLeak
  <2> SUFFICES ASSUME NEW s, Good(s), \A t \in Threads : pc[t] = "call"
               PROVE  live = {s[i] : i \in DOMAIN s}
    BY NodeSeqIs DEF IInv, NoLeak
  <2>1. DOMAIN s = 1..Len(s)
    BY ListFacts, LenProperties
  <2>2. live = Members(s)
    BY DEF Good, ListInv, Linking
  <2>3. QED
    BY <2>1, <2>2 DEF Members
<1>2. QED
  BY SpecIInv, <1>1, PTL
-----------------------------------------------------------------------------
\* The values of a list.
LEMMA ContentsIs ==
  ASSUME NEW s, Good(s)
  PROVE  Contents = [i \in 1..Len(s) |-> val[s[i]]]
<1>1. DOMAIN s = 1..Len(s)
  BY ListFacts, LenProperties
<1>2. QED
  BY <1>1, NodeSeqIs DEF Contents

\* The same after a step.
LEMMA ContentsBecome ==
  ASSUME NEW s, Good(s)'
  PROVE  Contents' = [i \in 1..Len(s) |-> val'[s[i]]]
<1>1. PICK h, k : h = first' /\ k = next'
  OBVIOUS
<1>2. ListFrom(h, k, s)
  BY <1>1 DEF Good, ListInv, ListFrom
<1>3. NodesFrom(h, k) = s
  BY <1>2, NodesOfList
<1>4. DOMAIN s = 1..Len(s)
  BY <1>2, LenProperties DEF ListFrom
<1>5. NodeSeq' = s
  BY <1>1, <1>3 DEF NodeSeq
<1>6. QED
  BY <1>4, <1>5 DEF Contents

\* AddFirst and AddAppend add a value to the FIFO, GetUnlink takes the oldest,
\* and nothing else changes what is in the list.
LEMMA FifoNext ==
  ASSUME LOCKED PROVE IInv /\ [Next]_vars => [Fifo!Next]_Contents
<1> SUFFICES ASSUME NEW s \in Seq(Nodes), Good(s), [Next]_vars
             PROVE  [Fifo!Next]_Contents
  BY DEF IInv
<1> DEFINE C == [i \in 1..Len(s) |-> val[s[i]]]
           Vals == 0..VALUES-1
<1>1. Contents = C
  BY ContentsIs
<1>2. /\ \A i \in 1..Len(s) : s[i] \in Nodes
      /\ Len(s) \in Nat /\ (s = <<>> <=> Len(s) = 0)
      /\ val \in [Nodes -> Vals]
  BY ListFacts DEF Good, TypeOK
<1>3. C \in Seq(Vals) /\ Len(C) = Len(s) /\ \A i \in 1..Len(s) : C[i] = val[s[i]]
  <2>1. C \in [1..Len(s) -> Vals]
    BY <1>2
  <2>2. QED
    BY <1>2, <2>1
<1>4. CASE Good(s)' /\ \A i \in 1..Len(s) : val'[s[i]] = val[s[i]]
  <2>1. Contents' = [i \in 1..Len(s) |-> val'[s[i]]]
    BY <1>4, ContentsBecome
  <2>2. Contents' = Contents
    BY <1>1, <1>4, <2>1
  <2>3. QED
    BY <2>2
<1>5. ASSUME NEW w \in Writers, NEW n \in Nodes, n = node[w],
             AddFirst(w) \/ AddAppend(w), Good(Append(s, n))'
      PROVE  Fifo!Next
  <2> DEFINE a == Append(s, n)
  <2>1. pc[w] \in Linking /\ val' = val
    BY <1>5 DEF AddFirst, AddAppend, Goto, Linking, heap
  <2>2. Len(s) < MAX_COUNT
    BY <2>1 DEF Good, ListInv
  <2>3. Len(a) = Len(s) + 1 /\ a[Len(s) + 1] = n /\ \A i \in 1..Len(s) : a[i] = s[i]
    BY AppendProperties
  <2>4. Contents' = [i \in 1..Len(a) |-> val'[a[i]]]
    BY <1>5, ContentsBecome
  <2> HIDE DEF a, C, Vals
  <2>5. val[n] \in Vals
    BY <1>2
  <2>6. /\ Append(C, val[n]) \in Seq(Vals)
        /\ Len(Append(C, val[n])) = Len(s) + 1
        /\ \A i \in 1..Len(s) : Append(C, val[n])[i] = C[i]
        /\ Append(C, val[n])[Len(s) + 1] = val[n]
    BY <1>2, <1>3, <2>5, AppendProperties
  <2>7. Contents' = Append(C, val[n])
    <3>1. \A i \in 1..Len(s) + 1 : val[a[i]] = Append(C, val[n])[i]
      BY <1>2, <1>3, <2>3, <2>6
    <3>2. Append(C, val[n]) = [i \in 1..Len(s) + 1 |-> Append(C, val[n])[i]]
      BY <2>6, LenProperties
    <3>3. QED
      BY <2>1, <2>3, <2>4, <3>1, <3>2
  <2>8. Fifo!Add(val[n])
    BY <1>1, <1>3, <2>2, <2>7 DEF Fifo!Add
  <2>9. QED
    BY <2>5, <2>8 DEF Fifo!Next, Vals
<1>6. ASSUME NEW r \in Readers, GetUnlink(r), s # <<>>, Good(Tail(s))'
      PROVE  Fifo!Next
  <2> DEFINE t == Tail(s)
  <2>1. val' = val
    BY <1>6 DEF GetUnlink
  <2>2. Len(t) = Len(s) - 1 /\ \A i \in 1..Len(t) : t[i] = s[i + 1]
    BY <1>6, HeadTailProperties
  <2>3. Contents' = [i \in 1..Len(t) |-> val'[t[i]]]
    BY <1>6, ContentsBecome
  <2> HIDE DEF t, C, Vals
  <2>4. C # <<>>
    BY <1>2, <1>3, <1>6, EmptySeq
  <2>5. /\ Tail(C) \in Seq(Vals) /\ Len(Tail(C)) = Len(s) - 1
        /\ \A i \in 1..Len(s) - 1 : Tail(C)[i] = C[i + 1]
    BY <1>3, <2>4, HeadTailProperties
  <2>6. Contents' = Tail(C)
    <3>1. \A i \in 1..Len(s) - 1 : val[t[i]] = Tail(C)[i]
      BY <1>2, <1>3, <2>2, <2>5
    <3>2. Tail(C) = [i \in 1..Len(s) - 1 |-> Tail(C)[i]]
      BY <2>5, LenProperties
    <3>3. QED
      BY <2>1, <2>2, <2>3, <3>1, <3>2
  <2>7. QED
    BY <1>1, <2>4, <2>6 DEF Fifo!Next, Fifo!Get
<1>7. QED
  BY <1>4, <1>5, <1>6, StepInv

\* With the lock, every behaviour of the linked list is one of a bounded FIFO,
\* for any numbers of readers, writers and nodes and any max_count.
THEOREM LockedImplementsFifo ==
  ASSUME LOCKED PROVE Spec => FifoSpec
<1>1. Init => Fifo!Init
  <2> SUFFICES ASSUME Init PROVE Contents = <<>>
    BY DEF Fifo!Init
  <2>1. ListFrom(first, next, <<>>)
    BY EmptySeq DEF Init, ListFrom
  <2>2. NodeSeq = <<>>
    BY <2>1, NodesOfList DEF NodeSeq
  <2>3. QED
    BY <2>2 DEF Contents
<1>2. QED
  BY <1>1, FifoNext, SpecIInv, PTL DEF Spec, FifoSpec, Fifo!Spec
-----------------------------------------------------------------------------
\* The value that r gets next, and the one that w adds next.
Base(r) == IF pc[r] \in {"load", "store", "return"} THEN Succ(got[r]) ELSE num[r]
New(w) == IF pc[w] \in {"load", "store", "return"} THEN Succ(num[w]) ELSE num[w]

\* With one reader and one writer the values in the list s follow each other,
\* from the one that the reader expects to the one that the writer added last.
OrderInv(r, w, s) ==
  /\ s = <<>> => New(w) = Base(r)
  /\ s # <<>> => val[s[1]] = Base(r) /\ New(w) = Succ(val[s[Len(s)]])
  /\ \A i \in 1..Len(s) - 1 : val[s[i + 1]] = Succ(val[s[i]])
  /\ pc[r] \in {"unlink", "load", "store", "return"} => got[r] = num[r]

\* A step that changes neither what the reader gets next nor what the writer
\* adds next, nor a value in the list.
LEMMA OrderKept ==
  ASSUME NEW r, NEW w, NEW s, Good(s), OrderInv(r, w, s),
         Base(r)' = Base(r), New(w)' = New(w),
         \A i \in 1..Len(s) : val'[s[i]] = val[s[i]],
         pc'[r] \in {"unlink", "load", "store", "return"} => got'[r] = num'[r]
  PROVE  OrderInv(r, w, s)'
<1>1. /\ Len(s) \in Nat /\ (s = <<>> <=> Len(s) = 0)
  BY ListFacts
<1>2. /\ s # <<>> => 1 \in 1..Len(s) /\ Len(s) \in 1..Len(s)
      /\ \A i \in 1..Len(s) - 1 : i \in 1..Len(s) /\ i + 1 \in 1..Len(s)
  BY <1>1
<1>3. s = <<>> => New(w)' = Base(r)'
  BY DEF OrderInv
<1>4. s # <<>> => val'[s[1]] = Base(r)' /\ New(w)' = Succ(val'[s[Len(s)]])
  BY <1>2 DEF OrderInv
<1>5. \A i \in 1..Len(s) - 1 : val'[s[i + 1]] = Succ(val'[s[i]])
  BY <1>2 DEF OrderInv
<1>6. QED
  BY <1>3, <1>4, <1>5 DEF OrderInv, Succ

\* Each step keeps the values in the list in order: one case for the two
\* actions that link a node, one for the one that unlinks, one for the rest.
LEMMA StepOrder ==
  ASSUME LOCKED, NEW r, NEW w, Readers = {r}, Writers = {w},
         NEW s, Good(s), OrderInv(r, w, s), [Next]_vars
  PROVE  \E q \in Seq(Nodes) : Good(q)' /\ OrderInv(r, w, q)'
<1>1. /\ r \in Threads /\ w \in Threads /\ r # w /\ Threads = {r, w}
      /\ r \in Readers /\ w \in Writers
      /\ s \in Seq(Nodes) /\ Len(s) \in Nat /\ (s = <<>> <=> Len(s) = 0)
      /\ \A i \in 1..Len(s) : s[i] \in Nodes
  <2>1. /\ Writers \cap Readers = {} /\ Threads = Writers \cup Readers
        /\ s \in Seq(Nodes) /\ (s = <<>> <=> Len(s) = 0)
        /\ \A i \in 1..Len(s) : s[i] \in Nodes
    BY ListFacts
  <2>2. r \in Readers /\ w \in Writers
    OBVIOUS
  <2>3. r # w /\ r \in Threads /\ w \in Threads
    BY <2>1, <2>2, Zenon
  <2>4. Threads = {r, w}
    BY <2>1
  <2>5. Len(s) \in Nat
    BY <2>1
  <2>6. QED
    BY <2>1, <2>2, <2>3, <2>4, <2>5
<1>2. /\ pc \in [Threads -> {"call", "check", "test", "first", "append", "unlink",
                             "load", "store", "return"}]
      /\ num \in [Threads -> 0..VALUES-1] /\ got \in [Readers -> 0..VALUES-1]
      /\ \A t, u \in Threads : pc[t] # "call" /\ pc[u] # "call" => t = u
  BY ListFacts DEF Good, TypeOK
<1>3. ASSUME NEW n \in Nodes, n = node[w], AddFirst(w) \/ AddAppend(w)
      PROVE  OrderInv(r, w, Append(s, n))'
  <2> DEFINE a == Append(s, n)
  <2>1. /\ pc[w] \in {"first", "append"} /\ pc' = [pc EXCEPT ![w] = "load"]
        /\ val' = val /\ num' = num /\ got' = got
    BY <1>3 DEF AddFirst, AddAppend, Goto, heap, locals
  <2>2. val[n] = num[w]
    BY <1>1, <1>3, <2>1 DEF Good, ListInv, Linking
  <2>3. /\ a # <<>> /\ Len(a) = Len(s) + 1 /\ a[Len(s) + 1] = n
        /\ \A i \in 1..Len(s) : a[i] = s[i]
    BY <1>1, AppendProperties
  <2> HIDE DEF a
  <2>4. pc[r] = "call" /\ pc'[r] = "call" /\ pc'[w] = "load"
    BY <1>1, <1>2, <2>1
  <2>5. Base(r)' = Base(r) /\ New(w) = num[w] /\ New(w)' = Succ(num[w])
    BY <2>1, <2>4 DEF Base, New, Succ
  <2>6. val[a[1]] = Base(r)
    <3>1. CASE s = <<>>
      BY <1>1, <2>2, <2>3, <2>5, <3>1 DEF OrderInv
    <3>2. CASE s # <<>>
      <4>1. 1 \in 1..Len(s)
        BY <1>1, <3>2
      <4>2. a[1] = s[1]
        BY <2>3, <4>1
      <4>3. QED
        BY <3>2, <4>2 DEF OrderInv
    <3>3. QED
      BY <3>1, <3>2
  <2>7. ASSUME NEW i \in 1..Len(a) - 1 PROVE val[a[i + 1]] = Succ(val[a[i]])
    <3>1. CASE i = Len(s)
      <4>1. s # <<>> /\ a[i] = s[Len(s)] /\ a[i + 1] = n
        BY <1>1, <2>3, <3>1
      <4>2. num[w] = Succ(val[s[Len(s)]])
        BY <2>5, <4>1 DEF OrderInv
      <4>3. QED
        BY <2>2, <4>1, <4>2
    <3>2. CASE i # Len(s)
      <4>1. i \in 1..Len(s) - 1 /\ a[i] = s[i] /\ a[i + 1] = s[i + 1]
        BY <1>1, <2>3, <3>2
      <4>2. QED
        BY <4>1 DEF OrderInv
    <3>3. QED
      BY <3>1, <3>2
  <2>8. val[a[Len(a)]] = num[w]
    BY <2>2, <2>3
  <2>9. OrderInv(r, w, a)'
    <3>1. a # <<>> => val'[a[1]] = Base(r)' /\ New(w)' = Succ(val'[a[Len(a)]])
      BY <2>1, <2>5, <2>6, <2>8
    <3>2. \A i \in 1..Len(a) - 1 : val'[a[i + 1]] = Succ(val'[a[i]])
      BY <2>1, <2>7
    <3>3. QED
      BY <2>3, <2>4, <3>1, <3>2 DEF OrderInv, Succ
  <2>10. QED
    BY <2>9 DEF a
<1>4. ASSUME GetUnlink(r), s # <<>>
      PROVE  OrderInv(r, w, Tail(s))'
  <2> DEFINE t == Tail(s)
  <2>1. /\ pc[r] = "unlink" /\ pc' = [pc EXCEPT ![r] = "load"]
        /\ val' = val /\ num' = num /\ got' = got
    BY <1>4 DEF GetUnlink, Goto, locals
  <2>2. got[r] = val[s[1]] /\ got[r] = num[r]
    BY <1>1, <2>1 DEF Good, ListInv, OrderInv
  <2>3. /\ t \in Seq(Nodes) /\ Len(t) = Len(s) - 1
        /\ \A i \in 1..Len(t) : t[i] = s[i + 1]
    BY <1>1, <1>4, HeadTailProperties
  <2>4. t = <<>> <=> Len(t) = 0
    BY <2>3, EmptySeq
  <2> HIDE DEF t
  <2>5. pc[w] = "call" /\ pc'[w] = "call" /\ pc'[r] = "load"
    BY <1>1, <1>2, <2>1
  <2>6. New(w)' = New(w) /\ Base(r)' = Succ(val[s[1]])
    BY <2>1, <2>2, <2>5 DEF Base, New, Succ
  <2>7. New(w) = Succ(val[s[Len(s)]])
    BY <1>4 DEF OrderInv
  <2>8. t = <<>> => New(w) = Succ(val[s[1]])
    <3>1. t = <<>> => Len(s) = 1
      BY <1>1, <2>3, <2>4
    <3>2. QED
      BY <2>7, <3>1
  <2>9. t # <<>> => val[t[1]] = Succ(val[s[1]]) /\ t[Len(t)] = s[Len(s)]
    <3>1. t # <<>> => 1 \in 1..Len(t) /\ 1 \in 1..Len(s) - 1 /\ Len(t) \in 1..Len(t)
      BY <1>1, <2>3, <2>4
    <3>2. t # <<>> => t[1] = s[1 + 1] /\ t[Len(t)] = s[Len(s)]
      BY <1>1, <2>3, <3>1
    <3>3. t # <<>> => val[s[1 + 1]] = Succ(val[s[1]])
      BY <3>1 DEF OrderInv
    <3>4. QED
      BY <3>2, <3>3
  <2>10. ASSUME NEW i \in 1..Len(t) - 1 PROVE val[t[i + 1]] = Succ(val[t[i]])
    <3>1. i + 1 \in 1..Len(s) - 1 /\ t[i] = s[i + 1] /\ t[i + 1] = s[(i + 1) + 1]
      BY <1>1, <2>3
    <3>2. QED
      BY <3>1 DEF OrderInv
  <2>11. OrderInv(r, w, t)'
    <3>1. t = <<>> => New(w)' = Base(r)'
      BY <2>6, <2>8
    <3>2. t # <<>> => val'[t[1]] = Base(r)' /\ New(w)' = Succ(val'[t[Len(t)]])
      BY <2>1, <2>6, <2>7, <2>9
    <3>3. \A i \in 1..Len(t) - 1 : val'[t[i + 1]] = Succ(val'[t[i]])
      BY <2>1, <2>10
    <3>4. got'[r] = num'[r]
      BY <2>1, <2>2
    <3>5. QED
      BY <3>1, <3>2, <3>3, <3>4 DEF OrderInv, Succ
  <2>12. QED
    BY <2>11 DEF t
<1>5. ASSUME ~ (AddFirst(w) \/ AddAppend(w)), ~ GetUnlink(r)
      PROVE  /\ Base(r)' = Base(r) /\ New(w)' = New(w)
             /\ pc'[r] \in {"unlink", "load", "store", "return"} => got'[r] = num'[r]
  <2>1. CASE UNCHANGED vars
    BY <2>1 DEF vars, locals, Base, New, Succ, OrderInv
  <2>2. ASSUME NEW t \in Threads,
               Call(t) \/ CountLoad(t) \/ CountStore(t)
               \/ (t = w /\ (AddFull(t) \/ AddTest(t) \/ AddNode(t)))
               \/ (t = r /\ GetEmpty(t))
        PROVE  /\ Base(r)' = Base(r) /\ New(w)' = New(w)
               /\ pc'[r] \in {"unlink", "load", "store", "return"} => got'[r] = num'[r]
    <3>1. num' = num /\ got' = got
      BY <2>2 DEF Call, CountLoad, CountStore, AddFull, AddTest, AddNode, GetEmpty,
                  locals
    <3>2. PICK from, to : /\ pc[t] = from /\ pc' = [pc EXCEPT ![t] = to]
                          /\ from \notin {"unlink", "return"}
                          /\ to # "unlink"
                          /\ from \in {"load", "store"} <=> to \in {"load", "store", "return"}
      BY <2>2 DEF Call, CountLoad, CountStore, AddFull, AddTest, AddNode, GetEmpty,
                  Goto
    <3>3. \A u \in {r, w} :
            /\ pc'[u] \in {"load", "store", "return"}
                 <=> pc[u] \in {"load", "store", "return"}
            /\ pc'[u] = "unlink" => pc[u] = "unlink"
      BY <1>1, <1>2, <3>2
    <3>4. QED
      BY <3>1, <3>3 DEF Base, New, Succ, OrderInv
  <2>3. CASE GetNode(r)
    <3>1. pc[r] = "check" /\ pc' = [pc EXCEPT ![r] = "unlink"] /\ num' = num
      BY <2>3 DEF GetNode, Goto
    <3>2. s # <<>> /\ got'[r] = val[s[1]]
      <4>1. Good(s)'
        BY <1>1, <2>3, GetNodeInv
      <4>2. val' = val
        BY <2>3 DEF GetNode, heap
      <4>3. pc'[r] = "unlink"
        BY <1>1, <1>2, <3>1
      <4>4. QED
        BY <1>1, <4>1, <4>2, <4>3 DEF Good, ListInv
    <3>3. val[s[1]] = num[r]
      BY <3>1, <3>2 DEF OrderInv, Base
    <3>4. pc'[w] = pc[w] /\ pc'[r] = "unlink"
      BY <1>1, <1>2, <3>1
    <3>5. QED
      BY <3>1, <3>2, <3>3, <3>4 DEF Base, New, Succ
  <2>4. ASSUME NEW t \in Threads, Return(t)
        PROVE  /\ Base(r)' = Base(r) /\ New(w)' = New(w)
               /\ pc'[r] \in {"unlink", "load", "store", "return"} => got'[r] = num'[r]
    <3>1. /\ pc[t] = "return" /\ pc' = [pc EXCEPT ![t] = "call"] /\ got' = got
          /\ num' = [num EXCEPT ![t] = Succ(IF t \in Writers THEN num[t] ELSE got[t])]
      BY <2>4 DEF Return, Goto, Succ
    <3>2. CASE t = w
      <4>1. /\ num'[w] = Succ(num[w]) /\ num'[r] = num[r]
            /\ pc'[r] = pc[r] /\ pc'[w] = "call"
        BY <1>1, <1>2, <3>1, <3>2
      <4>2. QED
        BY <3>1, <3>2, <4>1 DEF Base, New, Succ, OrderInv
    <3>3. CASE t = r
      <4>1. /\ num'[r] = Succ(got[r]) /\ num'[w] = num[w]
            /\ pc'[w] = pc[w] /\ pc'[r] = "call"
        BY <1>1, <1>2, <3>1, <3>3
      <4>2. QED
        BY <3>1, <3>3, <4>1 DEF Base, New, Succ
    <3>4. QED
      BY <1>1, <3>2, <3>3
  <2>5. QED
    BY <1>1, <1>5, <2>1, <2>2, <2>3, <2>4 DEF Next, writer, reader
<1>6. CASE AddFirst(w) \/ AddAppend(w)
  <2>1. PICK n \in Nodes : n = node[w]
    <3>1. pc[w] \in {"first", "append"}
      BY <1>6 DEF AddFirst, AddAppend, Goto
    <3>2. QED
      BY <1>1, <3>1 DEF Good, ListInv, Linking
  <2>2. Good(Append(s, n))' /\ Append(s, n) \in Seq(Nodes)
    BY <1>1, <1>6, <2>1, LinkInv, AppendProperties
  <2>3. OrderInv(r, w, Append(s, n))'
    BY <1>3, <1>6, <2>1
  <2>4. QED
    BY <2>2, <2>3
<1>7. CASE GetUnlink(r)
  <2>1. s # <<>> /\ Good(Tail(s))'
    BY <1>1, <1>7, UnlinkInv
  <2>2. Tail(s) \in Seq(Nodes)
    BY <1>1, <2>1, HeadTailProperties
  <2>3. OrderInv(r, w, Tail(s))'
    BY <1>4, <1>7, <2>1
  <2>4. QED
    BY <2>1, <2>2, <2>3
<1>8. CASE ~ (AddFirst(w) \/ AddAppend(w)) /\ ~ GetUnlink(r)
  <2>1. Good(s)' /\ \A i \in 1..Len(s) : val'[s[i]] = val[s[i]]
    BY <1>8, StepInv
  <2>2. OrderInv(r, w, s)'
    BY <1>5, <1>8, <2>1, OrderKept
  <2>3. QED
    BY <1>1, <2>1, <2>2
<1>9. QED
  BY <1>6, <1>7, <1>8

\* With the lock, one reader and one writer, the check that queue-threads.c
\* makes of every value it gets never fails: values come out in the order they
\* went in, none lost and none repeated.
THEOREM LockedReaderInOrder ==
  ASSUME LOCKED, NEW r, NEW w, Readers = {r}, Writers = {w}
  PROVE  Spec => []ReaderInOrder
<1> DEFINE Inv == \E s \in Seq(Nodes) : Good(s) /\ OrderInv(r, w, s)
<1>1. Init => Inv
  <2> SUFFICES ASSUME Init PROVE Inv
    OBVIOUS
  <2>1. PICK s \in Seq(Nodes) : Good(s)
    BY InitIInv DEF IInv
  <2>2. s = <<>>
    <3>1. first = NULL
      BY DEF Init
    <3>2. s # <<>> => first \in Nodes
      BY <2>1, ListFacts DEF Good, ListInv, ListFrom
    <3>3. QED
      BY <3>1, <3>2, ListQueueAssumption
  <2>3. r \in Threads /\ w \in Threads
    BY DEF Threads
  <2>4. OrderInv(r, w, s)
    BY <2>2, <2>3 DEF Init, OrderInv, Base, New
  <2>5. QED
    BY <2>1, <2>4
<1>2. Inv /\ [Next]_vars => Inv'
  BY StepOrder
<1>3. Inv => ReaderInOrder
  BY DEF OrderInv, ReaderInOrder
<1>4. QED
  BY <1>1, <1>2, <1>3, PTL DEF Spec
=============================================================================
