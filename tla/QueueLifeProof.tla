--------------------------- MODULE QueueLifeProof ---------------------------
(***************************************************************************)
(* The monitor thread of a queue does not outlive it, whatever main does   *)
(* between queue_init and queue_destroy.                                   *)
(***************************************************************************)
EXTENDS QueueLife, TLAPS

Strings == {"init", "add", "get", "cancel", "join", "freeCondition",
            "freeNodes", "freeQueue", "return"}

TypeInv ==
  /\ variant \in Variants
  /\ todo \in Seq(Strings)
  /\ monitor \in {"none", "reads", "prints", "sleeps", "ended"}
  /\ cancelled \in BOOLEAN

\* queue_init is the first call, and there is no monitor before it.
InitFirst ==
  \A i \in 1 .. Len(todo) : todo[i] = "init" => i = 1 /\ monitor = "none"

\* The monitor has ended before the queue is freed, or will be waited for.
JoinedFirst ==
  \A i \in 1 .. Len(todo) :
    todo[i] = "freeQueue" =>
      \/ todo[1] # "init" /\ monitor \in {"none", "ended"}
      \/ \E j \in 1 .. i - 1 : todo[j] = "join"

\* A monitor that may still come to read the queue has one to read.
HasQueue == monitor \in {"reads", "prints", "sleeps"} => "queue" \in memory

LifeInv ==
  TypeInv /\ (variant = "semaphores" \/ (InitFirst /\ JoinedFirst /\ HasQueue))

\* What a concatenation has at each place.
LEMMA Joined ==
  ASSUME NEW S, NEW s \in Seq(S), NEW t \in Seq(S)
  PROVE  /\ s \o t \in Seq(S) /\ Len(s \o t) = Len(s) + Len(t)
         /\ Len(s) \in Nat /\ Len(t) \in Nat
         /\ \A i \in 1 .. Len(s) : (s \o t)[i] = s[i]
         /\ \A i \in 1 .. Len(t) : (s \o t)[Len(s) + i] = t[i]
  OBVIOUS

\* A tuple of members of a set is a sequence over it.
LEMMA Short ==
  ASSUME NEW S, NEW a \in S, NEW b \in S, NEW c \in S, NEW d \in S, NEW e \in S
  PROVE  /\ <<a>> \in Seq(S)
         /\ <<a, b, c, d>> \in Seq(S) /\ Len(<<a, b, c, d>>) = 4
         /\ <<a, b, c, d, e>> \in Seq(S) /\ Len(<<a, b, c, d, e>>) = 5
  OBVIOUS

\* The calls of main, one by one.
LEMMA CallsAre ==
  ASSUME NEW v \in Variants, v # "semaphores", NEW gets \in Nat
  PROVE  LET s == Calls(v, gets) IN
         /\ \A i \in 1 .. Len(s) : s[i] = "init" => i = 1
         /\ \A i \in 1 .. Len(s) : s[i] = "freeQueue" =>
              \E j \in 1 .. i - 1 : s[j] = "join"
<1> DEFINE adds == [i \in 1..ADDS |-> "add"]
           takes == [i \in 1..gets |-> "get"]
           before == <<"init">> \o adds \o takes
           N == 1 + ADDS + gets
           d == queue_destroy(v)
           s == before \o d \o <<"return">>
<1>a. ADDS \in Nat /\ N \in Nat
  BY QueueLifeAssumption
<1>b. adds \in Seq(Strings) /\ takes \in Seq(Strings)
  BY <1>a DEF Strings
<1>1. /\ Len(adds) = ADDS /\ Len(takes) = gets
      /\ \A i \in 1 .. ADDS : adds[i] = "add"
      /\ \A i \in 1 .. gets : takes[i] = "get"
  BY <1>a DEF Strings
<1>2. /\ before \in Seq(Strings) /\ Len(before) = N /\ N >= 1
      /\ \A i \in 1 .. N : before[i] \in {"init", "add", "get"}
      /\ \A i \in 2 .. N : before[i] # "init"
  <2> HIDE DEF adds, takes
  <2> DEFINE one == <<"init">>
             some == one \o adds
  <2>a. one \in Seq(Strings)
    BY Short DEF Strings
  <2>1. Len(one) = 1 /\ one[1] = "init"
    OBVIOUS
  <2> HIDE DEF one
  <2>b. some \in Seq(Strings)
    BY <1>b, <2>a, Joined
  <2>2. /\ Len(some) = 1 + ADDS
        /\ some[1] = "init"
        /\ \A i \in 1 .. ADDS : some[1 + i] = "add"
    <3>1. /\ some \in Seq(Strings) /\ Len(some) = Len(one) + Len(adds)
          /\ \A i \in 1 .. Len(one) : some[i] = one[i]
          /\ \A i \in 1 .. Len(adds) : some[Len(one) + i] = adds[i]
      BY <1>b, <2>a, Joined
    <3> HIDE DEF some
    <3>2. 1 \in 1 .. Len(one)
      BY <2>1
    <3>3. QED
      BY <1>1, <2>1, <3>1, <3>2
  <2>3. \A i \in 2 .. 1 + ADDS : some[i] = "add"
    <3> SUFFICES ASSUME NEW i \in 2 .. 1 + ADDS PROVE some[i] = "add"
      OBVIOUS
    <3>1. i - 1 \in 1 .. ADDS /\ 1 + (i - 1) = i
      BY <1>a
    <3>2. QED
      BY <2>2, <3>1
  <2>c. before = some \o takes
    BY DEF one
  <2> HIDE DEF some, before
  <2>4. /\ before \in Seq(Strings) /\ Len(before) = N
        /\ \A i \in 1 .. 1 + ADDS : before[i] = some[i]
        /\ \A i \in 1 .. gets : before[1 + ADDS + i] = "get"
    <3>1. /\ before \in Seq(Strings) /\ Len(before) = Len(some) + Len(takes)
          /\ \A i \in 1 .. Len(some) : before[i] = some[i]
          /\ \A i \in 1 .. Len(takes) : before[Len(some) + i] = takes[i]
      BY <1>b, <2>b, <2>c, Joined
    <3>2. /\ Len(before) = N
          /\ \A i \in 1 .. 1 + ADDS : before[i] = some[i]
      BY <1>a, <1>1, <2>2, <3>1
    <3>3. \A i \in 1 .. gets : before[1 + ADDS + i] = takes[i]
      BY <1>a, <1>1, <2>2, <3>1
    <3>4. QED
      BY <1>1, <3>1, <3>2, <3>3
  <2>5. \A i \in 2 + ADDS .. N : before[i] = "get"
    <3> SUFFICES ASSUME NEW i \in 2 + ADDS .. N PROVE before[i] = "get"
      OBVIOUS
    <3>1. i - (1 + ADDS) \in 1 .. gets /\ 1 + ADDS + (i - (1 + ADDS)) = i
      BY <1>a
    <3>2. QED
      BY <2>4, <3>1
  <2>6. \A i \in 1 .. N : i = 1 \/ i \in 2 .. 1 + ADDS \/ i \in 2 + ADDS .. N
    BY <1>a
  <2>7. 1 \in 1 .. 1 + ADDS /\ \A i \in 2 .. 1 + ADDS : i \in 1 .. 1 + ADDS
    BY <1>a
  <2>8. /\ before[1] = "init"
        /\ \A i \in 2 .. 1 + ADDS : before[i] = "add"
    BY <2>2, <2>3, <2>4, <2>7
  <2>9. \A i \in 2 .. N : i \in 1 .. N /\ i # 1
    BY <1>a
  <2>10. QED
    BY <1>a, <2>4, <2>5, <2>6, <2>8, <2>9
<1>3. /\ d \in Seq(Strings)
      /\ \A i \in 1 .. Len(d) : d[i] # "init"
      /\ \A i \in 1 .. Len(d) : d[i] = "freeQueue" =>
           i - 2 \in 1 .. Len(d) /\ d[i - 2] = "join"
  <2>1. CASE v = "signal"
    <3>1. d = <<"freeCondition", "cancel", "join", "freeNodes", "freeQueue">>
      BY <2>1 DEF queue_destroy
    <3>2. d \in Seq(Strings) /\ Len(d) = 5
      BY <3>1, Short DEF Strings
    <3>3. /\ d[1] = "freeCondition" /\ d[2] = "cancel" /\ d[3] = "join"
          /\ d[4] = "freeNodes" /\ d[5] = "freeQueue"
      BY <3>1
    <3> HIDE DEF d
    <3>4. \A i \in 1 .. 5 : i = 1 \/ i = 2 \/ i = 3 \/ i = 4 \/ i = 5
      OBVIOUS
    <3>5. QED
      BY <3>2, <3>3, <3>4
  <2>2. CASE v # "signal"
    <3>1. d = <<"cancel", "join", "freeNodes", "freeQueue">>
      BY <2>2 DEF queue_destroy, Variants
    <3>2. d \in Seq(Strings) /\ Len(d) = 4
      BY <3>1, Short DEF Strings
    <3>3. /\ d[1] = "cancel" /\ d[2] = "join" /\ d[3] = "freeNodes"
          /\ d[4] = "freeQueue"
      BY <3>1
    <3> HIDE DEF d
    <3>4. \A i \in 1 .. 4 : i = 1 \/ i = 2 \/ i = 3 \/ i = 4
      OBVIOUS
    <3>5. QED
      BY <3>2, <3>3, <3>4
  <2>3. QED
    BY <2>1, <2>2
<1>4. Calls(v, gets) = s
  BY DEF Calls
<1> HIDE DEF before, d
<1>5. /\ Len(s) = N + Len(d) + 1 /\ Len(d) \in Nat
      /\ \A i \in 1 .. N : s[i] = before[i]
      /\ \A i \in 1 .. Len(d) : s[N + i] = d[i]
      /\ s[N + Len(d) + 1] = "return"
  <2> DEFINE whole == before \o d
             last == <<"return">>
  <2>a. last \in Seq(Strings)
    BY Short DEF Strings
  <2>1. Len(last) = 1 /\ last[1] = "return"
    OBVIOUS
  <2>b. whole \in Seq(Strings)
    BY <1>2, <1>3, Joined
  <2>2. /\ Len(whole) = N + Len(d) /\ Len(d) \in Nat
        /\ \A i \in 1 .. N : whole[i] = before[i]
        /\ \A i \in 1 .. Len(d) : whole[N + i] = d[i]
    BY <1>2, <1>3, Joined
  <2>3. s = whole \o last
    OBVIOUS
  <2> HIDE DEF whole, last, s
  <2>4. /\ Len(s) = N + Len(d) + 1
        /\ \A i \in 1 .. N + Len(d) : s[i] = whole[i]
        /\ \A i \in 1 .. 1 : s[N + Len(d) + i] = last[i]
    <3>1. /\ Len(s) = Len(whole) + Len(last)
          /\ \A i \in 1 .. Len(whole) : s[i] = whole[i]
          /\ \A i \in 1 .. Len(last) : s[Len(whole) + i] = last[i]
      BY <2>a, <2>b, <2>3, Joined
    <3>2. QED
      BY <2>1, <2>2, <3>1
  <2>5. /\ \A i \in 1 .. N : i \in 1 .. N + Len(d)
        /\ \A i \in 1 .. Len(d) : N + i \in 1 .. N + Len(d)
    BY <1>a, <2>2
  <2>6. s[N + Len(d) + 1] = "return"
    BY <2>1, <2>4
  <2>7. QED
    BY <2>2, <2>4, <2>5, <2>6
<1> HIDE DEF s
<1>6. ASSUME NEW i \in 1 .. Len(s)
      PROVE  \/ i \in 1 .. N
             \/ i - N \in 1 .. Len(d) /\ s[i] = d[i - N]
             \/ s[i] = "return"
  <2>1. CASE i - N \in 1 .. Len(d)
    <3>1. i = N + (i - N)
      BY <1>a
    <3>2. QED
      BY <1>5, <2>1, <3>1
  <2>2. QED
    BY <1>a, <1>5, <2>1
<1>7. ASSUME NEW i \in 1 .. Len(s), s[i] = "init" PROVE i = 1
  <2>1. CASE i \in 1 .. N
    <3>1. before[i] = "init" /\ (i = 1 \/ i \in 2 .. N)
      BY <1>a, <1>5, <1>7, <2>1
    <3>2. QED
      BY <1>2, <3>1
  <2>2. QED
    BY <1>3, <1>6, <1>7, <2>1
<1>8. ASSUME NEW i \in 1 .. Len(s), s[i] = "freeQueue"
      PROVE  \E j \in 1 .. i - 1 : s[j] = "join"
  <2>1. i - N \in 1 .. Len(d) /\ d[i - N] = "freeQueue"
    <3>1. i \notin 1 .. N
      BY <1>2, <1>5, <1>8
    <3>2. QED
      BY <1>6, <1>8, <3>1
  <2>2. i - N - 2 \in 1 .. Len(d) /\ d[i - N - 2] = "join"
    BY <1>3, <2>1
  <2>3. s[N + (i - N - 2)] = "join"
    BY <1>5, <2>2
  <2>4. N + (i - N - 2) = i - 2 /\ i - 2 \in 1 .. i - 1
    BY <1>a, <2>2
  <2>5. QED
    BY <2>3, <2>4
<1>9. QED
  BY <1>4, <1>7, <1>8

\* A call that is made is no longer to be made.
LEMMA TailIs ==
  ASSUME NEW s \in Seq(Strings), s # <<>>
  PROVE  /\ Tail(s) \in Seq(Strings) /\ Len(Tail(s)) = Len(s) - 1
         /\ Len(s) \in Nat /\ Len(s) >= 1 /\ Head(s) = s[1]
         /\ \A i \in 1 .. Len(s) - 1 : Tail(s)[i] = s[i + 1]
  OBVIOUS

\* What remains to be done stays in order; only the joining of the monitor
\* leaves a freeing without one before it.
LEMMA CallMade ==
  ASSUME TypeInv, InitFirst, JoinedFirst, NEW call, Do(call),
         call = "init" \/ monitor' = monitor \/ monitor' \in {"none", "ended"},
         call = "join" => monitor' = "ended"
  PROVE  InitFirst' /\ JoinedFirst'
<1>1. /\ todo' \in Seq(Strings) /\ Len(todo') = Len(todo) - 1
      /\ Len(todo) \in Nat /\ Len(todo) >= 1 /\ call = todo[1]
      /\ \A i \in 1 .. Len(todo') : todo'[i] = todo[i + 1] /\ i + 1 \in 1 .. Len(todo)
  <2>1. todo \in Seq(Strings) /\ todo # <<>> /\ todo' = Tail(todo) /\ Head(todo) = call
    BY DEF TypeInv, Do
  <2>2. QED
    BY <2>1, TailIs
<1>2. \A i \in 1 .. Len(todo') : todo'[i] # "init"
  BY <1>1 DEF InitFirst
<1>3. ASSUME NEW i \in 1 .. Len(todo'), todo'[i] = "freeQueue"
      PROVE  \/ todo'[1] # "init" /\ monitor' \in {"none", "ended"}
             \/ \E j \in 1 .. i - 1 : todo'[j] = "join"
  <2>1. todo'[1] # "init" /\ i + 1 \in 1 .. Len(todo) /\ todo[i + 1] = "freeQueue"
    BY <1>1, <1>2, <1>3
  <2>2. CASE todo[1] # "init" /\ monitor \in {"none", "ended"}
    BY <1>1, <2>1, <2>2
  <2>3. CASE \E j \in 1 .. i : todo[j] = "join"
    <3>1. PICK j \in 1 .. i : todo[j] = "join"
      BY <2>3
    <3>2. CASE j = 1
      BY <1>1, <2>1, <3>1, <3>2
    <3>3. CASE j # 1
      <4>1. j - 1 \in 1 .. i - 1 /\ j - 1 \in 1 .. Len(todo') /\ (j - 1) + 1 = j
        BY <1>1, <3>3
      <4>2. todo'[j - 1] = "join"
        BY <1>1, <3>1, <4>1
      <4>3. QED
        BY <4>1, <4>2
    <3>4. QED
      BY <3>2, <3>3
  <2>4. (i + 1) - 1 = i
    OBVIOUS
  <2>5. QED
    BY <2>1, <2>2, <2>3, <2>4 DEF JoinedFirst
<1>4. QED
  BY <1>2, <1>3 DEF InitFirst, JoinedFirst

\* Main and the monitor keep the invariant.
LEMMA LifeStep == LifeInv /\ [Next]_vars => LifeInv'
<1> SUFFICES ASSUME LifeInv, [Next]_vars PROVE LifeInv'
  OBVIOUS
<1>a. TypeInv /\ todo \in Seq(Strings)
  BY DEF LifeInv, TypeInv
<1>1. TypeInv'
  <2>1. todo # <<>> => Tail(todo) \in Seq(Strings)
    BY <1>a
  <2>2. CASE Main
    <3>1. /\ variant' = variant /\ cancelled' \in BOOLEAN
          /\ monitor' \in {"none", "reads", "prints", "sleeps", "ended"}
      BY <1>a, <2>2
      DEF Main, TypeInv, queue_init, queue_add, queue_get, Cancel, Join,
          FreeNodes, Free, Return, Do
    <3>2. \/ todo' = todo \/ todo' = <<>>
          \/ todo # <<>> /\ todo' = Tail(todo)
      BY <2>2
      DEF Main, queue_init, queue_add, queue_get, Cancel, Join, FreeNodes,
          Free, Return, Do
    <3>3. todo' \in Seq(Strings)
      <4>1. <<>> \in Seq(Strings)
        OBVIOUS
      <4>2. QED
        BY <1>a, <2>1, <3>2, <4>1
    <3>4. QED
      BY <1>a, <3>1, <3>3 DEF TypeInv
  <2>3. CASE qmonitor
    BY <1>a, <2>3 DEF qmonitor, TypeInv
  <2>4. CASE UNCHANGED vars
    BY <1>a, <2>4 DEF vars, TypeInv
  <2>5. QED
    BY <2>2, <2>3, <2>4 DEF Next
<1>2. variant' = variant
  BY DEF Next, Main, queue_init, queue_add, queue_get, Cancel, Join, FreeNodes,
         Free, Return, Do, qmonitor, vars
<1>3. ASSUME variant # "semaphores" PROVE InitFirst' /\ JoinedFirst' /\ HasQueue'
  <2>a. InitFirst /\ JoinedFirst /\ HasQueue
    BY <1>3 DEF LifeInv
  <2>1. CASE queue_init
    <3>1. CASE todo' = <<>>
      BY <2>1, <3>1, <2>a DEF queue_init, InitFirst, JoinedFirst, HasQueue
    <3>2. CASE Do("init")
      BY <1>a, <2>1, <2>a, <3>2, CallMade DEF queue_init, HasQueue
    <3>3. QED
      BY <1>3, <2>1, <3>1, <3>2 DEF queue_init, Do
  <2>2. CASE queue_add \/ queue_get \/ Cancel
    BY <1>a, <2>2, <2>a, CallMade DEF queue_add, queue_get, Cancel, HasQueue
  <2>3. CASE Join
    BY <1>a, <2>3, <2>a, CallMade DEF Join, HasQueue
  <2>4. CASE FreeNodes
    <3>1. CASE todo' = todo
      BY <2>4, <2>a, <3>1 DEF FreeNodes, InitFirst, JoinedFirst, HasQueue
    <3>2. CASE Do("freeNodes")
      BY <1>a, <2>4, <2>a, <3>2, CallMade DEF FreeNodes, HasQueue
    <3>3. QED
      BY <2>4, <3>1, <3>2 DEF FreeNodes
  <2>5. CASE Return
    BY <1>a, <2>5, <2>a, CallMade DEF Return, HasQueue
  <2>6. CASE Free("freeCondition", "condition")
    BY <1>a, <2>6, <2>a, CallMade DEF Free, HasQueue
  <2>7. CASE Free("freeQueue", "queue")
    <3>1. monitor \in {"none", "ended"}
      <4>1. 1 \in 1 .. Len(todo) /\ todo[1] = "freeQueue"
        BY <1>a, <2>7, TailIs DEF Free, Do
      <4>2. QED
        BY <2>a, <4>1 DEF JoinedFirst
    <3>2. QED
      BY <1>a, <2>7, <2>a, <3>1, CallMade DEF Free, HasQueue
  <2>8. CASE qmonitor
    BY <1>a, <2>8, <2>a DEF qmonitor, TypeInv, InitFirst, JoinedFirst, HasQueue
  <2>9. CASE UNCHANGED vars
    BY <2>9, <2>a DEF vars, InitFirst, JoinedFirst, HasQueue
  <2>10. QED
    BY <2>1, <2>2, <2>3, <2>4, <2>5, <2>6, <2>7, <2>8, <2>9 DEF Next, Main
<1>4. QED
  BY <1>1, <1>2, <1>3 DEF LifeInv

\* For any number of adds and gets: the monitor of queue.c, queue-mutex.c,
\* queue-spinlock.c and queue-mutex-signal.c never reads a queue that
\* queue_destroy has freed, because queue_destroy waits for it first.
THEOREM MonitorEndsFirst == Spec => []MonitorReadsQueue
<1>1. Init => LifeInv
  <2> SUFFICES ASSUME Init PROVE LifeInv
    OBVIOUS
  <2>1. PICK gets \in Gets : todo = Calls(variant, gets)
    BY DEF Init
  <2>2. gets \in Nat /\ ADDS \in Nat
    BY QueueLifeAssumption
  <2>3. TypeInv
    <3>1. queue_destroy(variant) \in Seq(Strings)
      <4>1. variant \in Variants
        BY DEF Init
      <4>2. CASE variant = "signal"
        BY <4>2, Short DEF queue_destroy, Strings
      <4>3. CASE variant = "semaphores"
        BY <4>3, Short DEF queue_destroy, Strings
      <4>4. CASE variant \notin {"signal", "semaphores"}
        <5>1. queue_destroy(variant) = <<"cancel", "join", "freeNodes", "freeQueue">>
          BY <4>1, <4>4 DEF queue_destroy, Variants
        <5>2. QED
          BY <5>1, Short DEF Strings
      <4>5. QED
        BY <4>2, <4>3, <4>4
    <3>2. /\ [i \in 1..ADDS |-> "add"] \in Seq(Strings)
          /\ [i \in 1..gets |-> "get"] \in Seq(Strings)
      BY <2>2 DEF Strings
    <3>3. <<"init">> \in Seq(Strings) /\ <<"return">> \in Seq(Strings)
      BY DEF Strings
    <3>4. \A s, t \in Seq(Strings) : s \o t \in Seq(Strings)
      OBVIOUS
    <3>5. Calls(variant, gets) \in Seq(Strings)
      BY <3>1, <3>2, <3>3, <3>4 DEF Calls
    <3>6. QED
      BY <2>1, <3>5 DEF Init, TypeInv
  <2>4. variant # "semaphores" => InitFirst /\ JoinedFirst /\ HasQueue
    <3> SUFFICES ASSUME variant # "semaphores"
                 PROVE  InitFirst /\ JoinedFirst /\ HasQueue
      OBVIOUS
    <3>1. variant \in Variants /\ monitor = "none"
      BY DEF Init
    <3>2. QED
      BY <2>1, <2>2, <3>1, CallsAre DEF InitFirst, JoinedFirst, HasQueue
  <2>5. QED
    BY <2>3, <2>4 DEF LifeInv
<1>2. LifeInv => MonitorReadsQueue
  BY DEF LifeInv, HasQueue, MonitorReadsQueue
<1>3. QED
  BY <1>1, <1>2, LifeStep, PTL DEF Spec
=============================================================================
