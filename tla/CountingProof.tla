--------------------------- MODULE CountingProof ---------------------------
(***************************************************************************)
(* Both phases of main.c for every set of threads and every number of      *)
(* rounds: the locks exclude, no sleeper is forgotten, both printed totals *)
(* are right, and the program implements AtomicCounter.                    *)
(***************************************************************************)
EXTENDS Counting, FiniteSetTheorems, TLAPS

\* What of IInv is about one step at a time; TotalInv counts, and is apart.
StepInv ==
  TypeOK /\ MutualExclusion /\ LockInv /\ RoundsInv /\ NoLostWakeup

\* The invariant holds when main starts.
LEMMA InitStepInv == Init => StepInv
  BY CounterAssumption
  DEF Init, WorkInit, StepInv, TypeOK, Labels, LockInv, MutualExclusion, InCS,
      RoundsInv, NoLostWakeup, Asleep, NotPrinted

\* One step per action.  The thread that runs FUTEX_WAIT sleeps only while the
\* word is 1, and then LockInv names a thread in the critical section, which
\* is awake.
LEMMA NextStepInv == StepInv /\ [Next]_vars => StepInv'
<1> SUFFICES ASSUME StepInv, [Next]_vars PROVE StepInv'
  OBVIOUS
<1> USE CounterAssumption
    DEF StepInv, TypeOK, Labels, LockInv, MutualExclusion, InCS, RoundsInv,
        NoLostWakeup, Asleep, NotPrinted
<1>1. ASSUME NEW t \in Threads, Create(t), UNCHANGED <<lock, futex, phase>>
      PROVE StepInv'
  BY <1>1 DEF Create, Goto
<1>2. ASSUME PrintTotal, UNCHANGED <<lock, futex, phase>> PROVE StepInv'
  BY <1>2 DEF PrintTotal, Joined
<1>3. ASSUME StartMutex PROVE StepInv'
  BY <1>3 DEF StartMutex
<1>4. ASSUME NEW t \in Threads, spinlock_lock(t), phase = "spin",
             UNCHANGED <<futex, phase>>
      PROVE StepInv'
  BY <1>4 DEF spinlock_lock, Goto
<1>5. ASSUME NEW t \in Threads, Load(t), UNCHANGED <<lock, futex, phase>>
      PROVE StepInv'
  BY <1>5 DEF Load, Goto
<1>6. ASSUME NEW t \in Threads, Store(t), UNCHANGED <<lock, futex, phase>>
      PROVE StepInv'
  BY <1>6 DEF Store, Goto
<1>7. ASSUME NEW t \in Threads, spinlock_unlock(t), phase = "spin",
             UNCHANGED <<futex, phase>>
      PROVE StepInv'
  BY <1>7 DEF spinlock_unlock, AfterRound, Goto
<1>8. ASSUME NEW t \in Threads, TestAndSet(t), phase = "mutex",
             UNCHANGED <<lock, phase>>
      PROVE StepInv'
  BY <1>8 DEF TestAndSet, Goto
<1>9. ASSUME NEW t \in Threads, FutexWait(t), phase = "mutex",
             UNCHANGED <<lock, phase>>
      PROVE StepInv'
  BY <1>9 DEF FutexWait, Goto
<1>10. ASSUME NEW t \in Threads, SpuriousReturn(t), UNCHANGED <<lock, phase>>
       PROVE StepInv'
  BY <1>10 DEF SpuriousReturn, Goto
<1>11. ASSUME NEW t \in Threads, Release(t), phase = "mutex",
              UNCHANGED <<lock, phase>>
       PROVE StepInv'
  BY <1>11 DEF Release, Goto
<1>12. ASSUME NEW t \in Threads, FutexWake(t), phase = "mutex",
              UNCHANGED <<lock, phase>>
       PROVE StepInv'
  BY <1>12 DEF FutexWake, AfterRound
<1>13. CASE UNCHANGED vars
  BY <1>13 DEF vars
<1>14. QED
  BY <1>1, <1>2, <1>3, <1>4, <1>5, <1>6, <1>7, <1>8, <1>9, <1>10, <1>11,
     <1>12, <1>13
  DEF Next, Main, Worker, incrementThreadSpin, incrementThreadMutex,
      ProgramOver, vars

\* So it holds at every step of both phases.
LEMMA SpecStepInv == Spec => []StepInv
  BY InitStepInv, NextStepInv, PTL DEF Spec

\* The types of the program, for every Threads and ITERATIONS.
THEOREM TypeCorrect == Spec => []TypeOK
<1>1. StepInv => TypeOK
  BY DEF StepInv
<1>2. QED
  BY <1>1, SpecStepInv, PTL

\* No two threads are ever between the lock and the unlock call of a phase.
THEOREM LocksExclude == Spec => []MutualExclusion
<1>1. StepInv => MutualExclusion
  BY DEF StepInv
<1>2. QED
  BY <1>1, SpecStepInv, PTL

\* No thread is ever asleep on the futex with nobody left to wake it.
THEOREM MutexNoLostWakeup == Spec => []NoLostWakeup
<1>1. StepInv => NoLostWakeup
  BY DEF StepInv
<1>2. QED
  BY <1>1, SpecStepInv, PTL
-----------------------------------------------------------------------------
\* Both programs start with the counter at 0 and nothing printed.
LEMMA AbstractInit == Init => Abstract!Init
  BY DEF Init, WorkInit, Abstract!Init, Done, NotPrinted, Abstract!NotPrinted

\* The increments made by a thread are at most its rounds.
LEMMA DoneType == StepInv => Done \in [Threads -> 0..ITERATIONS]
  BY CounterAssumption DEF StepInv, TypeOK, RoundsInv, Done, Labels

\* A store is an abstract increment, the prints and the start of the second
\* phase are the abstract ones, and every other step, FUTEX_WAKE with its
\* change of two threads included, leaves the abstract state alone.
LEMMA AbstractNext ==
  StepInv /\ [Next]_vars => [Abstract!Next]_(Abstract!vars)
<1> SUFFICES ASSUME StepInv, [Next]_vars
             PROVE  [Abstract!Next]_(Abstract!vars)
  OBVIOUS
<1> USE CounterAssumption
    DEF StepInv, TypeOK, Labels, LockInv, RoundsInv, InCS, Done, NotPrinted,
        Abstract!vars, Abstract!NotPrinted
<1>1. ASSUME NEW t \in Threads, Create(t) PROVE UNCHANGED Abstract!vars
  BY <1>1 DEF Create, Goto
<1>2. ASSUME PrintTotal PROVE Abstract!PrintTotal
  BY <1>2 DEF PrintTotal, Joined, Abstract!PrintTotal
<1>3. ASSUME StartMutex PROVE Abstract!NextPhase
  BY <1>3 DEF StartMutex, Abstract!NextPhase
<1>4. ASSUME NEW t \in Threads, spinlock_lock(t) PROVE UNCHANGED Abstract!vars
  BY <1>4 DEF spinlock_lock, Goto
<1>5. ASSUME NEW t \in Threads, Load(t) PROVE UNCHANGED Abstract!vars
  BY <1>5 DEF Load, Goto
<1>6. ASSUME NEW t \in Threads, Store(t) PROVE Abstract!Increment(t)
  <2>1. iter[t] < ITERATIONS /\ Done[t] = iter[t]
    BY <1>6 DEF Store, Goto
  <2>2. sharedCounter' = sharedCounter + 1
    BY <1>6 DEF Store, Goto
  <2>3. Done' = [Done EXCEPT ![t] = @ + 1]
    BY <1>6, <2>1 DEF Store, Goto
  <2>4. QED
    BY <1>6, <2>1, <2>2, <2>3 DEF Store, Abstract!Increment
<1>7. ASSUME NEW t \in Threads, spinlock_unlock(t)
      PROVE UNCHANGED Abstract!vars
  BY <1>7 DEF spinlock_unlock, AfterRound, Goto
<1>8. ASSUME NEW t \in Threads, TestAndSet(t) PROVE UNCHANGED Abstract!vars
  BY <1>8 DEF TestAndSet, Goto
<1>9. ASSUME NEW t \in Threads, FutexWait(t) PROVE UNCHANGED Abstract!vars
  BY <1>9 DEF FutexWait, Goto
<1>10. ASSUME NEW t \in Threads, SpuriousReturn(t)
       PROVE UNCHANGED Abstract!vars
  BY <1>10 DEF SpuriousReturn, Goto
<1>11. ASSUME NEW t \in Threads, Release(t) PROVE UNCHANGED Abstract!vars
  BY <1>11 DEF Release, Goto
<1>12. ASSUME NEW t \in Threads, FutexWake(t) PROVE UNCHANGED Abstract!vars
  BY <1>12 DEF FutexWake, AfterRound, Asleep
<1>13. CASE UNCHANGED vars
  BY <1>13 DEF vars
<1>14. QED
  BY <1>1, <1>2, <1>3, <1>4, <1>5, <1>6, <1>7, <1>8, <1>9, <1>10, <1>11,
     <1>12, <1>13
  DEF Next, Main, Worker, incrementThreadSpin, incrementThreadMutex,
      ProgramOver, vars, Abstract!Next

\* Every behaviour of the program is one of indivisible increments.
THEOREM ImplementsAtomicCounter == Spec => AbstractSpec
  BY AbstractInit, AbstractNext, SpecStepInv, PTL
  DEF Spec, AbstractSpec, Abstract!Spec
-----------------------------------------------------------------------------
\* The increments are a finite set; after all of them there is one for every
\* thread and round.
LEMMA IncrementsFinite ==
  ASSUME StepInv
  PROVE  /\ IsFiniteSet(Increments)
         /\ Cardinality(Threads \X (1..ITERATIONS))
              = Cardinality(Threads) * ITERATIONS
         /\ Cardinality(Threads) * ITERATIONS \in Nat
<1>1. IsFiniteSet(1..ITERATIONS) /\ Cardinality(1..ITERATIONS) = ITERATIONS
  BY CounterAssumption, FS_Interval
<1>2. /\ IsFiniteSet(Threads \X (1..ITERATIONS))
      /\ Cardinality(Threads \X (1..ITERATIONS))
           = Cardinality(Threads) * ITERATIONS
  BY <1>1, CounterAssumption, FS_Product
<1>3. IsFiniteSet(Increments)
  BY <1>2, FS_Subset DEF Increments
<1>4. QED
  BY <1>2, <1>3, FS_CardinalityType

\* At the start no increment has been made, and the counter is 0.
LEMMA InitTotal == Init => TotalInv /\ PrintedTotal
<1> SUFFICES ASSUME Init PROVE TotalInv /\ PrintedTotal
  OBVIOUS
<1>1. Increments = {}
  BY CounterAssumption DEF Init, WorkInit, Increments, Done
<1>2. QED
  BY <1>1, FS_EmptySet
  DEF Init, WorkInit, TotalInv, PrintedTotal, NotPrinted

\* An increment adds one pair to the set; the print happens when the set is
\* full; the second phase starts with an empty set and the counter reset.
LEMMA NextTotal ==
  StepInv /\ StepInv' /\ TotalInv /\ PrintedTotal /\ [Next]_vars
    => TotalInv' /\ PrintedTotal'
<1> SUFFICES ASSUME StepInv, StepInv', TotalInv, PrintedTotal, [Next]_vars
             PROVE  TotalInv' /\ PrintedTotal'
  OBVIOUS
<1> USE DEF Abstract!NotPrinted, NotPrinted
<1>1. Done \in [Threads -> 0..ITERATIONS] /\ sharedCounter \in Nat
  BY DoneType DEF StepInv, TypeOK
<1>2. ASSUME NEW t \in Threads, Abstract!Increment(t)
      PROVE  TotalInv' /\ PrintedTotal'
  <2>1. /\ Done[t] < ITERATIONS /\ Done' = [Done EXCEPT ![t] = @ + 1]
        /\ sharedCounter' = sharedCounter + 1 /\ printed' = printed
    BY <1>2 DEF Abstract!Increment
  <2>2. printed = NotPrinted
    BY <2>1, <1>1 DEF TotalInv
  <2>3. DEFINE new == <<t, Done[t] + 1>>
  <2>4. new \notin Increments
    BY <1>1 DEF Increments
  <2>5. Increments' = Increments \cup {new}
    BY <1>1, <2>1, CounterAssumption DEF Increments
  <2>6. Cardinality(Increments') = Cardinality(Increments) + 1
    BY <2>4, <2>5, IncrementsFinite, FS_AddElement
  <2>7. QED
    BY <2>1, <2>2, <2>6 DEF TotalInv, PrintedTotal
<1>3. ASSUME Abstract!PrintTotal PROVE TotalInv' /\ PrintedTotal'
  <2>1. Increments = Threads \X (1..ITERATIONS)
    BY <1>3, CounterAssumption DEF Abstract!PrintTotal, Increments
  <2>2. sharedCounter = Cardinality(Threads) * ITERATIONS
    BY <1>3, <2>1, IncrementsFinite DEF Abstract!PrintTotal, TotalInv
  <2>3. /\ printed' = sharedCounter /\ sharedCounter' = 0 /\ Done' = Done
        /\ \A t \in Threads : Done[t] = ITERATIONS
    BY <1>3 DEF Abstract!PrintTotal
  <2>4. QED
    BY <1>1, <2>2, <2>3 DEF TotalInv, PrintedTotal
<1>4. ASSUME Abstract!NextPhase PROVE TotalInv' /\ PrintedTotal'
  <2>1. /\ sharedCounter = 0 /\ sharedCounter' = sharedCounter
        /\ printed' = NotPrinted /\ Done' = [t \in Threads |-> 0]
    BY <1>4 DEF Abstract!NextPhase, TotalInv
  <2>2. Increments' = {}
    BY <2>1, CounterAssumption DEF Increments
  <2>3. QED
    BY <2>1, <2>2, FS_EmptySet DEF TotalInv, PrintedTotal
<1>5. CASE UNCHANGED Abstract!vars
  <2>1. Done' = Done /\ sharedCounter' = sharedCounter /\ printed' = printed
    BY <1>5 DEF Abstract!vars
  <2>2. Increments' = Increments
    BY <2>1 DEF Increments
  <2>3. QED
    BY <2>1, <2>2 DEF TotalInv, PrintedTotal
<1>6. QED
  BY <1>2, <1>3, <1>4, <1>5, AbstractNext DEF Abstract!Next

\* Both printed totals are the number of threads times the number of rounds.
THEOREM TotalsAreRight == Spec => []PrintedTotal
<1>1. Init => TotalInv /\ PrintedTotal
  BY InitTotal
<1>2. StepInv /\ StepInv' /\ TotalInv /\ PrintedTotal /\ [Next]_vars
        => TotalInv' /\ PrintedTotal'
  BY NextTotal
<1>3. QED
  BY <1>1, <1>2, SpecStepInv, PTL DEF Spec
=============================================================================
