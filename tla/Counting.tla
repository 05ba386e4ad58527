------------------------------ MODULE Counting ------------------------------
(***************************************************************************)
(* The program of sync/well-done/main.c: a phase of increments under the   *)
(* spinlock, then, from the counter it leaves behind, one under the mutex. *)
(***************************************************************************)
EXTENDS SpinCounter, MutexCounter

VARIABLE phase   \* which half of main is running

vars == <<sharedCounter, pc, iter, reg, printed, lock, futex, phase>>

\* The second lock is not initialised yet.
Init == WorkInit /\ lock = 0 /\ futex \in {0, 1} /\ phase = "spin"

\* mutex_init, and threads of its own for the second phase.
StartMutex ==
  /\ phase = "spin" /\ printed # NotPrinted
  /\ phase' = "mutex"
  /\ futex' = 0
  /\ pc' = [t \in Threads |-> "new"]
  /\ iter' = [t \in Threads |-> 0]
  /\ printed' = NotPrinted
  /\ UNCHANGED <<sharedCounter, reg, lock>>

Main ==
  \/ (PrintTotal \/ \E t \in Threads : Create(t)) /\ UNCHANGED <<lock, futex, phase>>
  \/ StartMutex

Worker(t) ==
  \/ phase = "spin" /\ incrementThreadSpin(t) /\ UNCHANGED <<futex, phase>>
  \/ phase = "mutex" /\ incrementThreadMutex(t) /\ UNCHANGED <<lock, phase>>

\* main has returned.
ProgramOver == phase = "mutex" /\ printed # NotPrinted /\ UNCHANGED vars

Next ==
  \/ Main
  \/ \E t \in Threads :
       Worker(t) \/ (SpuriousReturn(t) /\ UNCHANGED <<lock, phase>>)
  \/ ProgramOver

\* The operating system runs every thread that is not asleep, and the
\* test-and-set of a thread that spins on a lock that stays free succeeds.  No
\* fairness is assumed of spurious returns, nor of who gets a lock.
Fairness == WF_vars(Main) /\ \A t \in Threads : WF_vars(Worker(t))

Spec == Init /\ [][Next]_vars /\ Fairness
-----------------------------------------------------------------------------
Labels ==
  {"new", "lock", "load", "store", "unlock", "exited"}
    \cup (IF phase = "spin" THEN {} ELSE {"wait", "asleep", "wake"})

TypeOK ==
  /\ phase \in {"spin", "mutex"}
  /\ sharedCounter \in Nat
  /\ pc \in [Threads -> Labels]
  /\ iter \in [Threads -> 0..ITERATIONS]
  /\ reg \in [Threads -> Nat]
  /\ printed \in Nat \cup {NotPrinted}
  /\ lock \in {0, 1} /\ futex \in {0, 1}

\* No two threads are between the lock and the unlock call of main.c's
\* worker loops (lines 19-21 and 31-33).
MutualExclusion ==
  \A t, u \in Threads : InCS(t) /\ InCS(u) => t = u

\* Whenever a thread sleeps in FUTEX_WAIT (mutex.h:17), some other thread is
\* inside mutex_lock, the critical section or mutex_unlock, and so will call
\* FUTEX_WAKE: a sleeper is never left with nobody to wake it.
NoLostWakeup ==
  Asleep # {} => \E t \in Threads : pc[t] \notin {"new", "asleep", "exited"}

\* The printed counter is the right-hand side of the equation main.c prints
\* next to it, "sharedCounter: %d == %d N * ITERATIONS" (lines 51 and 67):
\* no increment of any thread is lost, counted after the print, or carried
\* over from the first phase to the second.
PrintedTotal ==
  printed # NotPrinted => printed = Cardinality(Threads) * ITERATIONS

\* main returns: all threads of both phases get through their rounds.
Termination == <>(phase = "mutex" /\ printed # NotPrinted)

\* The word of the lock in use is 1 exactly while a thread is in the critical
\* section, and that thread's register is not stale when it stores.
LockInv ==
  /\ (IF phase = "spin" THEN lock ELSE futex) = 1 <=> \E t \in Threads : InCS(t)
  /\ \A t \in Threads : pc[t] = "store" => reg[t] = sharedCounter

\* A thread has exited exactly when it has made all of its rounds.
RoundsInv ==
  \A t \in Threads : pc[t] = "exited" <=> iter[t] = ITERATIONS

\* The increments that thread t has made so far.
Done ==
  [t \in Threads |-> iter[t] + (IF pc[t] \in {"unlock", "wake"} THEN 1 ELSE 0)]

\* The counter counts the increments made in this phase.
Increments == {p \in Threads \X (1..ITERATIONS) : p[2] <= Done[p[1]]}
TotalInv ==
  /\ printed = NotPrinted => sharedCounter = Cardinality(Increments)
  /\ printed # NotPrinted =>
       sharedCounter = 0 /\ \A t \in Threads : Done[t] = ITERATIONS

\* The program implements the indivisible increments of AtomicCounter: under
\* either lock, a load and a store by one thread amount to one addition.
Abstract == INSTANCE AtomicCounter WITH counter <- sharedCounter, done <- Done
AbstractSpec == Abstract!Spec
=============================================================================
