---------------------------- MODULE MutexCounter ----------------------------
(***************************************************************************)
(* The futex mutex of sync/well-done/mutex.h around the workers'           *)
(* increments.  The kernel's futex queue is the set of threads at          *)
(* "asleep": FUTEX_WAIT re-checks the word atomically with going to sleep, *)
(* FUTEX_WAKE wakes one sleeper of the kernel's choice, and a wait may     *)
(* also return without a wake.                                             *)
(***************************************************************************)
EXTENDS Counter

VARIABLE futex    \* Mutex.futex: 0 free, 1 held

\* BUG (mutant): the old value returned by the test-and-set is ignored.
TestAndSet_NoTest(t) ==
  /\ Goto(t, "lock", "load")
  /\ futex' = 1
  /\ UNCHANGED <<sharedCounter, iter, reg, printed>>

\* mutex_lock, the while condition: the word becomes 1 whatever it was.
TestAndSet(t) ==
  /\ Goto(t, "lock", IF futex = 0 THEN "load" ELSE "wait")
  /\ futex' = 1
  /\ UNCHANGED <<sharedCounter, iter, reg, printed>>

\* BUG (mutant): FUTEX_WAIT does not compare the word with 1 before sleeping.
FutexWait_NoCompare(t) ==
  /\ Goto(t, "wait", "asleep")
  /\ UNCHANGED <<sharedCounter, iter, reg, printed, futex>>

\* mutex_lock, the loop body: sleep if the word is still 1, else try again.
FutexWait(t) ==
  /\ Goto(t, "wait", IF futex = 1 THEN "asleep" ELSE "lock")
  /\ UNCHANGED <<sharedCounter, iter, reg, printed, futex>>

\* A wait that returns without a wake-up; the while loop tests again.
SpuriousReturn(t) ==
  /\ Goto(t, "asleep", "lock")
  /\ UNCHANGED <<sharedCounter, iter, reg, printed, futex>>

\* mutex_unlock, __sync_lock_release.
Release(t) ==
  /\ Goto(t, "unlock", "wake")
  /\ futex' = 0
  /\ UNCHANGED <<sharedCounter, iter, reg, printed>>

Asleep == {t \in Threads : pc[t] = "asleep"}

\* BUG (mutant): mutex_unlock does not call FUTEX_WAKE.
FutexWake_None(t) ==
  /\ Goto(t, "wake", AfterRound(t))
  /\ iter' = [iter EXCEPT ![t] = @ + 1]
  /\ UNCHANGED <<sharedCounter, reg, printed, futex>>

\* mutex_unlock, FUTEX_WAKE of one sleeper, and the end of the round.
FutexWake(t) ==
  /\ pc[t] = "wake"
  /\ \/ /\ Asleep = {}
        /\ pc' = [pc EXCEPT ![t] = AfterRound(t)]
     \/ \E s \in Asleep :
          pc' = [pc EXCEPT ![t] = AfterRound(t), ![s] = "lock"]
  /\ iter' = [iter EXCEPT ![t] = @ + 1]
  /\ UNCHANGED <<sharedCounter, reg, printed, futex>>

incrementThreadMutex(t) ==
  \/ TestAndSet(t)
  \/ FutexWait(t)
  \/ Load(t) /\ UNCHANGED futex
  \/ Store(t) /\ UNCHANGED futex
  \/ Release(t)
  \/ FutexWake(t)
=============================================================================
