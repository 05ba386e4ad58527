---------------------------- MODULE SpinCounter ----------------------------
(***************************************************************************)
(* The spinlock of sync/well-done/spin.h around the workers' increments.   *)
(* A failed test-and-set writes the 1 that is already there, so it changes *)
(* no state: spinning is stuttering.                                       *)
(***************************************************************************)
EXTENDS Counter

VARIABLE lock     \* Spinlock.lock: 0 free, 1 held

\* BUG (mutant): the old value returned by the test-and-set is ignored.
spinlock_lock_NoTest(t) ==
  /\ Goto(t, "lock", "load")
  /\ lock' = 1
  /\ UNCHANGED <<sharedCounter, iter, reg, printed>>

\* The test-and-set that finds 0 and ends the while loop.
spinlock_lock(t) ==
  /\ lock = 0
  /\ Goto(t, "lock", "load")
  /\ lock' = 1
  /\ UNCHANGED <<sharedCounter, iter, reg, printed>>

spinlock_unlock(t) ==
  /\ Goto(t, "unlock", AfterRound(t))
  /\ iter' = [iter EXCEPT ![t] = @ + 1]
  /\ lock' = 0
  /\ UNCHANGED <<sharedCounter, reg, printed>>

incrementThreadSpin(t) ==
  \/ spinlock_lock(t)
  \/ Load(t) /\ UNCHANGED lock
  \/ Store(t) /\ UNCHANGED lock
  \/ spinlock_unlock(t)
=============================================================================
