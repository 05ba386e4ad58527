------------------------------ MODULE Counter ------------------------------
(***************************************************************************)
(* The workload that sync/well-done/main.c runs twice: main creates the    *)
(* threads, each thread repeats lock; sharedCounter++; unlock, main joins  *)
(* them all, prints the counter and resets it.  sharedCounter++ is a load  *)
(* and a store.  The steps of the locks are in SpinCounter and             *)
(* MutexCounter, the two phases in Counting.                               *)
(***************************************************************************)
EXTENDS Integers, FiniteSets

CONSTANTS
  Threads,        \* the N threads of a phase
  ITERATIONS      \* rounds of each thread's for loop

ASSUME CounterAssumption ==
  /\ IsFiniteSet(Threads)
  /\ ITERATIONS \in Nat \ {0}

VARIABLES
  sharedCounter,  \* main.c's global
  pc,             \* what each thread does next
  iter,           \* the loop variable i of each thread
  reg,            \* the value a thread loaded for sharedCounter++
  printed         \* the value main printed, NotPrinted before

workVars == <<sharedCounter, pc, iter, reg, printed>>

NotPrinted == -1

WorkInit ==
  /\ sharedCounter = 0
  /\ pc = [t \in Threads |-> "new"]
  /\ iter = [t \in Threads |-> 0]
  /\ reg = [t \in Threads |-> 0]
  /\ printed = NotPrinted

Goto(t, from, to) == pc[t] = from /\ pc' = [pc EXCEPT ![t] = to]

\* pthread_create of one worker.
Create(t) ==
  /\ Goto(t, "new", "lock")
  /\ UNCHANGED <<sharedCounter, iter, reg, printed>>

\* The two halves of sharedCounter++.
Load(t) ==
  /\ Goto(t, "load", "store")
  /\ reg' = [reg EXCEPT ![t] = sharedCounter]
  /\ UNCHANGED <<sharedCounter, iter, printed>>

Store(t) ==
  /\ Goto(t, "store", "unlock")
  /\ sharedCounter' = reg[t] + 1
  /\ UNCHANGED <<iter, reg, printed>>

\* The end of a loop round: ++i, and the thread returns after the last one.
AfterRound(t) == IF iter[t] + 1 < ITERATIONS THEN "lock" ELSE "exited"

\* All pthread_join calls have returned.
Joined == \A t \in Threads : pc[t] = "exited"

\* BUG (mutant): the counter keeps the first phase's total.
PrintTotal_NoReset ==
  /\ printed = NotPrinted
  /\ Joined
  /\ printed' = sharedCounter
  /\ UNCHANGED <<sharedCounter, pc, iter, reg>>

\* main prints the counter and resets it.
PrintTotal ==
  /\ printed = NotPrinted
  /\ Joined
  /\ printed' = sharedCounter
  /\ sharedCounter' = 0
  /\ UNCHANGED <<pc, iter, reg>>

\* A thread between the lock and the unlock call.
InCS(t) == pc[t] \in {"load", "store", "unlock"}
=============================================================================
