--------------------------- MODULE AtomicCounter ---------------------------
(***************************************************************************)
(* What sync/well-done/main.c promises: in each phase every thread adds    *)
(* one to the shared counter ITERATIONS times, each addition indivisible,  *)
(* and once all are made main prints the total and resets the counter.     *)
(***************************************************************************)
EXTENDS Integers

CONSTANTS
  Threads,     \* the N worker threads of a phase
  ITERATIONS   \* increments made by each worker

VARIABLES
  counter,     \* the shared counter
  done,        \* done[t]: increments thread t has made
  printed      \* the total main printed, NotPrinted before

vars == <<counter, done, printed>>

NotPrinted == -1

Init ==
  /\ counter = 0
  /\ done = [t \in Threads |-> 0]
  /\ printed = NotPrinted

Increment(t) ==
  /\ done[t] < ITERATIONS
  /\ counter' = counter + 1
  /\ done' = [done EXCEPT ![t] = @ + 1]
  /\ UNCHANGED printed

PrintTotal ==
  /\ printed = NotPrinted
  /\ \A t \in Threads : done[t] = ITERATIONS
  /\ printed' = counter
  /\ counter' = 0
  /\ UNCHANGED done

\* The next phase has threads of its own, and the counter as it was left.
NextPhase ==
  /\ printed # NotPrinted
  /\ printed' = NotPrinted
  /\ done' = [t \in Threads |-> 0]
  /\ UNCHANGED counter

Next == PrintTotal \/ NextPhase \/ \E t \in Threads : Increment(t)

Spec == Init /\ [][Next]_vars
=============================================================================
