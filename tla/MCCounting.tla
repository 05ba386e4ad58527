----------------------------- MODULE MCCounting -----------------------------
(* Three threads per phase, two rounds each. *)
EXTENDS Counting
CONSTANTS t1, t2, t3
MCThreads == {t1, t2, t3}
MCIterations == 2
=============================================================================
