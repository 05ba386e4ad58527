--------------------------- MODULE MCCondQueue ---------------------------
(* Thread sets for CondQueue: queue-threads.c has one reader and one writer. *)
EXTENDS CondQueue
CONSTANTS r1, r2, w1, w2
TwoReaders == {r1, r2}
TwoWriters == {w1, w2}
=============================================================================
