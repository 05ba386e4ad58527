--------------------------- MODULE MCListQueue ---------------------------
(* The reader and the writer of queue-threads.c, a queue of MAX_COUNT values
   and one node more than a full queue needs. *)
EXTENDS ListQueue
CONSTANTS r1, w1, n1, n2, n3
MCReaders == {r1}
MCWriters == {w1}
MCNodes == {n1, n2, n3}
=============================================================================
