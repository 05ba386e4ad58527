----------------------------- MODULE MCSemQueue -----------------------------
(* Two readers and two writers for SemQueue, so that threads compete on both *)
(* sides of every semaphore.                                                 *)
EXTENDS SemQueue
CONSTANTS r1, r2, w1, w2
TwoReaders == {r1, r2}
TwoWriters == {w1, w2}
=============================================================================
