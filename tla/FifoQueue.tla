----------------------------- MODULE FifoQueue -----------------------------
(***************************************************************************)
(* What every queue of sync/ok_job promises its callers: queue_add appends *)
(* a value unless max_count values are stored, queue_get removes the       *)
(* oldest value unless there is none, and both are indivisible.            *)
(***************************************************************************)
EXTENDS Naturals, Sequences

CONSTANTS
  Values,      \* what the writers may add
  MAX_COUNT    \* the max_count given to queue_init

VARIABLE queue   \* the stored values, oldest first

Init == queue = <<>>

Add(v) == Len(queue) < MAX_COUNT /\ queue' = Append(queue, v)

Get == queue # <<>> /\ queue' = Tail(queue)

Next == Get \/ \E v \in Values : Add(v)

Spec == Init /\ [][Next]_queue
=============================================================================
