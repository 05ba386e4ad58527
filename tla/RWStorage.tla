----------------------------- MODULE RWStorage -----------------------------
(***************************************************************************)
(* sync/good_job/rwlock.c beside mutex.c: the same six functions, with     *)
(* reader-writer locks in the nodes.  The swappers take them for writing,  *)
(* which is how Storage has them; the counters take them for reading, and  *)
(* a node may have several readers.  What a lock does after somebody has   *)
(* released it who did not hold it is undefined: the model ends there.     *)
(***************************************************************************)
EXTENDS Storage

CONSTANT Programs     \* which of "mutex" and "rwlock" are looked at

VARIABLES
  program,   \* the program that runs; it does not change
  readers    \* the counters that have node->sync for reading

rwVars == <<vars, program, readers>>

RWInit ==
  /\ Init
  /\ program \in Programs
  /\ readers = [p \in Nodes |-> {}]

\* BUG (mutant): a writer does not wait for the readers.
RWSwapper_IgnoresReaders(s) == Swapper(s) /\ UNCHANGED <<program, readers>>

\* The swapping functions; pthread_rwlock_wrlock waits for the readers too.
RWSwapper(s) ==
  /\ Swapper(s)
  /\ \A p \in Nodes : holder'[p] = s /\ holder[p] # s => readers[p] = {}
  /\ UNCHANGED <<program, readers>>

\* pthread_rwlock_rdlock; there may be other readers, but no writer.
ReadLock(c, p) ==
  /\ holder[p] = NoThread
  /\ readers' = [readers EXCEPT ![p] = @ \cup {c}]

\* BUG (mutant): the node stays locked for reading.
ReadUnlock_Forgotten(c, p) == UNCHANGED <<readers, stray>>

\* pthread_rwlock_unlock by a reader.
ReadUnlock(c, p) ==
  /\ readers' = [readers EXCEPT ![p] = @ \ {c}]
  /\ stray' = (stray \/ c \notin readers[p])

RLock1(c) ==
  /\ Goto(c, "clock1", "clock2", local[c])
  /\ ReadLock(c, local[c].current)
  /\ UNCHANGED <<next, holder, stray>>

\* The second lock and the comparison.
RLock2(c) ==
  /\ pc[c] = "clock2"
  /\ LET p == next[local[c].current]
         one == IF Compares(c, local[c].current, p) THEN 1 ELSE 0
     IN  IF p = Null THEN Fault(c) /\ UNCHANGED readers
         ELSE /\ Goto(c, "clock2", "cunlock1",
                      [local[c] EXCEPT !.count = IF @ < 2 * VALUES THEN @ + one
                                              ELSE @])
              /\ ReadLock(c, p)
              /\ UNCHANGED <<next, holder, stray>>

RUnlock1(c) ==
  /\ Goto(c, "cunlock1", "cunlock2", local[c])
  /\ ReadUnlock(c, local[c].current)
  /\ UNCHANGED <<next, holder>>

\* As in CUnlock2, current->next is read again.
RUnlock2(c) ==
  /\ pc[c] = "cunlock2"
  /\ LET p == next[local[c].current] IN
     IF p = Null THEN Fault(c) /\ UNCHANGED readers
     ELSE /\ Goto(c, "cunlock2", "cwalk", local[c])
          /\ ReadUnlock(c, p)
          /\ UNCHANGED <<next, holder>>

\* The counting functions of rwlock.c; those of mutex.c are Counter.
RWCounter(c) ==
  \/ program = "mutex" /\ Counter(c) /\ UNCHANGED <<program, readers>>
  \/ /\ program = "rwlock" /\ UNCHANGED program
     /\ \/ (CStart(c) \/ CWalk(c) \/ CTest(c) \/ Report(c)) /\ UNCHANGED readers
        \/ RLock1(c) \/ RLock2(c) \/ RUnlock1(c) \/ RUnlock2(c)

Over == Dead \/ stray

RWNext ==
  \/ ~Over /\ \E s \in Swappers : RWSwapper(s)
  \/ ~Over /\ \E c \in Counters : RWCounter(c)
  \/ Over /\ UNCHANGED rwVars

RWFairness == /\ \A s \in Swappers : WF_rwVars(~Over /\ RWSwapper(s))
              /\ \A c \in Counters : WF_rwVars(~Over /\ RWCounter(c))

RWSpec == RWInit /\ [][RWNext]_rwVars /\ RWFairness
-----------------------------------------------------------------------------
\* A thread that starts anew has left no lock behind, for writing or for
\* reading, whichever way it found its nodes (mutex.c:115, rwlock.c:116).
LocksGivenBack ==
  Over \/ /\ NothingLeftLocked
          /\ \A p \in Nodes : \A c \in readers[p] : pc[c] # "start"
=============================================================================
