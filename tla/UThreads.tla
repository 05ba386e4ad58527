----------------------------- MODULE UThreads -----------------------------
(***************************************************************************)
(* The user-level threads of threads/thread1_7_u.c: one kernel thread, a   *)
(* context for main and for each thread that it creates, and a scheduler   *)
(* that main calls all the time and the SIGALRM handler once a second.     *)
(* Any of the threads may be suspended anywhere in its code, in a handler  *)
(* of its own or in main's own call of the scheduler.                      *)
(*                                                                         *)
(* A context is the place where its thread goes on, so a slot of uthreads  *)
(* names the thread whose context was saved there last.                    *)
(***************************************************************************)
EXTENDS Integers

CONSTANT MAX_CREATED   \* how many threads main creates; 3 in the program

ASSUME UThreadsAssumption == MAX_CREATED \in Nat \ {0}

UThreads == 0..MAX_CREATED    \* 0 is main
NoContext == -1               \* nothing has been saved in the slot

VARIABLES
  uthreads,       \* whose context is in uthreads[i]->uctx
  uthread_count,
  uthread_cur,
  cur_ctx,        \* the slot in which the switch in progress saves
  running,        \* the thread that the processor executes
  blocked,        \* the signal mask of the process has SIGALRM
  armed,          \* an alarm is set, or pending, and not yet delivered
  code,           \* the place of each thread in its own code ...
  handler,        \* ... and in uthread_scheduler, or "none"
  loading,        \* swapcontext has saved a context, but not yet loaded one
  early           \* an alarm has interrupted a switch that had begun

vars == <<uthreads, uthread_count, uthread_cur, cur_ctx, running, blocked,
          armed, code, handler, loading, early>>
slots == <<uthreads, uthread_count>>
signals == <<blocked, armed, early>>

\* main between alarm(1) and the first uthread_create.
Init ==
  /\ uthreads = [i \in UThreads |-> NoContext]
  /\ uthread_count = 1 /\ uthread_cur = 0 /\ cur_ctx = 0
  /\ running = 0
  /\ blocked = FALSE /\ armed = TRUE
  /\ code = [t \in UThreads |-> IF t = 0 THEN "store" ELSE "start"]
  /\ handler = [t \in UThreads |-> "none"]
  /\ loading = FALSE /\ early = FALSE

\* The place of thread t: in the handler if it is in one.
Place(t) == IF handler[t] = "none" THEN code[t] ELSE handler[t]

\* The running thread goes from one place to another.
Goto(from, to) ==
  /\ Place(running) = from
  /\ IF handler[running] = "none"
     THEN code' = [code EXCEPT ![running] = to] /\ UNCHANGED handler
     ELSE handler' = [handler EXCEPT ![running] = to] /\ UNCHANGED code
-----------------------------------------------------------------------------
\* BUG (mutant): the thread is counted before it is in the table.
uthread_create_CountsFirst ==
  /\ UNCHANGED <<uthread_cur, cur_ctx, running, loading, signals>>
  /\ \/ /\ Goto("store", "count")
        /\ uthread_count' = uthread_count + 1
        /\ UNCHANGED uthreads
     \/ /\ Goto("count",
                IF uthread_count <= MAX_CREATED THEN "store" ELSE "choose")
        /\ uthreads' = [uthreads EXCEPT ![uthread_count - 1] = uthread_count - 1]
        /\ UNCHANGED uthread_count

\* The context that makecontext has prepared goes into the table, and then it
\* is counted.  After the last one main enters its loop.
uthread_create ==
  /\ UNCHANGED <<uthread_cur, cur_ctx, running, loading, signals>>
  /\ \/ /\ Goto("store", "count")
        /\ uthreads' = [uthreads EXCEPT ![uthread_count] = uthread_count]
        /\ UNCHANGED uthread_count
     \/ /\ Goto("count",
                IF uthread_count < MAX_CREATED THEN "store" ELSE "choose")
        /\ uthread_count' = uthread_count + 1
        /\ UNCHANGED uthreads

\* BUG (mutant): modulo the size of the table, instead of the threads in it.
Choose_WholeTable ==
  /\ Goto("choose", "save")
  /\ cur_ctx' = uthread_cur
  /\ uthread_cur' = (uthread_cur + 1) % (MAX_CREATED + 1)
  /\ UNCHANGED <<slots, running, loading, signals>>

\* The first half of sheduler: whose context is saved where, and who is next.
\* next_ctx is the slot of uthread_cur until the switch is over.
Choose ==
  /\ Goto("choose", "save")
  /\ cur_ctx' = uthread_cur
  /\ uthread_cur' = (uthread_cur + 1) % uthread_count
  /\ UNCHANGED <<slots, running, loading, signals>>

\* The mask in the context of t: SIGALRM is blocked if it is in the handler.
Mask(t) == t # NoContext /\ handler[t] # "none"

\* BUG (mutant): the contexts are switched without their signal masks.
Save_KeepsMask ==
  /\ Goto("save", "resumed")
  /\ uthreads' = [uthreads EXCEPT ![cur_ctx] = running]
  /\ loading' = TRUE
  /\ UNCHANGED <<uthread_count, uthread_cur, cur_ctx, running, signals>>

\* swapcontext saves the running thread, to be resumed behind the call, and
\* installs the signal mask of the next one ...
Save ==
  /\ Goto("save", "resumed")
  /\ uthreads' = [uthreads EXCEPT ![cur_ctx] = running]
  /\ blocked' = Mask(uthreads'[uthread_cur])
  /\ loading' = TRUE
  /\ UNCHANGED <<uthread_count, uthread_cur, cur_ctx, running, armed, early>>

\* ... and its registers.
Load ==
  /\ loading /\ loading' = FALSE
  /\ running' = uthreads[uthread_cur]
  /\ UNCHANGED <<slots, uthread_cur, cur_ctx, signals, code, handler>>

\* main's while loop.
Loop ==
  /\ handler[running] = "none" /\ Goto("resumed", "choose")
  /\ UNCHANGED <<slots, uthread_cur, cur_ctx, running, loading, signals>>

\* A thread looks for its own stack among those in the table.  If there were
\* none, it would return at once.
start_thread ==
  /\ Goto("start",
          IF running \in 1 .. uthread_count - 1 THEN "work" ELSE "finished")
  /\ UNCHANGED <<slots, uthread_cur, cur_ctx, running, loading, signals>>

\* mythread1 sleeps 10000 times, that is: some time.  Then it returns, and so
\* does start_thread; a context without uc_link ends the process with it.
Finish ==
  /\ Goto("work", "finished")
  /\ UNCHANGED <<slots, uthread_cur, cur_ctx, running, loading, signals>>

\* The handler sets the next alarm, and calls sheduler.
Rearm ==
  /\ Goto("alarm", "choose")
  /\ armed' = TRUE
  /\ UNCHANGED <<slots, uthread_cur, cur_ctx, running, loading, blocked, early>>

\* It returns, to where the alarm came, and the mask is as it was.
HandlerReturns ==
  /\ handler[running] # "none" /\ Goto("resumed", "none")
  /\ blocked' = FALSE
  /\ UNCHANGED <<slots, uthread_cur, cur_ctx, running, loading, armed, early>>

uthread_scheduler == Rearm \/ HandlerReturns

\* The alarm is delivered to whatever thread is running: uthread_scheduler is
\* called on its stack, with the signal blocked.  An alarm that comes between
\* the move of uthread_cur and the end of swapcontext is early: the handler
\* would save the context of the running thread in the slot of the next one
\* (thread1_7_u.c:54).  What comes of it is not followed.
Alarm ==
  /\ armed /\ ~blocked
  /\ armed' = FALSE /\ blocked' = TRUE
  /\ handler' = [handler EXCEPT ![running] = "alarm"]
  /\ early' = (Place(running) = "save" \/ loading)
  /\ UNCHANGED <<slots, uthread_cur, cur_ctx, running, loading, code>>
-----------------------------------------------------------------------------
Ended == early \/ \E t \in UThreads : code[t] = "finished"

Step ==
  \/ Load
  \/ /\ ~loading
     /\ \/ uthread_create \/ Choose \/ Save \/ Loop
        \/ start_thread \/ uthread_scheduler

Next ==
  \/ ~Ended /\ (Step \/ (~loading /\ Finish) \/ Alarm)
  \/ Ended /\ UNCHANGED vars

\* The processor goes on executing, an alarm that is set comes, and in the
\* second until then the running thread's own code makes a step.
Fairness == /\ WF_vars(~Ended /\ Step)
            /\ WF_vars(~Ended /\ Alarm)
            /\ SF_vars(~Ended /\ handler[running] = "none" /\ Step)

Spec == Init /\ [][Next]_vars /\ Fairness
-----------------------------------------------------------------------------
\* Wherever the alarms come in main and in the threads, while threads are
\* being created or the scheduler is about to be called: every thread in the
\* table that is not running can be found in its own slot, and the scheduler
\* knows who is running.  An early alarm would break it (thread1_7_u.c:54).
ContextsKept ==
  early \/ /\ \A t \in 0 .. uthread_count - 1 :
                t # running => uthreads[t] = t
           /\ Place(running) = "choose" => uthread_cur = running

\* The processor goes round the threads in the order of their creation.
RoundRobin ==
  [][early' \/ running' = (running + 1) % uthread_count]_running

\* Every thread gets the processor again and again, although only main ever
\* gives it up, unless an alarm comes early or a thread has finished: no switch
\* leaves a thread running with SIGALRM blocked, and the alarm is always set.
EveryThreadRuns == <>Ended \/ \A t \in UThreads : []<>(running = t)

\* For the proof: everything that a step relies on.
TypeOK ==
  /\ uthreads \in [UThreads -> UThreads \cup {NoContext}]
  /\ uthread_count \in 1 .. MAX_CREATED + 1
  /\ uthread_cur \in 0 .. uthread_count - 1
  /\ cur_ctx \in 0 .. uthread_count - 1
  /\ running \in 0 .. uthread_count - 1
  /\ blocked \in BOOLEAN /\ armed \in BOOLEAN
  /\ loading \in BOOLEAN /\ early \in BOOLEAN
  /\ code \in [UThreads -> {"store", "count", "choose", "save", "resumed",
                            "start", "work", "finished"}]
  /\ handler \in [UThreads -> {"none", "alarm", "choose", "save", "resumed"}]
=============================================================================
