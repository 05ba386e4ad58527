--------------------------- MODULE UThreadsProof ---------------------------
(***************************************************************************)
(* For any number of created threads: the contexts are kept, and the       *)
(* processor goes round the threads, until an alarm comes early.           *)
(***************************************************************************)
EXTENDS UThreads, TLAPS

\* A switch has begun and not ended.
Switching == loading \/ Place(running) = "save"

\* While nothing has come early: only the running thread is in a switch, and
\* its variables are those of that switch.
SwitchInv ==
  /\ ~Switching => uthread_cur = running
  /\ Switching => /\ cur_ctx = running
                  /\ uthread_cur = (running + 1) % uthread_count
  /\ loading => Place(running) = "resumed" /\ uthreads[running] = running
  /\ \A t \in UThreads : t # running => Place(t) # "save"
  /\ \A t \in UThreads : handler[t] # "none" => code[t] # "save"

\* The table, and the entry that main is making.
TableInv ==
  /\ \A t \in 0 .. uthread_count - 1 : t # running => uthreads[t] = t
  /\ \A t \in UThreads : code[t] \in {"store", "count"} =>
       t = 0 /\ uthread_count <= MAX_CREATED
  /\ code[0] = "count" => uthreads[uthread_count] = uthread_count

IInv == TypeOK /\ (early \/ (SwitchInv /\ TableInv))

\* The scheduler's modulus gives the number of a thread.
LEMMA NextInTable ==
  ASSUME NEW n \in Nat \ {0}, NEW c \in 0 .. n - 1
  PROVE  (c + 1) % n \in 0 .. n - 1
OBVIOUS

\* The program starts with main alone.
LEMMA InitIInv == Init => IInv
<1> SUFFICES ASSUME Init PROVE IInv
  OBVIOUS
<1> USE UThreadsAssumption DEF UThreads, NoContext
<1>1. TypeOK
  <2>1. code \in [UThreads -> {"store", "start"}]
    BY DEF Init
  <2>2. blocked \in BOOLEAN /\ armed \in BOOLEAN
        /\ loading \in BOOLEAN /\ early \in BOOLEAN
    BY DEF Init
  <2>3. uthreads \in [UThreads -> {NoContext}]
        /\ handler \in [UThreads -> {"none"}]
    BY DEF Init
  <2>4. uthread_count \in 1 .. MAX_CREATED + 1
        /\ uthread_cur \in 0 .. uthread_count - 1
        /\ cur_ctx \in 0 .. uthread_count - 1
        /\ running \in 0 .. uthread_count - 1
    BY DEF Init
  <2> QED BY <2>1, <2>2, <2>3, <2>4 DEF TypeOK
<1>2. SwitchInv
  BY DEF Init, SwitchInv, Switching, Place
<1>3. TableInv
  BY DEF Init, TableInv
<1> QED BY <1>1, <1>2, <1>3 DEF IInv

\* uthread_create keeps the invariant.
LEMMA CreateIInv == IInv /\ ~early /\ ~loading /\ uthread_create => IInv'
<1> SUFFICES ASSUME IInv, ~early, ~loading, uthread_create PROVE IInv'
  OBVIOUS
<1> USE UThreadsAssumption DEF UThreads, NoContext
<1>1. TypeOK /\ SwitchInv /\ TableInv /\ running \in UThreads
      /\ 0 \in UThreads
  BY DEF IInv, TypeOK
<1>2. Place(running) \in {"store", "count"} /\ handler[running] = "none"
      /\ running = 0 /\ uthread_count <= MAX_CREATED
  BY <1>1 DEF uthread_create, Goto, Place, TypeOK, TableInv
<1>3. handler' = handler /\ early' = early /\ loading' = loading
      /\ uthread_cur' = uthread_cur /\ running' = running /\ cur_ctx' = cur_ctx
      /\ blocked' = blocked /\ armed' = armed
  BY <1>2 DEF uthread_create, Goto, Place, signals
<1>4. CASE Place(running) = "store"
  <2>1. code' = [code EXCEPT ![0] = "count"]
        /\ uthreads' = [uthreads EXCEPT ![uthread_count] = uthread_count]
        /\ uthread_count' = uthread_count
    BY <1>2, <1>4 DEF uthread_create, Goto, Place
  <2>2. TypeOK'
    BY <1>1, <1>2, <1>3, <2>1 DEF TypeOK
  <2>3. SwitchInv'
    BY <1>1, <1>2, <1>3, <1>4, <2>1 DEF SwitchInv, Switching, Place, TypeOK
  <2>4. TableInv'
    BY <1>1, <1>2, <1>3, <2>1 DEF TableInv, TypeOK
  <2> QED BY <2>2, <2>3, <2>4 DEF IInv
<1>5. CASE Place(running) = "count"
  <2>1. code' = [code EXCEPT ![0] = IF uthread_count < MAX_CREATED
                                    THEN "store" ELSE "choose"]
        /\ uthreads' = uthreads
        /\ uthread_count' = uthread_count + 1
    BY <1>2, <1>5 DEF uthread_create, Goto, Place
  <2>2. TypeOK'
    BY <1>1, <1>2, <1>3, <2>1 DEF TypeOK
  <2>3. SwitchInv'
    BY <1>1, <1>2, <1>3, <1>5, <2>1 DEF SwitchInv, Switching, Place, TypeOK
  <2>4. TableInv'
    BY <1>1, <1>2, <1>3, <1>5, <2>1 DEF TableInv, TypeOK, Place
  <2> QED BY <2>2, <2>3, <2>4 DEF IInv
<1> QED BY <1>2, <1>4, <1>5

\* The first half of the scheduler keeps it.
LEMMA ChooseIInv == IInv /\ ~early /\ ~loading /\ Choose => IInv'
<1> SUFFICES ASSUME IInv, ~early, ~loading, Choose PROVE IInv'
  OBVIOUS
<1> USE UThreadsAssumption DEF UThreads, NoContext
<1>1. TypeOK /\ SwitchInv /\ TableInv /\ running \in UThreads
      /\ Place(running) = "choose" /\ uthread_cur = running
  BY DEF IInv, TypeOK, Choose, Goto, SwitchInv, Switching
<1>2. uthread_cur' = (running + 1) % uthread_count /\ cur_ctx' = running
  BY <1>1 DEF Choose
<1>3. uthreads' = uthreads /\ uthread_count' = uthread_count
      /\ running' = running /\ loading' = loading /\ early' = early
      /\ blocked' = blocked /\ armed' = armed
  BY DEF Choose, slots, signals
<1>4. uthread_cur' \in 0 .. uthread_count - 1
  BY <1>1, <1>2, NextInTable DEF TypeOK
<1>5. \/ /\ handler[running] = "none" /\ handler' = handler
         /\ code[running] = "choose" /\ code' = [code EXCEPT ![running] = "save"]
      \/ /\ handler[running] = "choose" /\ code' = code
         /\ handler' = [handler EXCEPT ![running] = "save"]
  BY <1>1 DEF Choose, Goto, Place
<1>6. TypeOK'
  BY <1>1, <1>2, <1>3, <1>4, <1>5 DEF TypeOK
<1>7. SwitchInv'
  BY <1>1, <1>2, <1>3, <1>5 DEF SwitchInv, Switching, Place, TypeOK
<1>8. TableInv'
  BY <1>1, <1>3, <1>5 DEF TableInv, TypeOK
<1> QED BY <1>6, <1>7, <1>8 DEF IInv

\* swapcontext saves the running thread in its own slot.
LEMMA SaveIInv == IInv /\ ~early /\ ~loading /\ Save => IInv'
<1> SUFFICES ASSUME IInv, ~early, ~loading, Save PROVE IInv'
  OBVIOUS
<1> USE UThreadsAssumption DEF UThreads, NoContext
<1>1. TypeOK /\ SwitchInv /\ TableInv /\ running \in UThreads
      /\ Place(running) = "save" /\ cur_ctx = running
      /\ uthread_cur = (running + 1) % uthread_count
  BY DEF IInv, TypeOK, Save, Goto, SwitchInv, Switching
<1>2. uthreads' = [uthreads EXCEPT ![running] = running] /\ loading' = TRUE
      /\ uthread_count' = uthread_count /\ uthread_cur' = uthread_cur
      /\ cur_ctx' = cur_ctx /\ running' = running /\ early' = early
      /\ armed' = armed
  BY <1>1 DEF Save
<1>3. blocked' \in BOOLEAN
  BY DEF Save, Mask
<1>5. \/ /\ handler[running] = "none" /\ handler' = handler
         /\ code[running] = "save" /\ code' = [code EXCEPT ![running] = "resumed"]
      \/ /\ handler[running] = "save" /\ code' = code
         /\ handler' = [handler EXCEPT ![running] = "resumed"]
  BY <1>1 DEF Save, Goto, Place
<1>6. TypeOK'
  BY <1>1, <1>2, <1>3, <1>5 DEF TypeOK
<1>7. SwitchInv'
  BY <1>1, <1>2, <1>5 DEF SwitchInv, Switching, Place, TypeOK
<1>8. TableInv'
  BY <1>1, <1>2, <1>5 DEF TableInv, TypeOK
<1> QED BY <1>6, <1>7, <1>8 DEF IInv

\* The slot that swapcontext loads from has the context of the next thread.
LEMMA LoadsNext ==
  ASSUME IInv, ~early, Load
  PROVE  running' = uthread_cur /\ uthread_cur = (running + 1) % uthread_count
BY DEF IInv, TypeOK, Load, SwitchInv, Switching, TableInv

\* swapcontext loads the context of the next thread.
LEMMA LoadIInv == IInv /\ ~early /\ Load => IInv'
<1> SUFFICES ASSUME IInv, ~early, Load PROVE IInv'
  OBVIOUS
<1> USE UThreadsAssumption DEF UThreads, NoContext
<1>0. loading /\ loading' = FALSE
  BY DEF Load
<1>1. TypeOK /\ SwitchInv /\ TableInv /\ running \in UThreads
      /\ running' = uthread_cur /\ running' \in UThreads
  <2>1. TypeOK /\ SwitchInv /\ TableInv
    BY DEF IInv
  <2>2. running' = uthread_cur
    BY LoadsNext
  <2> QED BY <2>1, <2>2 DEF TypeOK
<1>2. uthreads' = uthreads /\ uthread_count' = uthread_count
      /\ uthread_cur' = uthread_cur /\ cur_ctx' = cur_ctx
      /\ blocked' = blocked /\ armed' = armed /\ early' = early
      /\ code' = code /\ handler' = handler
  BY DEF Load, slots, signals
<1>3. \A t \in UThreads : Place(t) # "save" /\ Place(t)' = Place(t)
  BY <1>0, <1>1, <1>2 DEF SwitchInv, Place
<1>6. TypeOK'
  BY <1>0, <1>1, <1>2 DEF TypeOK
<1>7. SwitchInv'
  <2>1. ~Switching'
    BY <1>0, <1>1, <1>2, <1>3 DEF Switching, Place
  <2> QED BY <1>0, <1>1, <1>2, <1>3, <2>1 DEF SwitchInv
<1>8. TableInv'
  BY <1>0, <1>1, <1>2 DEF TableInv, SwitchInv, TypeOK
<1> QED BY <1>6, <1>7, <1>8 DEF IInv

\* The steps outside the scheduler and the table keep it.
LEMMA OtherIInv ==
  IInv /\ ~early /\ ~loading
       /\ (Loop \/ start_thread \/ Finish \/ uthread_scheduler) => IInv'
<1> SUFFICES ASSUME IInv, ~early, ~loading,
                    Loop \/ start_thread \/ Finish \/ uthread_scheduler
             PROVE  IInv'
  OBVIOUS
<1> USE UThreadsAssumption DEF UThreads, NoContext
<1>1. TypeOK /\ SwitchInv /\ TableInv /\ running \in UThreads
  BY DEF IInv, TypeOK
<1>2. uthreads' = uthreads /\ uthread_count' = uthread_count
      /\ uthread_cur' = uthread_cur /\ cur_ctx' = cur_ctx
      /\ running' = running /\ loading' = loading /\ early' = early
  BY DEF Loop, start_thread, Finish, uthread_scheduler, Rearm, HandlerReturns,
         slots, signals
<1>3. blocked' \in BOOLEAN /\ armed' \in BOOLEAN
  BY <1>1 DEF Loop, start_thread, Finish, uthread_scheduler, Rearm,
              HandlerReturns, signals, TypeOK
<1>4. \/ /\ handler[running] = "none" /\ handler' = handler
         /\ code[running] \in {"resumed", "start", "work"}
         /\ \E to \in {"choose", "work", "finished"} :
              code' = [code EXCEPT ![running] = to]
      \/ /\ handler[running] \in {"alarm", "resumed"} /\ code' = code
         /\ \E to \in {"choose", "none"} :
              handler' = [handler EXCEPT ![running] = to]
  <2>1. CASE Loop
    BY <1>1, <2>1 DEF Loop, Goto, Place
  <2>2. CASE start_thread
    <3>1. handler[running] # "start"
      BY <1>1 DEF TypeOK
    <3> QED BY <2>2, <3>1 DEF start_thread, Goto, Place
  <2>3. CASE Finish
    <3>1. handler[running] # "work"
      BY <1>1 DEF TypeOK
    <3> QED BY <2>3, <3>1 DEF Finish, Goto, Place
  <2>4. CASE Rearm
    <3>1. code[running] # "alarm"
      BY <1>1 DEF TypeOK
    <3> QED BY <2>4, <3>1 DEF Rearm, Goto, Place
  <2>5. CASE HandlerReturns
    BY <2>5 DEF HandlerReturns, Goto, Place
  <2> QED BY <2>1, <2>2, <2>3, <2>4, <2>5 DEF uthread_scheduler
<1>6. TypeOK'
  BY <1>1, <1>2, <1>3, <1>4 DEF TypeOK
<1>7. SwitchInv'
  BY <1>1, <1>2, <1>4 DEF SwitchInv, Switching, Place, TypeOK
<1>8. TableInv'
  BY <1>1, <1>2, <1>4 DEF TableInv, TypeOK
<1> QED BY <1>6, <1>7, <1>8 DEF IInv

\* An alarm that is not early keeps it.
LEMMA AlarmIInv == IInv /\ ~early /\ Alarm => IInv'
<1> SUFFICES ASSUME IInv, ~early, Alarm PROVE IInv'
  OBVIOUS
<1> USE UThreadsAssumption DEF UThreads, NoContext
<1>1. TypeOK /\ SwitchInv /\ TableInv /\ running \in UThreads
  BY DEF IInv, TypeOK
<1>2. uthreads' = uthreads /\ uthread_count' = uthread_count
      /\ uthread_cur' = uthread_cur /\ cur_ctx' = cur_ctx /\ code' = code
      /\ running' = running /\ loading' = loading
      /\ handler' = [handler EXCEPT ![running] = "alarm"]
  BY DEF Alarm, slots
<1>3. TypeOK'
  BY <1>1, <1>2 DEF TypeOK, Alarm
<1>4. SUFFICES ASSUME ~early' PROVE SwitchInv' /\ TableInv'
  BY <1>3 DEF IInv
<1>5. ~Switching
  BY <1>4 DEF Alarm, Switching
<1>6. SwitchInv'
  BY <1>1, <1>2, <1>5 DEF SwitchInv, Switching, Place, TypeOK
<1>7. TableInv'
  BY <1>1, <1>2 DEF TableInv, TypeOK
<1> QED BY <1>6, <1>7

\* Every step keeps the invariant.
LEMMA StepIInv == IInv /\ [Next]_vars => IInv'
<1> SUFFICES ASSUME IInv, [Next]_vars PROVE IInv'
  OBVIOUS
<1>1. CASE ~Ended /\ (Step \/ (~loading /\ Finish) \/ Alarm)
  BY <1>1, CreateIInv, ChooseIInv, SaveIInv, LoadIInv, OtherIInv, AlarmIInv
     DEF Ended, Step
<1>2. CASE UNCHANGED vars
  BY <1>2 DEF vars, IInv, TypeOK, SwitchInv, TableInv, Switching, Place
<1> QED BY <1>1, <1>2 DEF Next

\* The variables stay in their types: the scheduler's index is that of a
\* thread in the table, and so is the thread that runs.
THEOREM UThreadsTypeCorrect == Spec => []TypeOK
<1>1. IInv => TypeOK
  BY DEF IInv
<1> QED BY <1>1, InitIInv, StepIInv, PTL DEF Spec

\* Whatever the number of threads and wherever the alarms come that do not
\* come early, each thread's context is in its own slot of the table.
THEOREM KeepsContexts == Spec => []ContextsKept
<1>1. IInv => ContextsKept
  BY UThreadsAssumption
     DEF IInv, TypeOK, ContextsKept, TableInv, SwitchInv, Switching, UThreads
<1> QED BY <1>1, InitIInv, StepIInv, PTL DEF Spec

\* Whatever the number of threads, a switch goes to the next one.
THEOREM GoesRound == Spec => RoundRobin
<1>1. IInv /\ [Next]_vars
      => [early' \/ running' = (running + 1) % uthread_count]_running
  <2> SUFFICES ASSUME IInv, [Next]_vars, running' # running
               PROVE  running' = (running + 1) % uthread_count
    OBVIOUS
  <2>1. ~early /\ Load
    BY DEF Next, vars, Ended, Step, uthread_create, Choose, Save, Loop,
           start_thread, uthread_scheduler, Rearm, HandlerReturns, Finish, Alarm
  <2> QED BY <2>1, LoadsNext
<1> QED BY <1>1, InitIInv, StepIInv, PTL DEF Spec, RoundRobin
=============================================================================
