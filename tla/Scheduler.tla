----------------------------- MODULE Scheduler -----------------------------
(***************************************************************************)
(* The Scheduler (Matrix/Scheduler.cpp) as the bfs_forest and wcc programs *)
(* run it: the main thread adds one task per special root to the workers'  *)
(* queues and waits; each worker runs parallel_push_pop, which pops its    *)
(* own queue, and after a task takes the next Increment roots from the     *)
(* shared start_index and pushes them as a task of its own.  No worker     *)
(* touches another's queue in this mode, so a queue operation is one step. *)
(*                                                                         *)
(* A task is its range of roots, [begin, end).  A condition variable is    *)
(* the set of threads that wait on it; signals are sent without a mutex,   *)
(* and one that finds nobody waiting is lost.                              *)
(***************************************************************************)
EXTENDS Integers, Sequences, FiniteSets, SequencesExt

CONSTANTS
    Threads,        \* m_threadNum
    SpecialRoots,   \* SPECIAL_ROOT_SIZE, 1024 in the code
    MaxIndex,       \* the number of roots, max_index
    Increment,      \* INCREMENT_ROOT_VERTICES, 256 in the code
    WordSize,       \* 2^64: unsigned long counters wrap
    Spurious        \* may a pthread_cond_wait return without a signal

ASSUME SchedulerAssumption ==
    /\ Threads \in Nat \ {0} /\ Increment \in Nat \ {0}
    /\ SpecialRoots \in Nat /\ MaxIndex \in Nat /\ WordSize \in Nat
    /\ SpecialRoots < MaxIndex /\ Threads < WordSize
    /\ Spurious \in BOOLEAN

Workers == 0 .. Threads - 1
Roots   == 0 .. MaxIndex - 1
NoTask  == <<0, 0>>

VARIABLES
    threadQueue,            \* each worker's tasks, the newest last
    m_sleep_threadNum, m_activate_threadNum,
    firstTime, complete,    \* per worker
    lock_free, start_index,
    hasTaskWaiters,         \* the workers in a wait on m_hasTaskConds[id]
    sleepWaiter,            \* whether main waits on m_sleepCond
    pc, task,               \* where each worker is, and its task
    main, next,             \* where main is, and the task or worker it is at
    ran                     \* how often each root has been processed

counters == <<m_sleep_threadNum, m_activate_threadNum>>
flags    == <<firstTime, complete>>
mainVars == <<lock_free, main, next>>
vars     == <<threadQueue, counters, flags, mainVars, start_index,
              hasTaskWaiters, sleepWaiter, pc, task, ran>>

Init ==
    /\ threadQueue = [w \in Workers |-> <<>>]
    /\ m_sleep_threadNum = 0 /\ m_activate_threadNum = 0
    /\ firstTime = [w \in Workers |-> 1] /\ complete = [w \in Workers |-> 0]
    /\ lock_free = FALSE
    /\ start_index = SpecialRoots
    /\ hasTaskWaiters = {} /\ sleepWaiter = FALSE
    /\ pc = [w \in Workers |-> "start"]
    /\ task = [w \in Workers |-> NoTask]
    /\ main = "add" /\ next = 0
    /\ ran = [r \in Roots |-> 0]

Goto(w, label) == pc' = [pc EXCEPT ![w] = label]

Pop(w) ==
    /\ threadQueue[w] # <<>>
    /\ task' = [task EXCEPT ![w] = Last(threadQueue[w])]
    /\ threadQueue' = [threadQueue EXCEPT ![w] = Front(@)]

Push(w, t) == threadQueue' = [threadQueue EXCEPT ![w] = Append(@, t)]

---------------------------------------------------------------------------
(***************************************************************************)
(* A worker, in parallel_push_pop.                                         *)
(***************************************************************************)
\* the loop under m_hasTaskMutex: pop, or go and wait for the first task
Start(w) ==
    /\ pc[w] = "start"
    /\ IF firstTime[w] = 1
       THEN \/ Pop(w) /\ Goto(w, "activate")
            \/ /\ threadQueue[w] = <<>> /\ Goto(w, "first_wait")
               /\ UNCHANGED <<task, threadQueue>>
       ELSE Goto(w, "activate") /\ UNCHANGED <<task, threadQueue>>
    /\ UNCHANGED <<counters, flags, mainVars, start_index, hasTaskWaiters,
                   sleepWaiter, ran>>

\* the first task of a round
Activate(w) ==
    /\ pc[w] = "activate"
    /\ IF firstTime[w] = 1
       THEN /\ firstTime' = [firstTime EXCEPT ![w] = 0]
            /\ complete' = [complete EXCEPT ![w] = 0]
            /\ m_activate_threadNum' = (m_activate_threadNum + 1) % WordSize
       ELSE UNCHANGED <<flags, m_activate_threadNum>>
    /\ Goto(w, "pop")
    /\ UNCHANGED <<threadQueue, m_sleep_threadNum, mainVars, start_index,
                   hasTaskWaiters, sleepWaiter, task, ran>>

PopOwn(w) ==
    /\ pc[w] = "pop"
    /\ \/ task[w] # NoTask /\ Goto(w, "run") /\ UNCHANGED <<task, threadQueue>>
       \/ task[w] = NoTask /\ Pop(w) /\ Goto(w, "run")
       \/ /\ task[w] = NoTask /\ threadQueue[w] = <<>>
          /\ Goto(w, "hang_up") /\ UNCHANGED <<task, threadQueue>>
    /\ UNCHANGED <<counters, flags, mainVars, start_index, hasTaskWaiters,
                   sleepWaiter, ran>>

HangUp(w) ==
    /\ pc[w] = "hang_up"
    /\ m_sleep_threadNum' = (m_sleep_threadNum + 1) % WordSize
    /\ Goto(w, "tell_main")
    /\ UNCHANGED <<threadQueue, m_activate_threadNum, flags, mainVars,
                   start_index, hasTaskWaiters, sleepWaiter, task, ran>>

\* pthread_cond_signal(&m_sleepCond)
TellMain(w) ==
    /\ pc[w] = "tell_main"
    /\ sleepWaiter' = FALSE
    /\ Goto(w, "wait")
    /\ UNCHANGED <<threadQueue, counters, flags, mainVars, start_index,
                   hasTaskWaiters, task, ran>>

\* the two pthread_cond_wait calls
WaitTask(w) ==
    /\ pc[w] \in {"first_wait", "wait"}
    /\ hasTaskWaiters' = hasTaskWaiters \cup {w}
    /\ Goto(w, IF pc[w] = "wait" THEN "sleeping" ELSE "first_sleeping")
    /\ UNCHANGED <<threadQueue, counters, flags, mainVars, start_index,
                   sleepWaiter, task, ran>>

Wake(w) ==
    /\ pc[w] \in {"first_sleeping", "sleeping"} /\ w \notin hasTaskWaiters
    /\ IF pc[w] = "first_sleeping"
       THEN UNCHANGED <<m_sleep_threadNum, complete>>
       ELSE IF complete[w] = 0
            THEN /\ m_sleep_threadNum' = (m_sleep_threadNum - 1) % WordSize
                 /\ UNCHANGED complete
            ELSE /\ complete' = [complete EXCEPT ![w] = 0]
                 /\ UNCHANGED m_sleep_threadNum
    /\ Goto(w, "start")
    /\ UNCHANGED <<threadQueue, m_activate_threadNum, firstTime, mainVars,
                   start_index, hasTaskWaiters, sleepWaiter, task, ran>>

\* run the task, which returns max_index
Run(w) ==
    /\ pc[w] = "run"
    /\ ran' = [r \in Roots |-> IF task[w][1] <= r /\ r < task[w][2]
                               THEN ran[r] + 1 ELSE ran[r]]
    /\ task' = [task EXCEPT ![w] = NoTask]
    /\ Goto(w, "index")
    /\ UNCHANGED <<threadQueue, counters, flags, mainVars, start_index,
                   hasTaskWaiters, sleepWaiter>>

\* Mutant: the test leaves out the last, shorter, range.
LookIndexShort(w) ==
    /\ pc[w] = "index"
    /\ Goto(w, IF start_index + Increment <= MaxIndex THEN "fetch" ELSE "start")
    /\ UNCHANGED <<threadQueue, counters, flags, mainVars, start_index,
                   hasTaskWaiters, sleepWaiter, task, ran>>

\* whether roots are left that nobody has taken
LookIndex(w) ==
    /\ pc[w] = "index"
    /\ Goto(w, IF start_index < MaxIndex THEN "fetch" ELSE "start")
    /\ UNCHANGED <<threadQueue, counters, flags, mainVars, start_index,
                   hasTaskWaiters, sleepWaiter, task, ran>>

Minimum(a, b) == IF a <= b THEN a ELSE b

\* Mutant: the index is advanced by one less than the length of the range.
FetchOverlapping(w) ==
    /\ pc[w] = "fetch"
    /\ start_index' = start_index + Increment - 1
    /\ IF start_index < MaxIndex
       THEN Push(w, <<start_index, Minimum(start_index + Increment, MaxIndex)>>)
       ELSE UNCHANGED threadQueue
    /\ Goto(w, "start")
    /\ UNCHANGED <<counters, flags, mainVars, hasTaskWaiters, sleepWaiter,
                   task, ran>>

\* __sync_fetch_and_add, and the sub-task if a range is left
Fetch(w) ==
    /\ pc[w] = "fetch"
    /\ start_index' = start_index + Increment
    /\ IF start_index < MaxIndex
       THEN Push(w, <<start_index, Minimum(start_index + Increment, MaxIndex)>>)
       ELSE UNCHANGED threadQueue
    /\ Goto(w, "start")
    /\ UNCHANGED <<counters, flags, mainVars, hasTaskWaiters, sleepWaiter,
                   task, ran>>

---------------------------------------------------------------------------
(***************************************************************************)
(* The main thread: AppExample::bfs_forest or wcc.                         *)
(***************************************************************************)
\* add_task_by_main_thread, the push
AddTask ==
    /\ main = "add"
    /\ IF next < SpecialRoots
       THEN Push(next % Threads, <<next, next + 1>>) /\ main' = "signal"
       ELSE main' = "lock_free" /\ UNCHANGED threadQueue
    /\ UNCHANGED <<counters, flags, lock_free, next, start_index,
                   hasTaskWaiters, sleepWaiter, pc, task, ran>>

\* add_task_by_main_thread, the signal
SignalTask ==
    /\ main = "signal"
    /\ hasTaskWaiters' = hasTaskWaiters \ {next % Threads}
    /\ next' = next + 1 /\ main' = "add"
    /\ UNCHANGED <<threadQueue, counters, flags, lock_free, start_index,
                   sleepWaiter, pc, task, ran>>

SetLockFree ==
    /\ main = "lock_free"
    /\ lock_free' = TRUE /\ main' = "test"
    /\ UNCHANGED <<threadQueue, counters, flags, next, start_index,
                   hasTaskWaiters, sleepWaiter, pc, task, ran>>

\* waitForComplete, the test of its loop
TestComplete ==
    /\ main = "test"
    /\ main' = IF m_sleep_threadNum < m_activate_threadNum THEN "wait"
               ELSE "reset"
    /\ next' = 0
    /\ UNCHANGED <<threadQueue, counters, flags, lock_free, start_index,
                   hasTaskWaiters, sleepWaiter, pc, task, ran>>

\* waitForComplete, pthread_cond_wait
WaitSleep ==
    /\ main = "wait"
    /\ sleepWaiter' = TRUE /\ main' = "sleeping"
    /\ UNCHANGED <<threadQueue, counters, flags, lock_free, next, start_index,
                   hasTaskWaiters, pc, task, ran>>

WakeMain ==
    /\ main = "sleeping" /\ ~sleepWaiter
    /\ main' = "test"
    /\ UNCHANGED <<threadQueue, counters, flags, lock_free, next, start_index,
                   hasTaskWaiters, sleepWaiter, pc, task, ran>>

\* waitForComplete after its loop, one worker at a time
ResetWorker ==
    /\ main = "reset" /\ next < Threads
    /\ firstTime' = [firstTime EXCEPT ![next] = 1]
    /\ complete' = [complete EXCEPT ![next] = 1]
    /\ threadQueue' = [threadQueue EXCEPT ![next] = <<>>]
    /\ next' = next + 1
    /\ UNCHANGED <<counters, lock_free, main, start_index, hasTaskWaiters,
                   sleepWaiter, pc, task, ran>>

ResetCounters ==
    /\ main = "reset" /\ next = Threads
    /\ m_sleep_threadNum' = 0 /\ m_activate_threadNum' = 0
    /\ lock_free' = FALSE
    /\ start_index' = SpecialRoots
    /\ main' = "returned"
    /\ UNCHANGED <<threadQueue, flags, next, hasTaskWaiters, sleepWaiter, pc,
                   task, ran>>

\* pthread_cond_wait may return although nobody signalled.
SpuriousWakeup(w) ==
    /\ Spurious /\ w \in hasTaskWaiters
    /\ hasTaskWaiters' = hasTaskWaiters \ {w}
    /\ UNCHANGED <<threadQueue, counters, flags, mainVars, start_index,
                   sleepWaiter, pc, task, ran>>

WorkerStep(w) ==
    \/ Start(w) \/ Activate(w) \/ PopOwn(w) \/ Run(w) \/ LookIndex(w)
    \/ Fetch(w) \/ HangUp(w) \/ TellMain(w) \/ WaitTask(w) \/ Wake(w)

MainStep ==
    \/ AddTask \/ SignalTask \/ SetLockFree \/ TestComplete \/ WaitSleep
    \/ WakeMain \/ ResetWorker \/ ResetCounters

Next ==
    \/ \E w \in Workers : WorkerStep(w) \/ SpuriousWakeup(w)
    \/ MainStep

Spec == Init /\ [][Next]_vars

---------------------------------------------------------------------------
Tasks == {t \in (0 .. MaxIndex) \X (0 .. MaxIndex) : t[1] <= t[2]}

TypeOK ==
    /\ \A w \in Workers : ToSet(threadQueue[w]) \subseteq Tasks \ {NoTask}
    /\ m_sleep_threadNum \in 0 .. WordSize - 1
    /\ m_activate_threadNum \in 0 .. WordSize - 1
    /\ firstTime \in [Workers -> {0, 1}] /\ complete \in [Workers -> {0, 1}]
    /\ lock_free \in BOOLEAN /\ sleepWaiter \in BOOLEAN
    /\ start_index \in SpecialRoots .. MaxIndex + Threads * Increment
    /\ hasTaskWaiters \subseteq Workers
    /\ task \in [Workers -> Tasks]
    /\ next \in 0 .. (SpecialRoots + Threads)
    /\ ran \in [Roots -> Nat]

\* The round lasts until waitForComplete leaves its loop.
InRound == main \notin {"reset", "returned"}

\* A root is processed once, whichever worker takes its range.
RootOnce == InRound => \A r \in Roots : ran[r] <= 1

(***************************************************************************)
(* The counters that waitForComplete compares say what they should: the    *)
(* activated workers are those past their first task, the sleeping ones    *)
(* those between the count and the wake-up.  The assertions of the loop    *)
(* (Scheduler.cpp:354,369) follow.                                         *)
(***************************************************************************)
CountersExact ==
    InRound =>
        /\ m_activate_threadNum = Cardinality({w \in Workers : firstTime[w] = 0})
        /\ m_sleep_threadNum = Cardinality({w \in Workers :
               pc[w] \in {"tell_main", "wait", "sleeping"}})
        /\ m_sleep_threadNum <= m_activate_threadNum

(***************************************************************************)
(* The chain of sub-tasks does not break: once all workers have had a task *)
(* and sleep over empty queues, no root is left.                           *)
(***************************************************************************)
NothingLeft ==
    /\ InRound /\ m_sleep_threadNum = Threads
    /\ \A w \in Workers : threadQueue[w] = <<>>
    => \A r \in SpecialRoots .. MaxIndex - 1 : ran[r] = 1

(***************************************************************************)
(* A round ends, by the counters, when its roots are done                  *)
(* (Scheduler.cpp waitForComplete, parallel_push_pop).                     *)
(***************************************************************************)
RoundExact == TypeOK /\ CountersExact /\ NothingLeft
===========================================================================
