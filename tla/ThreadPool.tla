----------------------------- MODULE ThreadPool -----------------------------
(***************************************************************************)
(* CThreadPool (TripleBit/ThreadPool.cpp): AddTask, Wait and the loop of   *)
(* the workers, ThreadFunc with MoveToBusy and MoveToIdle.  One step is    *)
(* one critical section, or one access outside any; a step that holds      *)
(* threadMutex into the next one is marked by its owner.  The sections of  *)
(* threadIdleMutex and threadBusyMutex are single steps, since nobody      *)
(* keeps these locks from one section to the next.                         *)
(*                                                                         *)
(* A condition variable is the set of threads that wait on it: notifyAll   *)
(* empties it, and a waiter may also return on its own, as pthreads        *)
(* allows.  A woken thread takes the mutex again and re-checks.            *)
(*                                                                         *)
(* Each client adds up to MaxTasks tasks in all, in rounds that end with a *)
(* Wait.  The singleton is never deleted, so StopAll does not run.         *)
(***************************************************************************)
EXTENDS Integers, Sequences, FiniteSets

CONSTANTS
    Clients,    \* the threads that add tasks and wait for them
    Workers,    \* the pool's threads
    MaxTasks,   \* how many tasks a client adds
    NoOne       \* the owner of a free mutex

ASSUME PoolAssumption ==
    /\ IsFiniteSet(Workers) /\ IsFiniteSet(Clients)
    /\ MaxTasks \in Nat
    /\ Workers \cap Clients = {}
    /\ NoOne \notin Workers \cup Clients

Tasks == Clients \X (1 .. MaxTasks)

VARIABLES
    m_vecTaskList,      \* the task queue
    m_vecIdleThread,    \* the vectors of thread ids, searched by id only
    m_vecBusyThread,
    threadMutex,        \* its owner
    threadCond,         \* waiting for a task
    threadEmptyCond,    \* waiting for an empty queue
    threadBusyEmptyCond,\* waiting for no busy worker
    pc,                 \* where each thread is
    task,               \* the task a worker holds, <<>> if none
    added,              \* how many tasks each client has added
    done                \* the tasks whose function has returned

conds == <<threadCond, threadEmptyCond, threadBusyEmptyCond>>
vars  == <<m_vecTaskList, m_vecIdleThread, m_vecBusyThread, threadMutex,
           conds, pc, task, added, done>>

Threads == Workers \cup Clients

Init ==
    /\ m_vecTaskList = <<>>
    /\ m_vecIdleThread = Workers
    /\ m_vecBusyThread = {}
    /\ threadMutex = NoOne
    /\ threadCond = {} /\ threadEmptyCond = {} /\ threadBusyEmptyCond = {}
    /\ pc = [t \in Threads |-> IF t \in Workers THEN "get" ELSE "client"]
    /\ task = [w \in Workers |-> <<>>]
    /\ added = [c \in Clients |-> 0]
    /\ done = {}

Goto(t, label) == pc' = [pc EXCEPT ![t] = label]

---------------------------------------------------------------------------
(***************************************************************************)
(* A worker, in ThreadFunc.                                                *)
(***************************************************************************)
\* lock, and the loop `while(taskList->size() == 0)` around the wait
GetTask(w) ==
    /\ pc[w] = "get" /\ w \notin threadCond
    /\ threadMutex = NoOne
    /\ IF m_vecTaskList = <<>>
       THEN /\ threadCond' = threadCond \cup {w}
            /\ UNCHANGED <<threadMutex, pc>>
       ELSE /\ threadMutex' = w
            /\ Goto(w, "unidle")
            /\ UNCHANGED threadCond
    /\ UNCHANGED <<m_vecTaskList, m_vecIdleThread, m_vecBusyThread,
                   threadEmptyCond, threadBusyEmptyCond, task, added, done>>

\* MoveToBusy, the section of threadIdleMutex
LeaveIdle(w) ==
    /\ pc[w] = "unidle"
    /\ m_vecIdleThread' = m_vecIdleThread \ {w}
    /\ Goto(w, "busy")
    /\ UNCHANGED <<m_vecTaskList, m_vecBusyThread, threadMutex, conds, task,
                   added, done>>

\* MoveToBusy, the section of threadBusyMutex
EnterBusy(w) ==
    /\ pc[w] = "busy"
    /\ m_vecBusyThread' = m_vecBusyThread \cup {w}
    /\ Goto(w, "pop")
    /\ UNCHANGED <<m_vecTaskList, m_vecIdleThread, threadMutex, conds, task,
                   added, done>>

\* Mutant: the task is copied but not erased from the list.
PopTaskKept(w) ==
    /\ pc[w] = "pop"
    /\ task' = [task EXCEPT ![w] = Head(m_vecTaskList)]
    /\ threadMutex' = NoOne
    /\ Goto(w, "run")
    /\ UNCHANGED <<m_vecTaskList, m_vecIdleThread, m_vecBusyThread, conds,
                   added, done>>

\* take the front task, tell the waiters if it was the last, unlock
PopTask(w) ==
    /\ pc[w] = "pop"
    /\ task' = [task EXCEPT ![w] = Head(m_vecTaskList)]
    /\ m_vecTaskList' = Tail(m_vecTaskList)
    /\ threadEmptyCond' = IF Tail(m_vecTaskList) = <<>> THEN {}
                          ELSE threadEmptyCond
    /\ threadMutex' = NoOne
    /\ Goto(w, "run")
    /\ UNCHANGED <<m_vecIdleThread, m_vecBusyThread, threadCond,
                   threadBusyEmptyCond, added, done>>

RunTask(w) ==
    /\ pc[w] = "run"
    /\ done' = done \cup {task[w]}
    /\ task' = [task EXCEPT ![w] = <<>>]
    /\ Goto(w, "unbusy")
    /\ UNCHANGED <<m_vecTaskList, m_vecIdleThread, m_vecBusyThread,
                   threadMutex, conds, added>>

\* Mutant: the thread id is not erased.
LeaveBusyKept(w) ==
    /\ pc[w] = "unbusy"
    /\ Goto(w, "tell")
    /\ UNCHANGED <<m_vecTaskList, m_vecIdleThread, m_vecBusyThread,
                   threadMutex, conds, task, added, done>>

\* MoveToIdle, the section of threadBusyMutex
LeaveBusy(w) ==
    /\ pc[w] = "unbusy"
    /\ m_vecBusyThread' = m_vecBusyThread \ {w}
    /\ Goto(w, "tell")
    /\ UNCHANGED <<m_vecTaskList, m_vecIdleThread, threadMutex, conds, task,
                   added, done>>

\* Mutant: the test is made as if the thread were still in the vector.
TellIdleEarly(w) ==
    /\ pc[w] = "tell"
    /\ threadBusyEmptyCond' = IF Cardinality(m_vecBusyThread) = 1 THEN {}
                              ELSE threadBusyEmptyCond
    /\ Goto(w, "idle")
    /\ UNCHANGED <<m_vecTaskList, m_vecIdleThread, m_vecBusyThread,
                   threadMutex, threadCond, threadEmptyCond, task, added, done>>

\* MoveToIdle reads the size after it has unlocked, and notifies if it is 0
TellIdle(w) ==
    /\ pc[w] = "tell"
    /\ threadBusyEmptyCond' = IF m_vecBusyThread = {} THEN {}
                              ELSE threadBusyEmptyCond
    /\ Goto(w, "idle")
    /\ UNCHANGED <<m_vecTaskList, m_vecIdleThread, m_vecBusyThread,
                   threadMutex, threadCond, threadEmptyCond, task, added, done>>

\* MoveToIdle, the section of threadIdleMutex
EnterIdle(w) ==
    /\ pc[w] = "idle"
    /\ m_vecIdleThread' = m_vecIdleThread \cup {w}
    /\ Goto(w, "get")
    /\ UNCHANGED <<m_vecTaskList, m_vecBusyThread, threadMutex, conds, task,
                   added, done>>

---------------------------------------------------------------------------
(***************************************************************************)
(* A client: AddTask any number of times, then Wait, then the next round.  *)
(***************************************************************************)
AddTask(c) ==
    /\ pc[c] = "client" /\ threadMutex = NoOne
    /\ added[c] < MaxTasks
    /\ m_vecTaskList' = Append(m_vecTaskList, <<c, added[c] + 1>>)
    /\ added' = [added EXCEPT ![c] = @ + 1]
    /\ Goto(c, "notify")
    /\ UNCHANGED <<m_vecIdleThread, m_vecBusyThread, threadMutex, conds,
                   task, done>>

\* AddTask notifies after it has unlocked
NotifyTask(c) ==
    /\ pc[c] = "notify"
    /\ threadCond' = {}
    /\ Goto(c, "client")
    /\ UNCHANGED <<m_vecTaskList, m_vecIdleThread, m_vecBusyThread,
                   threadMutex, threadEmptyCond, threadBusyEmptyCond, task,
                   added, done>>

CallWait(c) ==
    /\ pc[c] = "client" /\ added[c] > 0
    /\ Goto(c, "wait_list")
    /\ UNCHANGED <<m_vecTaskList, m_vecIdleThread, m_vecBusyThread,
                   threadMutex, conds, task, added, done>>

\* Wait, the section of threadMutex
WaitList(c) ==
    /\ pc[c] = "wait_list" /\ c \notin threadEmptyCond
    /\ threadMutex = NoOne
    /\ IF m_vecTaskList # <<>>
       THEN threadEmptyCond' = threadEmptyCond \cup {c} /\ UNCHANGED pc
       ELSE Goto(c, "wait_busy") /\ UNCHANGED threadEmptyCond
    /\ UNCHANGED <<m_vecTaskList, m_vecIdleThread, m_vecBusyThread,
                   threadMutex, threadCond, threadBusyEmptyCond, task, added,
                   done>>

\* Mutant: `if` for `while`, the woken waiter does not look again.
WaitBusyOnce(c) ==
    /\ pc[c] = "wait_busy" /\ c \notin threadBusyEmptyCond
    /\ threadBusyEmptyCond' = IF m_vecBusyThread # {}
                              THEN threadBusyEmptyCond \cup {c}
                              ELSE threadBusyEmptyCond
    /\ Goto(c, "returned")
    /\ UNCHANGED <<m_vecTaskList, m_vecIdleThread, m_vecBusyThread,
                   threadMutex, threadCond, threadEmptyCond, task, added, done>>

\* Wait, the section of threadBusyMutex
WaitBusy(c) ==
    /\ pc[c] = "wait_busy" /\ c \notin threadBusyEmptyCond
    /\ IF m_vecBusyThread # {}
       THEN threadBusyEmptyCond' = threadBusyEmptyCond \cup {c} /\ UNCHANGED pc
       ELSE Goto(c, "returned") /\ UNCHANGED threadBusyEmptyCond
    /\ UNCHANGED <<m_vecTaskList, m_vecIdleThread, m_vecBusyThread,
                   threadMutex, threadCond, threadEmptyCond, task, added, done>>

\* The caller goes on, to another round of tasks if it has one.
Resume(c) ==
    /\ pc[c] = "returned" /\ added[c] < MaxTasks
    /\ Goto(c, "client")
    /\ UNCHANGED <<m_vecTaskList, m_vecIdleThread, m_vecBusyThread,
                   threadMutex, conds, task, added, done>>

\* pthread_cond_wait may return although nobody notified.
SpuriousWakeup(t) ==
    /\ t \in threadCond \cup threadEmptyCond \cup threadBusyEmptyCond
    /\ threadCond' = threadCond \ {t}
    /\ threadEmptyCond' = threadEmptyCond \ {t}
    /\ threadBusyEmptyCond' = threadBusyEmptyCond \ {t}
    /\ UNCHANGED <<m_vecTaskList, m_vecIdleThread, m_vecBusyThread,
                   threadMutex, pc, task, added, done>>

WorkerStep(w) ==
    \/ GetTask(w) \/ LeaveIdle(w) \/ EnterBusy(w) \/ PopTask(w)
    \/ RunTask(w) \/ LeaveBusy(w) \/ TellIdle(w) \/ EnterIdle(w)

ClientStep(c) ==
    \/ AddTask(c) \/ NotifyTask(c) \/ CallWait(c)
    \/ WaitList(c) \/ WaitBusy(c) \/ Resume(c)

Next ==
    \/ \E w \in Workers : WorkerStep(w)
    \/ \E c \in Clients : ClientStep(c)
    \/ \E t \in Threads : SpuriousWakeup(t)

\* Threads that can move do; nothing makes a thread wake up spuriously.
Spec ==
    /\ Init /\ [][Next]_vars
    /\ \A w \in Workers : WF_vars(WorkerStep(w))
    /\ \A c \in Clients : WF_vars(ClientStep(c))

---------------------------------------------------------------------------
TypeOK ==
    /\ m_vecTaskList \in Seq(Tasks)
    /\ m_vecIdleThread \subseteq Workers /\ m_vecBusyThread \subseteq Workers
    /\ threadMutex \in Workers \cup {NoOne}
    /\ threadCond \subseteq Workers
    /\ threadEmptyCond \subseteq Clients /\ threadBusyEmptyCond \subseteq Clients
    /\ pc \in [Threads -> {"get", "unidle", "busy", "pop", "run", "unbusy",
                           "tell", "idle", "client", "notify", "wait_list",
                           "wait_busy", "returned"}]
    /\ task \in [Workers -> Tasks \cup {<<>>}]
    /\ added \in [Clients -> 0 .. MaxTasks]
    /\ done \subseteq Tasks

(***************************************************************************)
(* A worker that MoveToBusy or MoveToIdle erases from a vector is in it:   *)
(* the search cannot run off the end and erase(end()).  The vectors stay   *)
(* apart although they are guarded by different locks.                     *)
(***************************************************************************)
ThreadLists ==
    /\ m_vecIdleThread \cap m_vecBusyThread = {}
    /\ \A w \in Workers :
          /\ pc[w] \in {"get", "unidle"} => w \in m_vecIdleThread
          /\ pc[w] \in {"pop", "run", "unbusy"} => w \in m_vecBusyThread

(***************************************************************************)
(* Wait comes back only after every task its caller added has run, though  *)
(* it checks the queue and the busy vector under two different locks.      *)
(***************************************************************************)
WaitComplete ==
    \A c \in Clients :
        pc[c] = "returned" => \A n \in 1 .. added[c] : <<c, n>> \in done

\* Every Wait returns: no notification it depends on is lost.
WaitReturns == \A c \in Clients : pc[c] = "wait_list" ~> pc[c] = "returned"

\* A task left in the queue is run, whoever waits for it.
TaskRuns ==
    \A t \in Tasks :
        (\E k \in 1 .. Len(m_vecTaskList) : m_vecTaskList[k] = t) ~> t \in done

\* No wake-up is lost, of a waiting client or of an idle worker (ThreadPool.cpp
\* MoveToIdle, AddTask).
Progress == WaitReturns /\ TaskRuns

---------------------------------------------------------------------------
Queued == {m_vecTaskList[k] : k \in 1 .. Len(m_vecTaskList)}

Pool == INSTANCE TaskPool WITH
    queued   <- Queued,
    running  <- task,
    finished <- done,
    returned <- {c \in Clients : pc[c] = "returned"}

\* The locked queue and the two vectors implement the abstract pool.
ImplementsPool == Pool!PoolSpec
===========================================================================
