------------------------- MODULE ThreadPool_proofs -------------------------
(***************************************************************************)
(* Proofs about ThreadPool for any number of workers, clients and tasks.   *)
(* The inductive invariant comes in four layers, each proved on top of the *)
(* ones before it:                                                         *)
(*   Locked   who holds threadMutex, and what it guarantees to the holder  *)
(*   Sorted   a worker's vectors and its task follow from where it is      *)
(*   Unique   a task is in one place only, and is never forgotten          *)
(*   Waited   what the two checks of Wait have established so far          *)
(***************************************************************************)
EXTENDS ThreadPool, SequenceTheorems, TLAPS

WorkerLabels == {"get", "unidle", "busy", "pop", "run", "unbusy", "tell", "idle"}
ClientLabels == {"client", "notify", "wait_list", "wait_busy", "returned"}

\* Whoever holds threadMutex between two steps has seen a task in the list.
Locked ==
    /\ \A w \in Workers : pc[w] \in WorkerLabels
    /\ \A c \in Clients : pc[c] \in ClientLabels
    /\ \A w \in Workers :
          pc[w] \in {"unidle", "busy", "pop"} <=> threadMutex = w
    /\ threadMutex # NoOne => m_vecTaskList # <<>>

\* The vectors and the task of a worker are functions of its place.
Sorted ==
    \A w \in Workers :
        /\ w \in m_vecIdleThread <=> pc[w] \in {"get", "unidle"}
        /\ w \in m_vecBusyThread <=> pc[w] \in {"pop", "run", "unbusy"}
        /\ task[w] # <<>> <=> pc[w] = "run"

\* A task is queued once, or run by one worker, or done.
Unique ==
    /\ \A k, l \in 1 .. Len(m_vecTaskList) :
          m_vecTaskList[k] = m_vecTaskList[l] => k = l
    /\ \A k \in 1 .. Len(m_vecTaskList) :
          /\ m_vecTaskList[k] \notin done
          /\ \A w \in Workers : task[w] # m_vecTaskList[k]
    /\ \A w \in Workers : task[w] \notin done
    /\ \A w, x \in Workers : task[w] = task[x] /\ task[w] # <<>> => w = x

\* The tasks in the pool are exactly those added.
InPool(t) == t \in Queued \/ t \in done \/ \E w \in Workers : task[w] = t

Accounted ==
    \A c \in Clients, n \in 1 .. MaxTasks :
        n <= added[c] <=> InPool(<<c, n>>)

\* A caller past the first check of Wait has no task queued, and one that
\* has returned has none running either.
Waited ==
    \A c \in Clients, n \in 1 .. MaxTasks :
        /\ pc[c] \in {"wait_busy", "returned"} => <<c, n>> \notin Queued
        /\ pc[c] = "returned" => \A w \in Workers : task[w] # <<c, n>>

Base == TypeOK /\ Locked /\ Sorted
IInv == Base /\ Unique /\ Accounted /\ Waited

---------------------------------------------------------------------------
(***************************************************************************)
(* Facts about the constants and about sequences.                          *)
(***************************************************************************)
\* No task is the empty tuple that stands for "no task".
LEMMA NoTask == <<>> \notin Tasks
BY DEF Tasks

\* What Append does to the elements.
LEMMA AppendElems ==
    ASSUME NEW S, NEW s \in Seq(S), NEW e \in S
    PROVE  /\ Append(s, e) \in Seq(S)
           /\ Append(s, e) # <<>>
           /\ Len(Append(s, e)) = Len(s) + 1
           /\ Append(s, e)[Len(s) + 1] = e
           /\ \A k \in 1 .. Len(s) : Append(s, e)[k] = s[k]
BY AppendProperties

\* What Head and Tail do to the elements.
LEMMA TailElems ==
    ASSUME NEW S, NEW s \in Seq(S), s # <<>>
    PROVE  /\ Head(s) \in S /\ Head(s) = s[1]
           /\ Tail(s) \in Seq(S)
           /\ Len(s) \in Nat /\ Len(s) > 0 /\ Len(Tail(s)) = Len(s) - 1
           /\ \A k \in 1 .. Len(Tail(s)) : Tail(s)[k] = s[k + 1]
BY HeadTailProperties

---------------------------------------------------------------------------
(***************************************************************************)
(* Types, locks and lists.                                                 *)
(***************************************************************************)
LEMMA BaseInit == Init => Base
<1> SUFFICES ASSUME Init PROVE Base
  OBVIOUS
<1>1. TypeOK
  BY PoolAssumption DEF Init, TypeOK, Threads
<1>2. Locked
  BY PoolAssumption DEF Init, Locked, Threads, WorkerLabels, ClientLabels
<1>3. Sorted
  BY PoolAssumption DEF Init, Sorted, Threads
<1> QED
  BY <1>1, <1>2, <1>3 DEF Base

LEMMA BaseNext == Base /\ [Next]_vars => Base'
<1> SUFFICES ASSUME Base, [Next]_vars PROVE Base'
  OBVIOUS
<1> USE PoolAssumption DEF Base, TypeOK, Locked, Sorted, Threads, Goto, conds,
        WorkerLabels, ClientLabels
<1>1. ASSUME NEW w \in Workers, GetTask(w) PROVE Base'
  BY <1>1 DEF GetTask
<1>2. ASSUME NEW w \in Workers, LeaveIdle(w) PROVE Base'
  BY <1>2 DEF LeaveIdle
<1>3. ASSUME NEW w \in Workers, EnterBusy(w) PROVE Base'
  BY <1>3 DEF EnterBusy
<1>4. ASSUME NEW w \in Workers, PopTask(w) PROVE Base'
  <2>1. m_vecTaskList # <<>> /\ threadMutex = w
    BY <1>4 DEF PopTask
  <2>2. /\ Head(m_vecTaskList) \in Tasks /\ Head(m_vecTaskList) # <<>>
        /\ Tail(m_vecTaskList) \in Seq(Tasks)
    BY <2>1, TailElems, NoTask
  <2>3. TypeOK'
    BY <1>4, <2>2 DEF PopTask
  <2>4. Locked'
    BY <1>4, <2>1 DEF PopTask
  <2>5. Sorted'
    BY <1>4, <2>2 DEF PopTask
  <2> QED
    BY <2>3, <2>4, <2>5
<1>5. ASSUME NEW w \in Workers, RunTask(w) PROVE Base'
  BY <1>5 DEF RunTask
<1>6. ASSUME NEW w \in Workers, LeaveBusy(w) PROVE Base'
  BY <1>6 DEF LeaveBusy
<1>7. ASSUME NEW w \in Workers, TellIdle(w) PROVE Base'
  BY <1>7 DEF TellIdle
<1>8. ASSUME NEW w \in Workers, EnterIdle(w) PROVE Base'
  BY <1>8 DEF EnterIdle
<1>9. ASSUME NEW c \in Clients, AddTask(c) PROVE Base'
  BY <1>9, AppendElems DEF AddTask, Tasks
<1>10. ASSUME NEW c \in Clients, NotifyTask(c) PROVE Base'
  BY <1>10 DEF NotifyTask
<1>11. ASSUME NEW c \in Clients, CallWait(c) PROVE Base'
  BY <1>11 DEF CallWait
<1>12. ASSUME NEW c \in Clients, WaitList(c) PROVE Base'
  BY <1>12 DEF WaitList
<1>13. ASSUME NEW c \in Clients, WaitBusy(c) PROVE Base'
  BY <1>13 DEF WaitBusy
<1>14. ASSUME NEW c \in Clients, Resume(c) PROVE Base'
  BY <1>14 DEF Resume
<1>15. ASSUME NEW t \in Threads, SpuriousWakeup(t) PROVE Base'
  BY <1>15 DEF SpuriousWakeup
<1>16. CASE UNCHANGED vars
  BY <1>16 DEF vars
<1> QED
  BY <1>1, <1>2, <1>3, <1>4, <1>5, <1>6, <1>7, <1>8, <1>9, <1>10, <1>11,
     <1>12, <1>13, <1>14, <1>15, <1>16 DEF Next, WorkerStep, ClientStep

---------------------------------------------------------------------------
(***************************************************************************)
(* Every task is in one place.                                             *)
(***************************************************************************)
\* AddTask puts one new task in the queue.
LEMMA AddTaskQueue ==
    ASSUME Base, Accounted, NEW c \in Clients, AddTask(c)
    PROVE  LET t == <<c, added[c] + 1>>
           IN  /\ t \in Tasks /\ ~InPool(t)
               /\ Queued' = Queued \cup {t}
<1> DEFINE t == <<c, added[c] + 1>>
<1>1. added[c] + 1 \in 1 .. MaxTasks /\ t \in Tasks
  BY PoolAssumption DEF Base, TypeOK, AddTask, Tasks
<1>2. ~InPool(t)
  BY <1>1, PoolAssumption DEF Accounted, Base, TypeOK
<1>3. Queued' = Queued \cup {t}
  <2>1. m_vecTaskList' = Append(m_vecTaskList, t) /\ m_vecTaskList \in Seq(Tasks)
    BY DEF AddTask, Base, TypeOK
  <2>2. Len(m_vecTaskList) \in Nat
    BY <2>1
  <2> QED
    BY <1>1, <2>1, <2>2, AppendElems DEF Queued
<1> QED
  BY <1>1, <1>2, <1>3

\* PopTask takes one task out of the queue.
LEMMA PopTaskQueue ==
    ASSUME Base, Unique, NEW w \in Workers, PopTask(w)
    PROVE  LET t == Head(m_vecTaskList)
           IN  /\ t \in Tasks /\ t \in Queued
               /\ Queued' = Queued \ {t}
               /\ t \notin done
               /\ \A x \in Workers : task[x] # t
<1> DEFINE t == Head(m_vecTaskList)
           n == Len(m_vecTaskList)
<1>1. m_vecTaskList \in Seq(Tasks) /\ m_vecTaskList # <<>>
  BY PoolAssumption DEF PopTask, Base, TypeOK, Locked
<1>2. m_vecTaskList' = Tail(m_vecTaskList)
  BY DEF PopTask
<1>3. /\ t \in Tasks /\ t = m_vecTaskList[1]
      /\ n \in Nat /\ n > 0 /\ Len(m_vecTaskList') = n - 1
      /\ \A k \in 1 .. n - 1 : m_vecTaskList'[k] = m_vecTaskList[k + 1]
  BY <1>1, <1>2, TailElems
<1>4. t \in Queued
  BY <1>3 DEF Queued
<1>5. Queued' = Queued \ {t}
  <2>1. \A q : q \in Queued' => q \in Queued \ {t}
    BY <1>3 DEF Queued, Unique
  <2>2. ASSUME NEW q \in Queued \ {t} PROVE q \in Queued'
    <3>1. PICK k \in 1 .. n : q = m_vecTaskList[k]
      BY <2>2 DEF Queued
    <3>2. k - 1 \in 1 .. n - 1 /\ m_vecTaskList'[k - 1] = q
      BY <1>3, <2>2, <3>1
    <3> QED
      BY <1>3, <3>2 DEF Queued
  <2> QED
    BY <2>1, <2>2
<1>6. t \notin done /\ \A x \in Workers : task[x] # t
  BY <1>3 DEF Unique
<1> QED
  BY <1>3, <1>4, <1>5, <1>6

LEMMA UniqueNext == Base /\ Unique /\ Accounted /\ [Next]_vars => Unique'
<1> SUFFICES ASSUME Base, Unique, Accounted, [Next]_vars PROVE Unique'
  OBVIOUS
<1>1. ASSUME NEW c \in Clients, AddTask(c) PROVE Unique'
  <2> DEFINE t == <<c, added[c] + 1>>
             n == Len(m_vecTaskList)
  <2>1. t \in Tasks /\ ~InPool(t)
    BY <1>1, AddTaskQueue
  <2>2. /\ Len(m_vecTaskList') = n + 1 /\ n \in Nat
        /\ m_vecTaskList'[n + 1] = t
        /\ \A k \in 1 .. n : m_vecTaskList'[k] = m_vecTaskList[k]
    BY <1>1, <2>1, AppendElems DEF AddTask, Base, TypeOK
  <2>3. task' = task /\ done' = done
    BY <1>1 DEF AddTask
  <2>4. \A k \in 1 .. n : m_vecTaskList[k] # t
    BY <2>1 DEF InPool, Queued
  <2>5. t \notin done /\ \A w \in Workers : task[w] # t
    BY <2>1 DEF InPool
  <2> HIDE DEF t, n
  <2> QED
    BY <2>2, <2>3, <2>4, <2>5 DEF Unique, n
<1>2. ASSUME NEW w \in Workers, PopTask(w) PROVE Unique'
  <2> DEFINE t == Head(m_vecTaskList)
             n == Len(m_vecTaskList)
  <2>1. m_vecTaskList \in Seq(Tasks) /\ m_vecTaskList # <<>>
    BY <1>2, PoolAssumption DEF PopTask, Base, TypeOK, Locked
  <2>2. /\ n \in Nat /\ n > 0 /\ Len(m_vecTaskList') = n - 1
        /\ t \in Tasks /\ t = m_vecTaskList[1]
        /\ \A k \in 1 .. n - 1 : m_vecTaskList'[k] = m_vecTaskList[k + 1]
    BY <1>2, <2>1, TailElems DEF PopTask
  <2>3. /\ task' = [task EXCEPT ![w] = t] /\ done' = done
        /\ task \in [Workers -> Tasks \cup {<<>>}]
    BY <1>2 DEF PopTask, Base, TypeOK
  <2>4. t \notin done /\ \A x \in Workers : task[x] # t
    BY <1>2, PopTaskQueue
  <2>5. t # <<>>
    BY <2>2, NoTask
  <2>6. \A k \in 1 .. n - 1 : /\ k + 1 \in 1 .. n
                             /\ m_vecTaskList'[k] = m_vecTaskList[k + 1]
                             /\ m_vecTaskList'[k] # t
    BY <2>2 DEF Unique
  <2>7. \A k, l \in 1 .. n - 1 : m_vecTaskList'[k] = m_vecTaskList'[l] => k = l
    BY <2>6 DEF Unique
  <2>8. \A x \in Workers : task'[x] = IF x = w THEN t ELSE task[x]
    BY <2>3
  <2> HIDE DEF t, n
  <2>9. \A k \in 1 .. n - 1 :
           /\ m_vecTaskList'[k] \notin done'
           /\ \A x \in Workers : task'[x] # m_vecTaskList'[k]
    BY <2>3, <2>6, <2>8 DEF Unique, n
  <2>10. /\ \A x \in Workers : task'[x] \notin done'
         /\ \A x, y \in Workers : task'[x] = task'[y] /\ task'[x] # <<>> => x = y
    BY <2>3, <2>4, <2>5, <2>8 DEF Unique
  <2> QED
    BY <2>2, <2>7, <2>9, <2>10 DEF Unique
<1>3. ASSUME NEW w \in Workers, RunTask(w) PROVE Unique'
  <2>1. /\ task' = [task EXCEPT ![w] = <<>>] /\ done' = done \cup {task[w]}
        /\ m_vecTaskList' = m_vecTaskList /\ pc[w] = "run"
        /\ task \in [Workers -> Tasks \cup {<<>>}]
        /\ m_vecTaskList \in Seq(Tasks) /\ done \subseteq Tasks
    BY <1>3 DEF RunTask, Base, TypeOK
  <2>2. task[w] # <<>> /\ <<>> \notin done /\ <<>> # task[w]
    BY <1>3, <2>1, NoTask DEF Base, Sorted
  <2>3. \A k \in 1 .. Len(m_vecTaskList) : m_vecTaskList[k] # <<>>
    BY <2>1, NoTask
  <2> QED
    BY <2>1, <2>2, <2>3 DEF Unique
<1>4. CASE UNCHANGED <<m_vecTaskList, task, done>>
  BY <1>4 DEF Unique
<1> QED
  BY <1>1, <1>2, <1>3, <1>4
     DEF Next, WorkerStep, ClientStep, GetTask, LeaveIdle, EnterBusy,
         LeaveBusy, TellIdle, EnterIdle, NotifyTask, CallWait, WaitList,
         WaitBusy, Resume, SpuriousWakeup, vars

LEMMA AccountedNext == Base /\ Unique /\ Accounted /\ [Next]_vars => Accounted'
<1> SUFFICES ASSUME Base, Unique, Accounted, [Next]_vars PROVE Accounted'
  OBVIOUS
<1>1. ASSUME NEW c \in Clients, AddTask(c) PROVE Accounted'
  <2> DEFINE t == <<c, added[c] + 1>>
  <2>1. \A q : InPool(q)' <=> InPool(q) \/ q = t
    BY <1>1, AddTaskQueue DEF InPool, AddTask
  <2>2. /\ added' = [added EXCEPT ![c] = @ + 1]
        /\ added \in [Clients -> 0 .. MaxTasks] /\ MaxTasks \in Nat
    BY <1>1, PoolAssumption DEF AddTask, Base, TypeOK
  <2>3. SUFFICES ASSUME NEW d \in Clients, NEW n \in 1 .. MaxTasks
                 PROVE  n <= added'[d] <=> InPool(<<d, n>>) \/ <<d, n>> = t
    BY <2>1 DEF Accounted
  <2>4. n <= added[d] <=> InPool(<<d, n>>)
    BY DEF Accounted
  <2>5. n <= added'[d] <=> n <= added[d] \/ (d = c /\ n = added[c] + 1)
    BY <2>2
  <2>6. <<d, n>> = t <=> d = c /\ n = added[c] + 1
    OBVIOUS
  <2> QED
    BY <2>4, <2>5, <2>6
<1>2. ASSUME NEW w \in Workers, PopTask(w) PROVE Accounted'
  <2> DEFINE t == Head(m_vecTaskList)
  <2>1. Queued' = Queued \ {t} /\ t \in Queued
    BY <1>2, PopTaskQueue
  <2>2. /\ task' = [task EXCEPT ![w] = t] /\ done' = done /\ added' = added
        /\ task \in [Workers -> Tasks \cup {<<>>}] /\ task[w] = <<>>
    BY <1>2 DEF PopTask, Base, TypeOK, Sorted
  <2>3. \A q : q # <<>> => (InPool(q)' <=> InPool(q))
    BY <2>1, <2>2 DEF InPool
  <2>4. \A d \in Clients, n \in 1 .. MaxTasks : <<d, n>> # <<>>
    OBVIOUS
  <2> QED
    BY <2>2, <2>3, <2>4 DEF Accounted
<1>3. ASSUME NEW w \in Workers, RunTask(w) PROVE Accounted'
  <2>1. /\ task' = [task EXCEPT ![w] = <<>>] /\ done' = done \cup {task[w]}
        /\ added' = added /\ Queued' = Queued
        /\ task \in [Workers -> Tasks \cup {<<>>}]
    BY <1>3 DEF RunTask, Base, TypeOK, Queued
  <2>2. \A q : q # <<>> => (InPool(q)' <=> InPool(q))
    BY <2>1 DEF InPool
  <2>3. \A d \in Clients, n \in 1 .. MaxTasks : <<d, n>> # <<>>
    OBVIOUS
  <2> QED
    BY <2>1, <2>2, <2>3 DEF Accounted
<1>4. CASE UNCHANGED <<m_vecTaskList, task, added, done>>
  BY <1>4 DEF Accounted, InPool, Queued
<1> QED
  BY <1>1, <1>2, <1>3, <1>4
     DEF Next, WorkerStep, ClientStep, GetTask, LeaveIdle, EnterBusy,
         LeaveBusy, TellIdle, EnterIdle, NotifyTask, CallWait, WaitList,
         WaitBusy, Resume, SpuriousWakeup, vars

LEMMA WaitedNext == Base /\ Unique /\ Accounted /\ Waited /\ [Next]_vars => Waited'
<1> SUFFICES ASSUME Base, Unique, Accounted, Waited, [Next]_vars PROVE Waited'
  OBVIOUS
<1>0. \A d \in Clients, n \in 1 .. MaxTasks : <<d, n>> # <<>>
  OBVIOUS
<1> DEFINE Past == {"wait_busy", "returned"}
<1>1. ASSUME NEW c \in Clients, AddTask(c) PROVE Waited'
  <2> DEFINE t == <<c, added[c] + 1>>
  <2>1. Queued' = Queued \cup {t} /\ task' = task
    BY <1>1, AddTaskQueue DEF AddTask
  <2>2. \A d \in Clients : pc'[d] = IF d = c THEN "notify" ELSE pc[d]
    BY <1>1 DEF AddTask, Goto, Base, TypeOK, Threads
  <2>3. SUFFICES ASSUME NEW d \in Clients, NEW n \in 1 .. MaxTasks, pc'[d] \in Past
                 PROVE  /\ <<d, n>> \notin Queued'
                        /\ pc'[d] = "returned" =>
                             \A w \in Workers : task'[w] # <<d, n>>
    BY DEF Waited
  <2>4. d # c /\ <<d, n>> # t
    BY <2>2, <2>3
  <2> QED
    BY <2>1, <2>2, <2>3, <2>4 DEF Waited
<1>2. ASSUME NEW w \in Workers, PopTask(w) PROVE Waited'
  <2> DEFINE t == Head(m_vecTaskList)
  <2>1. Queued' = Queued \ {t} /\ t \in Queued
    BY <1>2, PopTaskQueue
  <2>2. \A x \in Workers : task'[x] = IF x = w THEN t ELSE task[x]
    BY <1>2 DEF PopTask, Base, TypeOK
  <2>3. \A d \in Clients : pc'[d] = pc[d]
    BY <1>2, PoolAssumption DEF PopTask, Goto, Base, TypeOK, Threads
  <2> QED
    BY <2>1, <2>2, <2>3 DEF Waited
<1>3. ASSUME NEW w \in Workers, RunTask(w) PROVE Waited'
  <2>1. \A x \in Workers : task'[x] = IF x = w THEN <<>> ELSE task[x]
    BY <1>3 DEF RunTask, Base, TypeOK
  <2>2. Queued' = Queued
    BY <1>3 DEF RunTask, Queued
  <2>3. \A d \in Clients : pc'[d] = pc[d]
    BY <1>3, PoolAssumption DEF RunTask, Goto, Base, TypeOK, Threads
  <2> QED
    BY <1>0, <2>1, <2>2, <2>3 DEF Waited
<1>4. ASSUME NEW c \in Clients, WaitList(c) PROVE Waited'
  <2>1. task' = task /\ Queued' = Queued
    BY <1>4 DEF WaitList, Queued
  <2>2. CASE m_vecTaskList # <<>>
    BY <1>4, <2>1, <2>2 DEF WaitList, Waited
  <2>3. CASE m_vecTaskList = <<>>
    <3>1. Queued = {}
      BY <2>3 DEF Queued
    <3>2. \A d \in Clients : pc'[d] = IF d = c THEN "wait_busy" ELSE pc[d]
      BY <1>4, <2>3 DEF WaitList, Goto, Base, TypeOK, Threads
    <3> QED
      BY <2>1, <3>1, <3>2 DEF Waited
  <2> QED
    BY <2>2, <2>3
<1>5. ASSUME NEW c \in Clients, WaitBusy(c) PROVE Waited'
  <2>1. task' = task /\ Queued' = Queued /\ pc[c] = "wait_busy"
    BY <1>5 DEF WaitBusy, Queued
  <2>2. CASE m_vecBusyThread # {}
    BY <1>5, <2>1, <2>2 DEF WaitBusy, Waited
  <2>3. CASE m_vecBusyThread = {}
    <3>1. \A w \in Workers : task[w] = <<>>
      BY <2>3 DEF Base, Sorted
    <3>2. \A d \in Clients : pc'[d] = IF d = c THEN "returned" ELSE pc[d]
      BY <1>5, <2>3 DEF WaitBusy, Goto, Base, TypeOK, Threads
    <3> QED
      BY <1>0, <2>1, <3>1, <3>2 DEF Waited
  <2> QED
    BY <2>2, <2>3
<1>6. ASSUME UNCHANGED <<m_vecTaskList, task>>,
             \A d \in Clients : pc'[d] \in Past => pc'[d] = pc[d]
      PROVE  Waited'
  BY <1>6 DEF Waited, Queued
<1>7. ASSUME NEW c \in Clients, NotifyTask(c) \/ CallWait(c) \/ Resume(c)
      PROVE  Waited'
  <2>1. \A d \in Clients : pc'[d] \in Past => pc'[d] = pc[d]
    BY <1>7 DEF NotifyTask, CallWait, Resume, Goto, Base, TypeOK, Threads
  <2> QED
    BY <1>6, <1>7, <2>1 DEF NotifyTask, CallWait, Resume
<1>8. ASSUME NEW w \in Workers,
             \/ GetTask(w) \/ LeaveIdle(w) \/ EnterBusy(w)
             \/ LeaveBusy(w) \/ TellIdle(w) \/ EnterIdle(w)
      PROVE  Waited'
  <2>1. \A d \in Clients : pc'[d] = pc[d]
    BY <1>8, PoolAssumption
       DEF GetTask, LeaveIdle, EnterBusy, LeaveBusy, TellIdle, EnterIdle,
           Goto, Base, TypeOK, Threads
  <2> QED
    BY <1>6, <1>8, <2>1
       DEF GetTask, LeaveIdle, EnterBusy, LeaveBusy, TellIdle, EnterIdle
<1>9. ASSUME NEW t \in Threads, SpuriousWakeup(t) PROVE Waited'
  BY <1>6, <1>9 DEF SpuriousWakeup
<1>10. CASE UNCHANGED vars
  BY <1>6, <1>10 DEF vars
<1> QED
  BY <1>1, <1>2, <1>3, <1>4, <1>5, <1>7, <1>8, <1>9, <1>10
     DEF Next, WorkerStep, ClientStep

---------------------------------------------------------------------------
(***************************************************************************)
(* The theorems.                                                           *)
(***************************************************************************)
LEMMA InvInit == Init => IInv
<1> SUFFICES ASSUME Init PROVE IInv
  OBVIOUS
<1>1. Base
  BY BaseInit
<1>2. Queued = {} /\ done = {} /\ \A w \in Workers : task[w] = <<>>
  BY DEF Init, Queued
<1>3. Unique
  BY <1>2 DEF Init, Unique
<1>4. Accounted
  BY <1>2, PoolAssumption DEF Init, Accounted, InPool
<1>5. Waited
  BY <1>2 DEF Waited
<1> QED
  BY <1>1, <1>3, <1>4, <1>5 DEF IInv

\* The inductive invariant holds of every behaviour of the pool.
THEOREM Invariance == Spec => []IInv
<1>1. IInv /\ [Next]_vars => IInv'
  BY BaseNext, UniqueNext, AccountedNext, WaitedNext DEF IInv
<1> QED
  BY InvInit, <1>1, PTL DEF Spec

\* The pool's state keeps its types, threadMutex included: only a worker
\* ever keeps it from one step to the next.
THEOREM TypeCorrect == Spec => []TypeOK
<1>1. IInv => TypeOK
  BY DEF IInv, Base
<1> QED
  BY Invariance, <1>1, PTL

\* MoveToBusy and MoveToIdle always find the thread id they erase, however
\* many workers move between the two vectors.
THEOREM ListsConsistent == Spec => []ThreadLists
<1>1. IInv => ThreadLists
  BY DEF IInv, Base, TypeOK, Sorted, ThreadLists
<1> QED
  BY Invariance, <1>1, PTL

\* Wait returns only after all the caller's tasks have run, for any number
\* of workers, clients and tasks.
THEOREM WaitIsComplete == Spec => []WaitComplete
<1>1. IInv => WaitComplete
  <2> SUFFICES ASSUME IInv, NEW c \in Clients, pc[c] = "returned",
                      NEW n \in 1 .. added[c]
               PROVE  <<c, n>> \in done
    BY DEF WaitComplete
  <2>1. n \in 1 .. MaxTasks /\ n <= added[c]
    BY PoolAssumption DEF IInv, Base, TypeOK
  <2>2. InPool(<<c, n>>)
    BY <2>1 DEF IInv, Accounted
  <2>3. <<c, n>> \notin Queued /\ \A w \in Workers : task[w] # <<c, n>>
    BY <2>1 DEF IInv, Waited
  <2> QED
    BY <2>2, <2>3 DEF InPool
<1> QED
  BY Invariance, <1>1, PTL

---------------------------------------------------------------------------
(***************************************************************************)
(* ThreadPool implements TaskPool.                                         *)
(***************************************************************************)
\* Under the refinement mapping, where a step leaves the abstract pool.
LEMMA PoolStutter ==
    ASSUME UNCHANGED <<m_vecTaskList, task, done>>,
           \A c \in Clients : pc'[c] = "returned" <=> pc[c] = "returned"
    PROVE  UNCHANGED Pool!poolVars
BY DEF Pool!poolVars, Queued

LEMMA PoolStep == IInv /\ IInv' /\ [Next]_vars => [Pool!PoolNext]_(Pool!poolVars)
<1> SUFFICES ASSUME IInv, IInv', [Next]_vars
             PROVE  [Pool!PoolNext]_(Pool!poolVars)
  OBVIOUS
<1> DEFINE Back == {c \in Clients : pc[c] = "returned"}
<1>1. ASSUME NEW c \in Clients, AddTask(c) PROVE Pool!PoolNext
  <2> DEFINE t == <<c, added[c] + 1>>
  <2>1. t \in Pool!Tasks /\ ~InPool(t) /\ Queued' = Queued \cup {t}
    BY <1>1, AddTaskQueue DEF IInv, Pool!Tasks, Tasks
  <2>2. task' = task /\ done' = done
    BY <1>1 DEF AddTask
  <2>3. \A d \in Clients : pc'[d] = "returned" <=> pc[d] = "returned"
    BY <1>1 DEF AddTask, Goto, IInv, Base, TypeOK, Threads
  <2>4. Back' = Back /\ c \notin Back
    BY <1>1, <2>3 DEF AddTask
  <2>5. t \notin Queued \cup done \cup Pool!Busy
    BY <2>1 DEF InPool, Pool!Busy
  <2>6. Pool!Submit(t)
    BY <2>1, <2>2, <2>4, <2>5 DEF Pool!Submit
  <2> QED
    BY <2>1, <2>6 DEF Pool!PoolNext
<1>2. ASSUME NEW w \in Workers, PopTask(w) PROVE Pool!PoolNext
  <2> DEFINE t == Head(m_vecTaskList)
  <2>1. t \in Pool!Tasks /\ t \in Queued /\ Queued' = Queued \ {t}
    BY <1>2, PopTaskQueue DEF IInv, Pool!Tasks, Tasks
  <2>2. task[w] = <<>> /\ task' = [task EXCEPT ![w] = t] /\ done' = done
    BY <1>2 DEF PopTask, IInv, Base, Sorted
  <2>3. Back' = Back
    BY <1>2, PoolAssumption DEF PopTask, Goto, IInv, Base, TypeOK, Threads
  <2>4. Pool!Start(w, t)
    BY <2>1, <2>2, <2>3 DEF Pool!Start
  <2> QED
    BY <2>1, <2>4 DEF Pool!PoolNext
<1>3. ASSUME NEW w \in Workers, RunTask(w) PROVE Pool!PoolNext
  <2>1. /\ task[w] # <<>> /\ task' = [task EXCEPT ![w] = <<>>]
        /\ done' = done \cup {task[w]} /\ Queued' = Queued
    BY <1>3 DEF RunTask, IInv, Base, Sorted, Queued
  <2>2. Back' = Back
    BY <1>3, PoolAssumption DEF RunTask, Goto, IInv, Base, TypeOK, Threads
  <2>3. Pool!Finish(w)
    BY <2>1, <2>2 DEF Pool!Finish
  <2> QED
    BY <2>3 DEF Pool!PoolNext
<1>4. ASSUME NEW c \in Clients, WaitBusy(c)
      PROVE  [Pool!PoolNext]_(Pool!poolVars)
  <2>1. UNCHANGED <<m_vecTaskList, task, done>>
    BY <1>4 DEF WaitBusy
  <2>2. CASE m_vecBusyThread # {}
    BY <1>4, <2>1, <2>2, PoolStutter DEF WaitBusy
  <2>3. CASE m_vecBusyThread = {}
    <3>1. Back' = Back \cup {c} /\ pc'[c] = "returned"
      BY <1>4, <2>3 DEF WaitBusy, Goto, IInv, Base, TypeOK, Threads
    <3>2. \A n \in 1 .. MaxTasks :
             <<c, n>> \notin Queued' /\ \A w \in Workers : task'[w] # <<c, n>>
      BY <3>1 DEF IInv, Waited
    <3>3. Pool!Own(c) \cap (Queued \cup Pool!Busy) = {}
      BY <2>1, <3>2 DEF Pool!Own, Pool!Tasks, Pool!Busy, Queued
    <3>4. Pool!Join(c)
      BY <2>1, <3>1, <3>3 DEF Pool!Join, Queued
    <3> QED
      BY <3>4 DEF Pool!PoolNext
  <2> QED
    BY <2>2, <2>3
<1>5. ASSUME NEW c \in Clients, Resume(c) PROVE Pool!PoolNext
  <2>1. Back' = Back \ {c}
    BY <1>5 DEF Resume, Goto, IInv, Base, TypeOK, Threads
  <2>2. Pool!Resume(c)
    BY <1>5, <2>1 DEF Resume, Pool!Resume, Queued
  <2> QED
    BY <2>2 DEF Pool!PoolNext
<1>6. ASSUME NEW c \in Clients, NotifyTask(c) \/ CallWait(c) \/ WaitList(c)
      PROVE  UNCHANGED Pool!poolVars
  <2>1. \A d \in Clients : pc'[d] = "returned" <=> pc[d] = "returned"
    BY <1>6 DEF NotifyTask, CallWait, WaitList, Goto, IInv, Base, TypeOK, Threads
  <2> QED
    BY <1>6, <2>1, PoolStutter DEF NotifyTask, CallWait, WaitList
<1>7. ASSUME NEW w \in Workers,
             \/ GetTask(w) \/ LeaveIdle(w) \/ EnterBusy(w)
             \/ LeaveBusy(w) \/ TellIdle(w) \/ EnterIdle(w)
      PROVE  UNCHANGED Pool!poolVars
  <2>1. \A d \in Clients : pc'[d] = pc[d]
    BY <1>7, PoolAssumption
       DEF GetTask, LeaveIdle, EnterBusy, LeaveBusy, TellIdle, EnterIdle,
           Goto, IInv, Base, TypeOK, Threads
  <2> QED
    BY <1>7, <2>1, PoolStutter
       DEF GetTask, LeaveIdle, EnterBusy, LeaveBusy, TellIdle, EnterIdle
<1>8. ASSUME NEW t \in Threads, SpuriousWakeup(t)
      PROVE  UNCHANGED Pool!poolVars
  BY <1>8, PoolStutter DEF SpuriousWakeup
<1>9. CASE UNCHANGED vars
  BY <1>9, PoolStutter DEF vars
<1> QED
  BY <1>1, <1>2, <1>3, <1>4, <1>5, <1>6, <1>7, <1>8, <1>9
     DEF Next, WorkerStep, ClientStep

\* The locked list and the two vectors implement the abstract pool: tasks
\* are started once, by an idle worker, and Wait joins only finished tasks.
THEOREM Refinement == Spec => ImplementsPool
<1>1. Init => Pool!PoolInit
  <2> SUFFICES ASSUME Init PROVE Pool!PoolInit
    OBVIOUS
  <2>1. Queued = {} /\ done = {}
    BY DEF Init, Queued
  <2>2. {c \in Clients : pc[c] = "returned"} = {}
    BY PoolAssumption DEF Init, Threads
  <2> QED
    BY <2>1, <2>2 DEF Init, Pool!PoolInit
<1> QED
  BY <1>1, PoolStep, Invariance, PTL DEF Spec, ImplementsPool, Pool!PoolSpec

===========================================================================
