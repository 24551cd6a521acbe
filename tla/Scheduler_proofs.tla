-------------------------- MODULE Scheduler_proofs --------------------------
(***************************************************************************)
(* Proofs about Scheduler for any number of workers, of roots and of roots *)
(* in a range.  The inductive invariant comes in layers, each proved on    *)
(* top of the ones before it; all but the first two speak of the round,    *)
(* up to the end of the loop in waitForComplete:                           *)
(*   Typed      the variables' types                                       *)
(*   Bounded    how far start_index can run past the last root             *)
(*   Placed     what a worker's place says of its task and its queue       *)
(*   Counted    the two counters                                           *)
(*   Dealt      a root that was handed out is in one queue, with one       *)
(*              worker, or done, and no other root is                      *)
(***************************************************************************)
EXTENDS Scheduler, FiniteSetTheorems, TLAPS

Asleep == {"tell_main", "wait", "sleeping"}
Bare   == {"start", "first_wait", "first_sleeping", "index", "fetch", "hang_up"} \cup Asleep
Labels == {"activate", "pop", "run"} \cup Bare
MainLabels == {"add", "signal", "lock_free", "test", "wait", "sleeping", "reset", "returned"}

Typed ==
    /\ threadQueue \in [Workers -> Seq(Tasks \ {NoTask})]
    /\ m_sleep_threadNum \in 0 .. WordSize - 1
    /\ m_activate_threadNum \in 0 .. WordSize - 1
    /\ firstTime \in [Workers -> {0, 1}] /\ complete \in [Workers -> {0, 1}]
    /\ lock_free \in BOOLEAN /\ sleepWaiter \in BOOLEAN
    /\ start_index \in Nat /\ SpecialRoots <= start_index
    /\ hasTaskWaiters \subseteq Workers
    /\ task \in [Workers -> Tasks]
    /\ ran \in [Roots -> Nat]
    /\ pc \in [Workers -> Labels]
    /\ main \in MainLabels
    /\ next \in 0 .. SpecialRoots + Threads
    /\ main = "add" => next <= SpecialRoots
    /\ main = "signal" => next < SpecialRoots
    /\ main = "reset" => next <= Threads

\* A worker enters "fetch" only while roots are left.
Fetching == {w \in Workers : pc[w] = "fetch"}

Bounded ==
    start_index + Increment * Cardinality(Fetching) <= MaxIndex + Increment * Threads

\* A worker that has nothing left has seen the roots run out.
Placed ==
    \A w \in Workers :
        /\ complete[w] = 0
        /\ firstTime[w] = 1 => pc[w] \in {"start", "activate", "first_wait", "first_sleeping"}
        /\ pc[w] \in {"first_wait", "first_sleeping"} => firstTime[w] = 1
        /\ pc[w] \in Bare => task[w] = NoTask
        /\ pc[w] = "activate" /\ firstTime[w] = 1 => task[w] # NoTask
        /\ pc[w] \in {"hang_up"} \cup Asleep => start_index >= MaxIndex
        /\ /\ firstTime[w] = 0 /\ pc[w] \in {"start", "activate", "pop"}
           /\ task[w] = NoTask /\ threadQueue[w] = <<>>
           => start_index >= MaxIndex

Active   == {w \in Workers : firstTime[w] = 0}
Sleepers == {w \in Workers : pc[w] \in Asleep}

Counted ==
    /\ m_activate_threadNum = Cardinality(Active)
    /\ m_sleep_threadNum = Cardinality(Sleepers)

\* Where a root may be.
Holds(t, r) == t[1] <= r /\ r < t[2]

HeldBy(w, r)    == Holds(task[w], r)
At(w, i, r)     == i \in DOMAIN threadQueue[w] /\ Holds(threadQueue[w][i], r)

\* The special roots main has pushed, the others that have been fetched.
Added == IF main = "add" THEN next ELSE IF main = "signal" THEN next + 1 ELSE SpecialRoots

Issued(r) == IF r < SpecialRoots THEN r < Added ELSE r < start_index

Once(r) ==
    /\ \A w, x \in Workers : \A i, j \in Nat : At(w, i, r) /\ At(x, j, r) => w = x /\ i = j
    /\ \A w, x \in Workers : HeldBy(w, r) /\ HeldBy(x, r) => w = x
    /\ \A w, x \in Workers : \A i \in Nat : ~ (HeldBy(w, r) /\ At(x, i, r))
    /\ \A w \in Workers : \A i \in Nat : HeldBy(w, r) \/ At(w, i, r) => ran[r] = 0
    /\ ran[r] <= 1

Somewhere(r) ==
    \/ ran[r] > 0
    \/ \E w \in Workers : HeldBy(w, r)
    \/ \E w \in Workers : \E i \in Nat : At(w, i, r)

Dealt == \A r \in Roots : Once(r) /\ (Issued(r) <=> Somewhere(r))

IInv == Typed /\ Bounded /\ (InRound => Placed /\ Counted /\ Dealt)

---------------------------------------------------------------------------
(***************************************************************************)
(* Facts about the constants, about queues and about counting.             *)
(***************************************************************************)
LEMMA Constants ==
    /\ Threads \in Nat /\ Threads > 0 /\ Increment \in Nat /\ Increment > 0
    /\ SpecialRoots \in Nat /\ MaxIndex \in Nat /\ WordSize \in Nat
    /\ SpecialRoots < MaxIndex /\ Threads < WordSize
    /\ Workers \subseteq Nat
  BY SchedulerAssumption DEF Workers

LEMMA Remainders ==
    /\ \A n \in Nat : n % Threads \in Workers
    /\ \A n \in Int : n % WordSize \in 0 .. WordSize - 1
    /\ \A n \in 0 .. WordSize - 1 : n % WordSize = n
  BY Constants DEF Workers

\* What is left of a queue after its last task is taken.
LEMMA QueueFront ==
    ASSUME NEW S, NEW s \in Seq(S), s # <<>>
    PROVE  /\ Front(s) \in Seq(S) /\ Last(s) \in S
           /\ Len(s) \in Nat /\ Len(s) \in DOMAIN s /\ Last(s) = s[Len(s)]
           /\ \A i : i \in DOMAIN Front(s) <=> i \in DOMAIN s /\ i # Len(s)
           /\ \A i \in DOMAIN Front(s) : Front(s)[i] = s[i]
  BY DEF Front, Last

LEMMA QueueAppend ==
    ASSUME NEW S, NEW s \in Seq(S), NEW t \in S
    PROVE  /\ Append(s, t) \in Seq(S) /\ Append(s, t) # <<>>
           /\ Len(s) + 1 \in Nat /\ Len(s) + 1 \notin DOMAIN s
           /\ \A i : i \in DOMAIN Append(s, t) <=> i \in DOMAIN s \/ i = Len(s) + 1
           /\ \A i \in DOMAIN s : Append(s, t)[i] = s[i]
           /\ Append(s, t)[Len(s) + 1] = t
  OBVIOUS

\* The workers are finitely many: any set of them can be counted, and changes
\* by one when one worker joins or leaves it.
LEMMA Counting ==
    /\ IsFiniteSet(Workers) /\ Cardinality(Workers) = Threads
    /\ \A A \in SUBSET Workers :
          /\ IsFiniteSet(A) /\ Cardinality(A) \in Nat /\ Cardinality(A) <= Threads
          /\ Cardinality(A) = Threads => A = Workers
          /\ \A w \in Workers \ A : Cardinality(A \cup {w}) = Cardinality(A) + 1
          /\ \A w \in A : Cardinality(A \ {w}) = Cardinality(A) - 1
<1>1. IsFiniteSet(Workers) /\ Cardinality(Workers) = Threads
  BY FS_Interval, Constants DEF Workers
<1> SUFFICES ASSUME NEW A \in SUBSET Workers
             PROVE  /\ IsFiniteSet(A) /\ Cardinality(A) \in Nat /\ Cardinality(A) <= Threads
                    /\ Cardinality(A) = Threads => A = Workers
                    /\ \A w \in Workers \ A : Cardinality(A \cup {w}) = Cardinality(A) + 1
                    /\ \A w \in A : Cardinality(A \ {w}) = Cardinality(A) - 1
  BY <1>1
<1>2. IsFiniteSet(A) /\ Cardinality(A) <= Threads /\ (Cardinality(A) = Threads => A = Workers)
  BY <1>1, FS_Subset
<1>3. Cardinality(A) \in Nat
  BY <1>2, FS_CardinalityType
<1>4. \A w \in Workers \ A : Cardinality(A \cup {w}) = Cardinality(A) + 1
  BY <1>2, FS_AddElement
<1>5. \A w \in A : Cardinality(A \ {w}) = Cardinality(A) - 1
  BY <1>2, FS_RemoveElement
<1> QED
  BY <1>2, <1>3, <1>4, <1>5

---------------------------------------------------------------------------
(***************************************************************************)
(* The types.                                                              *)
(***************************************************************************)
LEMMA PopTyped ==
    ASSUME Typed, NEW w \in Workers, Pop(w)
    PROVE  /\ threadQueue' \in [Workers -> Seq(Tasks \ {NoTask})]
           /\ task' \in [Workers -> Tasks] /\ task'[w] # NoTask
<1>1. /\ threadQueue \in [Workers -> Seq(Tasks \ {NoTask})]
      /\ threadQueue[w] # <<>> /\ threadQueue[w] \in Seq(Tasks \ {NoTask})
      /\ task \in [Workers -> Tasks]
  BY DEF Typed, Pop
<1>2. Front(threadQueue[w]) \in Seq(Tasks \ {NoTask}) /\ Last(threadQueue[w]) \in Tasks \ {NoTask}
  BY <1>1, QueueFront
<1> QED
  BY <1>1, <1>2 DEF Pop

LEMMA WorkerTyped ==
    ASSUME Typed, NEW w \in Workers, WorkerStep(w) \/ SpuriousWakeup(w)
    PROVE  Typed'
<1> USE Constants DEF Typed, Goto, counters, flags, mainVars
<1>1. NoTask \in Tasks
  BY DEF NoTask, Tasks
<1>2. Labels = {"activate", "pop", "run", "start", "first_wait", "first_sleeping", "index",
                "fetch", "hang_up", "tell_main", "wait", "sleeping"}
  BY DEF Labels, Bare, Asleep
<1>a. CASE Start(w)
  BY <1>2, <1>a, PopTyped DEF Start
<1>b. CASE Activate(w)
  <2>1. m_activate_threadNum' \in 0 .. WordSize - 1
    <3>1. m_activate_threadNum + 1 \in Int
      OBVIOUS
    <3>2. (m_activate_threadNum + 1) % WordSize \in 0 .. WordSize - 1
      BY <3>1, Remainders
    <3> QED
      BY <3>2, <1>b DEF Activate
  <2>2. firstTime' \in [Workers -> {0, 1}] /\ complete' \in [Workers -> {0, 1}]
    BY <1>b DEF Activate
  <2>3. /\ pc' = [pc EXCEPT ![w] = "pop"]
        /\ UNCHANGED <<threadQueue, m_sleep_threadNum, mainVars, start_index,
                       hasTaskWaiters, sleepWaiter, task, ran>>
    BY <1>b DEF Activate
  <2> QED
    BY <1>2, <2>1, <2>2, <2>3
<1>c. CASE PopOwn(w)
  BY <1>2, <1>c, PopTyped DEF PopOwn
<1>d. CASE HangUp(w)
  BY <1>2, <1>d DEF HangUp
<1>e. CASE TellMain(w)
  BY <1>2, <1>e DEF TellMain
<1>f. CASE WaitTask(w)
  BY <1>2, <1>f DEF WaitTask
<1>g. CASE Wake(w)
  <2>1. m_sleep_threadNum' \in 0 .. WordSize - 1
    <3>1. m_sleep_threadNum - 1 \in Int
      OBVIOUS
    <3>2. (m_sleep_threadNum - 1) % WordSize \in 0 .. WordSize - 1
      BY <3>1, Remainders
    <3> QED
      BY <3>2, <1>g DEF Wake
  <2>2. complete' \in [Workers -> {0, 1}]
    BY <1>g DEF Wake
  <2>3. /\ pc' = [pc EXCEPT ![w] = "start"]
        /\ UNCHANGED <<threadQueue, m_activate_threadNum, firstTime, mainVars, start_index,
                       hasTaskWaiters, sleepWaiter, task, ran>>
    BY <1>g DEF Wake
  <2> QED
    BY <1>2, <2>1, <2>2, <2>3
<1>h. CASE Run(w)
  BY <1>1, <1>2, <1>h DEF Run
<1>i. CASE LookIndex(w)
  BY <1>2, <1>i DEF LookIndex
<1>j. CASE Fetch(w)
  <2>1. start_index' = start_index + Increment /\ pc' = [pc EXCEPT ![w] = "start"]
    BY <1>j DEF Fetch
  <2>2. threadQueue' \in [Workers -> Seq(Tasks \ {NoTask})]
    <3> DEFINE t == <<start_index, Minimum(start_index + Increment, MaxIndex)>>
    <3>1. CASE start_index < MaxIndex
      <4>1. t \in Tasks \ {NoTask}
        BY <3>1 DEF Tasks, NoTask, Minimum
      <4>2. Append(threadQueue[w], t) \in Seq(Tasks \ {NoTask})
        BY <4>1, QueueAppend
      <4> QED
        BY <4>2, <3>1, <1>j DEF Fetch, Push
    <3> QED
      BY <3>1, <1>j DEF Fetch
  <2>3. UNCHANGED <<counters, flags, mainVars, hasTaskWaiters, sleepWaiter, task, ran>>
    BY <1>j DEF Fetch
  <2>4. start_index' \in Nat /\ SpecialRoots <= start_index'
    BY <2>1
  <2> QED
    BY <1>2, <2>1, <2>2, <2>3, <2>4
<1>k. CASE SpuriousWakeup(w)
  BY <1>k DEF SpuriousWakeup
<1> QED
  BY <1>a, <1>b, <1>c, <1>d, <1>e, <1>f, <1>g, <1>h, <1>i, <1>j, <1>k DEF WorkerStep

LEMMA MainTyped ==
    ASSUME Typed, MainStep
    PROVE  Typed'
<1> USE Constants DEF Typed, counters, flags
<1>1. MainLabels = {"add", "signal", "lock_free", "test", "wait", "sleeping", "reset", "returned"}
  BY DEF MainLabels
<1>a. CASE AddTask
  <2>1. threadQueue' \in [Workers -> Seq(Tasks \ {NoTask})]
    <3> DEFINE t == <<next, next + 1>>
    <3>1. CASE next < SpecialRoots
      <4>1. t \in Tasks \ {NoTask} /\ next % Threads \in Workers
        BY <3>1, Remainders DEF Tasks, NoTask
      <4>2. Append(threadQueue[next % Threads], t) \in Seq(Tasks \ {NoTask})
        BY <4>1, QueueAppend
      <4> QED
        BY <4>1, <4>2, <3>1, <1>a DEF AddTask, Push
    <3> QED
      BY <3>1, <1>a DEF AddTask
  <2> QED
    BY <1>1, <2>1, <1>a DEF AddTask
<1>b. CASE SignalTask
  BY <1>1, <1>b DEF SignalTask
<1>c. CASE SetLockFree
  BY <1>1, <1>c DEF SetLockFree
<1>d. CASE TestComplete
  BY <1>1, <1>d DEF TestComplete
<1>e. CASE WaitSleep
  BY <1>1, <1>e DEF WaitSleep
<1>f. CASE WakeMain
  BY <1>1, <1>f DEF WakeMain
<1>g. CASE ResetWorker
  <2>1. next \in Workers /\ <<>> \in Seq(Tasks \ {NoTask})
    BY <1>g DEF ResetWorker, Workers
  <2> QED
    BY <1>1, <2>1, <1>g DEF ResetWorker
<1>h. CASE ResetCounters
  <2>1. /\ 0 \in 0 .. WordSize - 1 /\ SpecialRoots <= SpecialRoots
        /\ FALSE \in BOOLEAN
    BY Remainders
  <2>2. /\ m_sleep_threadNum' = 0 /\ m_activate_threadNum' = 0 /\ lock_free' = FALSE
        /\ start_index' = SpecialRoots /\ main' = "returned"
        /\ UNCHANGED <<threadQueue, firstTime, complete, next, hasTaskWaiters, sleepWaiter,
                       pc, task, ran>>
    BY <1>h DEF ResetCounters
  <2> QED
    BY <1>1, <2>1, <2>2
<1> QED
  BY <1>a, <1>b, <1>c, <1>d, <1>e, <1>f, <1>g, <1>h DEF MainStep

---------------------------------------------------------------------------
(***************************************************************************)
(* How far start_index runs.                                               *)
(***************************************************************************)
LEMMA Products ==
    ASSUME NEW a \in Nat, NEW n \in Nat, NEW m \in Nat
    PROVE  /\ n <= m => a * n <= a * m
           /\ n > 0 => a * (n - 1) = a * n - a
           /\ a * n \in Nat /\ a * m \in Nat
<1>1. n <= m => a * n <= a * m
  <2> SUFFICES ASSUME n <= m PROVE a * n <= a * m
    OBVIOUS
  <2>1. m - n \in Nat /\ a * m = a * n + a * (m - n) /\ a * (m - n) \in Nat
    OBVIOUS
  <2> QED
    BY <2>1
<1>2. a * (n - 1) = a * n - a
  OBVIOUS
<1> QED
  BY <1>1, <1>2

LEMMA BoundedStep ==
    ASSUME Typed, Bounded, Typed', [Next]_vars
    PROVE  Bounded'
<1> DEFINE F == Cardinality(Fetching)
           L == MaxIndex + Increment * Threads
<1>1. /\ F \in Nat /\ F <= Threads /\ F' \in Nat /\ F' <= Threads
      /\ start_index \in Nat /\ start_index + Increment * F <= L
  BY Counting DEF Fetching, Typed, Bounded
<1>2. Increment * F <= Increment * Threads /\ Increment * F' <= Increment * Threads
  BY <1>1, Constants, Products
<1> SUFFICES start_index' + Increment * F' <= L
  BY DEF Bounded
<1>3. CASE UNCHANGED <<start_index, pc>>
  <2>1. Fetching' = Fetching
    BY <1>3 DEF Fetching
  <2> QED
    BY <2>1, <1>1, <1>3
<1>4. CASE start_index' = SpecialRoots
  BY <1>1, <1>2, <1>4, Constants, Products
<1>5. ASSUME NEW w \in Workers, pc[w] # "fetch", UNCHANGED start_index,
             \E l \in Labels : pc' = [pc EXCEPT ![w] = l] /\ (l = "fetch" => start_index < MaxIndex)
      PROVE  start_index' + Increment * F' <= L
  <2>1. PICK l \in Labels : pc' = [pc EXCEPT ![w] = l] /\ (l = "fetch" => start_index < MaxIndex)
    BY <1>5
  <2>2. CASE l = "fetch"
    BY <2>1, <2>2, <1>1, <1>2, <1>5, Constants, Products
  <2>3. CASE l # "fetch"
    <3>1. Fetching' = Fetching
      BY <2>1, <2>3, <1>5 DEF Fetching, Typed
    <3> QED
      BY <3>1, <1>1, <1>5
  <2> QED
    BY <2>2, <2>3
<1>6. ASSUME NEW w \in Workers, Fetch(w)
      PROVE  start_index' + Increment * F' <= L
  <2>1. start_index' = start_index + Increment /\ pc[w] = "fetch" /\ pc' = [pc EXCEPT ![w] = "start"]
    BY <1>6 DEF Fetch, Goto
  <2>2. Fetching' = Fetching \ {w} /\ w \in Fetching
    BY <2>1 DEF Fetching, Typed
  <2>3. Fetching \in SUBSET Workers
    BY DEF Fetching
  <2>4. F' = F - 1 /\ F > 0
    BY <2>2, <2>3, <1>1, Counting
  <2>5. Increment * (F - 1) = Increment * F - Increment
    BY <2>4, <1>1, Constants, Products
  <2>6. Increment * F \in Nat /\ Increment * Threads \in Nat
    BY <1>1, Constants, Products
  <2> HIDE DEF F
  <2> QED
    BY <2>1, <2>4, <2>5, <2>6, <1>1, Constants
<1>7. Labels = {"activate", "pop", "run", "start", "first_wait", "first_sleeping", "index",
                "fetch", "hang_up", "tell_main", "wait", "sleeping"}
  BY DEF Labels, Bare, Asleep
<1>8. CASE \E w \in Workers : WorkerStep(w) \/ SpuriousWakeup(w)
  <2>1. PICK w \in Workers : WorkerStep(w) \/ SpuriousWakeup(w)
    BY <1>8
  <2>2. CASE Fetch(w)
    BY <2>2, <1>6
  <2>3. CASE SpuriousWakeup(w)
    BY <2>3, <1>3 DEF SpuriousWakeup
  <2>4. CASE ~ Fetch(w) /\ WorkerStep(w)
    <3>1. /\ pc[w] # "fetch" /\ UNCHANGED start_index
          /\ \E l \in Labels : pc' = [pc EXCEPT ![w] = l] /\ (l = "fetch" => start_index < MaxIndex)
      BY <2>4, <1>7 DEF WorkerStep, Start, Activate, PopOwn, Run, LookIndex, HangUp, TellMain,
                        WaitTask, Wake, Goto
    <3> QED
      BY <3>1, <1>5
  <2> QED
    BY <2>1, <2>2, <2>3, <2>4
<1>9. CASE MainStep
  <2>1. UNCHANGED <<start_index, pc>> \/ start_index' = SpecialRoots
    BY <1>9 DEF MainStep, AddTask, SignalTask, SetLockFree, TestComplete, WaitSleep, WakeMain,
                ResetWorker, ResetCounters
  <2> QED
    BY <2>1, <1>3, <1>4
<1>10. CASE UNCHANGED vars
  BY <1>10, <1>3 DEF vars
<1> QED
  BY <1>8, <1>9, <1>10 DEF Next

---------------------------------------------------------------------------
(***************************************************************************)
(* The places of the workers, in the round.                                *)
(***************************************************************************)
LEMMA PlacedStep ==
    ASSUME Typed, Placed, InRound, InRound', [Next]_vars
    PROVE  Placed'
<1> SUFFICES ASSUME NEW x \in Workers
             PROVE  /\ complete'[x] = 0
                    /\ firstTime'[x] = 1 => pc'[x] \in {"start", "activate", "first_wait", "first_sleeping"}
                    /\ pc'[x] \in {"first_wait", "first_sleeping"} => firstTime'[x] = 1
                    /\ pc'[x] \in Bare => task'[x] = NoTask
                    /\ pc'[x] = "activate" /\ firstTime'[x] = 1 => task'[x] # NoTask
                    /\ pc'[x] \in {"hang_up"} \cup Asleep => start_index' >= MaxIndex
                    /\ /\ firstTime'[x] = 0 /\ pc'[x] \in {"start", "activate", "pop"}
                       /\ task'[x] = NoTask /\ threadQueue'[x] = <<>>
                       => start_index' >= MaxIndex
  BY DEF Placed
<1> USE Constants DEF Goto, counters, flags, mainVars, Bare, Asleep
<1>1. /\ threadQueue \in [Workers -> Seq(Tasks \ {NoTask})]
      /\ firstTime \in [Workers -> {0, 1}] /\ complete \in [Workers -> {0, 1}]
      /\ task \in [Workers -> Tasks] /\ pc \in [Workers -> Labels]
      /\ start_index \in Nat
  BY DEF Typed
<1>2. /\ complete[x] = 0
      /\ firstTime[x] = 1 => pc[x] \in {"start", "activate", "first_wait", "first_sleeping"}
      /\ pc[x] \in {"first_wait", "first_sleeping"} => firstTime[x] = 1
      /\ pc[x] \in Bare => task[x] = NoTask
      /\ pc[x] = "activate" /\ firstTime[x] = 1 => task[x] # NoTask
      /\ pc[x] \in {"hang_up"} \cup Asleep => start_index >= MaxIndex
      /\ /\ firstTime[x] = 0 /\ pc[x] \in {"start", "activate", "pop"}
         /\ task[x] = NoTask /\ threadQueue[x] = <<>>
         => start_index >= MaxIndex
  BY DEF Placed
<1>3. ASSUME NEW w \in Workers, WorkerStep(w), x # w
      PROVE  /\ pc'[x] = pc[x] /\ firstTime'[x] = firstTime[x] /\ complete'[x] = complete[x]
             /\ task'[x] = task[x] /\ threadQueue'[x] = threadQueue[x]
             /\ start_index' \in Nat /\ start_index' >= start_index
  BY <1>1, <1>3 DEF WorkerStep, Start, Activate, PopOwn, Run, LookIndex, Fetch, HangUp, TellMain,
                    WaitTask, Wake, Pop, Push
<1>4. CASE \E w \in Workers : WorkerStep(w) /\ x # w
  BY <1>1, <1>2, <1>3, <1>4
<1>5. CASE WorkerStep(x)
  <2>a. CASE Start(x)
    <3>1. Pop(x) => task'[x] # NoTask
      BY <1>1, PopTyped DEF Pop, Typed
    <3> QED
      BY <3>1, <2>a, <1>1, <1>2 DEF Start, Pop
  <2>b. CASE Activate(x)
    BY <2>b, <1>1, <1>2 DEF Activate
  <2>c. CASE PopOwn(x)
    BY <2>c, <1>1, <1>2 DEF PopOwn, Pop
  <2>d. CASE HangUp(x)
    BY <2>d, <1>1, <1>2 DEF HangUp
  <2>e. CASE TellMain(x)
    BY <2>e, <1>1, <1>2 DEF TellMain
  <2>f. CASE WaitTask(x)
    BY <2>f, <1>1, <1>2 DEF WaitTask
  <2>g. CASE Wake(x)
    BY <2>g, <1>1, <1>2 DEF Wake
  <2>h. CASE Run(x)
    BY <2>h, <1>1, <1>2 DEF Run
  <2>i. CASE LookIndex(x)
    BY <2>i, <1>1, <1>2 DEF LookIndex
  <2>j. CASE Fetch(x)
    BY <2>j, <1>1, <1>2 DEF Fetch, Push
  <2> QED
    BY <1>5, <2>a, <2>b, <2>c, <2>d, <2>e, <2>f, <2>g, <2>h, <2>i, <2>j DEF WorkerStep
<1>6. CASE AddTask
  <2>1. threadQueue'[x] = <<>> => threadQueue[x] = <<>>
    BY <1>1, <1>6, Remainders DEF AddTask, Push
  <2> QED
    BY <2>1, <1>2, <1>6 DEF AddTask
<1>7. CASE MainStep /\ ~ AddTask
  <2>1. UNCHANGED <<threadQueue, firstTime, complete, start_index, pc, task>>
    BY <1>7 DEF InRound, MainStep, AddTask, SignalTask, SetLockFree, TestComplete, WaitSleep,
                WakeMain, ResetWorker, ResetCounters
  <2> QED
    BY <2>1, <1>2
<1>8. CASE \E w \in Workers : SpuriousWakeup(w)
  BY <1>2, <1>8 DEF SpuriousWakeup
<1>9. CASE UNCHANGED vars
  BY <1>2, <1>9 DEF vars
<1> QED
  BY <1>4, <1>5, <1>6, <1>7, <1>8, <1>9 DEF Next

---------------------------------------------------------------------------
(***************************************************************************)
(* The counters, in the round.                                             *)
(***************************************************************************)
LEMMA CountedStep ==
    ASSUME Typed, Placed, Counted, InRound, InRound', [Next]_vars
    PROVE  Counted'
<1>1. /\ firstTime \in [Workers -> {0, 1}] /\ complete \in [Workers -> {0, 1}]
      /\ pc \in [Workers -> Labels]
      /\ Active \in SUBSET Workers /\ Sleepers \in SUBSET Workers
      /\ m_activate_threadNum = Cardinality(Active)
      /\ m_sleep_threadNum = Cardinality(Sleepers)
  BY DEF Typed, Counted, Active, Sleepers
<1>2. ASSUME NEW w \in Workers, Activate(w), firstTime[w] = 1
      PROVE  Counted'
  <2>1. /\ m_activate_threadNum' = (m_activate_threadNum + 1) % WordSize
        /\ UNCHANGED m_sleep_threadNum
        /\ firstTime' = [firstTime EXCEPT ![w] = 0]
        /\ pc' = [pc EXCEPT ![w] = "pop"] /\ pc[w] = "activate"
    BY <1>2 DEF Activate, Goto
  <2>2. Sleepers' = Sleepers
    BY <1>1, <2>1 DEF Sleepers, Asleep
  <2>3. Active' = Active \cup {w} /\ w \in Workers \ Active /\ Active \cup {w} \in SUBSET Workers
    BY <1>1, <1>2, <2>1 DEF Active
  <2>4. Cardinality(Active') = Cardinality(Active) + 1 /\ Cardinality(Active') <= Threads
        /\ Cardinality(Active') \in Nat
    BY <1>1, <2>3, Counting
  <2>5. (m_activate_threadNum + 1) % WordSize = m_activate_threadNum + 1
    <3>1. m_activate_threadNum + 1 \in 0 .. WordSize - 1
      BY <1>1, <2>4, Constants
    <3> QED
      BY <3>1, Remainders
  <2> QED
    BY <1>1, <2>1, <2>2, <2>4, <2>5 DEF Counted
<1>3. ASSUME NEW w \in Workers, HangUp(w)
      PROVE  Counted'
  <2>1. /\ m_sleep_threadNum' = (m_sleep_threadNum + 1) % WordSize
        /\ UNCHANGED <<m_activate_threadNum, firstTime>>
        /\ pc' = [pc EXCEPT ![w] = "tell_main"] /\ pc[w] = "hang_up"
    BY <1>3 DEF HangUp, Goto, flags
  <2>2. Active' = Active
    BY <2>1 DEF Active
  <2>3. Sleepers' = Sleepers \cup {w} /\ w \in Workers \ Sleepers /\ Sleepers \cup {w} \in SUBSET Workers
    BY <1>1, <2>1 DEF Sleepers, Asleep
  <2>4. Cardinality(Sleepers') = Cardinality(Sleepers) + 1 /\ Cardinality(Sleepers') <= Threads
        /\ Cardinality(Sleepers') \in Nat
    BY <1>1, <2>3, Counting
  <2>5. (m_sleep_threadNum + 1) % WordSize = m_sleep_threadNum + 1
    <3>1. m_sleep_threadNum + 1 \in 0 .. WordSize - 1
      BY <1>1, <2>4, Constants
    <3> QED
      BY <3>1, Remainders
  <2> QED
    BY <1>1, <2>1, <2>2, <2>4, <2>5 DEF Counted
<1>4. ASSUME NEW w \in Workers, Wake(w), pc[w] = "sleeping"
      PROVE  Counted'
  <2>1. complete[w] = 0
    BY DEF Placed
  <2>2. /\ m_sleep_threadNum' = (m_sleep_threadNum - 1) % WordSize
        /\ UNCHANGED <<m_activate_threadNum, firstTime>>
        /\ pc' = [pc EXCEPT ![w] = "start"]
    BY <1>4, <2>1 DEF Wake, Goto
  <2>3. Active' = Active
    BY <2>2 DEF Active
  <2>4. Sleepers' = Sleepers \ {w} /\ w \in Sleepers
    BY <1>1, <1>4, <2>2 DEF Sleepers, Asleep
  <2>5. Cardinality(Sleepers') = Cardinality(Sleepers) - 1 /\ Cardinality(Sleepers) <= Threads
        /\ Cardinality(Sleepers) \in Nat /\ Cardinality(Sleepers') \in Nat
    <3>1. Sleepers' \in SUBSET Workers
      BY <1>1, <2>4
    <3> QED
      BY <1>1, <2>4, <3>1, Counting
  <2>6. (m_sleep_threadNum - 1) % WordSize = m_sleep_threadNum - 1
    <3>1. m_sleep_threadNum - 1 \in 0 .. WordSize - 1
      BY <1>1, <2>5, Constants
    <3> QED
      BY <3>1, Remainders
  <2> QED
    BY <1>1, <2>2, <2>3, <2>5, <2>6 DEF Counted
<1>5. CASE /\ UNCHANGED <<m_sleep_threadNum, m_activate_threadNum>>
           /\ \A w \in Workers : /\ firstTime'[w] = firstTime[w]
                                 /\ pc'[w] \in Asleep <=> pc[w] \in Asleep
  <2>1. Active' = Active /\ Sleepers' = Sleepers
    BY <1>5 DEF Active, Sleepers
  <2> QED
    BY <1>1, <1>5, <2>1 DEF Counted
<1>6. ASSUME NEW w \in Workers, WorkerStep(w), ~ HangUp(w),
             ~ (Activate(w) /\ firstTime[w] = 1), ~ (Wake(w) /\ pc[w] = "sleeping")
      PROVE  /\ UNCHANGED <<m_sleep_threadNum, m_activate_threadNum, firstTime>>
             /\ \A x \in Workers : pc'[x] \in Asleep <=> pc[x] \in Asleep
  BY <1>1, <1>6 DEF WorkerStep, Start, Activate, PopOwn, Run, LookIndex, Fetch, HangUp, TellMain,
                    WaitTask, Wake, Goto, Asleep, counters, flags
<1>7. CASE \E w \in Workers : WorkerStep(w)
  <2>1. PICK w \in Workers : WorkerStep(w)
    BY <1>7
  <2>2. firstTime[w] \in {0, 1}
    BY <1>1
  <2> QED
    BY <2>1, <2>2, <1>2, <1>3, <1>4, <1>5, <1>6
<1>8. CASE \E w \in Workers : SpuriousWakeup(w)
  BY <1>8, <1>5 DEF SpuriousWakeup, counters, flags
<1>9. CASE MainStep
  <2>1. UNCHANGED <<m_sleep_threadNum, m_activate_threadNum, firstTime, pc>>
    BY <1>9 DEF InRound, MainStep, AddTask, SignalTask, SetLockFree, TestComplete, WaitSleep,
                WakeMain, ResetWorker, ResetCounters, counters, flags
  <2> QED
    BY <2>1, <1>5
<1>10. CASE UNCHANGED vars
  BY <1>10, <1>5 DEF vars, counters, flags
<1> QED
  BY <1>7, <1>8, <1>9, <1>10 DEF Next

---------------------------------------------------------------------------
(***************************************************************************)
(* The roots, in the round.                                                *)
(***************************************************************************)
\* What a step does to the places a root may be in.
Leaves == UNCHANGED <<threadQueue, task, ran, start_index, Added>>

Takes(w) ==
    /\ task[w] = NoTask /\ Pop(w)
    /\ UNCHANGED <<ran, start_index, Added>>

Runs(w) ==
    /\ ran' = [r \in Roots |-> IF HeldBy(w, r) THEN ran[r] + 1 ELSE ran[r]]
    /\ task' = [task EXCEPT ![w] = NoTask]
    /\ UNCHANGED <<threadQueue, start_index, Added>>

\* Some range that was not issued is pushed, and issued by that.
Issues(w, t) ==
    /\ threadQueue' = [threadQueue EXCEPT ![w] = Append(@, t)]
    /\ t \in Tasks \ {NoTask}
    /\ \A r \in Roots : Issued(r)' <=> Issued(r) \/ Holds(t, r)
    /\ \A r \in Roots : ~ (Issued(r) /\ Holds(t, r))
    /\ UNCHANGED <<task, ran>>

Passes ==
    /\ \A r \in Roots : Issued(r)' <=> Issued(r)
    /\ UNCHANGED <<threadQueue, task, ran>>

LEMMA RoundMoves ==
    ASSUME Typed, Placed, InRound, InRound', [Next]_vars
    PROVE  \/ Passes
           \/ \E w \in Workers : Takes(w) \/ Runs(w) \/ \E t \in Tasks : Issues(w, t)
<1> USE Constants
<1>1. /\ start_index \in Nat /\ SpecialRoots <= start_index
      /\ main \in MainLabels /\ next \in 0 .. SpecialRoots + Threads
      /\ main = "add" => next <= SpecialRoots
      /\ main = "signal" => next < SpecialRoots
      /\ \A w \in Workers : pc[w] \in Bare => task[w] = NoTask
      /\ \A w \in Workers : pc[w] = "activate" /\ firstTime[w] = 1 => task[w] # NoTask
  BY DEF Typed, Placed
<1>2. Roots \subseteq Nat /\ \A r \in Roots : r < MaxIndex
  BY DEF Roots
<1>3. Leaves => Passes
  BY DEF Leaves, Passes, Issued
<1>4. ASSUME NEW w \in Workers, Fetch(w)
      PROVE  Passes \/ \E t \in Tasks : Issues(w, t)
  <2>1. /\ start_index' = start_index + Increment
        /\ UNCHANGED <<main, next, task, ran>>
    BY <1>4 DEF Fetch, mainVars
  <2>2. Added' = Added
    BY <2>1 DEF Added
  <2>3. CASE start_index < MaxIndex
    <3> DEFINE t == <<start_index, Minimum(start_index + Increment, MaxIndex)>>
    <3>1. t \in Tasks \ {NoTask}
      BY <1>1, <2>3 DEF Tasks, NoTask, Minimum
    <3>2. threadQueue' = [threadQueue EXCEPT ![w] = Append(@, t)]
      BY <2>3, <1>4 DEF Fetch, Push
    <3>3. \A r \in Roots : Holds(t, r) <=> start_index <= r /\ r < start_index + Increment
      BY <1>1, <1>2 DEF Holds, Minimum
    <3>4. \A r \in Roots : /\ Issued(r)' <=> Issued(r) \/ Holds(t, r)
                           /\ ~ (Issued(r) /\ Holds(t, r))
      BY <1>1, <1>2, <2>1, <2>2, <3>3 DEF Issued
    <3> QED
      BY <2>1, <3>1, <3>2, <3>4 DEF Issues
  <2>4. CASE ~ (start_index < MaxIndex)
    <3>1. UNCHANGED threadQueue
      BY <2>4, <1>4 DEF Fetch
    <3>2. \A r \in Roots : Issued(r)' <=> Issued(r)
      BY <1>1, <1>2, <2>1, <2>2, <2>4 DEF Issued
    <3> QED
      BY <2>1, <3>1, <3>2 DEF Passes
  <2> QED
    BY <2>3, <2>4
<1>5. CASE \E w \in Workers : WorkerStep(w)
  <2>1. PICK w \in Workers : WorkerStep(w)
    BY <1>5
  <2>2. CASE Fetch(w)
    BY <2>2, <1>4
  <2>3. CASE Run(w)
    BY <2>3 DEF Run, Runs, HeldBy, Holds, mainVars, Added
  <2>4. CASE Start(w)
    BY <2>4, <1>1, <1>3 DEF Start, Bare, Takes, Leaves, mainVars, Added
  <2>5. CASE PopOwn(w)
    BY <2>5, <1>3 DEF PopOwn, Takes, Leaves, mainVars, Added
  <2>6. CASE Activate(w) \/ LookIndex(w) \/ HangUp(w) \/ TellMain(w) \/ WaitTask(w) \/ Wake(w)
    BY <2>6, <1>3 DEF Activate, LookIndex, HangUp, TellMain, WaitTask, Wake, Leaves, mainVars, Added
  <2> QED
    BY <2>1, <2>2, <2>3, <2>4, <2>5, <2>6 DEF WorkerStep
<1>6. CASE \E w \in Workers : SpuriousWakeup(w)
  BY <1>3, <1>6 DEF SpuriousWakeup, Leaves, mainVars, Added
<1>7. CASE AddTask
  <2>1. CASE next < SpecialRoots
    <3> DEFINE t == <<next, next + 1>>
               w == next % Threads
    <3>1. /\ main = "add" /\ main' = "signal"
          /\ threadQueue' = [threadQueue EXCEPT ![w] = Append(@, t)]
          /\ UNCHANGED <<next, start_index, task, ran>>
      BY <1>7, <2>1 DEF AddTask, Push
    <3>2. w \in Workers
      BY <1>1, Remainders
    <3>3. t \in Tasks \ {NoTask}
      BY <1>1, <2>1 DEF Tasks, NoTask
    <3>4. \A r \in Roots : Holds(t, r) <=> r = next
      BY <1>1, <1>2 DEF Holds
    <3>5. \A r \in Roots : /\ Issued(r)' <=> Issued(r) \/ Holds(t, r)
                           /\ ~ (Issued(r) /\ Holds(t, r))
      BY <1>1, <1>2, <2>1, <3>1, <3>4 DEF Issued, Added
    <3>6. Issues(w, t)
      BY <3>1, <3>3, <3>5 DEF Issues
    <3> QED
      BY <3>2, <3>3, <3>6
  <2>2. CASE ~ (next < SpecialRoots)
    <3>1. Leaves
      BY <1>1, <1>7, <2>2 DEF AddTask, Leaves, Added
    <3> QED
      BY <3>1, <1>3
  <2> QED
    BY <2>1, <2>2
<1>8. CASE MainStep /\ ~ AddTask
  BY <1>1, <1>3, <1>8 DEF InRound, MainStep, AddTask, SignalTask, SetLockFree, TestComplete,
        WaitSleep, WakeMain, ResetWorker, ResetCounters, Leaves, Added
<1>9. CASE UNCHANGED vars
  BY <1>3, <1>9 DEF vars, mainVars, Leaves, Added
<1> QED
  BY <1>5, <1>6, <1>7, <1>8, <1>9 DEF Next

LEMMA DealtStep ==
    ASSUME Typed, Typed', Placed, Dealt, InRound, InRound', [Next]_vars
    PROVE  Dealt'
<1> SUFFICES ASSUME NEW r \in Roots
             PROVE  Once(r)' /\ (Issued(r)' <=> Somewhere(r)')
  BY DEF Dealt
<1>1. Once(r) /\ (Issued(r) <=> Somewhere(r))
  BY DEF Dealt
<1>2. /\ threadQueue \in [Workers -> Seq(Tasks \ {NoTask})]
      /\ task \in [Workers -> Tasks] /\ ran \in [Roots -> Nat] /\ ran[r] \in Nat
  BY DEF Typed
<1>3. ~ Holds(NoTask, r)
  BY Constants DEF Holds, NoTask, Roots
<1>4. CASE Passes
  BY <1>1, <1>4 DEF Passes, Once, Somewhere, HeldBy, At
<1>5. ASSUME NEW w \in Workers, Takes(w)
      PROVE  Once(r)' /\ (Issued(r)' <=> Somewhere(r)')
  <2> DEFINE n == Len(threadQueue[w])
  <2>1. /\ task' = [task EXCEPT ![w] = Last(threadQueue[w])]
        /\ threadQueue' = [threadQueue EXCEPT ![w] = Front(@)]
        /\ threadQueue[w] # <<>> /\ threadQueue[w] \in Seq(Tasks \ {NoTask})
        /\ task[w] = NoTask
    BY <1>2, <1>5 DEF Takes, Pop
  <2>2. /\ n \in Nat /\ n \in DOMAIN threadQueue[w]
        /\ Last(threadQueue[w]) = threadQueue[w][n]
        /\ \A i : i \in DOMAIN Front(threadQueue[w]) <=> i \in DOMAIN threadQueue[w] /\ i # n
        /\ \A i \in DOMAIN Front(threadQueue[w]) :
              Front(threadQueue[w])[i] = threadQueue[w][i]
    BY <2>1, QueueFront
  <2>3. \A x \in Workers : \A i \in Nat :
           At(x, i, r)' <=> At(x, i, r) /\ ~ (x = w /\ i = n)
    BY <1>2, <2>1, <2>2 DEF At
  <2>4. \A x \in Workers : HeldBy(x, r)' <=> IF x = w THEN At(w, n, r) ELSE HeldBy(x, r)
    BY <1>2, <2>1, <2>2 DEF HeldBy, At
  <2>5. ~ HeldBy(w, r)
    BY <1>3, <2>1 DEF HeldBy
  <2>6. ran' = ran /\ (Issued(r)' <=> Issued(r))
    BY <1>5 DEF Takes, Issued
  <2> HIDE DEF n
  <2>7. Once(r)'
    BY <1>1, <2>2, <2>3, <2>4, <2>5, <2>6 DEF Once
  <2>8. Somewhere(r)' <=> Somewhere(r)
    BY <2>2, <2>3, <2>4, <2>5, <2>6 DEF Somewhere
  <2> QED
    BY <1>1, <2>6, <2>7, <2>8
<1>6. ASSUME NEW w \in Workers, Runs(w)
      PROVE  Once(r)' /\ (Issued(r)' <=> Somewhere(r)')
  <2>1. \A x \in Workers : \A i \in Nat : At(x, i, r)' <=> At(x, i, r)
    BY <1>6 DEF Runs, At
  <2>2. \A x \in Workers : HeldBy(x, r)' <=> x # w /\ HeldBy(x, r)
    BY <1>2, <1>3, <1>6 DEF Runs, HeldBy
  <2>3. ran'[r] = IF HeldBy(w, r) THEN ran[r] + 1 ELSE ran[r]
    BY <1>6 DEF Runs
  <2>4. Issued(r)' <=> Issued(r)
    BY <1>6 DEF Runs, Issued
  <2>5. Once(r)'
    BY <1>1, <1>2, <2>1, <2>2, <2>3 DEF Once
  <2>6. Somewhere(r)' <=> Somewhere(r)
    BY <1>2, <2>1, <2>2, <2>3 DEF Somewhere
  <2> QED
    BY <1>1, <2>4, <2>5, <2>6
<1>7. ASSUME NEW w \in Workers, NEW t \in Tasks, Issues(w, t)
      PROVE  Once(r)' /\ (Issued(r)' <=> Somewhere(r)')
  <2> DEFINE n == Len(threadQueue[w]) + 1
  <2>1. /\ threadQueue' = [threadQueue EXCEPT ![w] = Append(@, t)]
        /\ t \in Tasks \ {NoTask} /\ UNCHANGED <<task, ran>>
        /\ threadQueue[w] \in Seq(Tasks \ {NoTask})
        /\ Issued(r)' <=> Issued(r) \/ Holds(t, r)
        /\ ~ (Issued(r) /\ Holds(t, r))
    BY <1>2, <1>7 DEF Issues
  <2>2. /\ n \in Nat /\ n \notin DOMAIN threadQueue[w]
        /\ \A i : i \in DOMAIN Append(threadQueue[w], t) <=> i \in DOMAIN threadQueue[w] \/ i = n
        /\ \A i \in DOMAIN threadQueue[w] : Append(threadQueue[w], t)[i] = threadQueue[w][i]
        /\ Append(threadQueue[w], t)[n] = t
    BY <2>1, QueueAppend
  <2>3. \A x \in Workers : \A i \in Nat :
           At(x, i, r)' <=> At(x, i, r) \/ (x = w /\ i = n /\ Holds(t, r))
    BY <1>2, <2>1, <2>2 DEF At
  <2>4. ~ At(w, n, r)
    BY <2>2 DEF At
  <2>5. \A x \in Workers : HeldBy(x, r)' <=> HeldBy(x, r)
    BY <2>1 DEF HeldBy
  <2> HIDE DEF n
  <2>6. Once(r)'
    <3>1. CASE Holds(t, r)
      <4>1. /\ ran[r] = 0
            /\ \A x \in Workers : ~ HeldBy(x, r)
            /\ \A x \in Workers : \A i \in Nat : ~ At(x, i, r)
        BY <1>1, <1>2, <2>1, <3>1 DEF Somewhere
      <4> QED
        BY <4>1, <2>1, <2>3, <2>5 DEF Once
    <3>2. CASE ~ Holds(t, r)
      BY <1>1, <2>1, <2>3, <2>5, <3>2 DEF Once
    <3> QED
      BY <3>1, <3>2
  <2>7. Somewhere(r)' <=> Somewhere(r) \/ Holds(t, r)
    BY <2>1, <2>2, <2>3, <2>5 DEF Somewhere
  <2> QED
    BY <1>1, <2>1, <2>6, <2>7
<1> QED
  BY <1>4, <1>5, <1>6, <1>7, RoundMoves

---------------------------------------------------------------------------
(***************************************************************************)
(* The invariant, and what it says.                                        *)
(***************************************************************************)
LEMMA InitIInv ==
    ASSUME Init
    PROVE  IInv
<1> USE Constants DEF Init
<1>1. Typed
  <2>1. NoTask \in Tasks /\ <<>> \in Seq(Tasks \ {NoTask})
    BY DEF Tasks, NoTask
  <2>2. "start" \in Labels /\ "add" \in MainLabels
    BY DEF Labels, Bare, MainLabels
  <2>3. 0 \in 0 .. WordSize - 1
    OBVIOUS
  <2>4. /\ threadQueue \in [Workers -> Seq(Tasks \ {NoTask})]
        /\ task \in [Workers -> Tasks] /\ pc \in [Workers -> Labels]
    BY <2>1, <2>2
  <2>5. /\ firstTime \in [Workers -> {0, 1}] /\ complete \in [Workers -> {0, 1}]
        /\ ran \in [Roots -> Nat] /\ lock_free \in BOOLEAN /\ sleepWaiter \in BOOLEAN
    OBVIOUS
  <2>6. /\ start_index \in Nat /\ SpecialRoots <= start_index
        /\ main \in MainLabels /\ next \in 0 .. SpecialRoots + Threads
        /\ main = "add" => next <= SpecialRoots
        /\ main # "signal" /\ main # "reset"
    BY <2>2
  <2>7. hasTaskWaiters \subseteq Workers
    OBVIOUS
  <2>8. m_sleep_threadNum \in 0 .. WordSize - 1 /\ m_activate_threadNum \in 0 .. WordSize - 1
    BY <2>3
  <2> QED
    BY <2>4, <2>5, <2>6, <2>7, <2>8 DEF Typed
<1>2. Fetching = {} /\ Active = {} /\ Sleepers = {} /\ Cardinality({}) = 0
  BY FS_EmptySet DEF Fetching, Active, Sleepers, Asleep
<1>3. Bounded
  <2>1. Increment * Threads \in Nat /\ Increment * 0 = 0
    BY Products
  <2> QED
    BY <1>2, <2>1 DEF Bounded
<1>4. Placed /\ Counted
  BY <1>2 DEF Placed, Counted, Bare, Asleep
<1>5. Dealt
  <2> SUFFICES ASSUME NEW r \in Roots
               PROVE  Once(r) /\ (Issued(r) <=> Somewhere(r))
    BY DEF Dealt
  <2>1. \A w \in Workers : ~ HeldBy(w, r) /\ \A i \in Nat : ~ At(w, i, r)
    BY DEF HeldBy, At, Holds, NoTask, Roots
  <2>2. r \in Nat /\ ran[r] = 0 /\ ~ Issued(r)
    BY DEF Roots, Issued, Added
  <2> QED
    BY <2>1, <2>2 DEF Once, Somewhere
<1> QED
  BY <1>1, <1>3, <1>4, <1>5 DEF IInv

LEMMA NextIInv ==
    ASSUME IInv, [Next]_vars
    PROVE  IInv'
<1>1. Typed /\ Bounded /\ (InRound => Placed /\ Counted /\ Dealt)
  BY DEF IInv
<1>2. Typed'
  <2>1. CASE UNCHANGED vars
    BY <1>1, <2>1 DEF vars, counters, flags, mainVars, Typed
  <2> QED
    BY <1>1, <2>1, WorkerTyped, MainTyped DEF Next
<1>3. Bounded'
  BY <1>1, <1>2, BoundedStep
<1>4. InRound' => InRound
  <2>1. CASE \E w \in Workers : WorkerStep(w) \/ SpuriousWakeup(w)
    BY <2>1 DEF WorkerStep, Start, Activate, PopOwn, Run, LookIndex, Fetch, HangUp, TellMain,
                WaitTask, Wake, SpuriousWakeup, mainVars, InRound
  <2>2. CASE MainStep
    BY <2>2 DEF MainStep, AddTask, SignalTask, SetLockFree, TestComplete, WaitSleep, WakeMain,
                ResetWorker, ResetCounters, InRound
  <2>3. CASE UNCHANGED vars
    BY <2>3 DEF vars, mainVars, InRound
  <2> QED
    BY <2>1, <2>2, <2>3 DEF Next
<1>5. InRound' => Placed' /\ Counted' /\ Dealt'
  BY <1>1, <1>2, <1>4, PlacedStep, CountedStep, DealtStep
<1> QED
  BY <1>2, <1>3, <1>5 DEF IInv

(***************************************************************************)
(* In every state the invariant holds, so it can be cited for a single     *)
(* state (AppExample::bfs_forest and wcc over Scheduler.cpp).              *)
(***************************************************************************)
THEOREM Invariant == Spec => []IInv
<1>1. Init => IInv
  BY InitIInv
<1>2. IInv /\ [Next]_vars => IInv'
  BY NextIInv
<1> QED
  BY <1>1, <1>2, PTL DEF Spec

(***************************************************************************)
(* However the workers interleave, no root is processed twice in a round:  *)
(* the ranges that __sync_fetch_and_add hands out never overlap, and a     *)
(* range is in one queue or with one worker (parallel_push_pop).           *)
(***************************************************************************)
THEOREM RootTakenOnce == Spec => []RootOnce
<1>1. IInv => RootOnce
  BY DEF IInv, Dealt, Once, RootOnce
<1> QED
  BY <1>1, Invariant, PTL

LEMMA NothingLeftThen ==
    ASSUME Typed, Placed, Counted, Dealt, m_sleep_threadNum = Threads,
           \A w \in Workers : threadQueue[w] = <<>>,
           NEW r \in SpecialRoots .. MaxIndex - 1
    PROVE  ran[r] = 1
<1> USE Constants
<1>1. r \in Roots /\ r \in Nat /\ SpecialRoots <= r /\ r < MaxIndex
  BY DEF Roots
<1>2. Sleepers = Workers
  BY Counting DEF Counted, Sleepers
<1>3. \A w \in Workers : pc[w] \in Asleep
  BY <1>2 DEF Sleepers
<1>4. \A w \in Workers : task[w] = NoTask /\ start_index >= MaxIndex
  BY <1>3 DEF Placed, Bare
<1>5. Issued(r)
  <2>1. 0 \in Workers /\ start_index \in Nat
    BY DEF Workers, Typed
  <2> QED
    BY <1>1, <1>4, <2>1 DEF Issued
<1>6. \A w \in Workers : ~ HeldBy(w, r) /\ \A i \in Nat : ~ At(w, i, r)
  <2>1. \A w \in Workers : DOMAIN threadQueue[w] = {}
    OBVIOUS
  <2> QED
    BY <1>1, <1>4, <2>1 DEF HeldBy, At, Holds, NoTask
<1>7. ran[r] > 0 /\ ran[r] <= 1 /\ ran[r] \in Nat
  BY <1>1, <1>5, <1>6 DEF Dealt, Somewhere, Once, Typed
<1> QED
  BY <1>7

(***************************************************************************)
(* For any number of workers and roots: start_index stays within one       *)
(* Increment per worker of the last root, the counters that                *)
(* waitForComplete compares count the started and the sleeping workers     *)
(* without wrapping, and when all workers sleep over empty queues every    *)
(* root has been processed (Scheduler.cpp parallel_push_pop).              *)
(***************************************************************************)
THEOREM RoundTheorem == Spec => []RoundExact
<1>1. ASSUME IInv PROVE TypeOK
  <2>1. Typed /\ Bounded
    BY <1>1 DEF IInv
  <2>2. \A w \in Workers : ToSet(threadQueue[w]) \subseteq Tasks \ {NoTask}
    BY <2>1 DEF Typed, ToSet
  <2>3. start_index \in SpecialRoots .. MaxIndex + Threads * Increment
    <3>1. /\ Cardinality(Fetching) \in Nat /\ start_index \in Nat
          /\ start_index + Increment * Cardinality(Fetching) <= MaxIndex + Increment * Threads
          /\ SpecialRoots <= start_index
      BY <2>1, Counting DEF Fetching, Typed, Bounded
    <3>2. /\ Increment * Cardinality(Fetching) \in Nat /\ Increment * Threads \in Nat
          /\ Increment * Threads = Threads * Increment
      BY <3>1, Constants, Products
    <3> QED
      BY <3>1, <3>2, Constants
  <2> QED
    BY <2>1, <2>2, <2>3 DEF Typed, TypeOK
<1>2. ASSUME IInv PROVE CountersExact
  <2> SUFFICES ASSUME InRound
               PROVE  /\ m_activate_threadNum = Cardinality(Active)
                      /\ m_sleep_threadNum = Cardinality(Sleepers)
                      /\ m_sleep_threadNum <= m_activate_threadNum
    BY DEF CountersExact, Active, Sleepers, Asleep
  <2>1. Typed /\ Placed /\ Counted
    BY <1>2 DEF IInv
  <2>2. Sleepers \subseteq Active
    BY <2>1 DEF Sleepers, Active, Typed, Placed, Asleep
  <2>3. Cardinality(Sleepers) <= Cardinality(Active)
    <3>1. IsFiniteSet(Active)
      BY Counting DEF Active
    <3> QED
      BY <2>2, <3>1, FS_Subset
  <2> QED
    BY <2>1, <2>3 DEF Counted
<1>3. ASSUME IInv PROVE NothingLeft
  BY <1>3, NothingLeftThen DEF IInv, NothingLeft
<1>4. IInv => RoundExact
  BY <1>1, <1>2, <1>3 DEF RoundExact
<1> QED
  BY <1>4, Invariant, PTL
=============================================================================
