----------------------------- MODULE TaskQueue -----------------------------
(***************************************************************************)
(* One TaskQueue (Matrix/TaskQueue.cpp): a circular array that the main    *)
(* thread pushes to under the mutex, that its owner pushes to and pops     *)
(* from at the rear, under the mutex until main calls set_lock_free and    *)
(* without it afterwards, and that other workers steal batches from at the *)
(* front with a compare-and-swap and no lock.  One step is one access to   *)
(* front, rear, the size or the array that another thread could notice.    *)
(* Nothing keeps a steal apart from a push, a pop or another steal.        *)
(*                                                                         *)
(* clash is a history variable, no part of the code: it notes that one of  *)
(* the races that the code leaves open has been lost: Overtakes, CutOff,   *)
(* Outgrown, Freed, Reused.                                                *)
(***************************************************************************)
EXTENDS Integers, Sequences, FiniteSets, TLC

CONSTANTS
    Main, Owner, Thieves,   \* the threads
    NoOne,                  \* the owner of a free mutex
    InitSizes,              \* TASK_QUEUE_INIT_SIZE, 2^20 in the code
    MaxTasks                \* bound: how many tasks are pushed in all

ASSUME QueueAssumption ==
    /\ InitSizes \subseteq Nat \ {0, 1}
    /\ MaxTasks \in Nat
    /\ Main # Owner /\ {Main, Owner} \cap Thieves = {}
    /\ NoOne \notin {Main, Owner} \cup Thieves

Threads == {Main, Owner} \cup Thieves
Garbage == 0    \* a cell of malloc'ed memory that no task was stored to

VARIABLES
    task_circular_array,
    task_circular_array_size,
    front, rear,    \* _front and _rear
    mutex,          \* _sync_push_and_pop
    lock_free,      \* the scheduler's flag
    local,          \* where a thread is, and its local variables
    pushed,         \* how many tasks have been pushed
    takes,          \* how often each task has been taken, 2 for twice or more
    clash           \* history: some race has been lost

array == <<task_circular_array, task_circular_array_size>>
vars  == <<array, front, rear, mutex, lock_free, local, pushed, takes,
           clash>>

AtRest == [pc |-> "idle", item |-> Garbage, old_front |-> 0, old_rear |-> 0,
           old_size |-> 0, want |-> 0, new_front |-> 0]

Init ==
    /\ task_circular_array_size \in InitSizes
    /\ task_circular_array =
          [k \in 0 .. task_circular_array_size - 1 |-> Garbage]
    /\ front = 0 /\ rear = 0
    /\ mutex = NoOne /\ lock_free = FALSE
    /\ local = [a \in Threads |-> AtRest]
    /\ pushed = 0
    /\ takes = [t \in 0 .. MaxTasks |-> 0]
    /\ clash = FALSE

pc(a)          == local[a].pc
Goto(a, label) == local' = [local EXCEPT ![a].pc = label]
Return(a)      == local' = [local EXCEPT ![a] = AtRest]
Cell(k)        == task_circular_array[k]
Take(t)        == takes' = [takes EXCEPT ![t] = IF @ = 2 THEN 2 ELSE @ + 1]

\* the _with_lock and the _without_lock variants
Enter(a) == IF a = Owner /\ lock_free THEN UNCHANGED mutex
            ELSE mutex = NoOne /\ mutex' = a
Leave(a) == mutex' = IF mutex = a THEN NoOne ELSE mutex

\* A thief that has moved the front and has tasks of its batch to read.
Reading(t) == pc(t) \in {"take", "move"}

Unread(t) == {(local[t].old_front + k) % task_circular_array_size :
    k \in 0 .. ((local[t].new_front - local[t].old_front) %
                   task_circular_array_size) - 1}

---------------------------------------------------------------------------
(***************************************************************************)
(* taskQueue_push_with_lock and taskQueue_push_without_lock.               *)
(***************************************************************************)
PushBegin(a) ==
    /\ pc(a) = "idle"
    /\ a = Main => ~lock_free
    /\ pushed < MaxTasks
    /\ Enter(a)
    /\ pushed' = pushed + 1
    /\ local' = [local EXCEPT
           ![a].item = pushed + 1,
           ![a].old_front = front,
           ![a].pc = IF (rear + 1) % task_circular_array_size = front
                     THEN "expand" ELSE "store"]
    /\ UNCHANGED <<array, front, rear, lock_free, takes, clash>>

\* Mutant: the tasks before the rear are not moved behind the old array.
ExpandUnmoved(a) ==
    /\ pc(a) = "expand"
    /\ task_circular_array' =
          [k \in 0 .. 2 * task_circular_array_size - 1 |->
              IF k < task_circular_array_size THEN Cell(k) ELSE Garbage]
    /\ Goto(a, "grow")
    /\ UNCHANGED <<task_circular_array_size, front, rear, mutex, lock_free,
                   pushed, takes, clash>>

\* A thief reads a batch from the old array, which is freed.
Freed == \E t \in Thieves : Reading(t)

\* resize, or resizeAndMoveTasks when the tasks go round the end
Expand(a) ==
    /\ pc(a) = "expand"
    /\ LET n     == task_circular_array_size
           wraps == rear <= local[a].old_front
           moved == IF wraps THEN rear ELSE 0
       IN  /\ task_circular_array' =
                 [k \in 0 .. 2 * n - 1 |->
                     CASE k < n                 -> Cell(k)
                       [] k \in n .. n+moved-1  -> Cell(k - n)
                       [] OTHER                 -> Garbage]
           /\ rear' = IF wraps THEN rear + n ELSE rear
    /\ Goto(a, "grow")
    /\ clash' = (clash \/ Freed)
    /\ UNCHANGED <<task_circular_array_size, front, mutex, lock_free, pushed,
                   takes>>

Grow(a) ==
    /\ pc(a) = "grow"
    /\ task_circular_array_size' = 2 * task_circular_array_size
    /\ Goto(a, "store")
    /\ UNCHANGED <<task_circular_array, front, rear, mutex, lock_free, pushed,
                   takes, clash>>

\* The cell belongs to a batch that a thief has still to read.
Reused == \E t \in Thieves : Reading(t) /\ rear \in Unread(t)

\* nobody reads the cell before the rear has moved past it
Store(a) ==
    /\ pc(a) = "store"
    /\ task_circular_array' =
          [task_circular_array EXCEPT ![rear] = local[a].item]
    /\ rear' = (rear + 1) % task_circular_array_size
    /\ Leave(a) /\ Return(a)
    /\ clash' = (clash \/ Reused)
    /\ UNCHANGED <<task_circular_array_size, front, lock_free, pushed, takes>>

---------------------------------------------------------------------------
(***************************************************************************)
(* taskQueue_pop_with_lock and taskQueue_pop_without_lock.  A pop that     *)
(* finds the queue empty at once changes nothing.                          *)
(***************************************************************************)
PopBegin ==
    /\ pc(Owner) = "idle"
    /\ rear # front
    /\ Enter(Owner)
    /\ Goto(Owner, "dec")
    /\ UNCHANGED <<array, front, rear, lock_free, pushed, takes, clash>>

PopDec ==
    /\ pc(Owner) = "dec"
    /\ rear' = (rear - 1) % task_circular_array_size
    /\ Goto(Owner, "look")
    /\ UNCHANGED <<array, front, mutex, lock_free, pushed, takes, clash>>

PopLook ==
    /\ pc(Owner) = "look"
    /\ local' = [local EXCEPT
           ![Owner].old_front = front,
           ![Owner].pc = IF (rear - front) % task_circular_array_size = 0
                         THEN "last" ELSE "many"]
    /\ UNCHANGED <<array, front, rear, mutex, lock_free, pushed, takes, clash>>

\* the only task: the compare-and-swap writes the value it compares with
PopLast ==
    /\ pc(Owner) = "last"
    /\ IF front = local[Owner].old_front
       THEN front' = rear /\ Take(Cell(rear))
       ELSE UNCHANGED <<front, takes>>
    /\ Leave(Owner) /\ Return(Owner)
    /\ UNCHANGED <<array, rear, lock_free, pushed, clash>>

PopMany ==
    /\ pc(Owner) = "many"
    /\ IF rear # front THEN Take(Cell(rear)) ELSE UNCHANGED takes
    /\ Leave(Owner) /\ Return(Owner)
    /\ UNCHANGED <<array, front, rear, lock_free, pushed, clash>>

---------------------------------------------------------------------------
(***************************************************************************)
(* taskQueue_steal_batch.  The first task is run, the others go to the     *)
(* thief's own queue; both count as taken from this one.                   *)
(***************************************************************************)
ONE_THIRD(n) == n \div 3 + (IF n % 3 > 0 THEN 1 ELSE 0)

StealFront(t) ==
    /\ pc(t) = "idle"
    /\ local' = [local EXCEPT ![t].pc = "rear", ![t].old_front = front]
    /\ UNCHANGED <<array, front, rear, mutex, lock_free, pushed, takes, clash>>

StealRear(t) ==
    /\ pc(t) = "rear"
    /\ local' = [local EXCEPT ![t].pc = "size", ![t].old_rear = rear]
    /\ UNCHANGED <<array, front, rear, mutex, lock_free, pushed, takes, clash>>

\* the number of tasks the thief believes in, and those it will take
Believed(t, size) == (local[t].old_rear - local[t].old_front) % size
Wanted(t) == ONE_THIRD(Believed(t, local[t].old_size))

StealSize(t) ==
    /\ pc(t) = "size"
    /\ IF Believed(t, task_circular_array_size) > 1
       THEN local' = [local EXCEPT ![t].pc = "check",
                                   ![t].old_size = task_circular_array_size]
       ELSE Return(t)
    /\ UNCHANGED <<array, front, rear, mutex, lock_free, pushed, takes, clash>>

\* The size is compared with the live one, which is used if they differ; 0
\* marks that branch.
StealCheck(t) ==
    /\ pc(t) = "check"
    /\ local' = [local EXCEPT
           ![t].pc = "cas",
           ![t].want = Wanted(t),
           ![t].new_front = (local[t].old_front + Wanted(t)) %
                               task_circular_array_size,
           ![t].old_size = IF @ = task_circular_array_size THEN @ ELSE 0]
    /\ UNCHANGED <<array, front, rear, mutex, lock_free, pushed, takes, clash>>

\* The front is moved to or past the present rear: tasks that the owner has
\* popped meanwhile, or is about to pop, are in the batch.
Overtakes(t) == local[t].want >= (rear - front) % task_circular_array_size

\* The batch goes round the end: the loop that moves it does not begin.
CutOff(t) == local[t].want > 1 /\ local[t].new_front < front

\* The array is being replaced, or has been since the new front was computed.
Outgrown(t) ==
    \/ \E a \in {Main, Owner} : pc(a) \in {"expand", "grow"}
    \/ local[t].new_front # (front + local[t].want) % task_circular_array_size

StealCAS(t) ==
    /\ pc(t) = "cas"
    /\ IF front = local[t].old_front
       THEN /\ front' = local[t].new_front
            /\ Goto(t, "take")
            /\ clash' = (clash \/ Overtakes(t) \/ CutOff(t) \/ Outgrown(t))
       ELSE Return(t) /\ UNCHANGED <<front, clash>>
    /\ UNCHANGED <<array, rear, mutex, lock_free, pushed, takes>>

Following(t) == (local[t].old_front + 1) %
    (IF local[t].old_size = 0 THEN task_circular_array_size
     ELSE local[t].old_size)

\* the task the thief will run itself
StealTake(t) ==
    /\ pc(t) = "take"
    /\ Take(Cell(local[t].old_front))
    /\ local' = [local EXCEPT ![t].pc = "move", ![t].old_front = Following(t)]
    /\ UNCHANGED <<array, front, rear, mutex, lock_free, pushed, clash>>

\* the rest of the batch, `while(old_front < new_front_by_much)`
StealMove(t) ==
    /\ pc(t) = "move"
    /\ IF local[t].old_front < local[t].new_front
       THEN /\ Take(Cell(local[t].old_front))
            /\ local' = [local EXCEPT ![t].old_front = Following(t)]
       ELSE Return(t) /\ UNCHANGED takes
    /\ UNCHANGED <<array, front, rear, mutex, lock_free, pushed, clash>>

---------------------------------------------------------------------------
\* Scheduler::set_lock_free, once main has added its tasks
SetLockFree ==
    /\ pc(Main) = "idle" /\ ~lock_free
    /\ lock_free' = TRUE
    /\ UNCHANGED <<array, front, rear, mutex, local, pushed, takes, clash>>

\* reset, and the flag with it, at the end of a round
Reset ==
    /\ lock_free
    /\ \A a \in Threads : pc(a) = "idle"
    /\ front' = 0 /\ rear' = 0
    /\ lock_free' = FALSE
    /\ UNCHANGED <<array, mutex, local, pushed, takes, clash>>

Next ==
    \/ \E a \in {Main, Owner} :
           PushBegin(a) \/ Expand(a) \/ Grow(a) \/ Store(a)
    \/ PopBegin \/ PopDec \/ PopLook \/ PopLast \/ PopMany
    \/ \E t \in Thieves : \/ StealFront(t) \/ StealRear(t) \/ StealSize(t)
                          \/ StealCheck(t) \/ StealCAS(t)
                          \/ StealTake(t) \/ StealMove(t)
    \/ SetLockFree \/ Reset

Spec == Init /\ [][Next]_vars

---------------------------------------------------------------------------
Capacity == Cardinality(DOMAIN task_circular_array)

(***************************************************************************)
(* A task is taken once: the compare-and-swap on _front decides between a  *)
(* pop of the only task and a steal (TaskQueue.cpp:158,222).               *)
(***************************************************************************)
TakenOnce == \A t \in 1 .. MaxTasks : takes[t] <= 1

---------------------------------------------------------------------------
Cells(from, upto) == [k \in 1 .. (upto - from) % Capacity |->
                          Cell((from + k - 1) % Capacity)]

\* A pop that has moved the rear has not taken its task yet.
End == IF pc(Owner) \in {"look", "last", "many"}
       THEN (rear + 1) % task_circular_array_size ELSE rear

\* A thief that has moved the front still has to read its batch.
Pending == UNION {
    {Cells(local[t].old_front, local[t].new_front)[k] :
        k \in 1 .. (local[t].new_front - local[t].old_front) % Capacity} :
    t \in {s \in Thieves : pc(s) \in {"take", "move"}}}

Deque == INSTANCE TaskDeque WITH
    tasks <- Cells(front, End),
    takes <- [t \in 1 .. MaxTasks |->
                 takes[t] + (IF t \in Pending THEN 1 ELSE 0)]

(***************************************************************************)
(* As long as none of those races is lost, the circular array, its two     *)
(* ways of growing, the owner's change from the mutex to none and the      *)
(* compare-and-swap of thieves that overlap each other, pushes and pops    *)
(* implement the queue of TaskDeque: the owner takes the newest task, a    *)
(* thief a run of the oldest, each task once (TaskQueue.cpp:64-408).       *)
(***************************************************************************)
ImplementsDeque ==
    /\ Deque!DequeInit
    /\ [][~ clash' => [Deque!DequeNext]_(Deque!dequeVars)]_vars

---------------------------------------------------------------------------
\* Bounds of the checked instance.  Nothing is said of what follows a lost
\* race.  From an array of 3 cells that doubles, five tasks; from one of 5,
\* where a batch can go round the end, pushes of main alone and one thief at a
\* time.
Bounded ==
    /\ ~ clash
    /\ IF Capacity % 3 = 0 THEN pushed <= 5
       ELSE /\ pc(Owner) = "idle"
            /\ Cardinality({t \in Thieves : pc(t) # "idle"}) <= 1

AnyThief == Permutations(Thieves)
===========================================================================
