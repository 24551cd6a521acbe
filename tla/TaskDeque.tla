----------------------------- MODULE TaskDeque -----------------------------
(***************************************************************************)
(* What a task queue promises: its owner takes the newest task, a thief    *)
(* takes a run of the oldest ones and leaves at least one, and each task   *)
(* that was put in is taken once.                                          *)
(***************************************************************************)
EXTENDS Integers, Sequences, SequencesExt

CONSTANT MaxTasks

VARIABLES
    tasks,  \* the tasks in the queue, the oldest first
    takes   \* how often each task has been taken

dequeVars == <<tasks, takes>>

DequeInit == tasks = <<>> /\ takes = [t \in 1 .. MaxTasks |-> 0]

Taken(batch) ==
    takes' = [t \in 1 .. MaxTasks |->
                 takes[t] + (IF t \in ToSet(batch) THEN 1 ELSE 0)]

Put(t) ==
    /\ t \notin ToSet(tasks) /\ takes[t] = 0
    /\ tasks' = Append(tasks, t)
    /\ UNCHANGED takes

TakeNewest ==
    /\ tasks # <<>>
    /\ Taken(<<Last(tasks)>>)
    /\ tasks' = Front(tasks)

TakeOldest(n) ==
    /\ n < Len(tasks)
    /\ Taken(SubSeq(tasks, 1, n))
    /\ tasks' = SubSeq(tasks, n + 1, Len(tasks))

Clear == tasks' = <<>> /\ UNCHANGED takes

DequeNext ==
    \/ \E t \in 1 .. MaxTasks : Put(t) \/ TakeOldest(t)
    \/ TakeNewest
    \/ Clear

DequeSpec == DequeInit /\ [][DequeNext]_dequeVars
===========================================================================
