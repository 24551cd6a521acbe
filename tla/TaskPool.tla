------------------------------ MODULE TaskPool ------------------------------
(***************************************************************************)
(* What the thread pool promises its clients: every task added is run      *)
(* exactly once, by at most as many runners as there are workers, and      *)
(* Wait returns to a client only when every task that client added before  *)
(* is finished ("waiting for task complete!", ThreadPool.h:73).            *)
(***************************************************************************)
EXTENDS Integers, FiniteSets

CONSTANTS
    Clients,    \* the threads that add tasks and wait for them
    Workers,    \* the pool's threads
    MaxTasks    \* how many tasks a client adds

Tasks == Clients \X (1 .. MaxTasks)

VARIABLES
    queued,     \* tasks added and not yet started
    running,    \* the task each worker runs; <<>> when it runs none
    finished,   \* tasks completed
    returned    \* clients back from Wait that have not gone on yet

poolVars == <<queued, running, finished, returned>>

Own(c) == {t \in Tasks : t[1] = c}

PoolInit ==
    /\ queued = {} /\ finished = {} /\ returned = {}
    /\ running = [w \in Workers |-> <<>>]

Busy == {running[w] : w \in Workers}

Submit(t) ==
    /\ t \notin queued \cup finished \cup Busy
    /\ t[1] \notin returned
    /\ queued' = queued \cup {t}
    /\ UNCHANGED <<running, finished, returned>>

Start(w, t) ==
    /\ running[w] = <<>> /\ t \in queued
    /\ queued' = queued \ {t}
    /\ running' = [running EXCEPT ![w] = t]
    /\ UNCHANGED <<finished, returned>>

Finish(w) ==
    /\ running[w] # <<>>
    /\ finished' = finished \cup {running[w]}
    /\ running' = [running EXCEPT ![w] = <<>>]
    /\ UNCHANGED <<queued, returned>>

Join(c) ==
    /\ Own(c) \cap (queued \cup Busy) = {}
    /\ returned' = returned \cup {c}
    /\ UNCHANGED <<queued, running, finished>>

Resume(c) ==
    /\ returned' = returned \ {c}
    /\ UNCHANGED <<queued, running, finished>>

PoolNext ==
    \/ \E t \in Tasks : Submit(t) \/ \E w \in Workers : Start(w, t)
    \/ \E w \in Workers : Finish(w)
    \/ \E c \in Clients : Join(c) \/ Resume(c)

PoolSpec == PoolInit /\ [][PoolNext]_poolVars
===========================================================================
