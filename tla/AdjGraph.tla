----------------------------- MODULE AdjGraph -----------------------------
(***************************************************************************)
(* Directed graphs as the program keeps them: vertices 0..maxID, each with *)
(* an adjacency list that getOffset and DAG_getOffset return (the id, the  *)
(* count, then the successors in ascending order, duplicates kept).        *)
(***************************************************************************)
EXTENDS Integers, Sequences, FiniteSets

CONSTANT maxID      \* the largest vertex id

Vertex == 0 .. maxID

Succ(g, u) == {g[u][k] : k \in 1 .. Len(g[u])}

\* The places of the adjacency lists: one for every edge, parallel edges apart.
Slot(g) == UNION {{u} \X (1 .. Len(g[u])) : u \in Vertex}

Target(g, s) == g[s[1]][s[2]]

\* Every nonempty set of vertices has a member no other member points to.
Acyclic(g) ==
    \A S \in (SUBSET Vertex) \ {{}} : \E v \in S : \A u \in S : v \notin Succ(g, u)

\* S loses no successor that lies in A.
Closed(g, A, S) == \A u \in S : Succ(g, u) \cap A \subseteq S

(***************************************************************************)
(* v is reachable from r inside A: v is in every closed set that holds r.  *)
(* This is what reach::tranverse finds with a breadth-first search.        *)
(***************************************************************************)
ReachableIn(g, A, r, v) ==
    \A S \in SUBSET A : (r \in S /\ Closed(g, A, S)) => v \in S

Reachable(g, x, y) == ReachableIn(g, Vertex, x, y)
===========================================================================
