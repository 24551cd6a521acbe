-------------------------- MODULE NonSharedLayers --------------------------
(***************************************************************************)
(* What the layering promises: the graph is peeled layer by layer.  The    *)
(* sources of what is left (vertices without a predecessor in it) are the  *)
(* roots of the next layer; a vertex that exactly one source reaches joins *)
(* that source's non-shared graph, and a vertex two sources reach waits    *)
(* for a later layer.  "disjoint non-shared graphs, among which there are  *)
(* no common vertices, and cross edges" (README.md of the repository).     *)
(***************************************************************************)
EXTENDS AdjGraph

VARIABLES
    graph,      \* the input
    remaining,  \* the vertices no layer has taken yet
    region,     \* root of the non-shared graph of a vertex, plus one; 0: none
    depth       \* how many layers were peeled

peelVars == <<graph, remaining, region, depth>>

Source(A) == {r \in A : \A u \in A : r \notin Succ(graph, u)}

Owners(A, v) == {r \in Source(A) : ReachableIn(graph, A, r, v)}

NonShared(A) == {v \in A : Cardinality(Owners(A, v)) = 1}

PeelInit ==
    /\ graph \in [Vertex -> Seq(Vertex)] /\ Acyclic(graph)
    /\ remaining = Vertex
    /\ region = [v \in Vertex |-> 0]
    /\ depth = 0

Peel ==
    /\ remaining # {}
    /\ region' = [v \in Vertex |->
                    IF v \in NonShared(remaining)
                    THEN 1 + CHOOSE r \in Owners(remaining, v) : TRUE
                    ELSE region[v]]
    /\ remaining' = remaining \ NonShared(remaining)
    /\ depth' = depth + 1
    /\ UNCHANGED graph

PeelSpec == PeelInit /\ [][Peel]_peelVars
===========================================================================
