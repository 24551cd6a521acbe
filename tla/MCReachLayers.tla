-------------------------- MODULE MCReachLayers --------------------------
(***************************************************************************)
(* Inputs for ReachLayers: every graph on 0..maxID whose edges go upwards, *)
(* every one whose edges go downwards (so that ids do not follow the       *)
(* topological order), and upward graphs on four vertices with every edge  *)
(* listed twice.                                                           *)
(***************************************************************************)
EXTENDS ReachLayers, SequencesExt

\* The edges from a smaller to a larger id among the vertices lo..hi.
UpPairs(lo, hi) == {e \in (lo .. hi) \X (lo .. hi) : e[1] < e[2]}

Flip(E) == {<<maxID - e[1], maxID - e[2]>> : e \in E}

FromPairs(E) ==
    [u \in Vertex |-> SetToSortSeq({v \in Vertex : <<u, v>> \in E}, <)]

\* Every edge of E listed twice, as the sort of the input keeps them.
TwiceFromPairs(E) ==
    LET g == FromPairs(E)
    IN  [u \in Vertex |-> [k \in 1 .. 2 * Len(g[u]) |-> g[u][(k + 1) \div 2]]]

MCGraphs ==
    LET Up == SUBSET UpPairs(0, maxID)
    IN  {FromPairs(E) : E \in Up \cup {Flip(E) : E \in Up}}
          \cup {TwiceFromPairs(E) : E \in SUBSET UpPairs(0, 3)}
===========================================================================
