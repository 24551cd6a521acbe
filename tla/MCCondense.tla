---------------------------- MODULE MCCondense ----------------------------
(***************************************************************************)
(* Inputs for Condense: every graph on 0..maxID whose adjacency lists are  *)
(* sorted, and those on three vertices with every edge listed twice, each  *)
(* with its components listed upwards and downwards.  Upwards, a component *)
(* that holds vertex 0 lists it first.                                     *)
(***************************************************************************)
EXTENDS Condense

Lists(E) == [u \in Vertex |-> SetToSortSeq({v \in Vertex : <<u, v>> \in E}, <)]

Twice(g) == [u \in Vertex |-> [n \in 1 .. 2 * Len(g[u]) |-> g[u][(n + 1) \div 2]]]

\* The components of two or more vertices, the largest vertex's first or last.
Components(g, op(_, _)) ==
    LET classes == {{y \in Vertex : Mutual(g, x, y)} : x \in Vertex}
        lists == {SetToSortSeq(c, op) : c \in {d \in classes : Cardinality(d) > 1}}
    IN  SetToSortSeq(lists, LAMBDA a, b : op(a[1], b[1]))

MCCondenseInputs ==
    LET Edges(hi) == {e \in (0 .. hi) \X (0 .. hi) : e[1] # e[2]}
        graphs == {Lists(E) : E \in SUBSET Edges(maxID)}
                    \cup {Twice(Lists(E)) : E \in SUBSET Edges(2)}
    IN  UNION {{[adj |-> g, scc |-> Components(g, <)],
                [adj |-> g, scc |-> Components(g, >)]} : g \in graphs}
===========================================================================
