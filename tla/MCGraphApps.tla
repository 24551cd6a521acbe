---------------------------- MODULE MCGraphApps ----------------------------
(***************************************************************************)
(* Pages of 80 bytes and two digits to a byte, so that two ids may fill a  *)
(* page.  The sweeps run over most choices of five lists among one that    *)
(* shares a page with others, one that shares it with small ones only, one *)
(* that leaves a page blank before it, and two that are longer than a      *)
(* page, in one bucket and in two.  The searches run over small forests    *)
(* numbered as HashID numbers them: a tree in the order of its root.       *)
(* The products are of lists of which two may be longer than a page, with  *)
(* a cache of three lists; the second power is made, and the third one.    *)
(***************************************************************************)
EXTENDS GraphApps

CONSTANTS w1, w2

Small == <<1>>
Mid   == <<2 ^ 29>>
Lone  == <<2 ^ 25, 2 ^ 26>>
Long  == <<2 ^ 21, 2 ^ 21 + 2 ^ 20, 2 ^ 22>>
Longer2 == <<2 ^ 27, 2 ^ 28, 3 * 2 ^ 27, 2 ^ 29>>

Kinds == {Small, Mid, Lone, Long, Longer2}

Sweeps ==
    {[app |-> a, lists |-> [v \in Vertex |-> IF v = 2 THEN <<>> ELSE l[v]],
      cuts |-> c, roots |-> {}, workers |-> {}] :
        a \in {"pagerank", "spmv", "tasks"},
        l \in {k \in [Vertex \ {2} -> Kinds] : k[6] \in {Small, Long}}, c \in {{1}, {1, 4}}}

Lists(E) == [u \in Vertex |-> SetToSortSeq({v \in Vertex : <<u, v>> \in E}, <)]

\* Three trees of roots 1, 3 and 5, whose edges may lead into earlier trees.
TreeEdges == {<<1, 2>>, <<3, 4>>}
CrossEdges == {<<3, 2>>, <<4, 1>>, <<5, 2>>, <<5, 4>>, <<2, 1>>}

Forest(a, E, w) ==
    [app |-> a, lists |-> Lists(TreeEdges \cup E), cuts |-> {1},
     roots |-> {1, 3, 5}, workers |-> w]

Forests ==
    {Forest(a, E, {w1}) : a \in {"forest", "wcc"}, E \in SUBSET CrossEdges} \cup
    {Forest(a, E, {w1, w2}) : a \in {"forest", "wcc"},
                              E \in {D \in SUBSET CrossEdges : Cardinality(D) <= 3}}

Both(E) == E \cup {<<e[2], e[1]>> : e \in E}

Serials ==
    {[app |-> "serial", lists |-> Lists(E), cuts |-> {Min({e[1] : e \in E})},
      roots |-> {}, workers |-> {}] :
        E \in {Both(D) : D \in SUBSET {<<1, 2>>, <<3, 4>>, <<2, 5>>, <<3, 5>>} \ {{}}}}

Two == {<<1>>, <<3, 4>>, <<1, 3, 5, 6>>}
TwoLong == {<<1>>, <<4, 5, 2 ^ 21, 2 ^ 21 + 2 ^ 20, 2 ^ 22>>}

Products ==
    {[app |-> "product", lists |-> [v \in Vertex |-> IF v = 2 THEN <<>> ELSE l[v]],
      cuts |-> c, roots |-> {}, workers |-> {}, times |-> t] :
        l \in {k \in [Vertex \ {2} -> Two \cup TwoLong] :
                \A v \in Vertex \ {2} : k[v] \in IF v \in {1, 5} THEN TwoLong ELSE Two},
        c \in {{1}, {1, 4}}, t \in {2, 3}}

\* The forests with one more root, which has an edge as well.
Graph(E) == Lists(TreeEdges \cup {<<6, 5>>} \cup E)

Searches ==
    {[app |-> "bfs", lists |-> i.lists, cuts |-> i.cuts, roots |-> {}, workers |-> {},
      from |-> v] : i \in Serials, v \in Vertex}
    \cup
    {[app |-> a, lists |-> Graph(E), cuts |-> c, roots |-> {1, 3, 5, 6}, workers |-> {}] :
        a \in {"bfs_forest", "visits"}, E \in SUBSET CrossEdges, c \in {{1}, {1, 3}}}
    \cup
    {[app |-> "bfs_forest", lists |-> Lists(E), cuts |-> {1, 4},
      roots |-> {1, 6}, workers |-> {}] :
        E \in {{<<1, 2>>, <<2, 3>>, <<1, 4>>, <<4, 5>>} \cup D : D \in SUBSET {<<5, 1>>, <<6, 3>>}}}
    \cup
    {[app |-> a, lists |-> Lists(E), cuts |-> {Min({e[1] : e \in E})},
      roots |-> {1, 2, 3}, workers |-> {}] :
        a \in {"bfs_forest", "visits"},
        E \in SUBSET {<<1, 4>>, <<1, 5>>, <<2, 4>>, <<2, 5>>, <<3, 6>>, <<4, 6>>} \ {{}}}

Tops ==
    {[app |-> "top", lists |-> [v \in Vertex |-> <<1>>], cuts |-> c, roots |-> {},
      workers |-> {}, values |-> f, num |-> n] :
        f \in [Vertex -> 0 .. 2], c \in {{1}}, n \in {3, 5}}
    \cup
    {[app |-> "top", lists |-> [v \in Vertex |-> <<1>>], cuts |-> {1, 4}, roots |-> {},
      workers |-> {}, values |-> f, num |-> 3] : f \in [Vertex -> 0 .. 2]}

MCInputs == Sweeps \cup Forests \cup Serials \cup Products \cup Searches \cup Tops
============================================================================
