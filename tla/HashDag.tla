------------------------------ MODULE HashDag ------------------------------
(***************************************************************************)
(* HashID (Matrix/HashID.cpp), the part behind pre_code: strongly          *)
(* connected components by two walks, the condensed graph, its vertices    *)
(* numbered tree by tree, the graph of the trees, and the answers to "does *)
(* x reach y" from both.  Each pass is a function of what the passes       *)
(* before it left; the module HashID puts them in order.                   *)
(*                                                                         *)
(* A graph g holds the adjacency stores of both directions; a DAG d holds  *)
(* the stores of the condensed graph and its degrees.                      *)
(***************************************************************************)
EXTENDS HashEncode

Succ(g, v) == ListAt(getOffset(g.store, g.maxFromID, v))
Pred(g, v) == ListAt(reverse_getOffset(g.reverse, g.maxFromID, v))

---------------------------------------------------------------------------
(***************************************************************************)
(* DFS_V: depth first, always to the first neighbour not visited; scc_tag  *)
(* takes a vertex when it is left.                                         *)
(***************************************************************************)
get_unvisited_neighbors(g, v, visited) ==
    SelectSeq(Succ(g, v), LAMBDA u : u \notin visited)

RECURSIVE PostOrder(_, _, _, _)
PostOrder(g, S, visited, scc_tag) ==
    IF S = <<>> THEN [visited |-> visited, scc_tag |-> scc_tag]
    ELSE LET next == get_unvisited_neighbors(g, S[1], visited)
         IN  IF next = <<>>
             THEN PostOrder(g, Tail(S), visited, Append(scc_tag, S[1]))
             ELSE PostOrder(g, <<next[1]>> \o S, visited \cup {next[1]}, scc_tag)

PostOrderFrom(g, w, v) ==
    IF zeroDegree(g, v) \/ v \in w.visited THEN w
    ELSE PostOrder(g, <<v>>, w.visited \cup {v}, w.scc_tag)

DFS_Fst(g) ==
    FoldLeft(LAMBDA w, v : PostOrderFrom(g, w, v),
             [visited |-> {}, scc_tag |-> <<>>], get_root_vertices(g) \o From(g)).scc_tag

\* reverse_DFS_V: what reaches v and is not visited, breadth first.
RECURSIVE Gather(_, _, _, _)
Gather(g, que, at, visited) ==
    IF at > Len(que) THEN que
    ELSE LET new == SelectSeq(Pred(g, que[at]), LAMBDA u : u \notin visited)
             first == SelectSeq([n \in DOMAIN new |-> <<n, new[n]>>],
                          LAMBDA p : \A m \in 1 .. p[1] - 1 : new[m] # p[2])
         IN  Gather(g, que \o [n \in DOMAIN first |-> first[n][2]], at + 1,
                    visited \cup ToSet(new))

reverse_DFS_V(g, v, visited) == Gather(g, <<v>>, 1, visited \cup {v})

\* find_max_scc_tag: the vertex left last of those not visited.
find_max_scc_tag(scc_tag, visited) ==
    LET open == SelectSeq(scc_tag, LAMBDA v : v \notin visited)
    IN  open[Len(open)]

\* The component is named after its first vertex, or the last if that is 0:
\* in scc_located 0 stands for "in no component".
FirstId(c) == IF c[1] = 0 THEN c[Len(c)] ELSE c[1]

\* DFS_Sec: the components of two or more vertices.
RECURSIVE Components(_, _, _)
Components(g, scc_tag, visited) ==
    IF ToSet(scc_tag) \subseteq visited THEN <<>>
    ELSE LET c == reverse_DFS_V(g, find_max_scc_tag(scc_tag, visited), visited)
             rest == Components(g, scc_tag, visited \cup ToSet(c))
         IN  IF Len(c) > 1 THEN <<c>> \o rest ELSE rest

DFS_Sec(g) == Components(g, DFS_Fst(g), {})

SccLocated(g, sccs) ==
    [v \in 0 .. g.maxID |->
        IF \E c \in DOMAIN sccs : v \in ToSet(sccs[c])
        THEN FirstId(sccs[CHOOSE c \in DOMAIN sccs : v \in ToSet(sccs[c])]) ELSE 0]

---------------------------------------------------------------------------
(***************************************************************************)
(* generate_DAG: a list for every id, its edges in a file of pairs, and    *)
(* the degrees.  b is the buffer tempEnt: the id, the place of the count   *)
(* (0), the list; is_existed looks at all of it.                           *)
(***************************************************************************)
is_existed(b, v) == v \in ToSet(b)

\* An edge to another component is kept once.
ComponentEdge(x, head) ==
    IF is_existed(x.b, head) THEN x
    ELSE [x EXCEPT !.b = Append(@, head), !.indeg[head] = @ + 1]

\* A vertex in no component.
PlainEdge(located, x, u) ==
    IF located[u] # 0 THEN ComponentEdge(x, located[u])
    ELSE [x EXCEPT !.b = Append(@, u)]

\* Mutant: an edge that is left out is still counted at its target.
SccEdgeUncounted(located, head, x, u) ==
    IF located[u] = 0
    THEN IF is_existed(x.b, u) THEN x ELSE [x EXCEPT !.b = Append(@, u)]
    ELSE IF located[u] = head THEN x
    ELSE ComponentEdge(x, located[u])

\* deal_with_scc: an edge that leaves the component of head.
SccEdge(located, head, x, u) ==
    IF located[u] = 0
    THEN IF is_existed(x.b, u) THEN [x EXCEPT !.indeg[u] = @ - 1]
         ELSE [x EXCEPT !.b = Append(@, u)]
    ELSE IF located[u] = head THEN x
    ELSE ComponentEdge(x, located[u])

Scan(g, sccs, located, v, indeg) ==
    LET x == [b |-> <<v, 0>>, indeg |-> indeg]
        own == CHOOSE c \in DOMAIN sccs : v \in ToSet(sccs[c])
        members == FlattenSeq([n \in DOMAIN sccs[own] |-> Succ(g, sccs[own][n])])
    IN  IF located[v] = 0
        THEN FoldLeft(LAMBDA y, u : PlainEdge(located, y, u), x, Succ(g, v))
        ELSE IF located[v] = v
        THEN FoldLeft(LAMBDA y, u : SccEdge(located, v, y, u), x, members)
        ELSE x

\* One vertex of the loop: its record, the pairs, the degrees.
DagVertex(g, sccs, located, d, v) ==
    LET x == Scan(g, sccs, located, v, d.indeg)
        list == SubSeq(x.b, 3, Len(x.b))
    IN  [d EXCEPT !.store = WriteRecord(@, v, Record(v, list)), !.indeg = x.indeg,
                  !.outdeg[v] = Len(list),
                  !.pairs = @ \o [n \in DOMAIN list |-> <<v, list[n]>>]]

\* generate_DAG_reverse_adj: the pairs by target, a record for every id.
generate_DAG_reverse_adj(pairs, maxID) ==
    LET in == InOrder(Turned(pairs))
        lead == WriteGap(EmptyStore(maxID), 0, in[1][1] - 1)
    IN  Finish(FoldLeft(Collect, Collecting(lead, in), in), maxID)

\* Sorter::sort cannot map a file without a pair.
generate_DAG(g, sccs) ==
    LET located == SccLocated(g, sccs)
        d0 == [store |-> EmptyStore(g.maxID), pairs |-> <<>>, maxID |-> g.maxID,
               indeg |-> [v \in 0 .. g.maxID |-> IF located[v] # 0 THEN 0 ELSE g.indeg[v]],
               outdeg |-> g.outdeg, located |-> located]
        d == FoldLeft(LAMBDA x, v : DagVertex(g, sccs, located, x, v), d0, From(g))
    IN  IF d.pairs = <<>> THEN [d |-> d, aborted |-> TRUE]
        ELSE [d |-> ("reverse" :> generate_DAG_reverse_adj(d.pairs, g.maxID)) @@ d,
              aborted |-> FALSE]

DAG_getOffset(d, v) ==
    IF v < d.store.start_ID[1] \/ d.store.index[v][1] = 0 THEN Null ELSE Found(d.store, v)
DAG_reverse_getOffset(d, v) ==
    IF v < d.store.start_ID[1] \/ d.reverse.index[v][1] = 0 THEN Null
    ELSE Found(d.reverse, v)

DagSucc(d, v) == ListAt(DAG_getOffset(d, v))
DagPred(d, v) == ListAt(DAG_reverse_getOffset(d, v))

get_forward_root_vertices(d) ==
    OrZero(SetToSortSeq({v \in 0 .. d.maxID : d.indeg[v] = 0 /\ d.outdeg[v] > 0},
        LAMBDA a, b : d.outdeg[a] > d.outdeg[b]
                        \/ (d.outdeg[a] = d.outdeg[b] /\ a < b)))
---------------------------------------------------------------------------
(***************************************************************************)
(* mark_cross_vertices: a breadth-first walk from each root in turn; a     *)
(* vertex met again from another root is a cross vertex.  m holds the      *)
(* root of every vertex visited (tmpvalue_arr) and the cross vertices.     *)
(***************************************************************************)
CrossEdge(m, root, u) ==
    IF u \notin DOMAIN m.root
    THEN [m EXCEPT !.root = (u :> root) @@ @, !.que = Append(@, u)]
    ELSE IF m.root[u] # root THEN [m EXCEPT !.cross = @ \cup {u}]
    ELSE m

RECURSIVE CrossWalk(_, _, _)
CrossWalk(d, root, m) ==
    IF m.que = <<>> THEN m
    ELSE CrossWalk(d, root,
             FoldLeft(LAMBDA x, u : CrossEdge(x, root, u),
                      [m EXCEPT !.que = Tail(@)], DagSucc(d, m.que[1])))

MarkFrom(d, m, root) ==
    IF root \in DOMAIN m.root THEN m
    ELSE CrossWalk(d, root,
             [m EXCEPT !.root = (root :> root) @@ @, !.que = <<root>>])

mark_cross_vertices(d, roots) ==
    FoldLeft(LAMBDA m, v : MarkFrom(d, m, v),
             [root |-> <<>>, cross |-> {}, que |-> <<>>], roots).cross

---------------------------------------------------------------------------
(***************************************************************************)
(* The numbering of dfs_code and construct_newGraph.  A child is pushed    *)
(* when its last incoming edge is met.  An edge to a cross vertex is not   *)
(* followed.  An edge to a child that still waits is an exception.  A      *)
(* numbering r: the next id, both maps, the degrees, the marks, the        *)
(* exceptions <<new id, old id>>, the cross edges <<root, cross vertex>>.  *)
(***************************************************************************)
NewNumbering(d) ==
    [idcount |-> 1, indeg |-> d.indeg, visited |-> {}, excp |-> <<>>, cross |-> <<>>,
     new |-> [v \in 0 .. d.maxID |-> 0], old |-> [n \in 0 .. d.maxID + 1 |-> 0],
     tree |-> [n \in 0 .. d.maxID + 1 |-> 0], firsts |-> <<>>]

TreeEdge(cross, root, v, x, u) ==
    LET r == [x.r EXCEPT !.indeg[u] = IF @ > 0 THEN @ - 1 ELSE 0]
    IN  IF u \in cross THEN [x EXCEPT !.r = [r EXCEPT !.cross = Append(@, <<root, u>>)]]
        ELSE IF u \in r.visited THEN [x EXCEPT !.r = r]
        ELSE IF r.indeg[u] > 0
        THEN [x EXCEPT !.r = [r EXCEPT !.excp = Append(@, <<r.new[v], u>>)]]
        ELSE [r |-> r, S |-> <<u>> \o x.S]

RECURSIVE NumberTree(_, _, _, _, _)
NumberTree(d, cross, root, r, S) ==
    IF S = <<>> THEN r
    ELSE LET v == S[1]
             own == [r EXCEPT !.visited = @ \cup {v}, !.new[v] = r.idcount,
                              !.old[r.idcount] = v, !.tree[r.idcount] = Len(r.firsts),
                              !.idcount = @ + 1]
             x == FoldLeft(LAMBDA y, u : TreeEdge(cross, root, v, y, u),
                           [r |-> own, S |-> Tail(S)], DagSucc(d, v))
         IN  NumberTree(d, cross, root, x.r, x.S)

\* The tree of one root; firsts is newGraph_id.
NumberRoot(d, cross, r, root) ==
    IF root \in r.visited THEN r
    ELSE NumberTree(d, cross, root, [r EXCEPT !.firsts = Append(@, r.idcount)], <<root>>)

NumberRoots(d, cross, r, roots) ==
    FoldLeft(LAMBDA x, v : NumberRoot(d, cross, x, v), r, roots)

\* Vertex 0 stands for "no root" when it has no list or is itself entered.
NoRoot(d, roots) ==
    Len(roots) = 1 /\ (d.outdeg[roots[1]] = 0 \/ d.indeg[roots[1]] > 0)

MainNumbering(d, cross, roots) ==
    IF NoRoot(d, roots) THEN NewNumbering(d)
    ELSE NumberRoots(d, cross, NewNumbering(d), roots)

\* cross_collector and deal_with_cross_vertex: cross vertices in ascending order.
cross_collector(d, cross, r) ==
    IF r.cross = <<>> THEN r
    ELSE NumberRoots(d, cross, r, SetToSortSeq(cross, <))

---------------------------------------------------------------------------
(***************************************************************************)
(* construct_excp_id: the exceptions in groups of one source, by number.   *)
(* excp_located knows only the groups of the main numbering.               *)
(***************************************************************************)
RECURSIVE Grouped(_)
Grouped(pairs) ==
    IF pairs = <<>> THEN <<>>
    ELSE LET rest == Grouped(Tail(pairs))
             own == <<Head(pairs)[1], <<Head(pairs)[2]>>>>
         IN  IF rest # <<>> /\ rest[1][1] = own[1]
             THEN <<<<own[1], own[2] \o rest[1][2]>>>> \o Tail(rest)
             ELSE <<own>> \o rest

construct_excp_id(excp) == Grouped(excp)

\* The largest new id below v: cross vertices and listed exceptions are not
\* entered.  In posttranv_tree, listed is what is_exceptions finds.
RECURSIVE posttranv_tree(_, _, _, _, _)
posttranv_tree(d, r, cross, listed, v) ==
    LET below == {u \in ToSet(DagSucc(d, v)) \ cross : <<r.new[v], u>> \notin listed}
    IN  Largest({r.new[v]} \cup {posttranv_tree(d, r, cross, listed, u) : u \in below})

\* idtag by old id.
Tags(d, r, cross, listed) ==
    [v \in 0 .. d.maxID |->
        IF r.new[v] = 0 THEN 0 ELSE posttranv_tree(d, r, cross, listed, v)]

\* deal_with_excp: the target of an exception becomes a root unless the
\* interval of the source holds it.
deal_with_excp(r, groups, tag) ==
    LET pairs == FlattenSeq([n \in DOMAIN groups |->
                     [m \in DOMAIN groups[n][2] |-> <<groups[n][1], groups[n][2][m]>>]])
        bad == SelectSeq(pairs, LAMBDA p :
                   tag[r.old[p[1]]] < tag[p[2]] \/ p[1] > r.new[p[2]])
    IN  FoldLeft(LAMBDA s, p : IF p[2] \in ToSet(s) THEN s ELSE Append(s, p[2]), <<>>, bad)

---------------------------------------------------------------------------
(***************************************************************************)
(* construct_newGraph: all vertices numbered again, now with every root    *)
(* known; construct_newGraph_adj: for each tree the roots of the trees its *)
(* edges enter.                                                            *)
(***************************************************************************)
construct_newGraph(d, cross, roots, new_graph_root) ==
    LET r == MainNumbering(d, cross, roots)
    IN  IF r.cross = <<>> THEN r ELSE NumberRoots(d, cross, r, new_graph_root)

construct_newGraph_adj(r) ==
    [t \in DOMAIN r.firsts |->
        LET own == SelectSeq(r.cross, LAMBDA p : r.tree[r.new[p[1]]] = t)
        IN  FoldLeft(LAMBDA s, p : IF r.new[p[2]] \in ToSet(s) THEN s
                                   ELSE Append(s, r.new[p[2]]), <<>>, own)]

(***************************************************************************)
(* dfs_code.  A file without exceptions, or without cross edges, is empty  *)
(* and cannot be mapped: the program stops there.                          *)
(***************************************************************************)
dfs_code(d) ==
    LET roots == get_forward_root_vertices(d)
        cross == mark_cross_vertices(d, roots)
        main == MainNumbering(d, cross, roots)
        all == cross_collector(d, cross, main)
        groups == construct_excp_id(all.excp)
        located == Len(construct_excp_id(main.excp))
        tag == Tags(d, all, cross, ToSet(main.excp))
        made == deal_with_excp(all, SubSeq(groups, 1, located), tag)
        root_file == roots \o (IF main.cross = <<>> THEN <<>> ELSE SetToSortSeq(cross, <)) \o made
        cross2 == cross \cup ToSet(made)
        r == construct_newGraph(d, cross2, roots, root_file)
    IN  IF all.excp = <<>> \/ r.cross = <<>> THEN [aborted |-> TRUE]
        ELSE [aborted |-> FALSE, r |-> r, newGraph |-> construct_newGraph_adj(r),
              idtag |-> Tags(d, r, cross2, {}), late |-> Len(groups) > located]

---------------------------------------------------------------------------
(***************************************************************************)
(* The answers, for new ids.                                               *)
(***************************************************************************)
tree_reach(c, x, y) == x <= y /\ c.idtag[c.r.old[x]] >= c.idtag[c.r.old[y]]

\* By tree: is the tree with root id2 entered from the one with root id1?
RECURSIVE newGraph_reachable(_, _, _)
newGraph_reachable(c, id1, id2) ==
    \/ id1 = id2
    \/ \E n \in ToSet(c.newGraph[c.r.tree[id1]]) : newGraph_reachable(c, n, id2)

\* Mutant: every tree that x's tree enters is taken to be entered by x.
find_reach_path_any(d, c, x, y) ==
    \E id \in ToSet(c.newGraph[c.r.tree[x]]) :
        newGraph_reachable(c, id, c.r.firsts[c.r.tree[y]])

find_reach_path(d, c, x, y) ==
    \E id \in ToSet(c.newGraph[c.r.tree[x]]) :
        /\ newGraph_reachable(c, id, c.r.firsts[c.r.tree[y]])
        /\ \E p \in ToSet(DagPred(d, c.r.old[id])) :
              /\ c.r.tree[c.r.new[p]] = c.r.tree[x]
              /\ tree_reach(c, x, c.r.new[p])

vertices_reachability(d, c, x, y) ==
    IF c.r.tree[x] = c.r.tree[y] THEN tree_reach(c, x, y)
    ELSE find_reach_path(d, c, x, y)
===========================================================================
