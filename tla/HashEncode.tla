---------------------------- MODULE HashEncode ----------------------------
(***************************************************************************)
(* HashID (Matrix/HashID.cpp): new ids for the vertices of a graph, so     *)
(* that what is reached from one root lies together, and the graph in      *)
(* these ids; BuildAdjGraph: that graph cut into buckets.                  *)
(*                                                                         *)
(* A graph g is a store with what HashID keeps beside it: maxID,           *)
(* maxFromID, indeg and outdeg.  An encoding e is the next id, the two     *)
(* maps between old and new ids (0: none), the marks of the two walks and  *)
(* the new ids of the roots.                                               *)
(***************************************************************************)
EXTENDS AdjConvert

CONSTANT LeftLimit      \* vertices DFS numbers without a walk, 10 in the code

Out(g, v) == getOffset(g.store, g.maxFromID, v)

zeroDegree(g, v) == g.indeg[v] = 0 /\ g.outdeg[v] = 0
both_in_and_out_vertex(g, v) == g.indeg[v] > 0 /\ g.outdeg[v] > 0

OrZero(roots) == IF roots = <<>> THEN <<0>> ELSE roots

\* The vertices without incoming edges, those with most successors first,
\* and the vertices without outgoing edges; vertex 0 where there are none.
get_root_vertices(g) ==
    OrZero(SetToSortSeq({v \in 0 .. g.maxID : g.indeg[v] = 0 /\ g.outdeg[v] > 0},
        LAMBDA a, b : g.outdeg[a] > g.outdeg[b]
                        \/ (g.outdeg[a] = g.outdeg[b] /\ a < b)))

---------------------------------------------------------------------------
(***************************************************************************)
(* The maps.  newID_mapto_oldID has maxID + 1 entries; a graph that uses   *)
(* all of 0 .. maxID takes one more, behind the end of the array.          *)
(***************************************************************************)
NewEncoding(g) ==
    [idcount |-> 1, roots |-> <<>>, aborted |-> FALSE,
     oldID_mapto_newID |-> [v \in 0 .. g.maxID |-> 0],
     newID_mapto_oldID |-> [n \in 0 .. g.maxID + 1 |-> 0],
     visited1 |-> {}, visited2 |-> {}]

isNewIDExist(e, v) == e.oldID_mapto_newID[v] # 0

\* setOld, setNew and the next id.
Numbered(e, v) ==
    [e EXCEPT !.oldID_mapto_newID[v] = e.idcount,
              !.newID_mapto_oldID[e.idcount] = v, !.idcount = @ + 1]

RootWritten(e, v) == [e EXCEPT !.roots = Append(@, e.oldID_mapto_newID[v])]

---------------------------------------------------------------------------
(***************************************************************************)
(* bfs_tree_builder: a breadth-first walk that writes for every vertex the *)
(* neighbours not yet visited.  A vertex may be a child of several.        *)
(***************************************************************************)
RECURSIVE TreeWalk(_, _, _, _)
TreeWalk(g, Q, visited, tree) ==
    IF Q = <<>> THEN [visited |-> visited, tree |-> tree]
    ELSE IF Head(Q) \in visited THEN TreeWalk(g, Tail(Q), visited, tree)
    ELSE LET v == Head(Q)
             seen == visited \cup {v}
             found == Out(g, v)
         IN  IF found = Null \/ found[1] # v THEN TreeWalk(g, Tail(Q), seen, tree)
             ELSE LET kids == SelectSeq(found[2], LAMBDA u : u \notin seen)
                  IN  TreeWalk(g, Tail(Q) \o kids, seen, (v :> kids) @@ tree)

bfs_tree_builder(g, root, visited) == TreeWalk(g, <<root>>, visited, <<>>)

\* A vertex is taken from the stack, and its children are pushed.
TreeNumber(e, S, tree) ==
    IF S[1] \in e.visited2 THEN e
    ELSE [Numbered(e, S[1]) EXCEPT !.visited2 = @ \cup {S[1]}]

\* dfs_forward_encode: the tree in depth-first order, first child first.
RECURSIVE TreeNumbered(_, _, _)
TreeNumbered(e, S, tree) ==
    IF S = <<>> THEN e
    ELSE LET next == TreeNumber(e, S, tree)
             kids == IF S[1] \in e.visited2 \/ S[1] \notin DOMAIN tree THEN <<>>
                     ELSE SelectSeq(tree[S[1]], LAMBDA u : u \notin next.visited2)
         IN  TreeNumbered(next, kids \o Tail(S), tree)

dfs_forward_encode(e, root, tree) == RootWritten(TreeNumbered(e, <<root>>, tree), root)

\* One root: nothing when it is visited; an empty tree file cannot be mapped.
EncodeRoot(g, e, root) ==
    LET walk == bfs_tree_builder(g, root, e.visited1)
    IN  IF walk.visited = e.visited1 \/ e.aborted THEN e
        ELSE IF walk.tree = <<>> THEN [e EXCEPT !.aborted = TRUE]
        ELSE dfs_forward_encode([e EXCEPT !.visited1 = walk.visited], root, walk.tree)

From(g) ==
    LET first == g.store.start_ID[1]
    IN  [n \in 1 .. g.maxID - first + 1 |-> first + n - 1]

\* The vertices of cycles that no root reaches.
EncodeRest(g, e0) ==
    FoldLeft(LAMBDA e, v :
                 IF ~isNewIDExist(e, v) /\ both_in_and_out_vertex(g, v)
                 THEN EncodeRoot(g, e, v) ELSE e, e0, From(g))

\* What is left, each a root of its own.
EncodeLeft(g, e0) ==
    FoldLeft(LAMBDA e, v :
                 IF ~isNewIDExist(e, v) /\ ~zeroDegree(g, v)
                 THEN RootWritten(Numbered(e, v), v) ELSE e, e0, From(g))

Encode(g) ==
    LET rooted == FoldLeft(LAMBDA e, v : EncodeRoot(g, e, v),
                           NewEncoding(g), get_root_vertices(g))
        rest == IF rooted.idcount < g.maxID THEN EncodeRest(g, rooted) ELSE rooted
    IN  IF rest.idcount < g.maxID /\ ~rest.aborted THEN EncodeLeft(g, rest) ELSE rest

---------------------------------------------------------------------------
(***************************************************************************)
(* DFS: the older numbering, where a vertex numbers its neighbours before  *)
(* it pushes them.  A walk ends the pass when at most LeftLimit vertices   *)
(* remain; maxID - leftLimit is unsigned and huge for a small graph.       *)
(***************************************************************************)
Enough(g, n) == g.maxID >= LeftLimit /\ n >= g.maxID - LeftLimit

Neighbours(g, v) == ListAt(Out(g, v))

\* The neighbours of v without an id are numbered and pushed, the last on top.
PushNew(e, S, list) ==
    FoldLeft(LAMBDA p, u :
                 IF isNewIDExist(p.e, u) THEN p
                 ELSE [e |-> Numbered(p.e, u), S |-> <<u>> \o p.S],
             [e |-> e, S |-> S], list)

\* visited1 is neighbors_visited; a vertex without a record is never marked.
RECURSIVE DfsWalk(_, _, _)
DfsWalk(g, e, S) ==
    IF S = <<>> THEN e
    ELSE LET v == S[1]
             own == IF isNewIDExist(e, v) THEN e ELSE Numbered(e, v)
             p == PushNew(own, Tail(S), Neighbours(g, v))
         IN  IF v \in e.visited1 \/ Out(g, v) = Null THEN DfsWalk(g, own, Tail(S))
             ELSE DfsWalk(g, [p.e EXCEPT !.visited1 = @ \cup {v}], p.S)

DfsRoot(g, e, v) == RootWritten(DfsWalk(g, e, <<v>>), v)

\* The first loop breaks once enough is numbered, after the root it is at.
DfsRoots(g, e0, roots) ==
    FoldLeft(LAMBDA e, v : IF e.roots # <<>> /\ Enough(g, e.idcount) THEN e
                           ELSE DfsRoot(g, e, v), e0, roots)

DfsRest(g, e0) ==
    FoldLeft(LAMBDA e, v :
                 IF Enough(g, e.idcount) \/ zeroDegree(g, v) \/ isNewIDExist(e, v)
                 THEN e ELSE DfsRoot(g, e, v), e0, From(g))

DFS(g) ==
    LET rooted == DfsRoots(g, NewEncoding(g), get_root_vertices(g))
        rest == DfsRest(g, rooted)
    IN  IF Enough(g, rest.idcount) THEN EncodeLeft(g, rest) ELSE rest

---------------------------------------------------------------------------
(***************************************************************************)
(* convertToRaw: every edge of the adjacency files in new ids.             *)
(***************************************************************************)
RECURSIVE Records(_)
Records(words) ==
    IF words = <<>> THEN <<>>
    ELSE <<<<words[1], SubSeq(words, 3, 2 + words[2])>>>>
           \o Records(SubSeq(words, 3 + words[2], Len(words)))

convertToRaw(g, e) ==
    LET records == Records(FlattenSeq(g.store.files))
        new == e.oldID_mapto_newID
    IN  FlattenSeq([n \in DOMAIN records |->
            [m \in DOMAIN records[n][2] |->
                <<new[records[n][1]], new[records[n][2][m]]>>]])

---------------------------------------------------------------------------
(***************************************************************************)
(* BuildAdjGraph::convertToAdj cuts the sorted pairs into buckets of about *)
(* the same length.  A cut moves on to the next source; it looks for one   *)
(* only while more than four pairs are left.                               *)
(***************************************************************************)
CutLength(size) == (size + (size % 2)) \div 2    \* pairs, for two buckets

\* Mutant: a bucket begins where its length ends.
CutAtLength(pairs, at, y) == [at |-> at, start |-> pairs[at][1]]

\* The first position after at with another source, or the last one tried;
\* y is the source read last, in this search or the one before.
CutAt(pairs, at, y) ==
    LET others == {n \in at + 1 .. Len(pairs) - 3 : pairs[n][1] # pairs[at][1]}
        cut == IF others # {} THEN CHOOSE n \in others : \A m \in others : n <= m
               ELSE Largest({at, Len(pairs) - 3})
    IN  [at |-> cut, start |-> IF cut = at THEN y ELSE pairs[cut][1]]

RECURSIVE CutsFrom(_, _, _)
CutsFrom(pairs, at, y) ==
    IF at > Len(pairs) THEN <<>>
    ELSE LET cut == CutAt(pairs, at, y)
         IN  <<cut>> \o CutsFrom(pairs, cut.at + CutLength(Len(pairs)), cut.start)

\* start_Pos and start_ID.
Cuts(pairs) ==
    <<[at |-> 1, start |-> pairs[1][1]]>>
      \o CutsFrom(pairs, 1 + CutLength(Len(pairs)), 0)

\* insertTask: the pairs of one bucket, a list for each source.
Bucket(pairs, b) ==
    LET cuts == Cuts(pairs)
        last == IF b = Len(cuts) THEN Len(pairs) ELSE cuts[b + 1].at - 1
    IN  SubSeq(pairs, cuts[b].at, last)

BucketList(pairs, b, v) ==
    LET own == SelectSeq(Bucket(pairs, b), LAMBDA e : e[1] = v)
    IN  [n \in DOMAIN own |-> own[n][2]]
===========================================================================
