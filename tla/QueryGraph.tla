----------------------------- MODULE QueryGraph -----------------------------
(***************************************************************************)
(* From the patterns of a query to its plan: TripleBit/                    *)
(* QuerySemanticAnalysis.cpp finds the variables that join patterns,       *)
(* TripleBit/PlanGenerator.cpp orders them breadth first from the most     *)
(* selective one, tells trees from graphs with a cycle, and chooses for    *)
(* every pattern the lookup that fills its buffer.                         *)
(*                                                                         *)
(* A pattern is [s, p, o], each a term [var, id]; patterns are numbered    *)
(* from 1 (the code's tripleNodeID is one less).  A query is               *)
(* [patterns, projection, filters]: filters are the variables that the     *)
(* filters of the text name, for no filter is ever applied.  A lookup is   *)
(* named by the columns of its buffer: FINDSOBYP is <<"s", "o">>.          *)
(***************************************************************************)
EXTENDS Integers, Sequences, FiniteSets, SequencesExt, FiniteSetsExt

Variable(v) == [var |-> TRUE, id |-> v]
Const(c) == [var |-> FALSE, id |-> c]

Dims == <<"s", "p", "o">>
Free(tp) == {d \in ToSet(Dims) : tp[d].var}
VarsOf(tp) == {tp[d].id : d \in Free(tp)}
Indices(s) == [i \in DOMAIN s |-> i]

PushNew(seq, v) == IF Contains(seq, v) THEN seq ELSE Append(seq, v)

\* isUnused of a subquery: no filter and no other pattern names the variable.
isUnused(q, i, v) ==
    /\ v \notin q.filters
    /\ \A j \in DOMAIN q.patterns \ {i} : v \notin VarsOf(q.patterns[j])

\* isUnused of a query graph, which the projection can name it in as well.
isUnusedInGraph(q, i, v) == v \notin ToSet(q.projection) /\ isUnused(q, i, v)

(***************************************************************************)
(* collectJoinVariables: the variables of more than one pattern, or of the *)
(* only pattern, in the order of the text.                                 *)
(***************************************************************************)
Joining(q, i, d) ==
    /\ q.patterns[i][d].var
    /\ ~ isUnused(q, i, q.patterns[i][d].id) \/ Len(q.patterns) = 1

collectJoinVariables(q) ==
    LET Of(vars, i) ==
            FoldLeft(LAMBDA vs, d : IF Joining(q, i, d)
                                    THEN PushNew(vs, q.patterns[i][d].id) ELSE vs,
                     vars, Dims)
    IN  FoldLeft(Of, <<>>, Indices(q.patterns))

\* appear_tpnodes of a variable: the patterns it is in, and where.
appear(q, v) ==
    LET In(i) == SelectSeq(Dims, LAMBDA d : q.patterns[i][d] = Variable(v))
    IN  FlattenSeq([i \in DOMAIN q.patterns |->
            [k \in DOMAIN In(i) |-> [tid |-> i, dim |-> In(i)[k]]]])

\* encodeJoinVariableEdges: one edge for each pattern two variables share.
joinEdges(q, vars) ==
    LET Shared(a, b) ==
            FlattenSeq([k \in DOMAIN appear(q, a) |->
                [l \in 1 .. Cardinality({m \in DOMAIN appear(q, b) :
                                appear(q, b)[m].tid = appear(q, a)[k].tid}) |->
                    [from |-> a, to |-> b]]])
        From(i) == FlattenSeq([j \in 1 .. Len(vars) - i |->
                                  Shared(vars[i], vars[i + j])])
    IN  FlattenSeq([i \in DOMAIN vars |-> From(i)])

-----------------------------------------------------------------------------
\* generateSelectivity: a variable's patterns with the most selective first
\* (fewer than 17 are sorted by insertion, which is stable).
bySelectivity(tpnodes, sel) ==
    LET order == SortSeq(Indices(tpnodes), LAMBDA k, l :
                    \/ sel[tpnodes[k].tid] < sel[tpnodes[l].tid]
                    \/ sel[tpnodes[k].tid] = sel[tpnodes[l].tid] /\ k < l)
    IN  [k \in DOMAIN tpnodes |-> tpnodes[order[k]]]

\* getJoinType, as the set of the places a variable takes.
getJoinType(tpnodes) == {tpnodes[k].dim : k \in DOMAIN tpnodes}

(***************************************************************************)
(* The root: the first variable that is a predicate here and a subject or  *)
(* an object there, or else the first with the least selectivity.          *)
(***************************************************************************)
rootOf(q, vars, sel) ==
    LET mixed == {k \in DOMAIN vars :
                    getJoinType(appear(q, vars[k])) \in {{"s", "p"}, {"o", "p"}}}
        best(k) == sel[bySelectivity(appear(q, vars[k]), sel)[1].tid]
        least == {k \in DOMAIN vars : \A l \in DOMAIN vars : best(k) <= best(l)}
    IN  vars[IF mixed # {} THEN Min(mixed) ELSE Min(least)]

\* The root changes places with the first join variable.
RootFirst(vars, root) ==
    [k \in DOMAIN vars |-> IF k = 1 THEN root
                           ELSE IF vars[k] = root THEN vars[1] ELSE vars[k]]

getAdjVariableByID(edges, v) ==
    FlattenSeq([k \in DOMAIN edges |->
        (IF edges[k].to = v THEN <<edges[k].from>> ELSE <<>>)
        \o (IF edges[k].from = v THEN <<edges[k].to>> ELSE <<>>)])

\* Mutant: the edge to the parent counts as a cycle.
DiscoverBack(b, edges, v, parent) ==
    LET adj == getAdjVariableByID(edges, v)
        See(c, n) == IF n \notin ToSet(c.order)
                     THEN [c EXCEPT !.order = Append(@, n), !.found = TRUE,
                                    !.queue = Append(@, <<n, v>>)]
                     ELSE [c EXCEPT !.cyclic = TRUE]
        c == FoldLeft(See, [b EXCEPT !.found = FALSE], adj)
    IN  IF adj = <<>> \/ c.found THEN c ELSE [c EXCEPT !.leafNodes = Append(@, v)]

(***************************************************************************)
(* bfsTraverseVariableNode.  One step takes the variable at the front of   *)
(* the queue, or, when it is empty, starts at the next that was not        *)
(* visited; so there are as many steps as variables.  A neighbour that was *)
(* visited and is not the parent makes the graph CYCLIC; a variable that   *)
(* discovers no other is a leaf, but for one without neighbours.           *)
(***************************************************************************)
Discover(b, edges, v, parent) ==
    LET adj == getAdjVariableByID(edges, v)
        See(c, n) == IF n \notin ToSet(c.order)
                     THEN [c EXCEPT !.order = Append(@, n), !.found = TRUE,
                                    !.queue = Append(@, <<n, v>>)]
                     ELSE [c EXCEPT !.cyclic = @ \/ n # parent]
        c == FoldLeft(See, [b EXCEPT !.found = FALSE], adj)
    IN  IF adj = <<>> \/ c.found THEN c ELSE [c EXCEPT !.leafNodes = Append(@, v)]

bfsTraverseVariableNode(vars, edges) ==
    LET Unvisited(b) == SelectSeq(vars, LAMBDA v : v \notin ToSet(b.order))
        Started(b) == IF b.queue # <<>> THEN b
                      ELSE [b EXCEPT !.order = Append(@, Unvisited(b)[1]),
                                     !.queue = <<<<Unvisited(b)[1], 0>>>>]
        Step(b0, k) ==
            LET b == Started(b0)
            IN  Discover([b EXCEPT !.queue = Tail(@)], edges,
                         Head(b.queue)[1], Head(b.queue)[2])
    IN  FoldLeft(Step, [order |-> <<>>, queue |-> <<>>, leafNodes |-> <<>>,
                        cyclic |-> FALSE, found |-> FALSE],
                 Indices(vars))

-----------------------------------------------------------------------------
(***************************************************************************)
(* generateScanOperator, for the join variable that reaches the pattern    *)
(* first: <<>> is NOOP.                                                    *)
(***************************************************************************)
generateScanOperator(q, i, varID) ==
    LET tp == q.patterns[i]
        unused == {d \in Free(tp) : isUnusedInGraph(q, i, tp[d].id)}
        Only(D) == <<CHOOSE d \in D : TRUE>>
        Starting(a, b) == IF tp[a] = Variable(varID) THEN <<a, b>> ELSE <<b, a>>
    IN  CASE Free(tp) = unused \/ Cardinality(Free(tp) \ unused) = 3 -> <<>>
          [] Cardinality(unused) = 2    -> Only(Free(tp) \ unused)
          [] unused = {"s"}             -> IF tp.o.var THEN <<"o">> ELSE <<"p">>
          [] unused = {"p"}             -> IF tp.o.var THEN <<"o">> ELSE <<"s">>
          [] unused = {"o"}             -> IF tp.p.var THEN <<"p">> ELSE <<"s">>
          [] Cardinality(Free(tp)) = 1  -> Only(Free(tp))
          [] Free(tp) = {"p", "o"}      -> Starting("p", "o")
          [] OTHER                      -> Starting("s", CHOOSE d \in Free(tp) : d # "s")

\* Mutant: the lookup of a pattern is chosen again for every variable it has.
LastReached(q, order, i) ==
    Max({k \in DOMAIN order : order[k] \in VarsOf(q.patterns[i])})

\* The join variable that reaches a pattern: the first of the plan.
FirstReached(q, order, i) ==
    Min({k \in DOMAIN order : order[k] \in VarsOf(q.patterns[i])})

(***************************************************************************)
(* generatePlan.  scan is the lookup of each pattern; a pattern that no    *)
(* join variable reaches never gets one.                                   *)
(***************************************************************************)
generatePlan(q, sel) ==
    LET vars == collectJoinVariables(q)
        bfs  == bfsTraverseVariableNode(RootFirst(vars, rootOf(q, vars, sel)),
                                        joinEdges(q, vars))
        reached == {i \in DOMAIN q.patterns :
                        VarsOf(q.patterns[i]) \cap ToSet(vars) # {}}
    IN  [order |-> bfs.order, leafNodes |-> bfs.leafNodes, cyclic |-> bfs.cyclic,
         tpnodes |-> [v \in ToSet(vars) |-> bySelectivity(appear(q, v), sel)],
         scan |-> [i \in reached |->
                    generateScanOperator(q, i, bfs.order[FirstReached(q, bfs.order, i)])]]

-----------------------------------------------------------------------------
(***************************************************************************)
(* What the executor asks of a pattern with a lookup (TripleBitQuery.cpp). *)
(***************************************************************************)
getVariableCount(plan, i) == Len(plan.scan[i])

\* getVariablePos: the column of a variable; anything that is not the first
\* column of two is taken for the second.
getVariablePos(q, plan, v, i) ==
    IF Len(plan.scan[i]) = 1 \/ q.patterns[i][plan.scan[i][1]].id = v THEN 1 ELSE 2

\* The variables of the columns.
ColumnVars(q, plan, i) ==
    [c \in DOMAIN plan.scan[i] |-> q.patterns[i][plan.scan[i][c]].id]

(***************************************************************************)
(* insertVarID: the variables a pattern adds to a row of results when it   *)
(* is joined by key (NoKey: the first pattern); the column of the key,     *)
(* from 1; and the variable it is sorted by.                               *)
(***************************************************************************)
NoKey == 0

insertVarID(q, plan, key, idvec, i) ==
    LET cols == ColumnVars(q, plan, i)
        at   == {c \in DOMAIN cols : cols[c] = key}
    IN  [vars |-> idvec \o SelectSeq(cols, LAMBDA v : v # key),
         ret  |-> IF at = {} \/ Len(cols) = 1 THEN 1 ELSE Max(at),
         sort |-> IF Len(cols) = 1 THEN cols[1] ELSE key]

\* generateResultPos: where a row of results has the projection; past its end
\* when it has not.
generateResultPos(idvec, projection) ==
    [k \in DOMAIN projection |->
        Min({i \in DOMAIN idvec : idvec[i] = projection[k]} \cup {Len(idvec) + 1})]

\* generateVerifyPos: the first two places of one variable; <<>> if none.
generateVerifyPos(idvec) ==
    LET twice == {i \in DOMAIN idvec : \E j \in DOMAIN idvec : i < j /\ idvec[i] = idvec[j]}
        i == Min(twice)
    IN  IF twice = {} THEN <<>>
        ELSE <<i, Min({j \in DOMAIN idvec : i < j /\ idvec[i] = idvec[j]})>>
=============================================================================
