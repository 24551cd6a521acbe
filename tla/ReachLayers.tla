--------------------------- MODULE ReachLayers ---------------------------
(***************************************************************************)
(* The first half of reach::construct_index (Matrix/reach.cpp): the roots, *)
(* the topological scan of pre_process, and the loop that re-roots the     *)
(* crossed vertices layer after layer with pre_process_cross.  One step is *)
(* one out-edge of the scans, one root of a layer, or one loop boundary.   *)
(*                                                                         *)
(* The in-degree counters are unsigned in the code and integers here: they *)
(* would wrap exactly where a counter below becomes negative, which        *)
(* NoUnderflow excludes.  Vertex sets such as root_arr are sequences       *)
(* counted from 1.                                                         *)
(***************************************************************************)
EXTENDS AdjGraph

CONSTANT Graphs     \* the adjacency functions an execution may start from

ASSUME MaxIDAssumption == maxID \in Nat

\* The index is defined on acyclic graphs only.
ASSUME GraphsAssumption ==
    \A g \in Graphs : g \in [Vertex -> Seq(Vertex)] /\ Acyclic(g)

VARIABLES
    graph,           \* the adjacency lists (DAG, global_DAG_index)
    pc,              \* where construct_index is
    indeg,           \* globalDegree[].indeg
    curInDegree,     \* in-edges still to come from vertices of this round
    nextInDegree,    \* the same, being counted for the next round
    cross,           \* cross_vertices_arr: reached from two regions
    cross_id,        \* the vertices two regions touched directly
    root_located,    \* root of the vertex's region plus one, 0 if none
    root_layer,      \* the layer of a root
    temp_root_arr,   \* the roots of all layers
    TopoOrder,       \* the order of the first scan
    TopoOrder_cross, \* the order of the scan of the current layer
    Ldown,           \* longest distance from a root, counted from 1
    layer,           \* the batch counter of pre_process
    count,           \* oldID_mapto_newID_count: the current layer
    i, j,            \* the vertex and the out-edge being scanned
    vectorsize       \* the end of the current batch

scanVars == <<cross, cross_id, root_located>>
rootVars == <<root_layer, temp_root_arr, count>>
topoVars == <<indeg, TopoOrder, Ldown, layer>>
vars == <<graph, pc, indeg, curInDegree, nextInDegree, cross, cross_id,
          root_located, root_layer, temp_root_arr, TopoOrder,
          TopoOrder_cross, Ldown, layer, count, i, j, vectorsize>>

Zero == [v \in Vertex |-> 0]
None == [v \in Vertex |-> FALSE]

Elems(s) == {s[k] : k \in 1 .. Len(s)}

---------------------------------------------------------------------------
(***************************************************************************)
(* init_degree and the roots.                                              *)
(***************************************************************************)
\* Mutant: parallel edges count once, as in a graph without duplicates.
InDegreeDistinct(g) ==
    [v \in Vertex |-> Cardinality({u \in Vertex : v \in Succ(g, u)})]

InDegree(g) ==
    [v \in Vertex |-> Cardinality({s \in Slot(g) : Target(g, s) = v})]

\* The start vertices; vertex 0 stands in when every vertex has an in-edge.
ForwardRoots ==
    LET R == {v \in Vertex : indeg[v] = 0}
    IN  IF R = {} THEN {0} ELSE R

\* qsort by descending out-degree leaves equal vertices in any order.
RootOrders ==
    {s \in [1 .. Cardinality(ForwardRoots) -> ForwardRoots] :
        /\ Elems(s) = ForwardRoots
        /\ \A a, b \in DOMAIN s :
              a < b => /\ s[a] # s[b]
                       /\ Len(graph[s[a]]) >= Len(graph[s[b]])}

Init ==
    /\ graph \in Graphs
    /\ pc = "roots"
    /\ indeg = InDegree(graph)
    /\ curInDegree = Zero /\ nextInDegree = Zero
    /\ cross = None /\ cross_id = <<>>
    /\ root_located = Zero /\ root_layer = Zero /\ temp_root_arr = <<>>
    /\ TopoOrder = <<>> /\ TopoOrder_cross = <<>>
    /\ Ldown = Zero /\ layer = 1 /\ count = 1
    /\ i = 1 /\ j = 1 /\ vectorsize = 0

\* get_forward_root_vertices and the loop over root_arr in construct_index.
ReadRoots ==
    /\ pc = "roots"
    /\ \E roots \in RootOrders :
          /\ temp_root_arr' = roots
          /\ TopoOrder' = roots
          /\ vectorsize' = Len(roots)
    /\ Ldown' = [v \in Vertex |-> IF v \in ForwardRoots THEN 1 ELSE 0]
    /\ root_located' = [v \in Vertex |-> IF v \in ForwardRoots THEN v + 1 ELSE 0]
    /\ root_layer' = [v \in Vertex |-> IF v \in ForwardRoots THEN count ELSE 0]
    /\ layer' = layer + 1
    /\ pc' = "pre_process"
    /\ UNCHANGED <<graph, indeg, curInDegree, nextInDegree, cross, cross_id,
                   TopoOrder_cross, count, i, j>>

---------------------------------------------------------------------------
(***************************************************************************)
(* The body both scans share: what the edge u -> v does to v.  A crossed u *)
(* crosses v; an uncrossed u of another region crosses v and remembers it; *)
(* an uncrossed u claims a vertex no region has.                           *)
(***************************************************************************)
Spread(u, v) ==
    /\ cross[u]
    /\ cross' = [cross EXCEPT ![v] = TRUE]
    /\ root_located' = [root_located EXCEPT ![v] = 0]
    /\ UNCHANGED cross_id

\* Mutant: the meeting of two regions is not noticed.
MeetNever(u, v) ==
    /\ ~cross[u] /\ ~cross[v]
    /\ root_located[v] \notin {0, root_located[u]}
    /\ UNCHANGED scanVars

Meet(u, v) ==
    /\ ~cross[u] /\ ~cross[v]
    /\ root_located[v] \notin {0, root_located[u]}
    /\ cross' = [cross EXCEPT ![v] = TRUE]
    /\ cross_id' = Append(cross_id, v)
    /\ root_located' = [root_located EXCEPT ![v] = 0]

Claim(u, v) ==
    /\ ~cross[u] /\ ~cross[v]
    /\ root_located[v] = 0
    /\ root_located' = [root_located EXCEPT ![v] = root_located[u]]
    /\ UNCHANGED <<cross, cross_id>>

Settled(u, v) ==
    /\ ~cross[u]
    /\ cross[v] \/ (root_located[v] # 0 /\ root_located[v] = root_located[u])
    /\ UNCHANGED scanVars

ScanEdge(u, v) == Spread(u, v) \/ Meet(u, v) \/ Claim(u, v) \/ Settled(u, v)

\* nextInDegree[v]++ happens only below a crossed vertex.
Counted(deg, u, v) == IF cross[u] THEN [deg EXCEPT ![v] = @ + 1] ELSE deg

---------------------------------------------------------------------------
(***************************************************************************)
(* pre_process.  Its parameter nextInDegree is bound to curInDegree.       *)
(***************************************************************************)
PreEdge ==
    /\ pc = "pre_process"
    /\ i <= vectorsize /\ j <= Len(graph[TopoOrder[i]])
    /\ LET u == TopoOrder[i]
           v == graph[u][j]
       IN  /\ indeg' = [indeg EXCEPT ![v] = @ - 1]
           /\ ScanEdge(u, v)
           /\ curInDegree' = Counted(curInDegree, u, v)
           /\ IF indeg[v] = 1
              THEN /\ TopoOrder' = Append(TopoOrder, v)
                   /\ Ldown' = [Ldown EXCEPT ![v] = layer]
              ELSE UNCHANGED <<TopoOrder, Ldown>>
    /\ j' = j + 1
    /\ UNCHANGED <<graph, pc, nextInDegree, rootVars, TopoOrder_cross, layer,
                   i, vectorsize>>

PreVertex ==
    /\ pc = "pre_process"
    /\ i <= vectorsize /\ j > Len(graph[TopoOrder[i]])
    /\ i' = i + 1 /\ j' = 1
    /\ UNCHANGED <<graph, pc, curInDegree, nextInDegree, scanVars, rootVars,
                   topoVars, TopoOrder_cross, vectorsize>>

\* Mutant: the level is not advanced between batches.
PreBatchSameLevel ==
    /\ pc = "pre_process"
    /\ i > vectorsize /\ vectorsize # Len(TopoOrder)
    /\ vectorsize' = Len(TopoOrder)
    /\ UNCHANGED <<graph, pc, curInDegree, nextInDegree, scanVars, rootVars,
                   topoVars, TopoOrder_cross, i, j>>

PreBatch ==
    /\ pc = "pre_process"
    /\ i > vectorsize /\ vectorsize # Len(TopoOrder)
    /\ vectorsize' = Len(TopoOrder)
    /\ layer' = layer + 1
    /\ UNCHANGED <<graph, pc, curInDegree, nextInDegree, scanVars, rootVars,
                   indeg, TopoOrder, Ldown, TopoOrder_cross, i, j>>

\* Mutant: the scan waits for a batch that never comes.
PreEndLate ==
    /\ pc = "pre_process"
    /\ i > vectorsize + 1 /\ vectorsize = Len(TopoOrder)
    /\ pc' = "next_layer"
    /\ UNCHANGED <<graph, curInDegree, nextInDegree, scanVars, rootVars,
                   topoVars, TopoOrder_cross, i, j, vectorsize>>

PreEnd ==
    /\ pc = "pre_process"
    /\ i > vectorsize /\ vectorsize = Len(TopoOrder)
    /\ pc' = "next_layer"
    /\ UNCHANGED <<graph, curInDegree, nextInDegree, scanVars, rootVars,
                   topoVars, TopoOrder_cross, i, j, vectorsize>>

---------------------------------------------------------------------------
(***************************************************************************)
(* One turn of `while(cross_id.size() != 0)`: the crossed vertices nothing *)
(* crossed points to are the roots of the layer, then pre_process_cross.   *)
(***************************************************************************)
LayerStart ==
    /\ pc = "next_layer" /\ cross_id # <<>>
    /\ TopoOrder_cross' = <<>>
    /\ count' = count + 1
    /\ i' = 1
    /\ pc' = "layer_roots"
    /\ UNCHANGED <<graph, curInDegree, nextInDegree, scanVars, root_layer,
                   temp_root_arr, topoVars, j, vectorsize>>

\* Mutant: every crossed vertex becomes a root at once.
LayerRootUnguarded ==
    /\ pc = "layer_roots" /\ i <= Len(cross_id)
    /\ i' = i + 1
    /\ LET r == cross_id[i]
       IN  /\ temp_root_arr' = Append(temp_root_arr, r)
           /\ TopoOrder_cross' = Append(TopoOrder_cross, r)
           /\ root_located' = [root_located EXCEPT ![r] = r + 1]
           /\ root_layer' = [root_layer EXCEPT ![r] = count]
    /\ UNCHANGED <<graph, pc, curInDegree, nextInDegree, cross, cross_id,
                   count, topoVars, j, vectorsize>>

LayerRoot ==
    /\ pc = "layer_roots" /\ i <= Len(cross_id)
    /\ i' = i + 1
    /\ LET r == cross_id[i]
       IN  IF curInDegree[r] = 0
           THEN /\ temp_root_arr' = Append(temp_root_arr, r)
                /\ TopoOrder_cross' = Append(TopoOrder_cross, r)
                /\ root_located' = [root_located EXCEPT ![r] = r + 1]
                /\ root_layer' = [root_layer EXCEPT ![r] = count]
           ELSE UNCHANGED <<temp_root_arr, TopoOrder_cross, root_located,
                            root_layer>>
    /\ UNCHANGED <<graph, pc, curInDegree, nextInDegree, cross, cross_id,
                   count, topoVars, j, vectorsize>>

CrossStart ==
    /\ pc = "layer_roots" /\ i > Len(cross_id)
    /\ cross' = None
    /\ cross_id' = <<>>
    /\ i' = 1 /\ j' = 1
    /\ vectorsize' = Len(TopoOrder_cross)
    /\ pc' = "pre_process_cross"
    /\ UNCHANGED <<graph, curInDegree, nextInDegree, root_located, rootVars,
                   topoVars, TopoOrder_cross>>

CrossEdge ==
    /\ pc = "pre_process_cross"
    /\ i <= vectorsize /\ j <= Len(graph[TopoOrder_cross[i]])
    /\ LET u == TopoOrder_cross[i]
           v == graph[u][j]
       IN  /\ curInDegree' = [curInDegree EXCEPT ![v] = @ - 1]
           /\ ScanEdge(u, v)
           /\ nextInDegree' = Counted(nextInDegree, u, v)
           /\ TopoOrder_cross' = IF curInDegree[v] = 1
                                 THEN Append(TopoOrder_cross, v)
                                 ELSE TopoOrder_cross
    /\ j' = j + 1
    /\ UNCHANGED <<graph, pc, rootVars, topoVars, i, vectorsize>>

CrossVertex ==
    /\ pc = "pre_process_cross"
    /\ i <= vectorsize /\ j > Len(graph[TopoOrder_cross[i]])
    /\ i' = i + 1 /\ j' = 1
    /\ UNCHANGED <<graph, pc, curInDegree, nextInDegree, scanVars, rootVars,
                   topoVars, TopoOrder_cross, vectorsize>>

CrossBatch ==
    /\ pc = "pre_process_cross"
    /\ i > vectorsize /\ vectorsize # Len(TopoOrder_cross)
    /\ vectorsize' = Len(TopoOrder_cross)
    /\ UNCHANGED <<graph, pc, curInDegree, nextInDegree, scanVars, rootVars,
                   topoVars, TopoOrder_cross, i, j>>

\* The scan is over and construct_index swaps the two counter arrays.
CrossEnd ==
    /\ pc = "pre_process_cross"
    /\ i > vectorsize /\ vectorsize = Len(TopoOrder_cross)
    /\ curInDegree' = nextInDegree
    /\ nextInDegree' = curInDegree
    /\ pc' = "next_layer"
    /\ UNCHANGED <<graph, scanVars, rootVars, topoVars, TopoOrder_cross,
                   i, j, vectorsize>>

LayersEnd ==
    /\ pc = "next_layer" /\ cross_id = <<>>
    /\ pc' = "layered"
    /\ UNCHANGED <<graph, curInDegree, nextInDegree, scanVars, rootVars,
                   topoVars, TopoOrder_cross, i, j, vectorsize>>

Next ==
    \/ ReadRoots
    \/ PreEdge \/ PreVertex \/ PreBatch \/ PreEnd
    \/ LayerStart \/ LayerRoot \/ CrossStart
    \/ CrossEdge \/ CrossVertex \/ CrossBatch \/ CrossEnd
    \/ LayersEnd

\* One thread runs construct_index; nothing blocks it.
Spec == Init /\ [][Next]_vars /\ WF_vars(Next)

---------------------------------------------------------------------------
LoopTypes ==
    /\ pc \in {"roots", "pre_process", "next_layer", "layer_roots",
               "pre_process_cross", "layered"}
    /\ layer \in Nat /\ count \in Nat
    /\ i \in Nat \ {0} /\ j \in Nat \ {0} /\ vectorsize \in Nat

CounterTypes ==
    /\ indeg \in [Vertex -> Int]
    /\ curInDegree \in [Vertex -> Int] /\ nextInDegree \in [Vertex -> Int]

RegionTypes ==
    /\ cross \in [Vertex -> BOOLEAN] /\ cross_id \in Seq(Vertex)
    /\ root_located \in [Vertex -> 0 .. maxID + 1]
    /\ root_layer \in [Vertex -> Nat] /\ temp_root_arr \in Seq(Vertex)

OrderTypes ==
    /\ graph \in [Vertex -> Seq(Vertex)]
    /\ TopoOrder \in Seq(Vertex) /\ TopoOrder_cross \in Seq(Vertex)
    /\ Ldown \in [Vertex -> Nat]

TypeOK == LoopTypes /\ CounterTypes /\ RegionTypes /\ OrderTypes

(***************************************************************************)
(* The unsigned counters never wrap: `indeg --` and `curInDegree --` take  *)
(* from a counter that an earlier pass has raised for this very edge       *)
(* (reach.cpp:1519, 1581).                                                 *)
(***************************************************************************)
NoUnderflow ==
    \A v \in Vertex :
        indeg[v] >= 0 /\ curInDegree[v] >= 0 /\ nextInDegree[v] >= 0

(***************************************************************************)
(* TopoOrder is a topological order without repetition, and Ldown grows    *)
(* along every edge into it: cal_index walks it backwards and process      *)
(* answers "no" when Ldown[x] >= Ldown[y].                                 *)
(***************************************************************************)
TopoSorted ==
    /\ \A a, b \in 1 .. Len(TopoOrder) :
          TopoOrder[a] = TopoOrder[b] => a = b
    /\ \A b \in 1 .. Len(TopoOrder) : \A u \in Vertex :
          TopoOrder[b] \in Succ(graph, u) =>
              \E a \in 1 .. b - 1 :
                  TopoOrder[a] = u /\ Ldown[u] < Ldown[TopoOrder[b]]

(***************************************************************************)
(* The first scan reaches every vertex, and Ldown is the longest distance: *)
(* a vertex that is no root has a predecessor exactly one level above.     *)
(***************************************************************************)
ScanComplete ==
    pc \notin {"roots", "pre_process"} =>
        /\ Elems(TopoOrder) = Vertex
        /\ \A v \in Vertex :
              \/ Ldown[v] = 1 /\ \A u \in Vertex : v \notin Succ(graph, u)
              \/ \E u \in Vertex :
                    v \in Succ(graph, u) /\ Ldown[v] = Ldown[u] + 1

(***************************************************************************)
(* A finished scan leaves its counter array all zero, so that the swapped  *)
(* arrays, and cal_cross_degree after them, start from zero although       *)
(* nobody clears them.                                                     *)
(***************************************************************************)
Drained ==
    /\ pc = "next_layer" => nextInDegree = Zero
    /\ pc = "layered" => curInDegree = Zero

(***************************************************************************)
(* When the layering is done every vertex is in a region, and an edge      *)
(* stays in its region or goes to a strictly later layer: regions of one   *)
(* layer share no edge, which query relies on when layers are equal.       *)
(***************************************************************************)
LayerOf(v) == root_layer[root_located[v] - 1]

NoCrossEdges ==
    pc = "layered" =>
        /\ \A u \in Vertex : root_located[u] # 0
        /\ \A u \in Vertex : \A v \in Succ(graph, u) :
              \/ root_located[v] = root_located[u]
              \/ LayerOf(u) < LayerOf(v)

\* What a round of the layering leaves behind is fit for the next one and,
\* in the end, for the queries (reach.cpp construct_index).
Layered == NoUnderflow /\ Drained /\ NoCrossEdges

\* construct_index leaves the layering loop.
Terminates == <>(pc = "layered")

---------------------------------------------------------------------------
(***************************************************************************)
(* The layers the code has finished are the peeled layers of               *)
(* NonSharedLayers: a region becomes final at the end of the scan of its   *)
(* layer.                                                                  *)
(***************************************************************************)
Scanning == pc \in {"roots", "pre_process", "layer_roots", "pre_process_cross"}

Finished == IF Scanning THEN count - 1 ELSE count

Final(v) == root_located[v] # 0 /\ LayerOf(v) <= Finished

Layers == INSTANCE NonSharedLayers WITH
    remaining <- {v \in Vertex : ~Final(v)},
    region    <- [v \in Vertex |-> IF Final(v) THEN root_located[v] ELSE 0],
    depth     <- Finished

\* Every step of the code is a peeling of one whole layer or a stutter.
ImplementsPeeling == Layers!PeelSpec
===========================================================================
