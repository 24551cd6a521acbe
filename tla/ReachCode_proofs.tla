-------------------------- MODULE ReachCode_proofs --------------------------
(***************************************************************************)
(* construct_index up to the end of decode, for every acyclic input graph  *)
(* of any size.  The layering leaves the vertices in regions, each with    *)
(* one root; cal_cross_degree counts the edges inside the regions; decode  *)
(* numbers the vertices region by region, in a depth first order that      *)
(* follows the last edge into a vertex.  The state of a search is          *)
(* described over the sets of the vertices and of the edge places it has   *)
(* followed, with the arrays it writes as arguments, so that one lemma per *)
(* step says what the step does to them.                                   *)
(***************************************************************************)
EXTENDS ReachQuery, ReachLayers_proofs, WellFoundedInduction

\* The places of the edges into v that start in its region.
Inner(g, rt, v) == {s \in InSlots(g, v) : rt[s[1]] = rt[v]}

\* v is reached from u without leaving the region.
Within(g, rt, u, v) == ReachableIn(g, {w \in Vertex : rt[w] = rt[u]}, u, v)

\* The phases of construct_index: the layering, the two searches of the
\* roots, and the two walks against the topological order.
LayerPhase == {"roots", "pre_process", "next_layer", "layer_roots", "pre_process_cross", "layered"}
CountPhase == {"cal_cross_degree", "cal_cross_degree_edges"}
DecodePhase == {"decode", "decode_edges"}
Indexing == {"cal_index"}
LabelPhase == {"label_edges", "candidates", "is_reachable"}
Labelling == {"cal_excp_and_cross_arr"} \cup LabelPhase

---------------------------------------------------------------------------
(***************************************************************************)
(* The roots of all layers, and what the layering leaves behind.           *)
(***************************************************************************)
RootList(tra, rt, lay) ==
    /\ Distinct(tra)
    /\ \A v \in Elems(tra) : rt[v] = v + 1
    /\ \A a, b \in 1 .. Len(tra) : a <= b => lay[tra[a]] <= lay[tra[b]]

UpTo(tra, lay, n) == \A v \in Elems(tra) : lay[v] <= n

\* A vertex with a region is in that of a root, and is that root or has a
\* predecessor there.
Rooted(g, S, tra, rt) ==
    \A v \in S : /\ rt[v] - 1 \in Elems(tra)
                 /\ v \notin Elems(tra) => Inner(g, rt, v) # {}

\* The roots among what is left to be layered.
NewRoots(A, tra, T) == \A v \in A : v \in Elems(tra) <=> v \in T

RootsOf(A) ==
    /\ RootList(temp_root_arr, root_located, root_layer)
    /\ UpTo(temp_root_arr, root_layer, count)
    /\ Rooted(graph, Vertex \ A, temp_root_arr, root_located)
    /\ pc \in {"roots", "next_layer"} => NewRoots(A, temp_root_arr, {})
    /\ pc = "layer_roots" => NewRoots(A, temp_root_arr, Elems(TopoOrder_cross))
    /\ pc \in {"pre_process", "pre_process_cross"} =>
          NewRoots(A, temp_root_arr, SourcesIn(graph, A))

RootsInv == count \in Nat \ {0} /\ \E A \in SUBSET Vertex : RoundOf(A) /\ RootsOf(A)

\* What the layering leaves behind.
LaidOut(g, topo, ld, rt, lay, tra) ==
    /\ g \in [Vertex -> Seq(Vertex)] /\ topo \in Seq(Vertex) /\ tra \in Seq(Vertex)
    /\ rt \in [Vertex -> 1 .. maxID + 1] /\ lay \in [Vertex -> Nat] /\ ld \in [Vertex -> Nat]
    /\ Distinct(topo) /\ Elems(topo) = Vertex
    /\ \A b \in 1 .. Len(topo) : \A u \in Vertex :
          topo[b] \in Succ(g, u) => \E a \in 1 .. b - 1 : topo[a] = u
    /\ \A u \in Vertex : \A v \in Succ(g, u) : ld[u] < ld[v]
    /\ RootList(tra, rt, lay) /\ Rooted(g, Vertex, tra, rt)
    /\ \A u \in Vertex : \A v \in Succ(g, u) :
          rt[v] = rt[u] \/ lay[rt[u] - 1] < lay[rt[v] - 1]

Laid == LaidOut(graph, TopoOrder, Ldown, root_located, root_layer, temp_root_arr)

LEMMA ElemsVertex ==
    ASSUME NEW s \in Seq(Vertex), NEW v \in Elems(s)
    PROVE  v \in Vertex
BY ElementOfSeq DEF Elems

\* A region changes inside A only, and no root's: its list stays good.
LEMMA RootListKept ==
    ASSUME NEW A, NEW rt, NEW rt2, SameOutside(A, rt, rt2),
           NEW tra \in Seq(Vertex), NEW lay, RootList(tra, rt, lay),
           \A r \in A : r \in Elems(tra) => rt2[r] = r + 1
    PROVE  RootList(tra, rt2, lay)
<1>1. ASSUME NEW v \in Elems(tra) PROVE rt2[v] = v + 1
  <2>1. v \in Vertex /\ rt[v] = v + 1
    BY ElemsVertex DEF RootList
  <2> QED
    BY <2>1 DEF SameOutside
<1> QED
  BY <1>1 DEF RootList

\* Nothing leads out of A, so the regions of the others keep their edges.
LEMMA RootedKept ==
    ASSUME NEW g \in [Vertex -> Seq(Vertex)], NEW A \in SUBSET Vertex, NEW lay,
           NEW rt, NEW rt2, PeeledOff(g, A, rt, lay), SameOutside(A, rt, rt2),
           NEW tra, NEW tra2, Rooted(g, Vertex \ A, tra, rt),
           \A v \in Vertex : v \in Elems(tra) => v \in Elems(tra2),
           \A v \in Vertex \ A : v \in Elems(tra2) => v \in Elems(tra)
    PROVE  Rooted(g, Vertex \ A, tra2, rt2)
<1>1. SUFFICES ASSUME NEW v \in Vertex \ A
               PROVE  /\ rt2[v] - 1 \in Elems(tra2)
                      /\ v \notin Elems(tra2) => Inner(g, rt2, v) # {}
  BY DEF Rooted
<1>2. /\ rt[v] - 1 \in Elems(tra) /\ rt[v] - 1 \in Vertex
      /\ v \notin Elems(tra) => Inner(g, rt, v) # {}
  BY DEF Rooted, PeeledOff
<1>3. rt2[v] = rt[v]
  BY DEF SameOutside
<1>4. ASSUME NEW s \in Inner(g, rt, v) PROVE s \in Inner(g, rt2, v)
  <2>1. s \in InSlots(g, v) /\ rt[s[1]] = rt[v]
    BY DEF Inner
  <2>2. s \in Slot(g) /\ Target(g, s) = v
    BY <2>1 DEF InSlots
  <2>3. s[1] \in Vertex /\ v \in Succ(g, s[1])
    BY <2>2, SlotFields DEF Target, Succ
  <2>4. s[1] \notin A
    BY <2>3 DEF PeeledOff
  <2>5. rt2[s[1]] = rt[s[1]]
    BY <2>3, <2>4 DEF SameOutside
  <2> QED
    BY <1>3, <2>1, <2>5 DEF Inner
<1> QED
  BY <1>2, <1>3, <1>4

\* At the end of a round the uncrossed vertices are rooted, and no root is
\* among the crossed ones.
LEMMA EndRooted ==
    ASSUME NEW g \in [Vertex -> Seq(Vertex)], NEW A \in SUBSET Vertex, NEW cr, NEW cid,
           NEW rt, Done(g, A, cr, cid, rt), NEW B \in SUBSET Vertex,
           \A v \in Vertex : v \in B <=> cr[v], NoRegion(B, rt),
           NEW tra \in Seq(Vertex), NEW lay, RootList(tra, rt, lay),
           Rooted(g, Vertex \ A, tra, rt), NewRoots(A, tra, SourcesIn(g, A))
    PROVE  Rooted(g, Vertex \ B, tra, rt) /\ NewRoots(B, tra, {})
<1>1. PICK D : Painted(g, A, D, cr, cid, rt) /\ AllFrom(g, A, D)
  BY DEF Done
<1>2. ASSUME NEW v \in Vertex \ B
      PROVE  /\ rt[v] - 1 \in Elems(tra)
             /\ v \notin Elems(tra) => Inner(g, rt, v) # {}
  <2>1. CASE v \notin A
    BY <2>1 DEF Rooted
  <2>2. CASE v \in A
    <3>1. ~cr[v]
      BY <1>2
    <3>2. rt[v] # 0 /\ rt[v] - 1 \in SourcesIn(g, A)
      BY <1>1, <2>2, <3>1, EndRegion
    <3>3. rt[v] - 1 \in Elems(tra)
      BY <3>2 DEF NewRoots, SourcesIn
    <3>4. ASSUME v \notin Elems(tra) PROVE Inner(g, rt, v) # {}
      <4>1. v \notin SourcesIn(g, A)
        BY <2>2, <3>4 DEF NewRoots
      <4>2. PICK s \in D : Target(g, s) = v /\ rt[s[1]] = rt[v]
        BY <1>1, <2>2, <3>2, <4>1 DEF Painted, Regions
      <4>3. s \in Slot(g)
        BY <1>1, <4>2 DEF Painted, Ordered
      <4> QED
        BY <4>2, <4>3 DEF Inner, InSlots
    <3> QED
      BY <3>3, <3>4
  <2> QED
    BY <2>1, <2>2
<1>3. ASSUME NEW v \in B, v \in Elems(tra) PROVE FALSE
  <2>1. rt[v] = v + 1 /\ rt[v] = 0 /\ v \in Vertex
    BY <1>3 DEF RootList, NoRegion
  <2> QED
    BY <2>1, MaxIDAssumption DEF Vertex
<1> QED
  BY <1>2, <1>3 DEF Rooted, NewRoots

\* A root of a later layer joins the list.
LEMMA RootAdded ==
    ASSUME NEW tra \in Seq(Vertex), NEW rt \in [Vertex -> Int], NEW lay \in [Vertex -> Int],
           NEW n \in Int, RootList(tra, rt, lay), UpTo(tra, lay, n),
           NEW r \in Vertex, r \notin Elems(tra)
    PROVE  /\ RootList(Append(tra, r), [rt EXCEPT ![r] = r + 1], [lay EXCEPT ![r] = n])
           /\ UpTo(Append(tra, r), [lay EXCEPT ![r] = n], n)
<1> PICK tra2, rt2, lay2 :
         /\ tra2 = Append(tra, r) /\ rt2 = [rt EXCEPT ![r] = r + 1]
         /\ lay2 = [lay EXCEPT ![r] = n]
  OBVIOUS
<1>1. \A v : v \in Elems(tra2) <=> v \in Elems(tra) \/ v = r
  BY LongerElems
<1>2. Distinct(tra2)
  BY LongerDistinct DEF RootList
<1>3. ASSUME NEW v \in Elems(tra2)
      PROVE  /\ rt2[v] = v + 1 /\ lay2[v] <= n /\ lay2[v] \in Int
             /\ v = r => lay2[v] = n
             /\ v # r => lay2[v] = lay[v]
  <2>1. v \in Vertex
    BY <1>1, ElemsVertex
  <2> QED
    BY <1>1, <2>1 DEF RootList, UpTo
<1>4. /\ Len(tra) \in Nat /\ Len(tra2) = Len(tra) + 1 /\ tra2[Len(tra) + 1] = r
      /\ \A a \in 1 .. Len(tra) : tra2[a] = tra[a] /\ tra[a] # r
  BY AppendProperties DEF Elems
<1>5. ASSUME NEW a \in 1 .. Len(tra2), NEW b \in 1 .. Len(tra2), a <= b
      PROVE  lay2[tra2[a]] <= lay2[tra2[b]]
  <2>1. tra2[a] \in Elems(tra2) /\ tra2[b] \in Elems(tra2)
    BY DEF Elems
  <2>2. CASE b = Len(tra) + 1
    BY <1>3, <1>4, <2>1, <2>2
  <2>3. CASE b # Len(tra) + 1
    <3>1. a \in 1 .. Len(tra) /\ b \in 1 .. Len(tra)
      BY <1>4, <1>5, <2>3
    <3>2. lay[tra[a]] <= lay[tra[b]]
      BY <1>5, <3>1 DEF RootList
    <3> QED
      BY <1>3, <1>4, <2>1, <3>1, <3>2
  <2> QED
    BY <2>2, <2>3
<1> QED
  BY <1>2, <1>3, <1>5 DEF RootList, UpTo

\* ReadRoots sorts nothing but the roots of the first layer into the list.
LEMMA ReadRootsRooted ==
    ASSUME TypeInv, ScanInv, RoundOf(Vertex), RootsOf(Vertex), ReadRoots
    PROVE  RootsOf(Vertex)'
<1>1. graph \in [Vertex -> Seq(Vertex)]
  BY DEF TypeInv, TypeOK, OrderTypes
<1>2. /\ pc = "roots" /\ pc' = "pre_process" /\ indeg = InDegree(graph)
      /\ graph' = graph /\ count' = count
      /\ temp_root_arr' \in RootOrders
      /\ \A v \in Vertex : v \in ForwardRoots => root_located'[v] = v + 1 /\ root_layer'[v] = count
  BY DEF ReadRoots, ScanInv, Untouched
<1>3. ForwardRoots = {v \in Vertex : indeg[v] = 0}
  BY <1>1, <1>2, RootsAreSources
<1>4. /\ Distinct(temp_root_arr') /\ Elems(temp_root_arr') = ForwardRoots
  BY <1>2, RootOrderType DEF Distinct
<1>5. ASSUME NEW v \in Vertex PROVE v \in ForwardRoots <=> v \in SourcesIn(graph, Vertex)
  <2>1. Into(graph, Vertex, v) = InSlots(graph, v)
    BY <1>1, SlotFields DEF Into, InSlots
  <2>2. indeg[v] = Cardinality(Into(graph, Vertex, v))
    BY <1>1, <1>2, <2>1, InDegreeZero
  <2>3. IsFiniteSet(Into(graph, Vertex, v))
    BY <1>1, <2>1, InSlotsFinite
  <2> QED
    BY <1>3, <2>2, <2>3, FS_EmptySet DEF SourcesIn
<1>6. \A v \in ForwardRoots : root_located'[v] = v + 1 /\ root_layer'[v] = count
  BY <1>2, <1>3
<1>7. count \in Int
  BY DEF TypeInv, TypeOK, LoopTypes
<1>8. RootList(temp_root_arr', root_located', root_layer')
  <2>1. \A a \in 1 .. Len(temp_root_arr') : temp_root_arr'[a] \in ForwardRoots
    BY <1>4 DEF Elems
  <2>2. \A a, b \in 1 .. Len(temp_root_arr') :
           root_layer'[temp_root_arr'[a]] <= root_layer'[temp_root_arr'[b]]
    BY <1>6, <1>7, <2>1
  <2> QED
    BY <1>4, <1>6, <2>2 DEF RootList
<1>9. UpTo(temp_root_arr', root_layer', count)
  BY <1>4, <1>6, <1>7 DEF UpTo
<1>10. Rooted(graph, Vertex \ Vertex, temp_root_arr', root_located')
  BY DEF Rooted
<1>11. NewRoots(Vertex, temp_root_arr', SourcesIn(graph, Vertex))
  BY <1>4, <1>5 DEF NewRoots
<1> QED
  BY <1>2, <1>8, <1>9, <1>10, <1>11 DEF RootsOf

\* The scans write to vertices of A that have an edge into them from A.
LEMMA EdgeRooted ==
    ASSUME TypeInv, NEW A \in SUBSET Vertex, RoundOf(A), RootsOf(A), PreEdge \/ CrossEdge
    PROVE  RootsOf(A)'
<1>1. PICK o : o = IF pc = "pre_process" THEN TopoOrder ELSE TopoOrder_cross
  OBVIOUS
<1>2. PICK u : u = o[i]
  OBVIOUS
<1>3. PICK v : v = graph[u][j]
  OBVIOUS
<1>4. /\ i \in 1 .. Len(o) /\ j \in 1 .. Len(graph[u]) /\ u \in Vertex /\ v \in Vertex
  BY <1>1, <1>2, <1>3, PreEdgePlace, CrossEdgePlace DEF PreEdge, CrossEdge
<1>5. /\ pc \in {"pre_process", "pre_process_cross"} /\ pc' = pc /\ graph' = graph
      /\ UNCHANGED <<root_layer, temp_root_arr, count>> /\ ScanEdge(u, v)
  BY <1>1, <1>2, <1>3 DEF PreEdge, CrossEdge, rootVars
<1>6. Elems(o) \subseteq A /\ PeeledOff(graph, A, root_located, root_layer)
  BY <1>1, <1>5 DEF RoundOf, InFirst, InLater, Round, Listed
<1>7. u \in A /\ v \in Succ(graph, u)
  BY <1>2, <1>3, <1>4, <1>6 DEF Elems, Succ
<1>8. v \in A
  BY <1>6, <1>7 DEF PeeledOff
<1>9. Touched(cross, cross_id, root_located, u, v, cross', cross_id', root_located')
  BY <1>4, <1>5, ScanEdgeTouched DEF TypeInv
<1>10. \A w \in Vertex : w # v => root_located'[w] = root_located[w]
  BY <1>9 DEF Touched
<1>11. SameOutside(A, root_located, root_located')
  BY <1>8, <1>10 DEF SameOutside
<1>12. /\ graph \in [Vertex -> Seq(Vertex)] /\ temp_root_arr \in Seq(Vertex)
  BY DEF TypeInv, TypeOK, OrderTypes, RegionTypes
<1>13. /\ RootList(temp_root_arr, root_located, root_layer)
       /\ UpTo(temp_root_arr, root_layer, count)
       /\ Rooted(graph, Vertex \ A, temp_root_arr, root_located)
       /\ NewRoots(A, temp_root_arr, SourcesIn(graph, A))
  BY <1>5 DEF RootsOf
<1>14. v \notin SourcesIn(graph, A)
  <2>1. PICK s \in Slot(graph) : s[1] = u /\ Target(graph, s) = v
    BY <1>4, <1>7, EdgeSlot
  <2> QED
    BY <1>7, <2>1 DEF SourcesIn, Into, InSlots
<1>15. \A r \in A : r \in Elems(temp_root_arr) => root_located'[r] = r + 1
  <2>1. v \notin Elems(temp_root_arr)
    BY <1>8, <1>13, <1>14 DEF NewRoots
  <2> QED
    BY <1>10, <1>13, <2>1 DEF RootList
<1>16. RootList(temp_root_arr, root_located', root_layer)
  BY <1>11, <1>12, <1>13, <1>15, RootListKept
<1>17. Rooted(graph, Vertex \ A, temp_root_arr, root_located')
  BY <1>6, <1>11, <1>12, <1>13, RootedKept
<1> QED
  BY <1>5, <1>13, <1>16, <1>17 DEF RootsOf

\* The loop boundaries write to no region and to no list of roots.
LEMMA BoundaryRooted ==
    ASSUME NEW A, RootsOf(A), count \in Nat,
           \/ PreVertex \/ CrossVertex \/ PreBatch \/ CrossBatch \/ UNCHANGED vars
           \/ LayerStart \/ LayersEnd,
           \A v \in Elems(temp_root_arr) : root_layer[v] \in Nat
    PROVE  RootsOf(A)'
<1>1. UNCHANGED <<graph, root_located, root_layer, temp_root_arr>>
  BY DEF PreVertex, CrossVertex, PreBatch, CrossBatch, LayerStart, LayersEnd, vars,
         scanVars, rootVars
<1>2. CASE LayerStart
  <2>1. /\ pc = "next_layer" /\ pc' = "layer_roots" /\ count' = count + 1
        /\ TopoOrder_cross' = <<>>
    BY <1>2 DEF LayerStart
  <2>2. Elems(TopoOrder_cross') = {}
    BY <2>1 DEF Elems
  <2>3. UpTo(temp_root_arr, root_layer, count + 1)
    BY DEF RootsOf, UpTo
  <2> QED
    BY <1>1, <2>1, <2>2, <2>3 DEF RootsOf
<1>3. CASE LayersEnd
  BY <1>1, <1>3 DEF LayersEnd, rootVars, RootsOf
<1>4. CASE ~LayerStart /\ ~LayersEnd
  <2>1. \/ UNCHANGED <<pc, count>> /\ pc # "layer_roots"
        \/ UNCHANGED <<pc, count, TopoOrder_cross>>
    BY <1>4 DEF PreVertex, CrossVertex, PreBatch, CrossBatch, vars, rootVars
  <2> QED
    BY <1>1, <2>1 DEF RootsOf
<1> QED
  BY <1>2, <1>3, <1>4

\* The end of a round: the crossed vertices are what is left.
LEMMA EndRoundRooted ==
    ASSUME TypeInv, NEW A \in SUBSET Vertex, count \in Nat, RoundOf(A), RootsOf(A),
           PreEnd \/ CrossEnd, NEW B \in SUBSET Vertex, RoundOf(B)'
    PROVE  RootsOf(B)'
<1>1. /\ graph \in [Vertex -> Seq(Vertex)] /\ Acyclic(graph)
      /\ TopoOrder \in Seq(Vertex) /\ indeg \in [Vertex -> Int] /\ i \in Nat
      /\ TopoOrder_cross \in Seq(Vertex) /\ curInDegree \in [Vertex -> Int]
      /\ cross_id \in Seq(Vertex) /\ root_layer \in [Vertex -> Nat]
      /\ temp_root_arr \in Seq(Vertex)
  BY GraphType DEF TypeInv, TypeOK, OrderTypes, CounterTypes, RegionTypes, LoopTypes,
                   Batches
<1>2. /\ pc \in {"pre_process", "pre_process_cross"} /\ pc' = "next_layer"
      /\ pc = "pre_process" => i > Len(TopoOrder)
      /\ pc = "pre_process_cross" => i > Len(TopoOrder_cross)
      /\ UNCHANGED <<graph, cross, cross_id, root_located, root_layer, temp_root_arr, count>>
  BY DEF PreEnd, CrossEnd, scanVars, rootVars
<1>3. /\ LeftAfter(A, root_located, root_layer, count - 1)
      /\ PeeledOff(graph, A, root_located, root_layer)
      /\ RootsAt(graph, A, root_layer, count)
      /\ \/ /\ pc = "pre_process"
            /\ Round(graph, A, TopoOrder, i, j, indeg, curInDegree, cross, cross_id,
                     root_located)
         \/ /\ pc = "pre_process_cross"
            /\ Round(graph, A, TopoOrder_cross, i, j, curInDegree, nextInDegree, cross,
                     cross_id, root_located)
  BY <1>2 DEF RoundOf, InFirst, InLater, Finished, Scanning
<1>4. Done(graph, A, cross, cross_id, root_located)
  <2>1. CASE pc = "pre_process"
    BY <1>1, <1>2, <1>3, <2>1, RoundEnd
  <2>2. CASE pc = "pre_process_cross"
    BY <1>1, <1>2, <1>3, <2>2, RoundEnd
  <2> QED
    BY <1>2, <2>1, <2>2
<1>5. /\ \A v \in Vertex : v \in B <=> cross[v]
      /\ NoRegion(B, root_located)
  BY <1>2 DEF RoundOf, AtNext, Due
<1>6. /\ RootList(temp_root_arr, root_located, root_layer)
      /\ UpTo(temp_root_arr, root_layer, count)
      /\ Rooted(graph, Vertex \ A, temp_root_arr, root_located)
      /\ NewRoots(A, temp_root_arr, SourcesIn(graph, A))
  BY <1>2 DEF RootsOf
<1>7. /\ Rooted(graph, Vertex \ B, temp_root_arr, root_located)
      /\ NewRoots(B, temp_root_arr, {})
  BY <1>1, <1>4, <1>5, <1>6, EndRooted
<1> QED
  BY <1>2, <1>6, <1>7 DEF RootsOf

\* LayerRoot gives the next layer to one crossed vertex without in-edges.
LEMMA LayerRootRooted ==
    ASSUME TypeInv, NEW A \in SUBSET Vertex, count \in Nat, RoundOf(A), RootsOf(A), LayerRoot
    PROVE  RootsOf(A)'
<1>1. /\ graph \in [Vertex -> Seq(Vertex)] /\ cross_id \in Seq(Vertex)
      /\ i \in Nat \ {0} /\ TopoOrder_cross \in Seq(Vertex) /\ temp_root_arr \in Seq(Vertex)
      /\ root_located \in [Vertex -> Int] /\ root_layer \in [Vertex -> Int]
  BY DEF TypeInv, TypeOK, OrderTypes, RegionTypes, LoopTypes
<1>2. PICK r : r = cross_id[i]
  OBVIOUS
<1>3. /\ pc = "layer_roots" /\ pc' = pc /\ i \in 1 .. Len(cross_id)
      /\ UNCHANGED <<graph, count>>
  BY <1>1 DEF LayerRoot
<1>4. /\ PeeledOff(graph, A, root_located, root_layer)
      /\ Due(graph, A, cross, cross_id, curInDegree)
      /\ RootsRead(A, curInDegree, cross_id, i, TopoOrder_cross, root_located,
                   root_layer, count)
  BY <1>3 DEF RoundOf, InRoots
<1>5. r \in A /\ r \in Vertex /\ Distinct(cross_id)
  BY <1>2, <1>3, <1>4 DEF Due, Elems
<1>6. /\ RootList(temp_root_arr, root_located, root_layer)
      /\ UpTo(temp_root_arr, root_layer, count)
      /\ Rooted(graph, Vertex \ A, temp_root_arr, root_located)
      /\ NewRoots(A, temp_root_arr, Elems(TopoOrder_cross))
  BY <1>3 DEF RootsOf
<1>7. CASE curInDegree[r] # 0
  <2>1. UNCHANGED <<TopoOrder_cross, root_located, root_layer, temp_root_arr>>
    BY <1>2, <1>7 DEF LayerRoot
  <2> QED
    BY <1>3, <1>6, <2>1 DEF RootsOf
<1>8. CASE curInDegree[r] = 0
  <2>1. /\ TopoOrder_cross' = Append(TopoOrder_cross, r)
        /\ temp_root_arr' = Append(temp_root_arr, r)
        /\ root_located' = [root_located EXCEPT ![r] = r + 1]
        /\ root_layer' = [root_layer EXCEPT ![r] = count]
    BY <1>2, <1>8 DEF LayerRoot
  <2>2. r \notin Elems(TopoOrder_cross)
    <3>1. \A a \in 1 .. Len(cross_id) : cross_id[a] = r => a = i
      BY <1>2, <1>3, <1>5 DEF Distinct
    <3>2. ~(i < i)
      BY <1>1
    <3> QED
      BY <1>4, <3>1, <3>2 DEF RootsRead
  <2>3. r \notin Elems(temp_root_arr)
    BY <1>5, <1>6, <2>2 DEF NewRoots
  <2>4. /\ RootList(temp_root_arr', root_located', root_layer')
        /\ UpTo(temp_root_arr', root_layer', count)
    <3>1. /\ count \in Int /\ RootList(temp_root_arr, root_located, root_layer)
          /\ UpTo(temp_root_arr, root_layer, count)
      BY <1>6
    <3>2. /\ RootList(Append(temp_root_arr, r), [root_located EXCEPT ![r] = r + 1], [root_layer EXCEPT ![r] = count])
      BY <1>1, <1>5, <2>3, <3>1, RootAdded
    <3>3. UpTo(Append(temp_root_arr, r), [root_layer EXCEPT ![r] = count], count)
      BY <1>1, <1>5, <2>3, <3>1, RootAdded
    <3> QED
      BY <2>1, <3>2, <3>3
  <2>5. /\ \A v : v \in Elems(temp_root_arr') <=> v \in Elems(temp_root_arr) \/ v = r
        /\ \A v : v \in Elems(TopoOrder_cross') <=> v \in Elems(TopoOrder_cross) \/ v = r
    BY <1>1, <1>5, <2>1, LongerElems
  <2>6. SameOutside(A, root_located, root_located')
    BY <1>1, <1>5, <2>1 DEF SameOutside
  <2>7. Rooted(graph, Vertex \ A, temp_root_arr', root_located')
    <3>1. \A v \in Vertex : v \in Elems(temp_root_arr) => v \in Elems(temp_root_arr')
      BY <2>5
    <3>2. \A v \in Vertex \ A : v \in Elems(temp_root_arr') => v \in Elems(temp_root_arr)
      BY <1>5, <2>5
    <3> QED
      BY <1>1, <1>4, <1>6, <2>6, <3>1, <3>2, RootedKept
  <2>8. NewRoots(A, temp_root_arr', Elems(TopoOrder_cross'))
    BY <1>6, <2>5 DEF NewRoots
  <2> QED
    BY <1>3, <2>4, <2>7, <2>8 DEF RootsOf
<1> QED
  BY <1>7, <1>8

\* CrossStart changes neither the regions nor the list.
LEMMA CrossStartRooted ==
    ASSUME TypeInv, NEW A \in SUBSET Vertex, RoundOf(A), RootsOf(A), CrossStart
    PROVE  RootsOf(A)'
<1>1. /\ graph \in [Vertex -> Seq(Vertex)] /\ cross_id \in Seq(Vertex) /\ i \in Nat
  BY DEF TypeInv, TypeOK, OrderTypes, RegionTypes, LoopTypes
<1>2. /\ pc = "layer_roots" /\ pc' = "pre_process_cross" /\ i > Len(cross_id)
      /\ UNCHANGED <<graph, root_located, root_layer, temp_root_arr, count>>
  BY DEF CrossStart, rootVars
<1>3. /\ Due(graph, A, cross, cross_id, curInDegree)
      /\ RootsRead(A, curInDegree, cross_id, i, TopoOrder_cross, root_located,
                   root_layer, count)
      /\ NewRoots(A, temp_root_arr, Elems(TopoOrder_cross))
  BY <1>2 DEF RoundOf, InRoots, RootsOf
<1>4. Remains(graph, A, {}, curInDegree) /\ Listed(A, TopoOrder_cross, curInDegree)
  BY <1>1, <1>2, <1>3, RootsAllRead
<1>5. ASSUME NEW v \in A PROVE v \in Elems(TopoOrder_cross) <=> v \in SourcesIn(graph, A)
  <2>1. curInDegree[v] = 0 <=> v \in Elems(TopoOrder_cross)
    BY <1>4 DEF Listed
  <2>2. curInDegree[v] = Cardinality(Into(graph, A, v) \ {})
    BY <1>4 DEF Remains
  <2>3. Cardinality(Into(graph, A, v) \ {}) = 0 <=> Into(graph, A, v) \ {} = {}
    BY <1>1, IntoFinite, FS_EmptySet
  <2> QED
    BY <2>1, <2>2, <2>3 DEF SourcesIn
<1>6. NewRoots(A, temp_root_arr, SourcesIn(graph, A))
  BY <1>3, <1>5 DEF NewRoots
<1> QED
  BY <1>2, <1>6 DEF RootsOf

\* Before the first round there is no root.
LEMMA RootsInvInit == Init => RootsInv
<1> SUFFICES ASSUME Init PROVE RootsInv
  OBVIOUS
<1>1. PICK A \in SUBSET Vertex : RoundOf(A)
  BY RoundInvInit DEF RoundInv
<1>2. /\ pc = "roots" /\ count = 1 /\ temp_root_arr = <<>>
  BY DEF Init
<1>3. A = Vertex
  BY <1>1, <1>2 DEF RoundOf, AtRoots
<1>4. Elems(temp_root_arr) = {}
  BY <1>2 DEF Elems
<1>5. RootList(temp_root_arr, root_located, root_layer)
  BY <1>2, <1>4 DEF RootList, Distinct
<1>6. RootsOf(A)
  BY <1>2, <1>3, <1>4, <1>5 DEF RootsOf, Rooted, NewRoots, UpTo
<1> QED
  BY <1>1, <1>2, <1>6 DEF RootsInv

\* Every step of the layering keeps the list of the roots.
LEMMA RootsInvNext == TypeInv /\ ScanInv /\ RootsInv /\ [Next]_vars => RootsInv'
<1> SUFFICES ASSUME TypeInv, ScanInv, RootsInv, [Next]_vars PROVE RootsInv'
  OBVIOUS
<1>1. PICK A \in SUBSET Vertex : RoundOf(A) /\ RootsOf(A)
  BY DEF RootsInv
<1>2. count \in Nat \ {0} /\ count \in Nat
  BY DEF RootsInv
<1>3. count' \in Nat \ {0}
  BY <1>2 DEF Next, ReadRoots, PreEdge, PreVertex, PreBatch, PreEnd, LayerStart,
              LayerRoot, CrossStart, CrossEdge, CrossVertex, CrossBatch, CrossEnd,
              LayersEnd, rootVars, vars
<1>4. ASSUME NEW B \in SUBSET Vertex, RoundOf(B)', RootsOf(B)' PROVE RootsInv'
  BY <1>3, <1>4 DEF RootsInv
<1>5. \A v \in Elems(temp_root_arr) : root_layer[v] \in Nat
  BY ElemsVertex DEF TypeInv, TypeOK, RegionTypes
<1>6. CASE ReadRoots
  <2>1. A = Vertex
    BY <1>1, <1>6 DEF ReadRoots, RoundOf, AtRoots
  <2> QED
    BY <1>1, <1>4, <1>6, <2>1, ReadRootsRound, ReadRootsRooted
<1>7. CASE PreEdge \/ CrossEdge
  BY <1>1, <1>2, <1>4, <1>7, PreEdgeRound, CrossEdgeRound, EdgeRooted
<1>8. CASE PreVertex \/ CrossVertex
  BY <1>1, <1>2, <1>4, <1>5, <1>8, VertexRound, BoundaryRooted
<1>9. CASE PreBatch \/ CrossBatch \/ UNCHANGED vars
  <2>1. UNCHANGED <<graph, pc, curInDegree, nextInDegree, cross, cross_id,
                    root_located, root_layer, count, indeg, TopoOrder,
                    TopoOrder_cross, i, j>>
    BY <1>9 DEF PreBatch, CrossBatch, vars, scanVars, rootVars, topoVars
  <2>2. RoundOf(A)'
    BY <1>1, <2>1, BatchRound
  <2>3. RootsOf(A)'
    BY <1>1, <1>2, <1>5, <1>9, BoundaryRooted
  <2> QED
    BY <1>4, <2>2, <2>3
<1>10. CASE PreEnd \/ CrossEnd
  <2>1. PICK B \in SUBSET Vertex : RoundOf(B)'
    BY <1>1, <1>2, <1>10, PreEndRound, CrossEndRound
  <2> QED
    BY <1>1, <1>2, <1>4, <1>10, <2>1, EndRoundRooted
<1>11. CASE LayerStart
  BY <1>1, <1>2, <1>4, <1>5, <1>11, LayerStartRound, BoundaryRooted
<1>12. CASE LayerRoot
  BY <1>1, <1>2, <1>4, <1>12, LayerRootRound, LayerRootRooted
<1>13. CASE CrossStart
  BY <1>1, <1>2, <1>4, <1>13, CrossStartRound, CrossStartRooted
<1>14. CASE LayersEnd
  BY <1>1, <1>2, <1>4, <1>5, <1>14, LayersEndRound, BoundaryRooted
<1> QED
  BY <1>6, <1>7, <1>8, <1>9, <1>10, <1>11, <1>12, <1>13, <1>14 DEF Next

\* What the layering leaves behind.
LEMMA LayeredLaid ==
    ASSUME TypeInv, ScanInv, RootsInv, pc = "layered"
    PROVE  Laid /\ curInDegree = Zero
<1>1. PICK A \in SUBSET Vertex : RoundOf(A) /\ RootsOf(A)
  BY DEF RootsInv
<1>2. /\ A = {} /\ Remains(graph, A, {}, curInDegree)
      /\ LeftAfter(A, root_located, root_layer, Finished)
      /\ PeeledOff(graph, A, root_located, root_layer)
  BY <1>1 DEF RoundOf, AtEnd, Due
<1>3. /\ graph \in [Vertex -> Seq(Vertex)] /\ TopoOrder \in Seq(Vertex)
      /\ temp_root_arr \in Seq(Vertex) /\ curInDegree \in [Vertex -> Int]
      /\ root_located \in [Vertex -> 0 .. maxID + 1] /\ root_layer \in [Vertex -> Nat]
      /\ Ldown \in [Vertex -> Nat]
  BY DEF TypeInv, TypeOK, OrderTypes, RegionTypes, CounterTypes
<1>4. curInDegree = Zero
  <2>1. ASSUME NEW v \in Vertex PROVE curInDegree[v] = 0
    <3>1. Into(graph, A, v) \ {} = {}
      BY <1>2 DEF Into
    <3> QED
      BY <1>2, <3>1, FS_EmptySet DEF Remains
  <2> QED
    BY <1>3, <2>1 DEF Zero
<1>5. root_located \in [Vertex -> 1 .. maxID + 1]
  <2>1. \A v \in Vertex : root_located[v] # 0
    BY <1>2 DEF LeftAfter
  <2>2. \A n \in 0 .. maxID + 1 : n # 0 => n \in 1 .. maxID + 1
    BY MaxIDAssumption
  <2> QED
    BY <1>3, <2>1, <2>2
<1>6. Distinct(TopoOrder) /\ Elems(TopoOrder) = Vertex
  BY DEF ScanInv, NoRepeat, Distinct, ScanComplete
<1>7. ASSUME NEW b \in 1 .. Len(TopoOrder), NEW u \in Vertex, TopoOrder[b] \in Succ(graph, u)
      PROVE  \E a \in 1 .. b - 1 : TopoOrder[a] = u /\ Ldown[u] < Ldown[TopoOrder[b]]
  BY <1>7 DEF ScanInv, TopoSorted
<1>8. ASSUME NEW u \in Vertex, NEW v \in Succ(graph, u) PROVE Ldown[u] < Ldown[v]
  <2>1. v \in Vertex
    BY <1>3, SuccVertex
  <2>2. PICK b \in 1 .. Len(TopoOrder) : TopoOrder[b] = v
    BY <1>6, <2>1 DEF Elems
  <2> QED
    BY <1>7, <2>2
<1>9. /\ RootList(temp_root_arr, root_located, root_layer)
      /\ Rooted(graph, Vertex, temp_root_arr, root_located)
  <2>1. Vertex \ A = Vertex
    BY <1>2
  <2> QED
    BY <1>1, <2>1 DEF RootsOf
<1>10. \A u \in Vertex : \A v \in Succ(graph, u) :
          \/ root_located[v] = root_located[u]
          \/ root_layer[root_located[u] - 1] < root_layer[root_located[v] - 1]
  BY <1>2 DEF PeeledOff
<1>11. \A b \in 1 .. Len(TopoOrder) : \A u \in Vertex :
          TopoOrder[b] \in Succ(graph, u) => \E a \in 1 .. b - 1 : TopoOrder[a] = u
  BY <1>7
<1> QED
  BY <1>3, <1>4, <1>5, <1>6, <1>8, <1>9, <1>10, <1>11 DEF Laid, LaidOut

---------------------------------------------------------------------------
(***************************************************************************)
(* Minima.                                                                 *)
(***************************************************************************)
\* A nonempty set of naturals has a smallest member.
LEMMA Smallest ==
    ASSUME NEW S \in SUBSET Nat, S # {}
    PROVE  \E x \in S : \A y \in S : x <= y
<1> DEFINE F == {0 .. n : n \in S}
<1>1. \A n \in S : IsFiniteSet(0 .. n)
  BY FS_Interval
<1>2. F \subseteq FiniteSubsetsOf(Nat)
  <2>1. ASSUME NEW X \in F PROVE X \in SUBSET Nat /\ IsFiniteSet(X)
    <3>1. PICK n \in S : X = 0 .. n
      OBVIOUS
    <3> QED
      BY <1>1, <3>1
  <2> HIDE DEF F
  <2> QED
    BY <2>1 DEF FiniteSubsetsOf
<1>3. IsWellFoundedOn(StrictSubsetOrdering(Nat), FiniteSubsetsOf(Nat))
  BY FS_StrictSubsetOrderingWellFounded
<1>4. F # {}
  OBVIOUS
<1>5. PICK X \in F : \A Y \in F : <<Y, X>> \notin StrictSubsetOrdering(Nat)
  <2> HIDE DEF F
  <2> QED BY <1>2, <1>3, <1>4, WFMin
<1>6. PICK x \in S : X = 0 .. x
  OBVIOUS
<1>7. ASSUME NEW y \in S PROVE x <= y
  <2>1. SUFFICES ASSUME y < x PROVE FALSE
    OBVIOUS
  <2>2. 0 .. y \in F /\ 0 .. y \in SUBSET Nat /\ 0 .. x \in SUBSET Nat
    OBVIOUS
  <2>3. 0 .. y \subseteq 0 .. x /\ x \in 0 .. x /\ x \notin 0 .. y
    BY <2>1
  <2> QED
    BY <1>5, <1>6, <2>2, <2>3 DEF StrictSubsetOrdering
<1> QED
  BY <1>7

\* Among any vertices one has the smallest value.
LEMMA Least ==
    ASSUME NEW f \in [Vertex -> Nat], NEW S \in SUBSET Vertex, S # {}
    PROVE  \E v \in S : \A u \in S : f[v] <= f[u]
<1>1. {f[v] : v \in S} \in SUBSET Nat /\ {f[v] : v \in S} # {}
  OBVIOUS
<1>2. PICK x \in {f[v] : v \in S} : \A y \in {f[v] : v \in S} : x <= y
  BY <1>1, Smallest
<1> QED
  BY <1>2

---------------------------------------------------------------------------
(***************************************************************************)
(* The edges inside a region.                                              *)
(***************************************************************************)
LEMMA InnerPlace ==
    ASSUME NEW g \in [Vertex -> Seq(Vertex)], NEW rt, NEW v, NEW s \in Inner(g, rt, v)
    PROVE  /\ s \in Slot(g) /\ s[1] \in Vertex /\ Target(g, s) = v /\ v \in Succ(g, s[1])
           /\ v \in Vertex /\ rt[s[1]] = rt[v]
<1>1. s \in Slot(g) /\ Target(g, s) = v /\ rt[s[1]] = rt[v]
  BY DEF Inner, InSlots
<1>2. s[1] \in Vertex /\ v \in Succ(g, s[1])
  BY <1>1, SlotFields DEF Target, Succ
<1> QED
  BY <1>1, <1>2, SuccVertex

\* The edges into a vertex are finitely many.
LEMMA InnerFinite ==
    ASSUME NEW g \in [Vertex -> Seq(Vertex)], NEW rt, NEW v, NEW H
    PROVE  IsFiniteSet(Inner(g, rt, v)) /\ IsFiniteSet(Inner(g, rt, v) \cap H)
           /\ IsFiniteSet(Inner(g, rt, v) \ H)
<1>1. Inner(g, rt, v) \subseteq InSlots(g, v)
  BY DEF Inner
<1>2. IsFiniteSet(Inner(g, rt, v))
  BY <1>1, InSlotsFinite, FS_Subset
<1> QED
  BY <1>2, FS_Subset

\* What is known of LaidOut, by name.
LEMMA LaidTypes ==
    ASSUME NEW g, NEW topo, NEW ld, NEW rt, NEW lay, NEW tra,
           LaidOut(g, topo, ld, rt, lay, tra)
    PROVE  /\ g \in [Vertex -> Seq(Vertex)] /\ topo \in Seq(Vertex) /\ tra \in Seq(Vertex)
           /\ rt \in [Vertex -> 1 .. maxID + 1] /\ lay \in [Vertex -> Nat]
           /\ ld \in [Vertex -> Nat]
BY DEF LaidOut

\* Along an edge the distance from the roots grows.
LEMMA InnerDeeper ==
    ASSUME NEW g, NEW topo, NEW ld, NEW rt, NEW lay, NEW tra,
           LaidOut(g, topo, ld, rt, lay, tra), NEW v, NEW s \in Inner(g, rt, v)
    PROVE  /\ s[1] \in Vertex /\ rt[s[1]] = rt[v] /\ ld[s[1]] < ld[v]
           /\ ld[s[1]] \in Nat /\ ld[v] \in Nat /\ v \in Vertex
<1>1. g \in [Vertex -> Seq(Vertex)] /\ ld \in [Vertex -> Nat]
  BY LaidTypes
<1>2. s[1] \in Vertex /\ v \in Succ(g, s[1]) /\ v \in Vertex /\ rt[s[1]] = rt[v]
  BY <1>1, InnerPlace
<1>3. ld[s[1]] < ld[v]
  BY <1>2 DEF LaidOut
<1> QED
  BY <1>1, <1>2, <1>3

\* A root has no predecessor in its region.
LEMMA RootsFirst ==
    ASSUME NEW g, NEW topo, NEW ld, NEW rt, NEW lay, NEW tra,
           LaidOut(g, topo, ld, rt, lay, tra), NEW r \in Elems(tra)
    PROVE  Inner(g, rt, r) = {}
<1>1. /\ g \in [Vertex -> Seq(Vertex)] /\ tra \in Seq(Vertex) /\ ld \in [Vertex -> Nat]
      /\ rt \in [Vertex -> 1 .. maxID + 1]
  BY LaidTypes
<1>2. /\ r \in Vertex /\ rt[r] = r + 1
      /\ \A v \in Elems(tra) : rt[v] = v + 1
  BY <1>1, ElemsVertex DEF LaidOut, RootList
<1>3. SUFFICES ASSUME NEW s \in Inner(g, rt, r) PROVE FALSE
  OBVIOUS
<1>4. /\ s[1] \in Vertex /\ rt[s[1]] = rt[r] /\ ld[s[1]] < ld[r]
  BY InnerDeeper
<1> DEFINE R == {w \in Vertex : rt[w] = rt[r]}
<1>5. PICK w \in R : \A u \in R : ld[w] <= ld[u]
  <2>1. R \in SUBSET Vertex /\ R # {}
    BY <1>2
  <2> QED
    BY <1>1, <2>1, Least
<1>6. s[1] \in R /\ r \in R /\ w \in Vertex /\ rt[w] = rt[r]
  BY <1>2, <1>4, <1>5
<1>7. w # r
  <2>1. ld[w] <= ld[s[1]]
    BY <1>5, <1>6
  <2>2. ld[w] \in Nat /\ ld[s[1]] \in Nat /\ ld[r] \in Nat
    BY <1>1, <1>4, <1>6
  <2> QED
    BY <1>4, <2>1, <2>2
<1>8. w \notin Elems(tra)
  <2>1. w = r
        \/ w + 1 # r + 1
    BY <1>6, <1>2 DEF Vertex
  <2> QED
    BY <1>2, <1>6, <1>7, <2>1
<1>9. PICK t \in Inner(g, rt, w) : TRUE
  BY <1>6, <1>8 DEF LaidOut, Rooted
<1>10. t[1] \in R /\ ld[t[1]] < ld[w]
  BY <1>6, <1>9, InnerDeeper
<1>11. ld[w] <= ld[t[1]] /\ ld[w] \in Nat /\ ld[t[1]] \in Nat
  BY <1>1, <1>5, <1>6, <1>10
<1> QED
  BY <1>10, <1>11

---------------------------------------------------------------------------
(***************************************************************************)
(* cal_cross_degree: what its search has followed and counted.             *)
(***************************************************************************)
RootsBefore(tra, p) == {tra[a] : a \in 1 .. p - 1}

\* H are the places of the edges out of P, up to edge q of the vertex cur at
\* hand.
Follows(g, P, busy, cur, q, H) ==
    /\ H \subseteq Slot(g)
    /\ \A s \in Slot(g) : s \in H <=> s[1] \in P /\ (busy /\ s[1] = cur => s[2] < q)

\* P are the vertices that have left the deque.
Searched(tra, p, vis, qu, P) ==
    /\ \A v \in Vertex : v \in P <=> v \in vis \cup RootsBefore(tra, p) /\ v \notin Elems(qu)
    /\ Distinct(qu) /\ \A v \in Elems(qu) : v \in vis \cup RootsBefore(tra, p)

\* What the edges followed lead to is visited, and counted.
EdgesCounted(g, rt, H, vis, deg) ==
    /\ \A s \in H : rt[Target(g, s)] = rt[s[1]] => Target(g, s) \in vis
    /\ \A v \in Vertex : deg[v] = Cardinality(Inner(g, rt, v) \cap H)

CountState(g, rt, tra, p, q, busy, qu, cur, vis, deg) ==
    /\ p \in 1 .. Len(tra) + 1 /\ q \in Nat \ {0}
    /\ \A v \in vis : v \in Vertex /\ v \notin Elems(tra)
    /\ \E P \in SUBSET Vertex, H \in SUBSET Slot(g) :
          /\ Searched(tra, p, vis, qu, P) /\ Follows(g, P, busy, cur, q, H)
          /\ busy => cur \in P
          /\ EdgesCounted(g, rt, H, vis, deg)

\* The counters say how many edges into a vertex are to come.
Owed(g, rt, H, deg) == \A v \in Vertex : deg[v] = Cardinality(Inner(g, rt, v) \ H)

---------------------------------------------------------------------------
(***************************************************************************)
(* The edges a search has followed.                                        *)
(***************************************************************************)
LEMMA FollowVertex ==
    ASSUME NEW g, NEW P, NEW cur, NEW q, NEW H, Follows(g, P, FALSE, cur, q, H), NEW c,
           c \notin P, NEW P2, \A v \in Vertex : v \in P2 <=> v \in P \/ v = c
    PROVE  Follows(g, P2, TRUE, c, 1, H)
<1>1. ASSUME NEW s \in Slot(g)
      PROVE  s \in H <=> s[1] \in P2 /\ (s[1] = c => s[2] < 1)
  <2>1. s[1] \in Vertex /\ s[2] \in Nat \ {0}
    BY SlotMember
  <2>2. ~(s[2] < 1)
    BY <2>1
  <2> QED
    BY <2>1, <2>2 DEF Follows
<1> QED
  BY <1>1 DEF Follows

\* e is the edge at hand.
NextEdge(g, P, cur, q, H, e) ==
    /\ e \in Slot(g) /\ e[1] = cur /\ e[2] = q /\ Target(g, e) = g[cur][q] /\ e \notin H
    /\ Follows(g, P, TRUE, cur, q + 1, H \cup {e})

\* The edge at hand is one that has not been followed.
LEMMA FollowEdge ==
    ASSUME NEW g \in [Vertex -> Seq(Vertex)], NEW P \in SUBSET Vertex, NEW cur \in P,
           NEW q \in Nat \ {0}, q <= Len(g[cur]), NEW H, Follows(g, P, TRUE, cur, q, H)
    PROVE  /\ \E e : NextEdge(g, P, cur, q, H, e)
           /\ g[cur][q] \in Vertex /\ g[cur][q] \in Succ(g, cur)
<1>1. PICK e : e = <<cur, q>>
  OBVIOUS
<1>2. e \in Slot(g) /\ e[1] = cur /\ e[2] = q
  <2>1. cur \in Vertex /\ Len(g[cur]) \in Nat
    OBVIOUS
  <2>2. q \in 1 .. Len(g[cur])
    BY <2>1
  <2> QED
    BY <1>1, <2>1, <2>2, SlotMember
<1>3. e \notin H
  <2>1. ~(q < q)
    OBVIOUS
  <2> QED
    BY <1>2, <2>1 DEF Follows
<1>4. ASSUME NEW s \in Slot(g)
      PROVE  s \in H \cup {e} <=> s[1] \in P /\ (s[1] = cur => s[2] < q + 1)
  <2>1. s[2] \in Nat /\ s = <<s[1], s[2]>>
    BY SlotFields
  <2>2. s = e <=> s[1] = cur /\ s[2] = q
    BY <1>1, <2>1
  <2>3. s[2] < q + 1 <=> s[2] < q \/ s[2] = q
    BY <2>1
  <2> QED
    BY <2>2, <2>3 DEF Follows
<1>5. Follows(g, P, TRUE, cur, q + 1, H \cup {e})
  BY <1>2, <1>4 DEF Follows
<1>6. q \in 1 .. Len(g[cur]) /\ cur \in Vertex
  OBVIOUS
<1>7. Target(g, e) = g[cur][q]
  BY <1>1 DEF Target
<1>8. g[cur][q] \in Vertex
  BY <1>6, ElementOfSeq
<1>9. g[cur][q] \in Succ(g, cur)
  BY <1>6 DEF Succ
<1>10. NextEdge(g, P, cur, q, H, e)
  BY <1>2, <1>3, <1>5, <1>7 DEF NextEdge
<1> QED
  BY <1>8, <1>9, <1>10

\* When the vertex at hand has no edge left, all of its edges are followed.
LEMMA FollowEnd ==
    ASSUME NEW g \in [Vertex -> Seq(Vertex)], NEW P \in SUBSET Vertex, NEW cur \in P,
           NEW q \in Nat, q > Len(g[cur]), NEW H, Follows(g, P, TRUE, cur, q, H), NEW d, NEW r
    PROVE  Follows(g, P, FALSE, d, r, H)
<1>1. ASSUME NEW s \in Slot(g), s[1] = cur PROVE s[2] < q
  <2>1. s[2] \in 1 .. Len(g[cur]) /\ Len(g[cur]) \in Nat
    BY <1>1, SlotFields
  <2> QED
    BY <2>1
<1> QED
  BY <1>1 DEF Follows

---------------------------------------------------------------------------
(***************************************************************************)
(* Deques.                                                                 *)
(***************************************************************************)
\* qu2 is qu without its first vertex.
Popped(qu, qu2) ==
    /\ qu2 \in Seq(Vertex) /\ Distinct(qu2)
    /\ Head(qu) \in Vertex /\ Head(qu) \in Elems(qu) /\ Head(qu) \notin Elems(qu2)
    /\ \A v : v \in Elems(qu) <=> v = Head(qu) \/ v \in Elems(qu2)
    /\ Len(qu) = Len(qu2) + 1 /\ Head(qu) = qu[1]
    /\ \A a \in 1 .. Len(qu2) : a + 1 \in 1 .. Len(qu) /\ qu2[a] = qu[a + 1]

\* Taking the first vertex removes it alone.
LEMMA PopElems ==
    ASSUME NEW qu \in Seq(Vertex), Distinct(qu), qu # <<>>
    PROVE  Popped(qu, Tail(qu))
<1>1. /\ Tail(qu) \in Seq(Vertex) /\ Len(qu) \in Nat /\ Len(qu) # 0
      /\ Len(Tail(qu)) = Len(qu) - 1 /\ Head(qu) = qu[1]
      /\ \A a \in 1 .. Len(qu) - 1 : Tail(qu)[a] = qu[a + 1]
  BY HeadTailProperties, EmptySeq
<1>2. PICK t, h : t = Tail(qu) /\ h = Head(qu)
  OBVIOUS
<1>3. /\ t \in Seq(Vertex) /\ Len(t) = Len(qu) - 1 /\ h = qu[1] /\ 1 \in 1 .. Len(qu)
      /\ \A a \in 1 .. Len(t) : a + 1 \in 1 .. Len(qu) /\ t[a] = qu[a + 1]
  BY <1>1, <1>2
<1>4. \A b \in 1 .. Len(qu) : b = 1 \/ (b - 1 \in 1 .. Len(t) /\ t[b - 1] = qu[b])
  BY <1>1, <1>3
<1>5. h \notin Elems(t)
  BY <1>3 DEF Elems, Distinct
<1>6. Distinct(t)
  <2>1. ASSUME NEW a \in 1 .. Len(t), NEW b \in 1 .. Len(t), t[a] = t[b] PROVE a = b
    <3>1. a + 1 = b + 1
      BY <1>3, <2>1 DEF Distinct
    <3> QED
      BY <3>1
  <2> QED
    BY <2>1 DEF Distinct
<1>7. \A v : v \in Elems(qu) <=> v = h \/ v \in Elems(t)
  BY <1>3, <1>4 DEF Elems
<1>8. h \in Vertex
  BY <1>3
<1> QED
  BY <1>1, <1>2, <1>3, <1>5, <1>6, <1>7, <1>8 DEF Popped

\* A deque of one vertex, and one of none.
LEMMA OneElem ==
    ASSUME NEW v \in Vertex
    PROVE  <<v>> \in Seq(Vertex) /\ Distinct(<<v>>) /\ \A u : u \in Elems(<<v>>) <=> u = v
BY DEF Distinct, Elems

LEMMA NoElem == \A u : u \notin Elems(<<>>)
BY DEF Elems

---------------------------------------------------------------------------
(***************************************************************************)
(* The steps of cal_cross_degree.                                          *)
(***************************************************************************)
LEMMA RootsBeforeNext ==
    ASSUME NEW tra \in Seq(Vertex), NEW p \in 1 .. Len(tra)
    PROVE  \A v : v \in RootsBefore(tra, p + 1) <=> v \in RootsBefore(tra, p) \/ v = tra[p]
<1>1. \A a : a \in 1 .. (p + 1) - 1 <=> a \in 1 .. p - 1 \/ a = p
  OBVIOUS
<1> QED
  BY <1>1 DEF RootsBefore

\* The roots before a position are roots; before the end they are all.
LEMMA RootsBeforeElems ==
    ASSUME NEW tra \in Seq(Vertex), NEW p \in 1 .. Len(tra) + 1
    PROVE  /\ \A v \in RootsBefore(tra, p) : v \in Elems(tra) /\ v \in Vertex
           /\ p = Len(tra) + 1 => \A v \in Elems(tra) : v \in RootsBefore(tra, p)
<1>1. \A a \in 1 .. p - 1 : a \in 1 .. Len(tra)
  OBVIOUS
<1> QED
  BY <1>1 DEF RootsBefore, Elems

\* NextRoot puts the next root into the empty deque.
LEMMA CountTurn ==
    ASSUME NEW g, NEW rt, NEW lay, NEW tra \in Seq(Vertex), RootList(tra, rt, lay),
           NEW p, NEW q, NEW cur, NEW vis, NEW deg,
           CountState(g, rt, tra, p, q, FALSE, <<>>, cur, vis, deg), p <= Len(tra)
    PROVE  CountState(g, rt, tra, p + 1, q, FALSE, <<tra[p]>>, cur, vis, deg)
<1>1. /\ p \in 1 .. Len(tra) + 1 /\ q \in Nat \ {0}
      /\ \A v \in vis : v \in Vertex /\ v \notin Elems(tra)
  BY DEF CountState
<1>2. PICK P \in SUBSET Vertex, H \in SUBSET Slot(g) :
          /\ Searched(tra, p, vis, <<>>, P) /\ Follows(g, P, FALSE, cur, q, H)
          /\ EdgesCounted(g, rt, H, vis, deg)
  BY DEF CountState
<1>3. p \in 1 .. Len(tra) /\ p + 1 \in 1 .. Len(tra) + 1
  BY <1>1
<1>4. PICK r : r = tra[p]
  OBVIOUS
<1>5. r \in Vertex /\ r \in Elems(tra)
  BY <1>3, <1>4 DEF Elems
<1>6. r \notin RootsBefore(tra, p)
  <2>1. \A a \in 1 .. p - 1 : a \in 1 .. Len(tra) /\ a # p
    BY <1>3
  <2> QED
    BY <1>3, <1>4, <2>1 DEF RootsBefore, RootList, Distinct
<1>7. \A v : v \in RootsBefore(tra, p + 1) <=> v \in RootsBefore(tra, p) \/ v = r
  BY <1>3, <1>4, RootsBeforeNext
<1>8. Searched(tra, p + 1, vis, <<r>>, P)
  <2>1. \A u : u \in Elems(<<r>>) <=> u = r
    BY <1>5, OneElem
  <2>2. Distinct(<<r>>)
    BY <1>5, OneElem
  <2>3. r \notin vis
    BY <1>1, <1>5
  <2>4. \A v \in Vertex : v \in P <=> v \in vis \cup RootsBefore(tra, p)
    BY <1>2, NoElem DEF Searched
  <2> QED
    BY <1>6, <1>7, <2>1, <2>2, <2>3, <2>4 DEF Searched
<1>9. CountState(g, rt, tra, p + 1, q, FALSE, <<r>>, cur, vis, deg)
  BY <1>1, <1>2, <1>3, <1>8 DEF CountState
<1> QED
  BY <1>4, <1>9

\* CountVertex takes the first vertex of the deque.
LEMMA CountTake ==
    ASSUME NEW g, NEW rt, NEW tra \in Seq(Vertex),
           NEW p, NEW q, NEW qu \in Seq(Vertex), qu # <<>>, NEW cur, NEW vis, NEW deg,
           CountState(g, rt, tra, p, q, FALSE, qu, cur, vis, deg)
    PROVE  CountState(g, rt, tra, p, 1, TRUE, Tail(qu), Head(qu), vis, deg)
<1>1. /\ p \in 1 .. Len(tra) + 1 /\ \A v \in vis : v \in Vertex /\ v \notin Elems(tra)
  BY DEF CountState
<1>2. PICK P \in SUBSET Vertex, H \in SUBSET Slot(g) :
          /\ Searched(tra, p, vis, qu, P) /\ Follows(g, P, FALSE, cur, q, H)
          /\ EdgesCounted(g, rt, H, vis, deg)
  BY DEF CountState
<1>3. PICK c, t : c = Head(qu) /\ t = Tail(qu)
  OBVIOUS
<1>4. Popped(qu, t) /\ c = Head(qu)
  BY <1>2, <1>3, PopElems DEF Searched
<1>5. /\ c \in Vertex /\ c \in Elems(qu) /\ c \notin Elems(t) /\ Distinct(t)
      /\ \A v : v \in Elems(qu) <=> v = c \/ v \in Elems(t)
  BY <1>4 DEF Popped
<1>6. c \notin P
  BY <1>2, <1>5 DEF Searched
<1>7. P \cup {c} \in SUBSET Vertex /\ \A v \in Vertex : v \in P \cup {c} <=> v \in P \/ v = c
  BY <1>5
<1>8. Searched(tra, p, vis, t, P \cup {c})
  BY <1>2, <1>5 DEF Searched
<1>9. Follows(g, P \cup {c}, TRUE, c, 1, H)
  BY <1>2, <1>6, <1>7, FollowVertex
<1>10. 1 \in Nat \ {0} /\ c \in P \cup {c}
  OBVIOUS
<1>11. CountState(g, rt, tra, p, 1, TRUE, t, c, vis, deg)
  BY <1>1, <1>2, <1>7, <1>8, <1>9, <1>10 DEF CountState
<1> QED
  BY <1>3, <1>11

\* An edge out of the region is passed over.
LEMMA CountOutward ==
    ASSUME NEW g \in [Vertex -> Seq(Vertex)], NEW rt, NEW tra,
           NEW p, NEW q, NEW qu, NEW cur, NEW vis, NEW deg,
           CountState(g, rt, tra, p, q, TRUE, qu, cur, vis, deg), q <= Len(g[cur]),
           NEW v, v = g[cur][q], rt[v] # rt[cur]
    PROVE  CountState(g, rt, tra, p, q + 1, TRUE, qu, cur, vis, deg)
<1>1. /\ p \in 1 .. Len(tra) + 1 /\ q \in Nat \ {0}
      /\ \A w \in vis : w \in Vertex /\ w \notin Elems(tra)
  BY DEF CountState
<1>2. PICK P \in SUBSET Vertex, H \in SUBSET Slot(g) :
          /\ Searched(tra, p, vis, qu, P) /\ Follows(g, P, TRUE, cur, q, H)
          /\ cur \in P /\ EdgesCounted(g, rt, H, vis, deg)
  BY DEF CountState
<1>3. PICK e : NextEdge(g, P, cur, q, H, e)
  BY <1>1, <1>2, FollowEdge
<1>4. e \in Slot(g) /\ Follows(g, P, TRUE, cur, q + 1, H \cup {e})
  BY <1>3 DEF NextEdge
<1>5. e[1] = cur /\ Target(g, e) = v
  BY <1>3 DEF NextEdge
<1>6. ASSUME NEW w \in Vertex PROVE Inner(g, rt, w) \cap (H \cup {e}) = Inner(g, rt, w) \cap H
  <2>1. e \notin Inner(g, rt, w)
    BY <1>5 DEF Inner, InSlots
  <2> QED
    BY <2>1
<1>7. EdgesCounted(g, rt, H \cup {e}, vis, deg)
  BY <1>2, <1>5, <1>6 DEF EdgesCounted
<1>8. H \cup {e} \in SUBSET Slot(g) /\ q + 1 \in Nat \ {0}
  BY <1>1, <1>4
<1> QED
  BY <1>1, <1>2, <1>4, <1>7, <1>8 DEF CountState

\* The counters, and what is visited, when the edge e has been followed.
LEMMA CountedEdge ==
    ASSUME NEW g \in [Vertex -> Seq(Vertex)], NEW rt, NEW H \in SUBSET Slot(g), NEW vis, NEW deg \in [Vertex -> Int],
           EdgesCounted(g, rt, H, vis, deg), NEW v \in Vertex,
           NEW e \in Inner(g, rt, v), e \notin H
    PROVE  EdgesCounted(g, rt, H \cup {e}, vis \cup {v}, [deg EXCEPT ![v] = @ + 1])
<1>1. PICK deg2, vis2, H2 :
         deg2 = [deg EXCEPT ![v] = @ + 1] /\ vis2 = vis \cup {v} /\ H2 = H \cup {e}
  OBVIOUS
<1>2. e \in Slot(g) /\ Target(g, e) = v
  BY InnerPlace
<1>3. \A s \in H2 : rt[Target(g, s)] = rt[s[1]] => Target(g, s) \in vis2
  BY <1>1, <1>2 DEF EdgesCounted
<1>4. ASSUME NEW w \in Vertex PROVE deg2[w] = Cardinality(Inner(g, rt, w) \cap H2)
  <2>1. deg[w] = Cardinality(Inner(g, rt, w) \cap H) /\ IsFiniteSet(Inner(g, rt, w) \cap H)
    BY InnerFinite DEF EdgesCounted
  <2>2. CASE w = v
    <3>1. Inner(g, rt, w) \cap H2 = (Inner(g, rt, w) \cap H) \cup {e}
      BY <1>1, <2>2
    <3>2. Cardinality((Inner(g, rt, w) \cap H) \cup {e}) = Cardinality(Inner(g, rt, w) \cap H) + 1
      BY <2>1, FS_AddElement
    <3> QED
      BY <1>1, <2>1, <2>2, <3>1, <3>2
  <2>3. CASE w # v
    <3>1. e \notin Inner(g, rt, w)
      BY <1>2, <2>3 DEF Inner, InSlots
    <3>2. Inner(g, rt, w) \cap H2 = Inner(g, rt, w) \cap H
      BY <1>1, <3>1
    <3> QED
      BY <1>1, <2>1, <2>3, <3>2
  <2> QED
    BY <2>2, <2>3
<1> QED
  BY <1>1, <1>3, <1>4 DEF EdgesCounted

\* CountEdge counts an edge inside the region, and its target waits.
LEMMA CountInward ==
    ASSUME NEW g, NEW topo, NEW ld, NEW rt, NEW lay, NEW tra,
           LaidOut(g, topo, ld, rt, lay, tra),
           NEW p, NEW q, NEW qu \in Seq(Vertex), NEW cur, NEW vis, NEW deg \in [Vertex -> Int],
           CountState(g, rt, tra, p, q, TRUE, qu, cur, vis, deg), q <= Len(g[cur]),
           NEW v, v = g[cur][q], rt[v] = rt[cur]
    PROVE  CountState(g, rt, tra, p, q + 1, TRUE, IF v \in vis THEN qu ELSE Append(qu, v), cur,
                      vis \cup {v}, [deg EXCEPT ![v] = @ + 1])
<1>0. g \in [Vertex -> Seq(Vertex)] /\ tra \in Seq(Vertex)
  BY LaidTypes
<1>1. /\ p \in 1 .. Len(tra) + 1 /\ q \in Nat \ {0}
      /\ \A w \in vis : w \in Vertex /\ w \notin Elems(tra)
  BY DEF CountState
<1>2. PICK P \in SUBSET Vertex, H \in SUBSET Slot(g) :
          /\ Searched(tra, p, vis, qu, P) /\ Follows(g, P, TRUE, cur, q, H)
          /\ cur \in P /\ EdgesCounted(g, rt, H, vis, deg)
  BY DEF CountState
<1>3. PICK e : NextEdge(g, P, cur, q, H, e)
  BY <1>0, <1>1, <1>2, FollowEdge
<1>4. e \in Slot(g) /\ e \notin H /\ Follows(g, P, TRUE, cur, q + 1, H \cup {e})
  BY <1>3 DEF NextEdge
<1>5. e[1] = cur /\ Target(g, e) = v
  BY <1>3 DEF NextEdge
<1>6. v \in Vertex /\ e \in Inner(g, rt, v)
  <2>1. v \in Vertex
    BY <1>0, <1>1, <1>2, FollowEdge
  <2> QED
    BY <1>4, <1>5, <2>1 DEF Inner, InSlots
<1>7. v \notin Elems(tra)
  BY <1>6, RootsFirst
<1>8. PICK qu2, vis2, deg2 :
         /\ qu2 = IF v \in vis THEN qu ELSE Append(qu, v)
         /\ vis2 = vis \cup {v} /\ deg2 = [deg EXCEPT ![v] = @ + 1]
  OBVIOUS
<1>9. EdgesCounted(g, rt, H \cup {e}, vis2, deg2)
  BY <1>0, <1>2, <1>4, <1>6, <1>8, CountedEdge
<1>10. Searched(tra, p, vis2, qu2, P)
  <2>1. v \notin RootsBefore(tra, p)
    BY <1>0, <1>1, <1>7, RootsBeforeElems
  <2>2. CASE v \in vis
    <3>1. \A w : w \in vis2 <=> w \in vis
      BY <1>8, <2>2
    <3> QED
      BY <1>2, <1>8, <2>2, <3>1 DEF Searched
  <2>3. CASE v \notin vis
    <3>1. v \notin Elems(qu) /\ v \notin P
      BY <1>2, <1>6, <2>1, <2>3 DEF Searched
    <3>2. \A w : w \in Elems(qu2) <=> w \in Elems(qu) \/ w = v
      BY <1>6, <1>8, <2>3, LongerElems
    <3>3. Distinct(qu2)
      BY <1>2, <1>6, <1>8, <2>3, <3>1, LongerDistinct DEF Searched
    <3> QED
      BY <1>2, <1>8, <3>1, <3>2, <3>3 DEF Searched
  <2> QED
    BY <2>2, <2>3
<1>11. \A w \in vis2 : w \in Vertex /\ w \notin Elems(tra)
  BY <1>1, <1>6, <1>7, <1>8
<1>12. H \cup {e} \in SUBSET Slot(g) /\ q + 1 \in Nat \ {0}
  BY <1>1, <1>4
<1>13. CountState(g, rt, tra, p, q + 1, TRUE, qu2, cur, vis2, deg2)
  BY <1>1, <1>2, <1>4, <1>9, <1>10, <1>11, <1>12 DEF CountState
<1> QED
  BY <1>8, <1>13

\* CountVertexEnd: the vertex at hand is done.
LEMMA CountPause ==
    ASSUME NEW g \in [Vertex -> Seq(Vertex)], NEW rt, NEW tra,
           NEW p, NEW q, NEW qu, NEW cur, NEW vis, NEW deg,
           CountState(g, rt, tra, p, q, TRUE, qu, cur, vis, deg), q > Len(g[cur])
    PROVE  CountState(g, rt, tra, p, q, FALSE, qu, cur, vis, deg)
<1>1. /\ p \in 1 .. Len(tra) + 1 /\ q \in Nat \ {0}
      /\ \A w \in vis : w \in Vertex /\ w \notin Elems(tra)
  BY DEF CountState
<1>2. PICK P \in SUBSET Vertex, H \in SUBSET Slot(g) :
          /\ Searched(tra, p, vis, qu, P) /\ Follows(g, P, TRUE, cur, q, H)
          /\ cur \in P /\ EdgesCounted(g, rt, H, vis, deg)
  BY DEF CountState
<1>3. Follows(g, P, FALSE, cur, q, H)
  BY <1>1, <1>2, FollowEnd
<1> QED
  BY <1>1, <1>2, <1>3 DEF CountState

\* At the end every in-edge within a region has been counted.
LEMMA CountAll ==
    ASSUME NEW g, NEW topo, NEW ld, NEW rt, NEW lay, NEW tra,
           LaidOut(g, topo, ld, rt, lay, tra),
           NEW p, NEW q, NEW cur, NEW vis, NEW deg,
           CountState(g, rt, tra, p, q, FALSE, <<>>, cur, vis, deg), p > Len(tra)
    PROVE  Owed(g, rt, {}, deg)
<1>0. g \in [Vertex -> Seq(Vertex)] /\ tra \in Seq(Vertex) /\ ld \in [Vertex -> Nat]
  BY LaidTypes
<1>1. p \in 1 .. Len(tra) + 1 /\ p = Len(tra) + 1
  BY <1>0 DEF CountState
<1>2. PICK P \in SUBSET Vertex, H \in SUBSET Slot(g) :
          /\ Searched(tra, p, vis, <<>>, P) /\ Follows(g, P, FALSE, cur, q, H)
          /\ EdgesCounted(g, rt, H, vis, deg)
  BY DEF CountState
<1>3. \A v \in Vertex : v \in P <=> v \in vis \cup RootsBefore(tra, p)
  BY <1>2, NoElem DEF Searched
<1>4. \A v \in Elems(tra) : v \in P
  BY <1>0, <1>1, <1>3, RootsBeforeElems, ElemsVertex
<1>5. P = Vertex
  <2>1. SUFFICES ASSUME Vertex \ P # {} PROVE FALSE
    OBVIOUS
  <2>2. PICK v \in Vertex \ P : \A u \in Vertex \ P : ld[v] <= ld[u]
    <3>1. Vertex \ P \in SUBSET Vertex
      OBVIOUS
    <3> QED
      BY <1>0, <2>1, <3>1, Least
  <2>3. PICK s \in Inner(g, rt, v) : TRUE
    BY <1>4, <2>2 DEF LaidOut, Rooted
  <2>4. s[1] \in Vertex /\ ld[s[1]] < ld[v] /\ ld[s[1]] \in Nat /\ ld[v] \in Nat
    BY <2>3, InnerDeeper
  <2>5. s[1] \in P
    BY <2>2, <2>4
  <2>6. s \in Slot(g) /\ Target(g, s) = v /\ rt[s[1]] = rt[v]
    BY <2>3 DEF Inner, InSlots
  <2>7. s \in H
    BY <1>2, <2>5, <2>6 DEF Follows
  <2>8. v \in vis
    BY <1>2, <2>6, <2>7 DEF EdgesCounted
  <2> QED
    BY <1>3, <2>2, <2>8
<1>6. \A s \in Slot(g) : s \in H
  BY <1>0, <1>2, <1>5, SlotFields DEF Follows
<1>7. ASSUME NEW v \in Vertex PROVE Inner(g, rt, v) \cap H = Inner(g, rt, v) \ {}
  BY <1>0, <1>6, InnerPlace
<1> QED
  BY <1>2, <1>7 DEF EdgesCounted, Owed

---------------------------------------------------------------------------
(***************************************************************************)
(* Reachability inside a region.                                           *)
(***************************************************************************)
\* Within, with the region spelled out.
LEMMA WithinIs ==
    ASSUME NEW g, NEW rt, NEW u, NEW v
    PROVE  Within(g, rt, u, v) <=>
               \A S \in SUBSET Vertex :
                   /\ u \in S
                   /\ \A x \in S : rt[x] = rt[u]
                   /\ \A x \in S : \A y \in Succ(g, x) : y \in Vertex /\ rt[y] = rt[u] => y \in S
                   => v \in S
<1> DEFINE A == {w \in Vertex : rt[w] = rt[u]}
<1>1. \A S : S \in SUBSET A <=> S \in SUBSET Vertex /\ \A x \in S : rt[x] = rt[u]
  OBVIOUS
<1>2. \A S : Closed(g, A, S) <=>
             \A x \in S : \A y \in Succ(g, x) : y \in Vertex /\ rt[y] = rt[u] => y \in S
  BY DEF Closed
<1>3. Within(g, rt, u, v) <=> \A S \in SUBSET A : u \in S /\ Closed(g, A, S) => v \in S
  BY DEF Within, ReachableIn
<1> HIDE DEF A
<1> QED
  BY <1>1, <1>2, <1>3

\* What follows for v when it holds of u and along the edges of the region.
LEMMA WithinInvariant ==
    ASSUME NEW g, NEW rt, NEW u, NEW v, Within(g, rt, u, v),
           NEW S \in SUBSET Vertex, u \in S,
           \A x \in S : rt[x] = rt[u],
           \A x \in S : \A y \in Succ(g, x) : y \in Vertex /\ rt[y] = rt[u] => y \in S
    PROVE  v \in S
BY WithinIs

\* Every vertex is reached from itself.
LEMMA WithinSelf ==
    ASSUME NEW g, NEW rt, NEW u
    PROVE  Within(g, rt, u, u)
BY WithinIs

\* What is reached is in the region.
LEMMA WithinRegion ==
    ASSUME NEW g, NEW rt, NEW u \in Vertex, NEW v, Within(g, rt, u, v)
    PROVE  v \in Vertex /\ rt[v] = rt[u]
<1>1. PICK S \in SUBSET Vertex : S = {w \in Vertex : rt[w] = rt[u]}
  OBVIOUS
<1>2. v \in S
  BY <1>1, WithinInvariant
<1> QED
  BY <1>1, <1>2

\* One edge more, one edge alone, and two ways one after the other.
LEMMA WithinStep ==
    ASSUME NEW g \in [Vertex -> Seq(Vertex)], NEW rt, NEW u \in Vertex, NEW v, NEW w,
           Within(g, rt, u, v), w \in Succ(g, v), rt[w] = rt[v]
    PROVE  Within(g, rt, u, w)
<1>1. v \in Vertex /\ rt[v] = rt[u] /\ w \in Vertex
  BY WithinRegion, SuccVertex
<1>2. SUFFICES ASSUME NEW S \in SUBSET Vertex, u \in S, \A x \in S : rt[x] = rt[u],
                      \A x \in S : \A y \in Succ(g, x) : y \in Vertex /\ rt[y] = rt[u] => y \in S
               PROVE  w \in S
  BY WithinIs
<1>3. v \in S
  BY <1>2, WithinInvariant
<1> QED
  BY <1>1, <1>2, <1>3

LEMMA WithinEdge ==
    ASSUME NEW g \in [Vertex -> Seq(Vertex)], NEW rt, NEW u \in Vertex, NEW v \in Succ(g, u),
           rt[v] = rt[u]
    PROVE  Within(g, rt, u, v)
BY WithinSelf, WithinStep

LEMMA WithinTrans ==
    ASSUME NEW g \in [Vertex -> Seq(Vertex)], NEW rt, NEW u \in Vertex, NEW v, NEW w,
           Within(g, rt, u, v), Within(g, rt, v, w)
    PROVE  Within(g, rt, u, w)
<1>1. v \in Vertex /\ rt[v] = rt[u]
  BY WithinRegion
<1>2. SUFFICES ASSUME NEW S \in SUBSET Vertex, u \in S, \A x \in S : rt[x] = rt[u],
                      \A x \in S : \A y \in Succ(g, x) : y \in Vertex /\ rt[y] = rt[u] => y \in S
               PROVE  w \in S
  BY WithinIs
<1>3. v \in S
  BY <1>2, WithinInvariant
<1> QED
  BY <1>1, <1>2, <1>3, WithinInvariant

\* The first edge of the way.
LEMMA WithinFirst ==
    ASSUME NEW g \in [Vertex -> Seq(Vertex)], NEW rt, NEW u \in Vertex, NEW v,
           Within(g, rt, u, v), u # v
    PROVE  \E w \in Succ(g, u) : rt[w] = rt[u] /\ Within(g, rt, w, v)
<1> DEFINE Below1(x) == \E w \in Succ(g, u) : rt[w] = rt[u] /\ Within(g, rt, w, x)
           S == {x \in Vertex : x = u \/ Below1(x)}
<1>1. ASSUME NEW x \in Vertex, Below1(x) PROVE rt[x] = rt[u]
  BY <1>1, WithinRegion, SuccVertex
<1>2. ASSUME NEW x \in S, NEW y \in Succ(g, x), y \in Vertex, rt[y] = rt[u]
      PROVE  Below1(y)
  <2>1. CASE x = u
    BY <1>2, <2>1, WithinSelf
  <2>2. CASE x # u
    <3>1. PICK w \in Succ(g, u) : rt[w] = rt[u] /\ Within(g, rt, w, x)
      BY <2>2
    <3>2. w \in Vertex
      BY SuccVertex
    <3>3. rt[x] = rt[w]
      BY <3>1, <3>2, WithinRegion
    <3>4. Within(g, rt, w, y)
      BY <1>2, <3>1, <3>2, <3>3, WithinStep
    <3> QED
      BY <3>1, <3>4
  <2> QED
    BY <2>1, <2>2
<1>3. /\ S \in SUBSET Vertex /\ u \in S /\ \A x \in S : rt[x] = rt[u]
      /\ \A x \in S : \A y \in Succ(g, x) : y \in Vertex /\ rt[y] = rt[u] => y \in S
  BY <1>1, <1>2
<1>4. v \in S
  <2> HIDE DEF S
  <2> QED
    BY <1>3, WithinInvariant
<1> QED
  BY <1>4

\* The last edge of the way.
LEMMA WithinLast ==
    ASSUME NEW g \in [Vertex -> Seq(Vertex)], NEW rt, NEW u \in Vertex, NEW v,
           Within(g, rt, u, v), u # v
    PROVE  \E s \in Inner(g, rt, v) : Within(g, rt, u, s[1])
<1> DEFINE Above(x) == \E s \in Inner(g, rt, x) : Within(g, rt, u, s[1])
           S == {x \in Vertex : rt[x] = rt[u] /\ (x = u \/ Above(x))}
<1>1. ASSUME NEW x \in S, NEW y \in Succ(g, x), y \in Vertex, rt[y] = rt[u]
      PROVE  Above(y)
  <2>1. x \in Vertex /\ rt[x] = rt[u]
    OBVIOUS
  <2>2. Within(g, rt, u, x)
    <3>1. CASE x = u
      BY <3>1, WithinSelf
    <3>2. CASE x # u
      <4>1. PICK s \in Inner(g, rt, x) : Within(g, rt, u, s[1])
        BY <3>2
      <4>2. x \in Succ(g, s[1]) /\ rt[s[1]] = rt[x]
        BY <4>1, InnerPlace
      <4> QED
        BY <4>1, <4>2, WithinStep
    <3> QED
      BY <3>1, <3>2
  <2>3. PICK s \in Slot(g) : s[1] = x /\ Target(g, s) = y
    BY <2>1, EdgeSlot
  <2>4. s \in Inner(g, rt, y)
    BY <1>1, <2>1, <2>3 DEF Inner, InSlots
  <2> QED
    BY <2>2, <2>3, <2>4
<1>2. /\ S \in SUBSET Vertex /\ u \in S /\ \A x \in S : rt[x] = rt[u]
      /\ \A x \in S : \A y \in Succ(g, x) : y \in Vertex /\ rt[y] = rt[u] => y \in S
  BY <1>1
<1>3. v \in S
  <2> HIDE DEF S
  <2> QED
    BY <1>2, WithinInvariant
<1> QED
  BY <1>3

---------------------------------------------------------------------------
(***************************************************************************)
(* decode: the numbers given so far, the deque that holds the vertices with*)
(* nothing more to come, and the edges it has not descended along.         *)
(***************************************************************************)
Numbered(new) == {v \in Vertex : new[v] # 0}

Numbering(new, cnt) ==
    /\ cnt = Cardinality(Numbered(new))
    /\ \A v \in Numbered(new) : new[v] \in 1 .. cnt
    /\ \A u, v \in Numbered(new) : new[u] = new[v] => u = v
    /\ \A n \in 1 .. cnt : \E v \in Vertex : new[v] = n

Waiting(g, rt, tra, p, qu, new, H) ==
    /\ Distinct(qu) /\ Elems(qu) \cap Numbered(new) = {}
    /\ \A v \in Vertex \ Elems(tra) :
          v \in Numbered(new) \cup Elems(qu) <=> Inner(g, rt, v) \subseteq H
    /\ \A a \in 1 .. Len(tra) : tra[a] \in Numbered(new) \cup Elems(qu) <=> a < p

Forward(g, rt, new) ==
    \A v \in Numbered(new) : \A s \in Inner(g, rt, v) : new[s[1]] # 0 /\ new[s[1]] < new[v]

InTurn(rt, lay, tra, p, busy, qu, cur, new) ==
    /\ \A v \in Elems(qu) : p >= 2 /\ rt[v] = tra[p - 1] + 1
    /\ busy => p >= 2 /\ rt[cur] = tra[p - 1] + 1
    /\ \A x, y \in Numbered(new) : new[x] < new[y] => lay[rt[x] - 1] <= lay[rt[y] - 1]
    /\ \A x \in Numbered(new) : p >= 2 /\ lay[rt[x] - 1] <= lay[tra[p - 1]]

Recorded(rt, lay, new, l, t) ==
    \A v \in Numbered(new) : l[new[v]] = lay[rt[v] - 1] /\ t[new[v]] = rt[v]

\* u is the predecessor of v in its region that was numbered last.
LastOf(g, rt, new, u, v) ==
    /\ v \in Succ(g, u) /\ rt[v] = rt[u]
    /\ \A s \in Inner(g, rt, v) : new[s[1]] # 0 /\ new[s[1]] <= new[u]

Excepted(g, rt, new, H, ex) ==
    /\ \A u \in Vertex : ex[u] \in Seq(Vertex) /\ \A v \in Elems(ex[u]) : v \in Succ(g, u) /\ rt[v] = rt[u]
    /\ \A s \in H : rt[Target(g, s)] = rt[s[1]] =>
          Target(g, s) \in Elems(ex[s[1]]) \/ LastOf(g, rt, new, s[1], Target(g, s))

\* From the last predecessor of v on, all that was numbered is below it.
BelowLast(g, rt, new, u, v) ==
    \A x \in Numbered(new) :
        new[u] <= new[x] /\ (new[v] = 0 \/ new[x] <= new[v]) => Within(g, rt, u, x)

Depth(g, rt, new, qu) ==
    \A v \in Numbered(new) \cup Elems(qu) : \A u \in Vertex :
        LastOf(g, rt, new, u, v) => BelowLast(g, rt, new, u, v)

Nested(g, rt, new, qu) ==
    \A a, b \in 1 .. Len(qu) : a < b =>
        \A x, y \in Vertex :
            LastOf(g, rt, new, x, qu[a]) /\ LastOf(g, rt, new, y, qu[b]) => Within(g, rt, y, x)

OnTop(g, rt, new, qu, cur) ==
    \A b \in 1 .. Len(qu) : \A y \in Vertex :
        LastOf(g, rt, new, y, qu[b]) => Within(g, rt, y, cur)

\* A root is in the deque alone.
Alone(tra, busy, qu) == \A v \in Elems(qu) : v \in Elems(tra) => ~busy /\ Len(qu) = 1

DecodeState(g, rt, lay, tra, p, q, busy, qu, cur, deg, cnt, new, l, t, ex) ==
    \E H \in SUBSET Slot(g) :
        /\ p \in 1 .. Len(tra) + 1 /\ q \in Nat \ {0}
        /\ Follows(g, Numbered(new), busy, cur, q, H) /\ Owed(g, rt, H, deg)
        /\ Numbering(new, cnt) /\ Waiting(g, rt, tra, p, qu, new, H) /\ Alone(tra, busy, qu)
        /\ Forward(g, rt, new) /\ InTurn(rt, lay, tra, p, busy, qu, cur, new)
        /\ Recorded(rt, lay, new, l, t)
        /\ Excepted(g, rt, new, H, ex)
        /\ Depth(g, rt, new, qu) /\ Nested(g, rt, new, qu)
        /\ busy => /\ cur \in Numbered(new) /\ new[cur] = cnt /\ OnTop(g, rt, new, qu, cur)

---------------------------------------------------------------------------
(***************************************************************************)
(* What decode leaves behind.                                              *)
(***************************************************************************)
Tree(g, rt, new, u, v) ==
    /\ LastOf(g, rt, new, u, v)
    /\ \A x \in Vertex : new[u] <= new[x] /\ new[x] <= new[v] => Within(g, rt, u, x)

CodedAs(g, rt, lay, new, l, t, ex) ==
    /\ new \in [Vertex -> NewID]
    /\ \A u, v \in Vertex : new[u] = new[v] => u = v
    /\ \A n \in NewID : \E v \in Vertex : new[v] = n
    /\ \A u \in Vertex : \A v \in Succ(g, u) : new[u] < new[v]
    /\ \A v \in Vertex : l[new[v]] = lay[rt[v] - 1] /\ t[new[v]] = rt[v]
    /\ \A u \in Vertex : ex[u] \in Seq(Vertex) /\ \A v \in Elems(ex[u]) : v \in Succ(g, u) /\ rt[v] = rt[u]
    /\ \A u \in Vertex : \A v \in Succ(g, u) :
          rt[v] = rt[u] /\ v \notin Elems(ex[u]) => Tree(g, rt, new, u, v)

Coded == CodedAs(graph, root_located, root_layer, oldID_mapto_newID, rl, rlt, excpID_O)

---------------------------------------------------------------------------
(***************************************************************************)
(* The steps of decode.                                                    *)
(***************************************************************************)
\* Among some vertices one has the largest of their bounded values.
LEMMA Most ==
    ASSUME NEW f \in [Vertex -> Nat], NEW n \in Nat, NEW S \in SUBSET Vertex, S # {},
           \A v \in S : f[v] <= n
    PROVE  \E v \in S : \A u \in S : f[u] <= f[v]
<1>1. PICK d : d = [v \in Vertex |-> IF f[v] <= n THEN n - f[v] ELSE 0]
  OBVIOUS
<1>2. d \in [Vertex -> Nat]
  BY <1>1
<1>3. PICK v \in S : \A u \in S : d[v] <= d[u]
  BY <1>2, Least
<1>4. ASSUME NEW u \in S PROVE f[u] <= f[v]
  <2>1. d[v] <= d[u] /\ d[v] = n - f[v] /\ d[u] = n - f[u] /\ f[u] \in Nat /\ f[v] \in Nat
    BY <1>1, <1>3
  <2> QED
    BY <2>1
<1> QED
  BY <1>3, <1>4

\* Every predecessor of v in its region is numbered.
Reached(g, rt, new, v) == \A s \in Inner(g, rt, v) : s[1] \in Numbered(new)

\* The last predecessor is a predecessor, and numbered.
LEMMA LastNumbered ==
    ASSUME NEW g, NEW rt, NEW new, NEW u \in Vertex, NEW v, LastOf(g, rt, new, u, v)
    PROVE  u \in Numbered(new) /\ \E s \in Inner(g, rt, v) : s[1] = u
<1>1. PICK s \in Slot(g) : s[1] = u /\ Target(g, s) = v
  BY EdgeSlot DEF LastOf
<1>2. s \in Inner(g, rt, v)
  BY <1>1 DEF Inner, InSlots, LastOf
<1> QED
  BY <1>1, <1>2 DEF LastOf, Numbered

\* A vertex whose predecessors in the region are numbered has a last one.
LEMMA LastExists ==
    ASSUME NEW g \in [Vertex -> Seq(Vertex)], NEW rt, NEW new \in [Vertex -> Nat], NEW n \in Nat,
           \A w \in Numbered(new) : new[w] <= n,
           NEW v, Inner(g, rt, v) # {}, Reached(g, rt, new, v)
    PROVE  \E u \in Numbered(new) : LastOf(g, rt, new, u, v)
<1>1. PICK S : S = {s[1] : s \in Inner(g, rt, v)}
  OBVIOUS
<1>2. S \in SUBSET Vertex /\ S # {} /\ \A w \in S : w \in Numbered(new)
  BY <1>1, InnerPlace DEF Reached
<1>3. PICK u \in S : \A w \in S : new[w] <= new[u]
  BY <1>2, Most
<1>4. u \in Numbered(new) /\ v \in Succ(g, u) /\ rt[v] = rt[u]
  BY <1>1, <1>2, <1>3, InnerPlace
<1>5. ASSUME NEW s \in Inner(g, rt, v) PROVE new[s[1]] # 0 /\ new[s[1]] <= new[u]
  BY <1>1, <1>3 DEF Reached, Numbered
<1>6. LastOf(g, rt, new, u, v)
  BY <1>4, <1>5 DEF LastOf
<1> QED
  BY <1>4, <1>6

\* decode gives c the number n.
Given(new, c, n, new2) ==
    /\ new2 \in [Vertex -> Nat] /\ new2[c] = n /\ n # 0
    /\ \A v \in Vertex : v # c => new2[v] = new[v]

\* The number given makes c numbered, and no other vertex.
LEMMA GivenNumbered ==
    ASSUME NEW new \in [Vertex -> Nat], NEW c \in Vertex, NEW n \in Nat, NEW new2,
           Given(new, c, n, new2)
    PROVE  \A v : v \in Numbered(new2) <=> v \in Numbered(new) \/ v = c
BY DEF Given, Numbered

\* The numbers stay without gap and repetition.
LEMMA NumberingNext ==
    ASSUME NEW new \in [Vertex -> Nat], NEW cnt \in Nat, Numbering(new, cnt),
           NEW c \in Vertex, c \notin Numbered(new), NEW new2, Given(new, c, cnt + 1, new2)
    PROVE  Numbering(new2, cnt + 1) /\ cnt + 1 \in NewID
<1>1. \A v : v \in Numbered(new2) <=> v \in Numbered(new) \/ v = c
  BY GivenNumbered
<1>2. Numbered(new2) = Numbered(new) \cup {c}
  BY <1>1
<1>3. IsFiniteSet(Numbered(new)) /\ IsFiniteSet(Numbered(new2))
  BY VertexFinite, FS_Subset DEF Numbered
<1>4. Cardinality(Numbered(new2)) = cnt + 1
  BY <1>2, <1>3, FS_AddElement DEF Numbering
<1>5. ASSUME NEW v \in Numbered(new2) PROVE new2[v] \in 1 .. cnt + 1 /\ (v # c => new2[v] \in 1 .. cnt /\ new2[v] = new[v] /\ v \in Numbered(new))
  <2>1. CASE v = c
    BY <2>1 DEF Given
  <2>2. CASE v # c
    <3>1. v \in Numbered(new) /\ v \in Vertex
      BY <1>1, <2>2 DEF Numbered
    <3>2. new[v] \in 1 .. cnt
      BY <3>1 DEF Numbering
    <3> QED
      BY <2>2, <3>1, <3>2 DEF Given
  <2> QED
    BY <2>1, <2>2
<1>6. ASSUME NEW u \in Numbered(new2), NEW v \in Numbered(new2), new2[u] = new2[v]
      PROVE  u = v
  <2>1. new2[c] = cnt + 1
    BY DEF Given
  <2>2. CASE u = c \/ v = c
    BY <1>5, <1>6, <2>1, <2>2
  <2>3. CASE u # c /\ v # c
    BY <1>5, <1>6, <2>3 DEF Numbering
  <2> QED
    BY <2>2, <2>3
<1>7. ASSUME NEW n \in 1 .. cnt + 1 PROVE \E v \in Vertex : new2[v] = n
  <2>1. CASE n = cnt + 1
    BY <2>1 DEF Given
  <2>2. CASE n # cnt + 1
    <3>1. n \in 1 .. cnt
      BY <2>2
    <3>2. PICK v \in Vertex : new[v] = n
      BY <3>1 DEF Numbering
    <3>3. v # c
      BY <3>1, <3>2 DEF Numbered
    <3> QED
      BY <3>2, <3>3 DEF Given
  <2> QED
    BY <2>1, <2>2
<1>8. cnt + 1 <= maxID + 1
  <2>1. Numbered(new2) \subseteq Vertex
    BY DEF Numbered
  <2>2. Cardinality(Vertex) = maxID + 1
    BY FS_Interval, MaxIDAssumption DEF Vertex
  <2>3. Cardinality(Numbered(new2)) <= Cardinality(Vertex)
    BY <2>1, VertexFinite, FS_Subset
  <2> QED
    BY <1>4, <2>2, <2>3
<1>9. Numbering(new2, cnt + 1)
  BY <1>4, <1>5, <1>6, <1>7 DEF Numbering
<1> QED
  BY <1>8, <1>9, MaxIDAssumption DEF NewID

\* The last predecessor stays when another vertex is numbered.
LEMMA LastSame ==
    ASSUME NEW g \in [Vertex -> Seq(Vertex)], NEW rt, NEW new \in [Vertex -> Nat],
           NEW c \in Vertex, c \notin Numbered(new), NEW n \in Nat, NEW new2, Given(new, c, n, new2),
           NEW v, Reached(g, rt, new, v), NEW u \in Vertex
    PROVE  LastOf(g, rt, new2, u, v) <=> LastOf(g, rt, new, u, v)
<1>1. ASSUME NEW s \in Inner(g, rt, v) PROVE new2[s[1]] = new[s[1]] /\ s[1] # c
  <2>1. s[1] \in Numbered(new) /\ s[1] \in Vertex
    BY InnerPlace DEF Reached
  <2> QED
    BY <2>1 DEF Given
<1>2. ASSUME LastOf(g, rt, new, u, v) PROVE LastOf(g, rt, new2, u, v)
  <2>0. PICK s \in Inner(g, rt, v) : s[1] = u
    BY <1>2, LastNumbered
  <2>1. new2[u] = new[u]
    BY <1>1, <2>0
  <2> QED
    BY <1>1, <1>2, <2>1 DEF LastOf
<1>3. ASSUME LastOf(g, rt, new2, u, v) PROVE LastOf(g, rt, new, u, v)
  <2>0. PICK s \in Inner(g, rt, v) : s[1] = u
    BY <1>3, LastNumbered
  <2>1. new2[u] = new[u]
    BY <1>1, <2>0
  <2> QED
    BY <1>1, <1>3, <2>1 DEF LastOf
<1> QED
  BY <1>2, <1>3

\* What is numbered or waits has all its predecessors numbered.
LEMMA WaitingReached ==
    ASSUME NEW g, NEW topo, NEW ld, NEW rt, NEW lay, NEW tra,
           LaidOut(g, topo, ld, rt, lay, tra), NEW p, NEW qu \in Seq(Vertex), NEW new, NEW H,
           NEW busy, NEW cur, NEW q, Follows(g, Numbered(new), busy, cur, q, H),
           Waiting(g, rt, tra, p, qu, new, H),
           NEW v, v \in Numbered(new) \/ v \in Elems(qu)
    PROVE  Reached(g, rt, new, v) /\ v \in Vertex /\ \A s \in Inner(g, rt, v) : s \in H
<1>1. g \in [Vertex -> Seq(Vertex)]
  BY LaidTypes
<1>2. v \in Vertex
  BY ElemsVertex DEF Numbered
<1>3. CASE v \in Elems(tra)
  BY <1>2, <1>3, RootsFirst DEF Reached
<1>4. CASE v \notin Elems(tra)
  <2>1. \A s \in Inner(g, rt, v) : s \in H
    BY <1>2, <1>4 DEF Waiting
  <2>2. \A s \in Inner(g, rt, v) : s \in Slot(g)
    BY <1>1, InnerPlace
  <2> QED
    BY <1>2, <2>1, <2>2 DEF Follows, Reached
<1> QED
  BY <1>3, <1>4

\* The next root, when the deque has run empty.
LEMMA DecodeTurn ==
    ASSUME NEW g, NEW topo, NEW ld, NEW rt, NEW lay, NEW tra,
           LaidOut(g, topo, ld, rt, lay, tra),
           NEW p, NEW q, NEW cur, NEW deg, NEW cnt, NEW new, NEW l, NEW t, NEW ex,
           DecodeState(g, rt, lay, tra, p, q, FALSE, <<>>, cur, deg, cnt, new, l, t, ex),
           p <= Len(tra)
    PROVE  DecodeState(g, rt, lay, tra, p + 1, q, FALSE, <<tra[p]>>, cur, deg, cnt, new, l, t, ex)
<1>0. /\ g \in [Vertex -> Seq(Vertex)] /\ tra \in Seq(Vertex) /\ lay \in [Vertex -> Nat]
      /\ rt \in [Vertex -> 1 .. maxID + 1]
  BY LaidTypes
<1>1. PICK H \in SUBSET Slot(g) :
        /\ p \in 1 .. Len(tra) + 1 /\ q \in Nat \ {0}
        /\ Follows(g, Numbered(new), FALSE, cur, q, H) /\ Owed(g, rt, H, deg)
        /\ Numbering(new, cnt) /\ Waiting(g, rt, tra, p, <<>>, new, H)
        /\ Forward(g, rt, new) /\ InTurn(rt, lay, tra, p, FALSE, <<>>, cur, new)
        /\ Recorded(rt, lay, new, l, t) /\ Excepted(g, rt, new, H, ex)
        /\ Depth(g, rt, new, <<>>)
  BY DEF DecodeState
<1>2. p \in 1 .. Len(tra) /\ p + 1 \in 1 .. Len(tra) + 1 /\ (p + 1) - 1 = p /\ p + 1 >= 2
  BY <1>0, <1>1
<1>3. PICK r : r = tra[p]
  OBVIOUS
<1>4. r \in Vertex /\ r \in Elems(tra) /\ rt[r] = r + 1
  <2>1. r \in Vertex /\ r \in Elems(tra)
    BY <1>0, <1>2, <1>3 DEF Elems
  <2>2. RootList(tra, rt, lay)
    BY DEF LaidOut
  <2> QED
    BY <2>1, <2>2 DEF RootList
<1>5. r \notin Numbered(new)
  BY <1>1, <1>2, <1>3 DEF Waiting
<1>6. \A u : u \in Elems(<<r>>) <=> u = r
  BY <1>4, OneElem
<1>7. Distinct(<<r>>) /\ Len(<<r>>) = 1
  BY <1>4, OneElem
<1>8. Waiting(g, rt, tra, p + 1, <<r>>, new, H)
  <2>1. Elems(<<r>>) \cap Numbered(new) = {}
    BY <1>5, <1>6
  <2>2. ASSUME NEW v \in Vertex \ Elems(tra)
        PROVE  v \in Numbered(new) \cup Elems(<<r>>) <=> Inner(g, rt, v) \subseteq H
    <3>1. v \in Numbered(new) \cup Elems(<<>>) <=> Inner(g, rt, v) \subseteq H
      BY <1>1 DEF Waiting
    <3> QED
      BY <1>4, <1>6, <3>1, NoElem
  <2>3. ASSUME NEW a \in 1 .. Len(tra)
        PROVE  tra[a] \in Numbered(new) \cup Elems(<<r>>) <=> a < p + 1
    <3>1. tra[a] \in Numbered(new) <=> a < p
      BY <1>1, NoElem DEF Waiting
    <3>2. tra[a] = r <=> a = p
      BY <1>2, <1>3 DEF LaidOut, RootList, Distinct
    <3>3. a < p + 1 <=> a < p \/ a = p
      BY <1>2
    <3> QED
      BY <1>6, <3>1, <3>2, <3>3
  <2> QED
    BY <1>7, <2>1, <2>2, <2>3 DEF Waiting
<1>9. InTurn(rt, lay, tra, p + 1, FALSE, <<r>>, cur, new)
  <2>1. ASSUME NEW x \in Numbered(new) PROVE lay[rt[x] - 1] <= lay[tra[p]]
    <3>1. p >= 2 /\ lay[rt[x] - 1] <= lay[tra[p - 1]]
      BY <1>1 DEF InTurn
    <3>2. p - 1 \in 1 .. Len(tra) /\ p - 1 <= p
      BY <1>2, <3>1
    <3>3. lay[tra[p - 1]] <= lay[tra[p]]
      BY <1>2, <3>2 DEF LaidOut, RootList
    <3>4. tra[p - 1] \in Vertex /\ tra[p] \in Vertex /\ rt[x] - 1 \in Vertex
      <4>1. rt[x] \in 1 .. maxID + 1
        BY <1>0 DEF Numbered
      <4>2. rt[x] - 1 \in Vertex
        BY <4>1, MaxIDAssumption DEF Vertex
      <4>3. \A k \in 1 .. Len(tra) : tra[k] \in Vertex
        BY <1>0
      <4> QED
        BY <1>2, <3>2, <4>2, <4>3
    <3>5. lay[tra[p - 1]] \in Nat /\ lay[tra[p]] \in Nat /\ lay[rt[x] - 1] \in Nat
      BY <1>0, <3>4
    <3> QED
      BY <3>1, <3>3, <3>5
  <2>2. \A x, y \in Numbered(new) : new[x] < new[y] => lay[rt[x] - 1] <= lay[rt[y] - 1]
    BY <1>1 DEF InTurn
  <2> QED
    BY <1>2, <1>3, <1>4, <1>6, <2>1, <2>2 DEF InTurn
<1>10. \A u \in Vertex : ~LastOf(g, rt, new, u, r)
  BY <1>4, LastNumbered, RootsFirst
<1>11. Depth(g, rt, new, <<r>>)
  BY <1>1, <1>6, <1>10 DEF Depth
<1>12. Nested(g, rt, new, <<r>>) /\ Alone(tra, FALSE, <<r>>)
  BY <1>7 DEF Nested, Alone
<1>13. p + 1 \in 1 .. Len(tra) + 1 /\ q \in Nat \ {0}
  BY <1>1, <1>2
<1>14. DecodeState(g, rt, lay, tra, p + 1, q, FALSE, <<r>>, cur, deg, cnt, new, l, t, ex)
  BY <1>1, <1>8, <1>9, <1>11, <1>12, <1>13 DEF DecodeState
<1> QED
  BY <1>3, <1>14

\* The number after n gets layer a and region b.
RecordedNext(l, t, n, a, b, l2, t2) ==
    /\ l2[n + 1] = a /\ t2[n + 1] = b
    /\ \A k \in 1 .. n : l2[k] = l[k] /\ t2[k] = t[k]

\* A vertex leaves the deque and gets its number.
LEMMA DecodeTake ==
    ASSUME NEW g, NEW topo, NEW ld, NEW rt, NEW lay, NEW tra,
           LaidOut(g, topo, ld, rt, lay, tra),
           NEW p, NEW q, NEW qu \in Seq(Vertex), qu # <<>>, NEW cur, NEW deg, NEW cnt \in Nat,
           NEW new \in [Vertex -> Nat], NEW l, NEW t, NEW ex,
           DecodeState(g, rt, lay, tra, p, q, FALSE, qu, cur, deg, cnt, new, l, t, ex),
           NEW c, c = Head(qu), NEW rest, rest = Tail(qu),
           NEW new2, Given(new, c, cnt + 1, new2), NEW l2, NEW t2,
           RecordedNext(l, t, cnt, lay[tra[p - 1]], rt[c], l2, t2)
    PROVE  /\ DecodeState(g, rt, lay, tra, p, 1, TRUE, rest, c, deg, cnt + 1, new2, l2, t2, ex)
           /\ cnt + 1 \in NewID
<1>0. /\ g \in [Vertex -> Seq(Vertex)] /\ tra \in Seq(Vertex) /\ lay \in [Vertex -> Nat]
      /\ rt \in [Vertex -> 1 .. maxID + 1]
  BY LaidTypes
<1>1. PICK H \in SUBSET Slot(g) :
        /\ p \in 1 .. Len(tra) + 1 /\ q \in Nat \ {0}
        /\ Follows(g, Numbered(new), FALSE, cur, q, H) /\ Owed(g, rt, H, deg)
        /\ Numbering(new, cnt) /\ Waiting(g, rt, tra, p, qu, new, H) /\ Alone(tra, FALSE, qu)
        /\ Forward(g, rt, new) /\ InTurn(rt, lay, tra, p, FALSE, qu, cur, new)
        /\ Recorded(rt, lay, new, l, t) /\ Excepted(g, rt, new, H, ex)
        /\ Depth(g, rt, new, qu) /\ Nested(g, rt, new, qu)
  BY DEF DecodeState
<1>2. Popped(qu, rest)
  BY <1>1, PopElems DEF Waiting
<1>3. /\ rest \in Seq(Vertex) /\ Distinct(rest) /\ c \in Vertex /\ c \in Elems(qu)
      /\ c \notin Elems(rest) /\ Len(rest) \in Nat /\ Len(qu) = Len(rest) + 1 /\ c = qu[1]
      /\ \A v : v \in Elems(qu) <=> v = c \/ v \in Elems(rest)
      /\ \A a \in 1 .. Len(rest) : a + 1 \in 1 .. Len(qu) /\ rest[a] = qu[a + 1]
  BY <1>2 DEF Popped
<1>4. c \notin Numbered(new)
  BY <1>1, <1>3 DEF Waiting
<1>5. \A v : v \in Numbered(new2) <=> v \in Numbered(new) \/ v = c
  BY <1>3, GivenNumbered
<1>6. Numbering(new2, cnt + 1) /\ cnt + 1 \in NewID
  BY <1>1, <1>3, <1>4, NumberingNext
<1>7. Follows(g, Numbered(new2), TRUE, c, 1, H)
  BY <1>1, <1>4, <1>5, FollowVertex
<1>8. \A v \in Numbered(new) : v \in Vertex /\ v # c /\ new2[v] = new[v] /\ new[v] \in 1 .. cnt
  BY <1>1, <1>4 DEF Given, Numbered, Numbering
<1>9. new2[c] = cnt + 1
  BY DEF Given
<1>10. \A v : v \in Numbered(new2) \/ v \in Elems(rest) <=> v \in Numbered(new) \/ v \in Elems(qu)
  BY <1>3, <1>5
<1>11. Waiting(g, rt, tra, p, rest, new2, H)
  <2>1. Elems(rest) \cap Numbered(new2) = {}
    BY <1>1, <1>3, <1>5 DEF Waiting
  <2>2. \A v \in Vertex \ Elems(tra) :
           v \in Numbered(new2) \cup Elems(rest) <=> Inner(g, rt, v) \subseteq H
    BY <1>1, <1>10 DEF Waiting
  <2>3. \A a \in 1 .. Len(tra) : tra[a] \in Numbered(new2) \cup Elems(rest) <=> a < p
    BY <1>1, <1>10 DEF Waiting
  <2> QED
    BY <1>3, <2>1, <2>2, <2>3 DEF Waiting
<1>12. Alone(tra, TRUE, rest)
  <2>1. ASSUME NEW v \in Elems(rest), v \in Elems(tra) PROVE FALSE
    <3>1. Len(qu) = 1
      BY <1>1, <1>3, <2>1 DEF Alone
    <3>2. Len(rest) = 0
      BY <1>3, <3>1
    <3> QED
      BY <2>1, <3>2 DEF Elems
  <2> QED
    BY <2>1 DEF Alone
<1>13. \A v : v \in Numbered(new) \/ v \in Elems(qu) => Reached(g, rt, new, v)
  BY <1>1, WaitingReached
<1>14. Forward(g, rt, new2)
  <2>1. ASSUME NEW v \in Numbered(new2), NEW s \in Inner(g, rt, v)
        PROVE  new2[s[1]] # 0 /\ new2[s[1]] < new2[v]
    <3>1. s[1] \in Numbered(new)
      BY <1>3, <1>5, <1>13 DEF Reached
    <3>2. new2[s[1]] = new[s[1]] /\ new[s[1]] \in 1 .. cnt
      BY <1>8, <3>1
    <3>3. CASE v = c
      BY <1>9, <3>2, <3>3
    <3>4. CASE v # c
      <4>1. v \in Numbered(new) /\ new2[v] = new[v]
        BY <1>5, <1>8, <3>4
      <4> QED
        BY <1>1, <3>2, <4>1 DEF Forward
    <3> QED
      BY <3>3, <3>4
  <2> QED
    BY <2>1 DEF Forward
<1>15. p >= 2 /\ rt[c] = tra[p - 1] + 1
  BY <1>1, <1>3 DEF InTurn
<1>16. p - 1 \in 1 .. Len(tra) /\ tra[p - 1] \in Vertex
  BY <1>0, <1>1, <1>15
<1>17. lay[rt[c] - 1] = lay[tra[p - 1]] /\ lay[tra[p - 1]] \in Nat
  <2>1. rt[c] - 1 = tra[p - 1]
    BY <1>15, <1>16 DEF Vertex
  <2> QED
    BY <1>0, <1>16, <2>1
<1>18. InTurn(rt, lay, tra, p, TRUE, rest, c, new2)
  <2>1. ASSUME NEW x \in Numbered(new2) PROVE lay[rt[x] - 1] <= lay[tra[p - 1]]
    BY <1>1, <1>5, <1>17 DEF InTurn
  <2>2. ASSUME NEW x \in Numbered(new2), NEW y \in Numbered(new2), new2[x] < new2[y]
        PROVE  lay[rt[x] - 1] <= lay[rt[y] - 1]
    <3>1. CASE y = c
      BY <1>17, <2>1, <3>1
    <3>2. CASE x = c /\ y # c
      <4>1. new2[y] \in 1 .. cnt
        BY <1>5, <1>8, <3>2
      <4> QED
        BY <1>9, <2>2, <3>2, <4>1
    <3>3. CASE x # c /\ y # c
      <4>1. x \in Numbered(new) /\ y \in Numbered(new) /\ new[x] < new[y]
        BY <1>5, <1>8, <2>2, <3>3
      <4> QED
        BY <1>1, <4>1 DEF InTurn
    <3> QED
      BY <3>1, <3>2, <3>3
  <2>3. \A v \in Elems(rest) : p >= 2 /\ rt[v] = tra[p - 1] + 1
    BY <1>1, <1>3 DEF InTurn
  <2> QED
    BY <1>15, <2>1, <2>2, <2>3 DEF InTurn
<1>28. /\ l2[cnt + 1] = lay[tra[p - 1]] /\ t2[cnt + 1] = rt[c]
       /\ \A n \in 1 .. cnt : l2[n] = l[n] /\ t2[n] = t[n]
  BY DEF RecordedNext
<1>19. Recorded(rt, lay, new2, l2, t2)
  <2>1. ASSUME NEW v \in Numbered(new2) PROVE l2[new2[v]] = lay[rt[v] - 1] /\ t2[new2[v]] = rt[v]
    <3>1. CASE v = c
      BY <1>9, <1>17, <1>28, <3>1
    <3>2. CASE v # c
      <4>1. v \in Numbered(new) /\ new2[v] = new[v] /\ new[v] \in 1 .. cnt
        BY <1>5, <1>8, <3>2
      <4> QED
        BY <1>1, <1>28, <4>1 DEF Recorded
    <3> QED
      BY <3>1, <3>2
  <2> QED
    BY <2>1 DEF Recorded
<1>27. cnt + 1 \in Nat
  OBVIOUS
<1>20. ASSUME NEW v, v \in Numbered(new) \/ v \in Elems(qu), NEW u \in Vertex
       PROVE  LastOf(g, rt, new2, u, v) <=> LastOf(g, rt, new, u, v)
  <2>1. Reached(g, rt, new, v)
    BY <1>13, <1>20
  <2> QED
    BY <1>0, <1>3, <1>4, <1>27, <2>1, LastSame
<1>21. Excepted(g, rt, new2, H, ex)
  <2>1. ASSUME NEW s \in H, rt[Target(g, s)] = rt[s[1]], Target(g, s) \notin Elems(ex[s[1]])
        PROVE  LastOf(g, rt, new2, s[1], Target(g, s))
    <3>1. LastOf(g, rt, new, s[1], Target(g, s)) /\ s[1] \in Vertex
      <4>1. s \in Slot(g)
        OBVIOUS
      <4> QED
        BY <1>0, <1>1, <2>1, <4>1, SlotFields DEF Excepted
    <3>2. Reached(g, rt, new, Target(g, s))
      BY <3>1, <1>0, InnerPlace DEF LastOf, Reached, Numbered
    <3> QED
      BY <1>0, <1>3, <1>4, <1>27, <3>1, <3>2, LastSame
  <2>2. \A u \in Vertex : ex[u] \in Seq(Vertex) /\ \A v \in Elems(ex[u]) : v \in Succ(g, u) /\ rt[v] = rt[u]
    BY <1>1 DEF Excepted
  <2> QED
    BY <2>1, <2>2 DEF Excepted
<1>22. OnTop(g, rt, new2, rest, c)
  <2>1. SUFFICES ASSUME NEW b \in 1 .. Len(rest), NEW y \in Vertex, LastOf(g, rt, new2, y, rest[b])
                 PROVE  Within(g, rt, y, c)
    BY DEF OnTop
  <2>2. rest[b] \in Elems(qu) /\ rest[b] = qu[b + 1] /\ b + 1 \in 1 .. Len(qu) /\ 1 \in 1 .. Len(qu)
    BY <1>3 DEF Elems
  <2>3. LastOf(g, rt, new, y, qu[b + 1])
    BY <1>20, <2>1, <2>2
  <2>4. c \notin Elems(tra)
    <3>1. Len(qu) # 1
      BY <1>3, <2>2
    <3> QED
      BY <1>1, <1>3, <3>1 DEF Alone
  <2>5. Inner(g, rt, c) # {}
    BY <1>3, <2>4 DEF LaidOut, Rooted
  <2>10. \A w \in Numbered(new) : new[w] <= cnt
    BY <1>8
  <2>11. Reached(g, rt, new, c)
    BY <1>3, <1>13
  <2>6. PICK x \in Numbered(new) : LastOf(g, rt, new, x, c)
    BY <1>0, <2>5, <2>10, <2>11, LastExists
  <2>7. x \in Vertex /\ LastOf(g, rt, new, x, qu[1])
    BY <1>3, <2>6 DEF Numbered
  <2>8. Within(g, rt, y, x)
    <3>1. 1 < b + 1
      BY <2>2
    <3> QED
      BY <1>1, <2>2, <2>3, <2>7, <3>1 DEF Nested
  <2>9. c \in Succ(g, x) /\ rt[c] = rt[x]
    BY <2>6 DEF LastOf
  <2> QED
    BY <1>0, <2>8, <2>9, WithinStep
<1>23. Nested(g, rt, new2, rest)
  <2>1. SUFFICES ASSUME NEW a \in 1 .. Len(rest), NEW b \in 1 .. Len(rest), a < b,
                        NEW x \in Vertex, NEW y \in Vertex, LastOf(g, rt, new2, x, rest[a]),
                        LastOf(g, rt, new2, y, rest[b])
                 PROVE  Within(g, rt, y, x)
    BY DEF Nested
  <2>2. /\ rest[a] \in Elems(qu) /\ rest[a] = qu[a + 1] /\ a + 1 \in 1 .. Len(qu)
        /\ rest[b] \in Elems(qu) /\ rest[b] = qu[b + 1] /\ b + 1 \in 1 .. Len(qu)
        /\ a + 1 < b + 1
    BY <1>3, <2>1 DEF Elems
  <2>3. LastOf(g, rt, new, x, qu[a + 1]) /\ LastOf(g, rt, new, y, qu[b + 1])
    BY <1>20, <2>1, <2>2
  <2> QED
    BY <1>1, <2>2, <2>3 DEF Nested
<1>24. Depth(g, rt, new2, rest)
  <2>1. SUFFICES ASSUME NEW v, v \in Numbered(new2) \/ v \in Elems(rest), NEW u \in Vertex,
                        LastOf(g, rt, new2, u, v), NEW x \in Numbered(new2),
                        new2[u] <= new2[x], new2[v] = 0 \/ new2[x] <= new2[v]
                 PROVE  Within(g, rt, u, x)
    BY DEF Depth, BelowLast
  <2>2. /\ v \in Numbered(new) \/ v \in Elems(qu)
        /\ LastOf(g, rt, new, u, v)
    BY <1>10, <1>20, <2>1
  <2>3. u \in Numbered(new) /\ new2[u] = new[u] /\ new[u] \in 1 .. cnt
    BY <1>8, <2>2, LastNumbered
  <2>4. BelowLast(g, rt, new, u, v)
    BY <1>1, <2>2 DEF Depth
  <2>5. CASE x # c
    <3>1. x \in Numbered(new) /\ new2[x] = new[x]
      BY <1>5, <1>8, <2>5
    <3>2. v # c => new2[v] = new[v]
      BY <1>3, <2>2, ElemsVertex DEF Given, Numbered
    <3>3. v = c => new[v] = 0
      BY <1>3, <1>4 DEF Numbered
    <3> QED
      BY <2>1, <2>3, <2>4, <3>1, <3>2, <3>3 DEF BelowLast
  <2>6. CASE x = c /\ v = c
    BY <1>0, <2>2, <2>6, WithinEdge DEF LastOf
  <2>7. CASE x = c /\ v # c
    <3>1. v \in Elems(rest)
      <4>1. ASSUME v \in Numbered(new) PROVE FALSE
        <5>1. new2[v] \in 1 .. cnt
          BY <1>8, <4>1
        <5> QED
          BY <1>9, <2>1, <2>7, <5>1
      <4> QED
        BY <1>3, <2>2, <2>7, <4>1
    <3>2. PICK b \in 1 .. Len(rest) : rest[b] = v
      BY <3>1 DEF Elems
    <3> QED
      BY <1>22, <2>1, <2>7, <3>2 DEF OnTop
  <2> QED
    BY <2>5, <2>6, <2>7
<1>25. 1 \in Nat \ {0} /\ c \in Numbered(new2)
  BY <1>5
<1>26. DecodeState(g, rt, lay, tra, p, 1, TRUE, rest, c, deg, cnt + 1, new2, l2, t2, ex)
  BY <1>1, <1>6, <1>7, <1>9, <1>11, <1>12, <1>14, <1>18, <1>19, <1>21, <1>22, <1>23, <1>24,
     <1>25 DEF DecodeState
<1> QED
  BY <1>6, <1>26

\* The parts of the state decode reads an edge in, but the places followed.
Descending(g, rt, lay, tra, p, qu, cur, cnt, new, l, t) ==
    /\ p \in 1 .. Len(tra) + 1 /\ Numbering(new, cnt)
    /\ Forward(g, rt, new) /\ InTurn(rt, lay, tra, p, TRUE, qu, cur, new)
    /\ Recorded(rt, lay, new, l, t) /\ Depth(g, rt, new, qu) /\ Nested(g, rt, new, qu)
    /\ cur \in Numbered(new) /\ new[cur] = cnt /\ OnTop(g, rt, new, qu, cur)

\* An edge out of the region is passed over.
LEMMA DecodeOutward ==
    ASSUME NEW g \in [Vertex -> Seq(Vertex)], NEW rt, NEW lay, NEW tra,
           NEW p, NEW q, NEW qu, NEW cur, NEW deg, NEW cnt, NEW new, NEW l, NEW t, NEW ex,
           DecodeState(g, rt, lay, tra, p, q, TRUE, qu, cur, deg, cnt, new, l, t, ex),
           q <= Len(g[cur]), NEW v, v = g[cur][q], rt[v] # rt[cur]
    PROVE  DecodeState(g, rt, lay, tra, p, q + 1, TRUE, qu, cur, deg, cnt, new, l, t, ex)
<1>1. /\ Descending(g, rt, lay, tra, p, qu, cur, cnt, new, l, t) /\ Alone(tra, TRUE, qu)
      /\ q \in Nat \ {0} /\ cur \in Numbered(new) /\ Numbered(new) \in SUBSET Vertex
  BY DEF DecodeState, Descending, Numbered
<1>2. PICK H \in SUBSET Slot(g) :
          /\ Follows(g, Numbered(new), TRUE, cur, q, H) /\ Owed(g, rt, H, deg)
          /\ Waiting(g, rt, tra, p, qu, new, H) /\ Excepted(g, rt, new, H, ex)
  BY DEF DecodeState
<1>3. PICK e : NextEdge(g, Numbered(new), cur, q, H, e)
  BY <1>1, <1>2, FollowEdge
<1>4. /\ e \in Slot(g) /\ Follows(g, Numbered(new), TRUE, cur, q + 1, H \cup {e})
      /\ e[1] = cur /\ Target(g, e) = v
  BY <1>3 DEF NextEdge
<1>5. \A w : e \notin Inner(g, rt, w)
  BY <1>4 DEF Inner, InSlots
<1>6. Owed(g, rt, H \cup {e}, deg)
  <2>1. ASSUME NEW w \in Vertex PROVE Inner(g, rt, w) \ (H \cup {e}) = Inner(g, rt, w) \ H
    BY <1>5
  <2> QED
    BY <1>2, <2>1 DEF Owed
<1>7. Waiting(g, rt, tra, p, qu, new, H \cup {e})
  <2>1. ASSUME NEW w \in Vertex
        PROVE  Inner(g, rt, w) \subseteq H \cup {e} <=> Inner(g, rt, w) \subseteq H
    BY <1>5
  <2> QED
    BY <1>2, <2>1 DEF Waiting
<1>8. Excepted(g, rt, new, H \cup {e}, ex)
  BY <1>2, <1>4 DEF Excepted
<1>9. H \cup {e} \in SUBSET Slot(g) /\ q + 1 \in Nat \ {0}
  BY <1>1, <1>4
<1> QED
  BY <1>1, <1>4, <1>6, <1>7, <1>8, <1>9 DEF DecodeState, Descending

\* The last edge but the owed ones has come in, or not.
OwedThen(g, rt, v, e, H2, left) ==
    /\ left = 0 <=> Inner(g, rt, v) \subseteq H2
    /\ \A w \in Vertex : w # v => e \notin Inner(g, rt, w)

\* What is owed to the vertices when the edge e to v has been followed.
LEMMA OwedEdge ==
    ASSUME NEW g \in [Vertex -> Seq(Vertex)], NEW rt, NEW H \in SUBSET Slot(g), NEW deg \in [Vertex -> Int],
           Owed(g, rt, H, deg), NEW v \in Vertex, NEW e \in Inner(g, rt, v), e \notin H
    PROVE  /\ deg[v] > 0 /\ Owed(g, rt, H \cup {e}, [deg EXCEPT ![v] = deg[v] - 1])
           /\ OwedThen(g, rt, v, e, H \cup {e}, deg[v] - 1)
<1>1. PICK deg2, H2 : deg2 = [deg EXCEPT ![v] = deg[v] - 1] /\ H2 = H \cup {e}
  OBVIOUS
<1>2. e \in Slot(g) /\ Target(g, e) = v
  BY InnerPlace
<1>3. \A w \in Vertex : w # v => e \notin Inner(g, rt, w)
  BY <1>2 DEF Inner, InSlots
<1>4. PICK R : R = Inner(g, rt, v) \ H2
  OBVIOUS
<1>5. IsFiniteSet(R) /\ e \notin R /\ Inner(g, rt, v) \ H = R \cup {e}
  BY <1>1, <1>4, InnerFinite
<1>6. deg[v] = Cardinality(R) + 1 /\ Cardinality(R) \in Nat
  BY <1>5, FS_AddElement, FS_CardinalityType DEF Owed
<1>7. Cardinality(R) = 0 <=> R = {}
  BY <1>5, FS_EmptySet
<1>8. ASSUME NEW w \in Vertex PROVE deg2[w] = Cardinality(Inner(g, rt, w) \ H2)
  <2>1. CASE w = v
    BY <1>1, <1>4, <1>6, <2>1
  <2>2. CASE w # v
    <3>1. Inner(g, rt, w) \ H2 = Inner(g, rt, w) \ H
      BY <1>1, <1>3, <2>2
    <3> QED
      BY <1>1, <2>2, <3>1 DEF Owed
  <2> QED
    BY <2>1, <2>2
<1>9. Owed(g, rt, H2, deg2)
  BY <1>8 DEF Owed
<1>10. R = {} <=> Inner(g, rt, v) \subseteq H2
  BY <1>4
<1>11. deg[v] > 0 /\ (deg[v] - 1 = 0 <=> R = {})
  BY <1>6, <1>7
<1> QED
  BY <1>1, <1>3, <1>9, <1>10, <1>11 DEF OwedThen

\* The edge at hand, into the region.
InwardEdge(g, rt, tra, new, qu, cur, q, H, v, e) ==
    /\ e \in Slot(g) /\ e \notin H /\ e[1] = cur /\ Target(g, e) = v
    /\ e \in Inner(g, rt, v) /\ v \in Vertex /\ v \in Succ(g, cur)
    /\ v \notin Elems(tra) /\ v \notin Numbered(new) /\ v \notin Elems(qu)
    /\ Follows(g, Numbered(new), TRUE, cur, q + 1, H \cup {e})

\* What is known of an edge into the region.
LEMMA DecodeInwardEdge ==
    ASSUME NEW g, NEW topo, NEW ld, NEW rt, NEW lay, NEW tra,
           LaidOut(g, topo, ld, rt, lay, tra),
           NEW p, NEW q \in Nat \ {0}, NEW qu, NEW cur, NEW new, NEW H \in SUBSET Slot(g),
           cur \in Numbered(new), Follows(g, Numbered(new), TRUE, cur, q, H),
           Waiting(g, rt, tra, p, qu, new, H),
           q <= Len(g[cur]), NEW v, v = g[cur][q], rt[v] = rt[cur]
    PROVE  \E e : InwardEdge(g, rt, tra, new, qu, cur, q, H, v, e)
<1>1. g \in [Vertex -> Seq(Vertex)] /\ Numbered(new) \in SUBSET Vertex
  BY LaidTypes DEF Numbered
<1>2. PICK e : NextEdge(g, Numbered(new), cur, q, H, e)
  BY <1>1, FollowEdge
<1>3. /\ e \in Slot(g) /\ e \notin H /\ Follows(g, Numbered(new), TRUE, cur, q + 1, H \cup {e})
      /\ e[1] = cur /\ Target(g, e) = v
  BY <1>2 DEF NextEdge
<1>4. v \in Vertex /\ v \in Succ(g, cur)
  BY <1>1, FollowEdge
<1>5. e \in Inner(g, rt, v)
  BY <1>3 DEF Inner, InSlots
<1>6. v \notin Elems(tra)
  BY <1>5, RootsFirst
<1>7. v \notin Numbered(new) /\ v \notin Elems(qu)
  BY <1>3, <1>4, <1>5, <1>6 DEF Waiting
<1> QED
  BY <1>3, <1>4, <1>5, <1>6, <1>7 DEF InwardEdge

\* Other predecessors of v are to come: v becomes an exception of cur.
LEMMA DecodeExcept ==
    ASSUME NEW g, NEW topo, NEW ld, NEW rt, NEW lay, NEW tra,
           LaidOut(g, topo, ld, rt, lay, tra),
           NEW p, NEW q, NEW qu, NEW cur, NEW deg \in [Vertex -> Int], NEW cnt, NEW new, NEW l, NEW t,
           NEW ex \in [Vertex -> Seq(Vertex)],
           DecodeState(g, rt, lay, tra, p, q, TRUE, qu, cur, deg, cnt, new, l, t, ex),
           q <= Len(g[cur]), NEW v, v = g[cur][q], rt[v] = rt[cur], deg[v] - 1 # 0,
           NEW ex2, ex2 = [ex EXCEPT ![cur] = Append(ex[cur], v)]
    PROVE  /\ DecodeState(g, rt, lay, tra, p, q + 1, TRUE, qu, cur, [deg EXCEPT ![v] = deg[v] - 1],
                          cnt, new, l, t, ex2)
           /\ deg[v] > 0
<1>0. g \in [Vertex -> Seq(Vertex)]
  BY LaidTypes
<1>1. /\ Descending(g, rt, lay, tra, p, qu, cur, cnt, new, l, t) /\ Alone(tra, TRUE, qu)
      /\ q \in Nat \ {0} /\ cur \in Numbered(new) /\ cur \in Vertex
  BY DEF DecodeState, Descending, Numbered
<1>2. PICK H \in SUBSET Slot(g) :
          /\ Follows(g, Numbered(new), TRUE, cur, q, H) /\ Owed(g, rt, H, deg)
          /\ Waiting(g, rt, tra, p, qu, new, H) /\ Excepted(g, rt, new, H, ex)
  BY DEF DecodeState
<1>3. PICK e : InwardEdge(g, rt, tra, new, qu, cur, q, H, v, e)
  BY <1>1, <1>2, DecodeInwardEdge
<1>4. /\ e \in Slot(g) /\ e \notin H /\ e[1] = cur /\ Target(g, e) = v
      /\ e \in Inner(g, rt, v) /\ v \in Vertex /\ v \in Succ(g, cur)
      /\ v \notin Elems(tra) /\ v \notin Numbered(new) /\ v \notin Elems(qu)
      /\ Follows(g, Numbered(new), TRUE, cur, q + 1, H \cup {e})
  BY <1>3 DEF InwardEdge
<1>5. PICK deg2 : deg2 = [deg EXCEPT ![v] = deg[v] - 1]
  OBVIOUS
<1>13. OwedThen(g, rt, v, e, H \cup {e}, deg[v] - 1)
  BY <1>0, <1>2, <1>4, OwedEdge
<1>6. /\ deg[v] > 0 /\ Owed(g, rt, H \cup {e}, deg2)
      /\ deg[v] - 1 = 0 <=> Inner(g, rt, v) \subseteq H \cup {e}
      /\ \A w \in Vertex : w # v => e \notin Inner(g, rt, w)
  <2>1. deg[v] > 0
    BY <1>0, <1>2, <1>4, OwedEdge
  <2>2. Owed(g, rt, H \cup {e}, deg2)
    BY <1>0, <1>2, <1>4, <1>5, OwedEdge
  <2> QED
    BY <1>13, <2>1, <2>2 DEF OwedThen
<1>7. Waiting(g, rt, tra, p, qu, new, H \cup {e})
  <2>1. ASSUME NEW w \in Vertex
        PROVE  Inner(g, rt, w) \subseteq H \cup {e} <=> Inner(g, rt, w) \subseteq H
    <3>1. CASE w = v
      BY <1>6, <3>1
    <3>2. CASE w # v
      BY <1>6, <3>2
    <3> QED
      BY <3>1, <3>2
  <2> QED
    BY <1>2, <2>1 DEF Waiting
<1>8. /\ \A u \in Vertex : u # cur => ex2[u] = ex[u]
      /\ ex2[cur] = Append(ex[cur], v) /\ ex[cur] \in Seq(Vertex)
  BY <1>1
<1>9. \A w : w \in Elems(ex2[cur]) <=> w \in Elems(ex[cur]) \/ w = v
  BY <1>4, <1>8, LongerElems
<1>10. Excepted(g, rt, new, H \cup {e}, ex2)
  <2>1. ASSUME NEW u \in Vertex
        PROVE  ex2[u] \in Seq(Vertex) /\ \A w \in Elems(ex2[u]) : w \in Succ(g, u) /\ rt[w] = rt[u]
    <3>1. ex[u] \in Seq(Vertex) /\ \A w \in Elems(ex[u]) : w \in Succ(g, u) /\ rt[w] = rt[u]
      BY <1>2 DEF Excepted
    <3>2. CASE u = cur
      <4>1. ex2[u] \in Seq(Vertex)
        BY <1>4, <1>8, <3>2
      <4> QED
        BY <1>4, <1>9, <3>1, <3>2, <4>1
    <3>3. CASE u # cur
      BY <1>8, <3>1, <3>3
    <3> QED
      BY <3>2, <3>3
  <2>2. ASSUME NEW s \in H \cup {e}, rt[Target(g, s)] = rt[s[1]]
        PROVE  Target(g, s) \in Elems(ex2[s[1]]) \/ LastOf(g, rt, new, s[1], Target(g, s))
    <3>1. CASE s = e
      BY <1>4, <1>9, <3>1
    <3>2. CASE s \in H
      <4>1. Target(g, s) \in Elems(ex[s[1]]) \/ LastOf(g, rt, new, s[1], Target(g, s))
        BY <1>2, <2>2, <3>2 DEF Excepted
      <4>2. s \in Slot(g)
        BY <3>2
      <4>3. s[1] \in Vertex
        BY <1>0, <4>2, SlotFields
      <4> QED
        BY <1>8, <1>9, <4>1, <4>3
    <3> QED
      BY <2>2, <3>1, <3>2
  <2> QED
    BY <2>1, <2>2 DEF Excepted
<1>11. H \cup {e} \in SUBSET Slot(g) /\ q + 1 \in Nat \ {0}
  BY <1>1, <1>4
<1>12. DecodeState(g, rt, lay, tra, p, q + 1, TRUE, qu, cur, deg2, cnt, new, l, t, ex2)
  BY <1>1, <1>4, <1>6, <1>7, <1>10, <1>11 DEF DecodeState, Descending
<1> QED
  BY <1>5, <1>6, <1>12

\* The deque with v put in front.
Pushed(qu, v, qu2) ==
    /\ qu2 \in Seq(Vertex) /\ Distinct(qu2)
    /\ Len(qu) \in Nat /\ Len(qu2) = Len(qu) + 1 /\ qu2[1] = v
    /\ \A u : u \in Elems(qu2) <=> u = v \/ u \in Elems(qu)
    /\ \A a \in 2 .. Len(qu2) : a - 1 \in 1 .. Len(qu) /\ qu2[a] = qu[a - 1]

\* Putting a vertex in front adds it alone.
LEMMA PushElems ==
    ASSUME NEW qu \in Seq(Vertex), Distinct(qu), NEW v \in Vertex, v \notin Elems(qu)
    PROVE  Pushed(qu, v, <<v>> \o qu)
<1>1. PICK qu2 : qu2 = <<v>> \o qu
  OBVIOUS
<1>2. <<v>> \in Seq(Vertex) /\ Len(<<v>>) = 1
  OBVIOUS
<1>3. /\ qu2 \in Seq(Vertex) /\ Len(qu) \in Nat /\ Len(qu2) = Len(qu) + 1
      /\ qu2[1] = v
      /\ \A a \in 2 .. Len(qu2) : a - 1 \in 1 .. Len(qu) /\ qu2[a] = qu[a - 1]
  BY <1>1, <1>2
<1>4. ASSUME NEW u PROVE u \in Elems(qu2) <=> u = v \/ u \in Elems(qu)
  <2>1. ASSUME u \in Elems(qu2) PROVE u = v \/ u \in Elems(qu)
    <3>1. PICK a \in 1 .. Len(qu2) : qu2[a] = u
      BY <2>1 DEF Elems
    <3>2. CASE a = 1
      BY <1>3, <3>1, <3>2
    <3>3. CASE a # 1
      <4>1. a \in 2 .. Len(qu2)
        BY <1>3, <3>3
      <4>2. a - 1 \in 1 .. Len(qu) /\ u = qu[a - 1]
        BY <1>3, <3>1, <4>1
      <4> QED
        BY <4>2 DEF Elems
    <3> QED
      BY <3>2, <3>3
  <2>2. v \in Elems(qu2)
    BY <1>3 DEF Elems
  <2>3. ASSUME u \in Elems(qu) PROVE u \in Elems(qu2)
    <3>1. PICK a \in 1 .. Len(qu) : qu[a] = u
      BY <2>3 DEF Elems
    <3>2. a + 1 \in 2 .. Len(qu2) /\ (a + 1) - 1 = a
      BY <1>3
    <3>3. qu2[a + 1] = u
      BY <1>3, <3>1, <3>2
    <3> QED
      BY <1>3, <3>2, <3>3 DEF Elems
  <2> QED
    BY <2>1, <2>2, <2>3
<1>5. ASSUME NEW a \in 1 .. Len(qu2), NEW b \in 1 .. Len(qu2), qu2[a] = qu2[b] PROVE a = b
  <2>1. ASSUME NEW c \in 1 .. Len(qu2), c # 1
        PROVE  c - 1 \in 1 .. Len(qu) /\ qu2[c] = qu[c - 1] /\ qu2[c] # v
    <3>1. c \in 2 .. Len(qu2)
      BY <1>3, <2>1
    <3>2. c - 1 \in 1 .. Len(qu) /\ qu2[c] = qu[c - 1]
      BY <1>3, <3>1
    <3> QED
      BY <3>2 DEF Elems
  <2>2. CASE a = 1 \/ b = 1
    BY <1>3, <1>5, <2>1, <2>2
  <2>3. CASE a # 1 /\ b # 1
    <3>1. a - 1 = b - 1
      BY <1>5, <2>1, <2>3 DEF Distinct
    <3> QED
      BY <3>1
  <2> QED
    BY <2>2, <2>3
<1>6. Distinct(qu2)
  BY <1>5 DEF Distinct
<1>7. Pushed(qu, v, qu2)
  BY <1>3, <1>4, <1>6 DEF Pushed
<1> QED
  BY <1>1, <1>7

\* cur is the last predecessor of v, and no other vertex is.
OnlyLast(g, rt, new, cur, v) ==
    LastOf(g, rt, new, cur, v) /\ \A u \in Vertex : LastOf(g, rt, new, u, v) => u = cur

\* The edge at hand is the last into v, so cur is its last predecessor.
LEMMA LastIsCur ==
    ASSUME NEW g \in [Vertex -> Seq(Vertex)], NEW rt, NEW new, NEW cnt \in Nat, Numbering(new, cnt),
           NEW cur \in Numbered(new), new[cur] = cnt, NEW q, NEW H,
           Follows(g, Numbered(new), TRUE, cur, q, H),
           NEW v, v \in Succ(g, cur), rt[v] = rt[cur], Inner(g, rt, v) \subseteq H,
           NEW e \in Inner(g, rt, v), e[1] = cur
    PROVE  OnlyLast(g, rt, new, cur, v)
<1>1. ASSUME NEW s \in Inner(g, rt, v) PROVE new[s[1]] # 0 /\ new[s[1]] <= new[cur]
  <2>1. s \in Slot(g) /\ s \in H
    BY DEF Inner, InSlots
  <2>2. s[1] \in Numbered(new)
    BY <2>1 DEF Follows
  <2> QED
    BY <2>2 DEF Numbering
<1>2. ASSUME NEW u \in Vertex, LastOf(g, rt, new, u, v) PROVE u = cur
  <2>1. u \in Numbered(new)
    BY <1>2, LastNumbered
  <2>2. new[cur] <= new[u] /\ new[u] \in 1 .. cnt
    BY <1>2, <2>1 DEF LastOf, Numbering
  <2>3. new[u] = new[cur]
    BY <2>2
  <2> QED
    BY <2>1, <2>3 DEF Numbering
<1> QED
  BY <1>1, <1>2 DEF LastOf, OnlyLast

\* v is put in front of the deque.
LEMMA DescendFrom ==
    ASSUME NEW g \in [Vertex -> Seq(Vertex)], NEW rt, NEW lay, NEW tra, NEW p, NEW qu, NEW cur,
           NEW cnt \in Nat, NEW new \in [Vertex -> Nat], NEW l, NEW t,
           Descending(g, rt, lay, tra, p, qu, cur, cnt, new, l, t),
           NEW v \in Vertex, rt[v] = rt[cur], v \notin Numbered(new),
           \A u \in Vertex : LastOf(g, rt, new, u, v) => u = cur,
           NEW qu2, Pushed(qu, v, qu2)
    PROVE  Descending(g, rt, lay, tra, p, qu2, cur, cnt, new, l, t)
<1>1. /\ p \in 1 .. Len(tra) + 1 /\ Numbering(new, cnt)
      /\ Forward(g, rt, new) /\ InTurn(rt, lay, tra, p, TRUE, qu, cur, new)
      /\ Recorded(rt, lay, new, l, t) /\ Depth(g, rt, new, qu) /\ Nested(g, rt, new, qu)
      /\ cur \in Numbered(new) /\ new[cur] = cnt /\ OnTop(g, rt, new, qu, cur)
  BY DEF Descending
<1>2. /\ qu2 \in Seq(Vertex) /\ Len(qu2) = Len(qu) + 1 /\ Len(qu) \in Nat /\ qu2[1] = v
      /\ \A u : u \in Elems(qu2) <=> u = v \/ u \in Elems(qu)
      /\ \A a \in 2 .. Len(qu2) : a - 1 \in 1 .. Len(qu) /\ qu2[a] = qu[a - 1]
  BY DEF Pushed
<1>3. InTurn(rt, lay, tra, p, TRUE, qu2, cur, new)
  BY <1>1, <1>2 DEF InTurn
<1>4. Depth(g, rt, new, qu2)
  <2>1. SUFFICES ASSUME NEW w, w \in Numbered(new) \/ w \in Elems(qu2), NEW u \in Vertex,
                        LastOf(g, rt, new, u, w), NEW x \in Numbered(new), new[u] <= new[x],
                        new[w] = 0 \/ new[x] <= new[w]
                 PROVE  Within(g, rt, u, x)
    BY DEF Depth, BelowLast
  <2>2. CASE w = v
    <3>1. u = cur
      BY <2>1, <2>2
    <3>2. new[x] \in 1 .. cnt
      BY <1>1 DEF Numbering
    <3>3. new[x] = new[cur]
      BY <1>1, <2>1, <3>1, <3>2
    <3>4. x = cur
      BY <1>1, <3>3 DEF Numbering
    <3> QED
      BY <3>1, <3>4, WithinSelf
  <2>3. CASE w # v
    BY <1>1, <1>2, <2>1, <2>3 DEF Depth, BelowLast
  <2> QED
    BY <2>2, <2>3
<1>5. OnTop(g, rt, new, qu2, cur)
  <2>1. SUFFICES ASSUME NEW b \in 1 .. Len(qu2), NEW y \in Vertex, LastOf(g, rt, new, y, qu2[b])
                 PROVE  Within(g, rt, y, cur)
    BY DEF OnTop
  <2>2. CASE b = 1
    BY <1>2, <2>1, <2>2, WithinSelf
  <2>3. CASE b # 1
    <3>1. b \in 2 .. Len(qu2)
      BY <1>2, <2>3
    <3> QED
      BY <1>1, <1>2, <2>1, <3>1 DEF OnTop
  <2> QED
    BY <2>2, <2>3
<1>6. Nested(g, rt, new, qu2)
  <2>1. SUFFICES ASSUME NEW a \in 1 .. Len(qu2), NEW b \in 1 .. Len(qu2), a < b,
                        NEW x \in Vertex, NEW y \in Vertex,
                        LastOf(g, rt, new, x, qu2[a]), LastOf(g, rt, new, y, qu2[b])
                 PROVE  Within(g, rt, y, x)
    BY DEF Nested
  <2>2. b \in 2 .. Len(qu2)
    BY <1>2, <2>1
  <2>3. b - 1 \in 1 .. Len(qu) /\ qu2[b] = qu[b - 1]
    BY <1>2, <2>2
  <2>4. CASE a = 1
    <3>1. x = cur
      BY <1>2, <2>1, <2>4
    <3> QED
      BY <1>1, <2>1, <2>3, <3>1 DEF OnTop
  <2>5. CASE a # 1
    <3>1. a \in 2 .. Len(qu2)
      BY <1>2, <2>5
    <3>2. a - 1 \in 1 .. Len(qu) /\ qu2[a] = qu[a - 1]
      BY <1>2, <3>1
    <3>3. a - 1 < b - 1
      BY <2>1
    <3> QED
      BY <1>1, <2>1, <2>3, <3>2, <3>3 DEF Nested
  <2> QED
    BY <2>4, <2>5
<1> QED
  BY <1>1, <1>3, <1>4, <1>5, <1>6 DEF Descending

\* No other predecessor of v is to come: v is next.
LEMMA DecodeDescend ==
    ASSUME NEW g, NEW topo, NEW ld, NEW rt, NEW lay, NEW tra,
           LaidOut(g, topo, ld, rt, lay, tra),
           NEW p, NEW q, NEW qu \in Seq(Vertex), NEW cur, NEW deg \in [Vertex -> Int], NEW cnt \in Nat,
           NEW new \in [Vertex -> Nat], NEW l, NEW t, NEW ex,
           DecodeState(g, rt, lay, tra, p, q, TRUE, qu, cur, deg, cnt, new, l, t, ex),
           q <= Len(g[cur]), NEW v, v = g[cur][q], rt[v] = rt[cur], deg[v] - 1 = 0,
           NEW qu2, qu2 = <<v>> \o qu
    PROVE  /\ DecodeState(g, rt, lay, tra, p, q + 1, TRUE, qu2, cur, [deg EXCEPT ![v] = deg[v] - 1],
                          cnt, new, l, t, ex)
           /\ deg[v] > 0
<1>0. g \in [Vertex -> Seq(Vertex)]
  BY LaidTypes
<1>1. /\ Descending(g, rt, lay, tra, p, qu, cur, cnt, new, l, t) /\ Alone(tra, TRUE, qu)
      /\ q \in Nat \ {0} /\ cur \in Numbered(new) /\ cur \in Vertex
      /\ Numbering(new, cnt) /\ new[cur] = cnt
  BY DEF DecodeState, Descending, Numbered
<1>2. PICK H \in SUBSET Slot(g) :
          /\ Follows(g, Numbered(new), TRUE, cur, q, H) /\ Owed(g, rt, H, deg)
          /\ Waiting(g, rt, tra, p, qu, new, H) /\ Excepted(g, rt, new, H, ex)
  BY DEF DecodeState
<1>3. PICK e : InwardEdge(g, rt, tra, new, qu, cur, q, H, v, e)
  BY <1>1, <1>2, DecodeInwardEdge
<1>4. /\ e \in Slot(g) /\ e \notin H /\ e[1] = cur /\ Target(g, e) = v
      /\ e \in Inner(g, rt, v) /\ v \in Vertex /\ v \in Succ(g, cur)
      /\ v \notin Elems(tra) /\ v \notin Numbered(new) /\ v \notin Elems(qu)
      /\ Follows(g, Numbered(new), TRUE, cur, q + 1, H \cup {e})
  BY <1>3 DEF InwardEdge
<1>5. PICK deg2 : deg2 = [deg EXCEPT ![v] = deg[v] - 1]
  OBVIOUS
<1>6. OwedThen(g, rt, v, e, H \cup {e}, deg[v] - 1)
  BY <1>0, <1>2, <1>4, OwedEdge
<1>7. deg[v] > 0
  BY <1>0, <1>2, <1>4, OwedEdge
<1>8. Owed(g, rt, H \cup {e}, deg2)
  BY <1>0, <1>2, <1>4, <1>5, OwedEdge
<1>9. /\ Inner(g, rt, v) \subseteq H \cup {e}
      /\ \A w \in Vertex : w # v => e \notin Inner(g, rt, w)
  BY <1>6 DEF OwedThen
<1>10. /\ LastOf(g, rt, new, cur, v)
       /\ \A u \in Vertex : LastOf(g, rt, new, u, v) => u = cur
  <2>1. PICK H2 : H2 = H \cup {e}
    OBVIOUS
  <2>2. Follows(g, Numbered(new), TRUE, cur, q + 1, H2) /\ Inner(g, rt, v) \subseteq H2
    BY <1>4, <1>9, <2>1
  <2>3. OnlyLast(g, rt, new, cur, v)
    BY <1>0, <1>1, <1>4, <2>2, LastIsCur
  <2> QED
    BY <2>3 DEF OnlyLast
<1>11. Pushed(qu, v, qu2)
  BY <1>2, <1>4, PushElems DEF Waiting
<1>12. /\ qu2 \in Seq(Vertex) /\ Distinct(qu2)
       /\ \A u : u \in Elems(qu2) <=> u = v \/ u \in Elems(qu)
  BY <1>11 DEF Pushed
<1>13. Descending(g, rt, lay, tra, p, qu2, cur, cnt, new, l, t)
  BY <1>0, <1>1, <1>4, <1>10, <1>11, DescendFrom
<1>14. Alone(tra, TRUE, qu2)
  BY <1>1, <1>4, <1>12 DEF Alone
<1>15. Waiting(g, rt, tra, p, qu2, new, H \cup {e})
  <2>1. ASSUME NEW w \in Vertex \ Elems(tra)
        PROVE  w \in Numbered(new) \cup Elems(qu2) <=> Inner(g, rt, w) \subseteq H \cup {e}
    <3>1. CASE w = v
      BY <1>9, <1>12, <3>1
    <3>2. CASE w # v
      <4>1. Inner(g, rt, w) \subseteq H \cup {e} <=> Inner(g, rt, w) \subseteq H
        BY <1>9, <3>2
      <4>2. w \in Numbered(new) \cup Elems(qu) <=> Inner(g, rt, w) \subseteq H
        BY <1>2 DEF Waiting
      <4> QED
        BY <1>12, <3>2, <4>1, <4>2
    <3> QED
      BY <3>1, <3>2
  <2>2. ASSUME NEW a \in 1 .. Len(tra)
        PROVE  tra[a] \in Numbered(new) \cup Elems(qu2) <=> a < p
    <3>1. tra[a] # v
      BY <1>4 DEF Elems
    <3> QED
      BY <1>2, <1>12, <3>1 DEF Waiting
  <2>3. Elems(qu2) \cap Numbered(new) = {}
    BY <1>2, <1>4, <1>12 DEF Waiting
  <2> QED
    BY <1>12, <2>1, <2>2, <2>3 DEF Waiting
<1>16. Excepted(g, rt, new, H \cup {e}, ex)
  BY <1>2, <1>4, <1>10 DEF Excepted
<1>17. H \cup {e} \in SUBSET Slot(g) /\ q + 1 \in Nat \ {0}
  BY <1>1, <1>4
<1>18. DecodeState(g, rt, lay, tra, p, q + 1, TRUE, qu2, cur, deg2, cnt, new, l, t, ex)
  BY <1>1, <1>4, <1>8, <1>13, <1>14, <1>15, <1>16, <1>17 DEF DecodeState, Descending
<1> QED
  BY <1>5, <1>7, <1>18

\* A region is named by one more than its root.
LEMMA RegionRoot ==
    ASSUME NEW r \in 1 .. maxID + 1
    PROVE  r - 1 \in Vertex
BY MaxIDAssumption DEF Vertex

\* DecodeVertexEnd: the vertex at hand is done.
LEMMA DecodePause ==
    ASSUME NEW g \in [Vertex -> Seq(Vertex)], NEW rt, NEW lay, NEW tra,
           NEW p, NEW q, NEW qu, NEW cur, NEW deg, NEW cnt, NEW new, NEW l, NEW t, NEW ex,
           DecodeState(g, rt, lay, tra, p, q, TRUE, qu, cur, deg, cnt, new, l, t, ex),
           q > Len(g[cur])
    PROVE  DecodeState(g, rt, lay, tra, p, q, FALSE, qu, cur, deg, cnt, new, l, t, ex)
<1>1. /\ p \in 1 .. Len(tra) + 1 /\ q \in Nat \ {0} /\ cur \in Numbered(new)
      /\ Numbered(new) \in SUBSET Vertex /\ Alone(tra, TRUE, qu)
      /\ InTurn(rt, lay, tra, p, TRUE, qu, cur, new)
  BY DEF DecodeState, Numbered
<1>2. PICK H \in SUBSET Slot(g) :
        /\ Follows(g, Numbered(new), TRUE, cur, q, H) /\ Owed(g, rt, H, deg)
        /\ Numbering(new, cnt) /\ Waiting(g, rt, tra, p, qu, new, H)
        /\ Forward(g, rt, new)
        /\ Recorded(rt, lay, new, l, t) /\ Excepted(g, rt, new, H, ex)
        /\ Depth(g, rt, new, qu) /\ Nested(g, rt, new, qu)
  BY DEF DecodeState
<1>3. Follows(g, Numbered(new), FALSE, cur, q, H)
  BY <1>1, <1>2, FollowEnd
<1>4. InTurn(rt, lay, tra, p, FALSE, qu, cur, new) /\ Alone(tra, FALSE, qu)
  BY <1>1 DEF InTurn, Alone
<1> QED
  BY <1>1, <1>2, <1>3, <1>4 DEF DecodeState

\* decode starts with what cal_cross_degree has counted.
LEMMA DecodeStart ==
    ASSUME NEW g, NEW topo, NEW ld, NEW rt, NEW lay, NEW tra,
           LaidOut(g, topo, ld, rt, lay, tra),
           NEW q \in Nat \ {0}, NEW cur, NEW deg, NEW l, NEW t, NEW ex,
           Owed(g, rt, {}, deg),
           \A u \in Vertex : ex[u] = <<>>
    PROVE  DecodeState(g, rt, lay, tra, 1, q, FALSE, <<>>, cur, deg, 0, Zero, l, t, ex)
<1>0. g \in [Vertex -> Seq(Vertex)] /\ tra \in Seq(Vertex)
  BY LaidTypes
<1>1. Numbered(Zero) = {}
  BY DEF Numbered, Zero
<1>2. PICK new : new = Zero
  OBVIOUS
<1>3. Numbered(new) = {}
  BY <1>1, <1>2
<1>4. PICK H : H = {}
  OBVIOUS
<1>5. H \in SUBSET Slot(g) /\ Follows(g, Numbered(new), FALSE, cur, q, H)
  BY <1>3, <1>4 DEF Follows
<1>6. Owed(g, rt, H, deg)
  BY <1>4 DEF Owed
<1>7. Numbering(new, 0)
  <2>1. Cardinality({}) = 0
    BY FS_EmptySet
  <2>2. \A n \in 1 .. 0 : FALSE
    OBVIOUS
  <2> QED
    BY <1>3, <2>1, <2>2 DEF Numbering
<1>8. Waiting(g, rt, tra, 1, <<>>, new, H)
  <2>1. Distinct(<<>>)
    BY DEF Distinct
  <2>2. ASSUME NEW v \in Vertex \ Elems(tra)
        PROVE  v \in Numbered(new) \cup Elems(<<>>) <=> Inner(g, rt, v) \subseteq H
    <3>1. Inner(g, rt, v) # {}
      BY DEF LaidOut, Rooted
    <3> QED
      BY <1>3, <1>4, <3>1, NoElem
  <2>3. ASSUME NEW a \in 1 .. Len(tra)
        PROVE  tra[a] \in Numbered(new) \cup Elems(<<>>) <=> a < 1
    <3>1. ~(a < 1)
      OBVIOUS
    <3> QED
      BY <1>3, <3>1, NoElem
  <2> QED
    BY <1>3, <2>1, <2>2, <2>3 DEF Waiting
<1>9. Alone(tra, FALSE, <<>>)
  BY NoElem DEF Alone
<1>10. Forward(g, rt, new) /\ Recorded(rt, lay, new, l, t)
  BY <1>3 DEF Forward, Recorded
<1>11. InTurn(rt, lay, tra, 1, FALSE, <<>>, cur, new)
  BY <1>3, NoElem DEF InTurn
<1>12. Excepted(g, rt, new, H, ex)
  <2>0. <<>> \in Seq(Vertex)
    OBVIOUS
  <2>1. \A u \in Vertex : ex[u] \in Seq(Vertex) /\ \A v : v \notin Elems(ex[u])
    BY <2>0, NoElem
  <2> QED
    BY <1>4, <2>1 DEF Excepted
<1>13. Depth(g, rt, new, <<>>)
  BY <1>3, NoElem DEF Depth
<1>14. Nested(g, rt, new, <<>>)
  BY DEF Nested
<1>15. 1 \in 1 .. Len(tra) + 1
  BY <1>0
<1>16. DecodeState(g, rt, lay, tra, 1, q, FALSE, <<>>, cur, deg, 0, new, l, t, ex)
  BY <1>5, <1>6, <1>7, <1>8, <1>9, <1>10, <1>11, <1>12, <1>13, <1>14, <1>15 DEF DecodeState
<1> QED
  BY <1>2, <1>16

\* With no root left and an empty deque all is numbered.
LEMMA AllNumbered ==
    ASSUME NEW g, NEW topo, NEW ld, NEW rt, NEW lay, NEW tra,
           LaidOut(g, topo, ld, rt, lay, tra),
           NEW p, NEW q, NEW cur, NEW new, NEW H,
           p \in 1 .. Len(tra) + 1, p > Len(tra),
           Follows(g, Numbered(new), FALSE, cur, q, H), Waiting(g, rt, tra, p, <<>>, new, H)
    PROVE  Numbered(new) = Vertex
<1>0. g \in [Vertex -> Seq(Vertex)] /\ tra \in Seq(Vertex) /\ ld \in [Vertex -> Nat]
  BY LaidTypes
<1>1. \A v \in Elems(tra) : v \in Numbered(new)
  <2>1. SUFFICES ASSUME NEW a \in 1 .. Len(tra) PROVE tra[a] \in Numbered(new)
    BY DEF Elems
  <2>2. a < p
    BY <1>0
  <2> QED
    BY <2>2, NoElem DEF Waiting
<1>2. SUFFICES ASSUME Vertex \ Numbered(new) # {} PROVE FALSE
  BY DEF Numbered
<1>3. PICK v \in Vertex \ Numbered(new) : \A u \in Vertex \ Numbered(new) : ld[v] <= ld[u]
  <2>1. Vertex \ Numbered(new) \in SUBSET Vertex
    OBVIOUS
  <2> QED
    BY <1>0, <1>2, <2>1, Least
<1>4. ASSUME NEW s \in Inner(g, rt, v) PROVE s \in H
  <2>1. s[1] \in Vertex /\ ld[s[1]] < ld[v] /\ ld[s[1]] \in Nat /\ ld[v] \in Nat
    BY InnerDeeper
  <2>2. s[1] \in Numbered(new)
    BY <1>3, <2>1
  <2>3. s \in Slot(g)
    BY DEF Inner, InSlots
  <2> QED
    BY <2>2, <2>3 DEF Follows
<1>5. v \in Numbered(new)
  BY <1>1, <1>3, <1>4, NoElem DEF Waiting
<1> QED
  BY <1>3, <1>5

\* At the end of decode the vertices are renumbered and every counter is zero.
LEMMA DecodeAll ==
    ASSUME NEW g, NEW topo, NEW ld, NEW rt, NEW lay, NEW tra,
           LaidOut(g, topo, ld, rt, lay, tra),
           NEW p, NEW q, NEW cur, NEW deg \in [Vertex -> Int], NEW cnt \in Nat,
           NEW new \in [Vertex -> Nat], NEW l, NEW t, NEW ex,
           DecodeState(g, rt, lay, tra, p, q, FALSE, <<>>, cur, deg, cnt, new, l, t, ex),
           p > Len(tra)
    PROVE  CodedAs(g, rt, lay, new, l, t, ex) /\ deg = Zero
<1>0. /\ g \in [Vertex -> Seq(Vertex)] /\ tra \in Seq(Vertex) /\ lay \in [Vertex -> Nat]
      /\ rt \in [Vertex -> 1 .. maxID + 1]
  BY LaidTypes
<1>1. PICK H \in SUBSET Slot(g) :
        /\ p \in 1 .. Len(tra) + 1 /\ q \in Nat \ {0}
        /\ Follows(g, Numbered(new), FALSE, cur, q, H) /\ Owed(g, rt, H, deg)
        /\ Numbering(new, cnt) /\ Waiting(g, rt, tra, p, <<>>, new, H)
        /\ Forward(g, rt, new) /\ InTurn(rt, lay, tra, p, FALSE, <<>>, cur, new)
        /\ Recorded(rt, lay, new, l, t) /\ Excepted(g, rt, new, H, ex)
        /\ Depth(g, rt, new, <<>>)
  BY DEF DecodeState
<1>2. Numbered(new) = Vertex
  BY <1>1, AllNumbered
<1>3. cnt = maxID + 1
  <2>1. Cardinality(Vertex) = maxID + 1
    BY FS_Interval, MaxIDAssumption DEF Vertex
  <2> QED
    BY <1>1, <1>2, <2>1 DEF Numbering
<1>4. \A s \in Slot(g) : s \in H
  BY <1>0, <1>1, <1>2, SlotFields DEF Follows
<1>5. deg = Zero
  <2>1. ASSUME NEW v \in Vertex PROVE deg[v] = 0
    <3>1. Inner(g, rt, v) \ H = {}
      BY <1>0, <1>4, InnerPlace
    <3> QED
      BY <1>1, <3>1, FS_EmptySet DEF Owed
  <2> QED
    BY <2>1 DEF Zero
<1>6. /\ new \in [Vertex -> NewID]
      /\ \A u, v \in Vertex : new[u] = new[v] => u = v
      /\ \A n \in NewID : \E v \in Vertex : new[v] = n
  BY <1>1, <1>2, <1>3 DEF Numbering, NewID
<1>7. ASSUME NEW u \in Vertex, NEW v \in Succ(g, u), rt[v] = rt[u]
      PROVE  \E s \in Inner(g, rt, v) : s[1] = u /\ Target(g, s) = v /\ s \in Slot(g)
  <2>1. PICK s \in Slot(g) : s[1] = u /\ Target(g, s) = v
    BY <1>0, EdgeSlot
  <2>2. s \in Inner(g, rt, v)
    BY <1>7, <2>1 DEF Inner, InSlots
  <2> QED
    BY <2>1, <2>2
<1>8. ASSUME NEW u \in Vertex, NEW v \in Succ(g, u) PROVE new[u] < new[v]
  <2>0. v \in Vertex
    BY <1>0, SuccVertex
  <2>1. CASE rt[v] = rt[u]
    BY <1>1, <1>2, <1>7, <2>0, <2>1 DEF Forward
  <2>2. CASE rt[v] # rt[u]
    <3>1. lay[rt[u] - 1] < lay[rt[v] - 1]
      BY <2>2 DEF LaidOut
    <3>2. lay[rt[u] - 1] \in Nat /\ lay[rt[v] - 1] \in Nat
      <4>0. rt[u] \in 1 .. maxID + 1 /\ rt[v] \in 1 .. maxID + 1
        BY <1>0, <2>0
      <4>1. rt[u] - 1 \in Vertex /\ rt[v] - 1 \in Vertex
        BY <4>0, RegionRoot
      <4> QED
        BY <1>0, <4>1
    <3>3. ~(new[v] < new[u])
      BY <1>1, <1>2, <2>0, <3>1, <3>2 DEF InTurn
    <3>4. new[v] # new[u]
      BY <1>6, <2>0, <2>2
    <3>5. new[u] \in Nat /\ new[v] \in Nat
      BY <2>0
    <3> QED
      BY <3>3, <3>4, <3>5
  <2> QED
    BY <2>1, <2>2
<1>9. \A v \in Vertex : l[new[v]] = lay[rt[v] - 1] /\ t[new[v]] = rt[v]
  BY <1>1, <1>2 DEF Recorded
<1>10. \A u \in Vertex : ex[u] \in Seq(Vertex) /\ \A v \in Elems(ex[u]) : v \in Succ(g, u) /\ rt[v] = rt[u]
  BY <1>1 DEF Excepted
<1>11. ASSUME NEW u \in Vertex, NEW v \in Succ(g, u), rt[v] = rt[u], v \notin Elems(ex[u])
       PROVE  Tree(g, rt, new, u, v)
  <2>0. v \in Vertex
    BY <1>0, SuccVertex
  <2>1. PICK s \in Inner(g, rt, v) : s[1] = u /\ Target(g, s) = v /\ s \in Slot(g)
    BY <1>7, <1>11
  <2>2. LastOf(g, rt, new, u, v)
    BY <1>1, <1>4, <1>11, <2>1 DEF Excepted
  <2>3. BelowLast(g, rt, new, u, v)
    BY <1>1, <1>2, <2>0, <2>2 DEF Depth
  <2> QED
    BY <1>2, <2>2, <2>3 DEF Tree, BelowLast
<1>12. CodedAs(g, rt, lay, new, l, t, ex)
  BY <1>6, <1>8, <1>9, <1>10, <1>11 DEF CodedAs
<1> QED
  BY <1>5, <1>12

\* What cal_cross_degree starts from.
LEMMA CountStart ==
    ASSUME NEW g \in [Vertex -> Seq(Vertex)], NEW rt, NEW tra \in Seq(Vertex), NEW q \in Nat \ {0}, NEW cur,
           NEW deg, deg = Zero
    PROVE  CountState(g, rt, tra, 1, q, FALSE, <<>>, cur, {}, deg)
<1>1. PICK P, H, vis : P = {} /\ H = {} /\ vis = {}
  OBVIOUS
<1>2. \A v : v \notin RootsBefore(tra, 1)
  BY DEF RootsBefore
<1>3. Searched(tra, 1, vis, <<>>, P)
  <2>1. Distinct(<<>>)
    BY DEF Distinct
  <2> QED
    BY <1>1, <1>2, <2>1, NoElem DEF Searched
<1>4. Follows(g, P, FALSE, cur, q, H)
  BY <1>1 DEF Follows
<1>5. EdgesCounted(g, rt, H, vis, deg)
  <2>1. ASSUME NEW v \in Vertex PROVE deg[v] = Cardinality(Inner(g, rt, v) \cap H)
    <3>1. Inner(g, rt, v) \cap H = {}
      BY <1>1
    <3> QED
      BY <3>1, FS_EmptySet DEF Zero
  <2> QED
    BY <1>1, <2>1 DEF EdgesCounted
<1>6. 1 \in 1 .. Len(tra) + 1
  OBVIOUS
<1>7. P \in SUBSET Vertex /\ H \in SUBSET Slot(g) /\ \A v \in vis : v \in Vertex /\ v \notin Elems(tra)
  BY <1>1
<1>8. CountState(g, rt, tra, 1, q, FALSE, <<>>, cur, vis, deg)
  BY <1>3, <1>4, <1>5, <1>6, <1>7 DEF CountState
<1> QED
  BY <1>1, <1>8

---------------------------------------------------------------------------
(***************************************************************************)
(* The invariant up to the end of decode, part by part.                    *)
(***************************************************************************)
CountInv ==
    /\ pc = "cal_cross_degree" =>
          CountState(graph, root_located, temp_root_arr, i, j, FALSE, que, curID, visited,
                     curInDegree)
    /\ pc = "cal_cross_degree_edges" =>
          CountState(graph, root_located, temp_root_arr, i, j, TRUE, que, curID, visited,
                     curInDegree)

DecodeInv ==
    /\ pc = "decode" =>
          DecodeState(graph, root_located, root_layer, temp_root_arr, i, j, FALSE, que, curID,
                      curInDegree, idcount, oldID_mapto_newID, rl, rlt, excpID_O)
    /\ pc = "decode_edges" =>
          DecodeState(graph, root_located, root_layer, temp_root_arr, i, j, TRUE, que, curID,
                      curInDegree, idcount, oldID_mapto_newID, rl, rlt, excpID_O)

CodedInv == pc \in Indexing \cup Labelling \cup {"ready"} => Coded /\ curInDegree = Zero

Walking == CountPhase \cup DecodePhase
DecodeDone == Indexing \cup Labelling \cup {"ready"}

LayerPart == pc \in LayerPhase => TypeInv /\ ScanInv /\ RootsInv /\ que = <<>> /\ visited = {}

LaidPart == pc \in Walking \cup DecodeDone => Laid /\ curInDegree \in [Vertex -> Int]

BlankPart ==
    pc \in LayerPhase \cup CountPhase =>
        idcount = 0 /\ oldID_mapto_newID = Zero /\ \A u \in Vertex : excpID_O[u] = <<>>

SearchTypes == que \in Seq(Vertex) /\ curID \in Vertex /\ visited \subseteq Vertex

NumberTypes ==
    /\ idcount \in 0 .. maxID + 1 /\ oldID_mapto_newID \in [Vertex -> 0 .. maxID + 1]
    /\ rl \in [NewID -> Nat] /\ rlt \in [NewID -> 0 .. maxID + 1]
    /\ excpID_O \in [Vertex -> Seq(Vertex)]

PlacePart ==
    /\ pc \in DecodeDone => i \in 0 .. Len(TopoOrder)
    /\ pc \in LabelPhase => i # 0 /\ curID = TopoOrder[i] /\ j \in Nat \ {0}
    /\ pc = "ready" => i = 0

Decoded ==
    /\ pc \in LayerPhase \cup Walking \cup DecodeDone
    /\ LayerPart /\ LaidPart /\ BlankPart /\ SearchTypes /\ NumberTypes /\ PlacePart
    /\ CountInv /\ DecodeInv /\ CodedInv

\* At the start nothing but the empty arrays is claimed.
LEMMA DecodedInit == QueryInit => Decoded
<1> SUFFICES ASSUME QueryInit PROVE Decoded
  OBVIOUS
<1>1. Init /\ pc = "roots"
  BY DEF QueryInit, CodeInit, Init
<1>2. TypeInv /\ ScanInv /\ RootsInv
  BY <1>1, TypeInvInit, ScanInvInit, RootsInvInit
<1>3. /\ que = <<>> /\ curID = 0 /\ visited = {} /\ idcount = 0
      /\ oldID_mapto_newID = Zero /\ rl = Unset /\ rlt = Unset
      /\ excpID_O = [v \in Vertex |-> <<>>]
  BY DEF QueryInit, CodeInit
<1>4. LayerPart /\ LaidPart /\ PlacePart
  BY <1>1, <1>2, <1>3
     DEF LayerPart, LaidPart, PlacePart, Walking, DecodeDone, CountPhase, DecodePhase, Indexing, Labelling,
         LabelPhase
<1>5. BlankPart
  BY <1>3 DEF BlankPart
<1>6. SearchTypes
  BY <1>3, MaxIDAssumption DEF SearchTypes, Vertex
<1>7. NumberTypes
  <2>1. <<>> \in Seq(Vertex)
    OBVIOUS
  <2> QED
    BY <1>3, <2>1, MaxIDAssumption DEF NumberTypes, Unset, Zero
<1>8. CountInv /\ DecodeInv /\ CodedInv
  BY <1>1 DEF CountInv, DecodeInv, CodedInv, Indexing, Labelling, LabelPhase
<1> QED
  BY <1>1, <1>4, <1>5, <1>6, <1>7, <1>8 DEF Decoded, LayerPhase

\* A step of the layering.
LEMMA LayerStep ==
    ASSUME Decoded, Next, UNCHANGED codeVars
    PROVE  Decoded'
<1>1. pc \in LayerPhase
  BY DEF Next, ReadRoots, PreEdge, PreVertex, PreBatch, PreEnd, LayerStart,
         LayerRoot, CrossStart, CrossEdge, CrossVertex, CrossBatch, CrossEnd,
         LayersEnd, LayerPhase
<1>2. TypeInv /\ ScanInv /\ RootsInv /\ que = <<>> /\ visited = {}
  BY <1>1 DEF Decoded, LayerPart
<1>3. TypeInv'
  BY <1>2, TypeInvNext
<1>4. ScanInv' /\ RootsInv'
  BY <1>2, <1>3, ScanInvNext, RootsInvNext
<1>5. pc' \in LayerPhase
  BY <1>3 DEF TypeInv, TypeOK, LoopTypes, LayerPhase
<1>6. /\ que' = que /\ curID' = curID /\ visited' = visited /\ idcount' = idcount
      /\ oldID_mapto_newID' = oldID_mapto_newID /\ rl' = rl /\ rlt' = rlt /\ excpID_O' = excpID_O
  BY DEF codeVars, searchVars, numberVars
<1>7. LayerPart'
  BY <1>2, <1>3, <1>4, <1>6 DEF LayerPart
<1>8. BlankPart'
  BY <1>1, <1>6 DEF Decoded, BlankPart
<1>9. SearchTypes' /\ NumberTypes'
  BY <1>6 DEF Decoded, SearchTypes, NumberTypes
<1>10. LaidPart' /\ PlacePart' /\ CountInv' /\ DecodeInv' /\ CodedInv'
  BY <1>5 DEF LayerPhase, LaidPart, PlacePart, CountInv, DecodeInv, CodedInv, Walking, DecodeDone,
              CountPhase, DecodePhase, Indexing, Labelling, LabelPhase
<1> QED
  BY <1>5, <1>7, <1>8, <1>9, <1>10 DEF Decoded

\* What the second half of construct_index finds and never changes.
LEMMA Kept ==
    ASSUME UNCHANGED layeringKept
    PROVE  /\ graph' = graph /\ TopoOrder' = TopoOrder /\ Ldown' = Ldown
           /\ root_located' = root_located /\ root_layer' = root_layer
           /\ temp_root_arr' = temp_root_arr /\ (Laid => Laid')
BY DEF layeringKept, scanVars, rootVars, Laid

\* The parts of Decoded while the searches run.
LEMMA WalkParts ==
    ASSUME Decoded, pc \in Walking
    PROVE  /\ Laid /\ curInDegree \in [Vertex -> Int] /\ SearchTypes /\ NumberTypes
           /\ graph \in [Vertex -> Seq(Vertex)] /\ temp_root_arr \in Seq(Vertex)
           /\ root_located \in [Vertex -> 1 .. maxID + 1] /\ root_layer \in [Vertex -> Nat]
<1>1. Laid /\ curInDegree \in [Vertex -> Int] /\ SearchTypes /\ NumberTypes
  BY DEF Decoded, LaidPart
<1> QED
  BY <1>1, LaidTypes DEF Laid

\* A step into or within the searches keeps Decoded once its parts hold.
LEMMA WalkNext ==
    ASSUME pc' \in Walking, Laid', curInDegree' \in [Vertex -> Int], SearchTypes', NumberTypes',
           BlankPart', CountInv', DecodeInv'
    PROVE  Decoded'
<1>1. LayerPart' /\ PlacePart' /\ CodedInv'
  BY DEF LayerPart, PlacePart, CodedInv, Walking, CountPhase, DecodePhase, LayerPhase, DecodeDone, Indexing,
         Labelling, LabelPhase
<1>2. LaidPart'
  BY DEF LaidPart
<1> QED
  BY <1>1, <1>2 DEF Decoded

\* Every step of the second half keeps the invariant, to the end of decode.
LEMMA CodeStartStep ==
    ASSUME Decoded, CodeStart
    PROVE  Decoded'
<1>1. /\ pc = "layered" /\ pc' = "cal_cross_degree" /\ i' = 1 /\ j' = j /\ curInDegree' = curInDegree
      /\ que' = que /\ curID' = curID /\ visited' = visited
      /\ idcount' = idcount /\ oldID_mapto_newID' = oldID_mapto_newID /\ rl' = rl /\ rlt' = rlt
      /\ excpID_O' = excpID_O /\ UNCHANGED layeringKept
  BY DEF CodeStart, codeVars, searchVars, numberVars
<1>2. TypeInv /\ ScanInv /\ RootsInv /\ que = <<>> /\ visited = {}
  BY <1>1 DEF Decoded, LayerPart, LayerPhase
<1>3. Laid /\ curInDegree = Zero
  BY <1>1, <1>2, LayeredLaid
<1>4. Laid' /\ graph' = graph /\ root_located' = root_located /\ temp_root_arr' = temp_root_arr
  BY <1>1, <1>3, Kept
<1>5. curInDegree' \in [Vertex -> Int] /\ j \in Nat \ {0}
  BY <1>1, <1>2 DEF TypeInv, TypeOK, LoopTypes, CounterTypes
<1>6. SearchTypes' /\ NumberTypes'
  BY <1>1 DEF Decoded, SearchTypes, NumberTypes
<1>7. BlankPart'
  BY <1>1 DEF Decoded, BlankPart, LayerPhase
<1>8. CountState(graph, root_located, temp_root_arr, 1, j, FALSE, <<>>, curID, {}, curInDegree)
  <2>1. graph \in [Vertex -> Seq(Vertex)] /\ temp_root_arr \in Seq(Vertex)
    BY <1>3, LaidTypes DEF Laid
  <2> QED
    BY <1>3, <1>5, <2>1, CountStart
<1>9. CountInv' /\ DecodeInv'
  BY <1>1, <1>2, <1>4, <1>8 DEF CountInv, DecodeInv
<1> QED
  BY <1>1, <1>4, <1>5, <1>6, <1>7, <1>9, WalkNext DEF Walking, CountPhase

LEMMA NextRootStep ==
    ASSUME Decoded, NextRoot
    PROVE  Decoded'
<1>1. /\ pc \in {"cal_cross_degree", "decode"} /\ pc' = pc /\ que = <<>> /\ i <= Len(temp_root_arr)
      /\ i' = i + 1 /\ que' = <<temp_root_arr[i]>> /\ j' = j /\ curInDegree' = curInDegree
      /\ curID' = curID /\ visited' = visited
      /\ idcount' = idcount /\ oldID_mapto_newID' = oldID_mapto_newID /\ rl' = rl /\ rlt' = rlt
      /\ excpID_O' = excpID_O /\ UNCHANGED layeringKept
  BY DEF NextRoot, numberVars
<1>2. pc \in Walking
  BY <1>1 DEF Walking, CountPhase, DecodePhase
<1>3. /\ Laid /\ curInDegree \in [Vertex -> Int] /\ SearchTypes /\ NumberTypes
      /\ temp_root_arr \in Seq(Vertex) /\ graph \in [Vertex -> Seq(Vertex)]
  BY <1>2, WalkParts
<1>4. /\ Laid' /\ graph' = graph /\ root_located' = root_located /\ temp_root_arr' = temp_root_arr
      /\ root_layer' = root_layer
  BY <1>1, <1>3, Kept
<1>5. RootList(temp_root_arr, root_located, root_layer)
  BY <1>3 DEF Laid, LaidOut
<1>6. CASE pc = "cal_cross_degree"
  <2>1. CountState(graph, root_located, temp_root_arr, i, j, FALSE, <<>>, curID, visited, curInDegree)
    BY <1>1, <1>6 DEF Decoded, CountInv
  <2>2. CountState(graph, root_located, temp_root_arr, i + 1, j, FALSE, <<temp_root_arr[i]>>, curID,
                   visited, curInDegree)
    BY <1>1, <1>3, <1>5, <2>1, CountTurn
  <2>3. i \in 1 .. Len(temp_root_arr)
    BY <1>1, <1>3, <2>1 DEF CountState
  <2>4. SearchTypes' /\ NumberTypes'
    <3>1. temp_root_arr[i] \in Vertex
      BY <1>3, <2>3
    <3>2. que' \in Seq(Vertex)
      BY <1>1, <3>1, OneElem
    <3> QED
      BY <1>1, <1>3, <3>2 DEF SearchTypes, NumberTypes
  <2>5. BlankPart'
    BY <1>1, <1>6 DEF Decoded, BlankPart
  <2>6. CountInv' /\ DecodeInv'
    BY <1>1, <1>4, <1>6, <2>2 DEF CountInv, DecodeInv
  <2> QED
    BY <1>1, <1>2, <1>3, <1>4, <2>4, <2>5, <2>6, WalkNext
<1>7. CASE pc = "decode"
  <2>1. DecodeState(graph, root_located, root_layer, temp_root_arr, i, j, FALSE, <<>>, curID,
                    curInDegree, idcount, oldID_mapto_newID, rl, rlt, excpID_O)
    BY <1>1, <1>7 DEF Decoded, DecodeInv
  <2>2. DecodeState(graph, root_located, root_layer, temp_root_arr, i + 1, j, FALSE,
                    <<temp_root_arr[i]>>, curID,
                    curInDegree, idcount, oldID_mapto_newID, rl, rlt, excpID_O)
    BY <1>1, <1>3, <2>1, DecodeTurn DEF Laid
  <2>3. i \in 1 .. Len(temp_root_arr)
    BY <1>1, <1>3, <2>1 DEF DecodeState
  <2>4. SearchTypes' /\ NumberTypes'
    <3>1. temp_root_arr[i] \in Vertex
      BY <1>3, <2>3
    <3>2. que' \in Seq(Vertex)
      BY <1>1, <3>1, OneElem
    <3> QED
      BY <1>1, <1>3, <3>2 DEF SearchTypes, NumberTypes
  <2>5. BlankPart'
    BY <1>1, <1>7 DEF BlankPart, LayerPhase, CountPhase
  <2>6. CountInv' /\ DecodeInv'
    BY <1>1, <1>4, <1>7, <2>2 DEF CountInv, DecodeInv
  <2> QED
    BY <1>1, <1>2, <1>3, <1>4, <2>4, <2>5, <2>6, WalkNext
<1> QED
  BY <1>1, <1>6, <1>7

LEMMA CountVertexStep ==
    ASSUME Decoded, CountVertex
    PROVE  Decoded'
<1>1. /\ pc = "cal_cross_degree" /\ pc' = "cal_cross_degree_edges" /\ que # <<>>
      /\ i' = i /\ que' = Tail(que) /\ curID' = Head(que) /\ j' = 1 /\ curInDegree' = curInDegree
      /\ visited' = visited
      /\ idcount' = idcount /\ oldID_mapto_newID' = oldID_mapto_newID /\ rl' = rl /\ rlt' = rlt
      /\ excpID_O' = excpID_O /\ UNCHANGED layeringKept
  BY DEF CountVertex, Take, numberVars
<1>2. pc \in Walking /\ pc' \in Walking
  BY <1>1 DEF Walking, CountPhase, DecodePhase
<1>3. /\ Laid /\ curInDegree \in [Vertex -> Int] /\ SearchTypes /\ NumberTypes
      /\ temp_root_arr \in Seq(Vertex) /\ graph \in [Vertex -> Seq(Vertex)]
  BY <1>2, WalkParts
<1>4. Laid' /\ graph' = graph /\ root_located' = root_located /\ temp_root_arr' = temp_root_arr
  BY <1>1, <1>3, Kept
<1>5. que \in Seq(Vertex)
  BY <1>3 DEF SearchTypes
<1>6. CountState(graph, root_located, temp_root_arr, i, j, FALSE, que, curID, visited, curInDegree)
  BY <1>1 DEF Decoded, CountInv
<1>7. CountState(graph, root_located, temp_root_arr, i, 1, TRUE, Tail(que), Head(que), visited,
                 curInDegree)
  BY <1>1, <1>3, <1>5, <1>6, CountTake
<1>8. Tail(que) \in Seq(Vertex) /\ Head(que) \in Vertex
  BY <1>1, <1>5
<1>9. SearchTypes' /\ NumberTypes'
  BY <1>1, <1>3, <1>8 DEF SearchTypes, NumberTypes
<1>10. BlankPart'
  BY <1>1 DEF Decoded, BlankPart, CountPhase
<1>11. CountInv' /\ DecodeInv'
  BY <1>1, <1>4, <1>7 DEF CountInv, DecodeInv
<1> QED
  BY <1>1, <1>2, <1>3, <1>4, <1>9, <1>10, <1>11, WalkNext

LEMMA CountEdgeStep ==
    ASSUME Decoded, CountEdge
    PROVE  Decoded'
<1>1. /\ pc = "cal_cross_degree_edges" /\ pc' = pc /\ j <= Len(graph[curID])
      /\ i' = i /\ j' = j + 1 /\ curID' = curID
      /\ idcount' = idcount /\ oldID_mapto_newID' = oldID_mapto_newID /\ rl' = rl /\ rlt' = rlt
      /\ excpID_O' = excpID_O /\ UNCHANGED layeringKept
  BY DEF CountEdge, numberVars
<1>2. pc \in Walking /\ pc' \in Walking
  BY <1>1 DEF Walking, CountPhase, DecodePhase
<1>3. /\ Laid /\ curInDegree \in [Vertex -> Int] /\ SearchTypes /\ NumberTypes
      /\ temp_root_arr \in Seq(Vertex) /\ graph \in [Vertex -> Seq(Vertex)]
  BY <1>2, WalkParts
<1>4. Laid' /\ graph' = graph /\ root_located' = root_located /\ temp_root_arr' = temp_root_arr
  BY <1>1, <1>3, Kept
<1>5. que \in Seq(Vertex) /\ curID \in Vertex /\ visited \subseteq Vertex
  BY <1>3 DEF SearchTypes
<1>6. CountState(graph, root_located, temp_root_arr, i, j, TRUE, que, curID, visited, curInDegree)
  BY <1>1 DEF Decoded, CountInv
<1>7. PICK v : v = graph[curID][j]
  OBVIOUS
<1>8. v \in Vertex
  <2>1. j \in Nat \ {0}
    BY <1>6 DEF CountState
  <2>2. graph[curID] \in Seq(Vertex) /\ j \in 1 .. Len(graph[curID])
    BY <1>1, <1>3, <1>5, <2>1
  <2> QED
    BY <1>7, <2>2, ElementOfSeq
<1>9. /\ curInDegree' \in [Vertex -> Int] /\ visited' \subseteq Vertex /\ que' \in Seq(Vertex)
      /\ CountState(graph, root_located, temp_root_arr, i, j + 1, TRUE, que', curID, visited',
                    curInDegree')
  <2>1. CASE root_located[v] = root_located[curID]
    <3>1. /\ curInDegree' = [curInDegree EXCEPT ![v] = @ + 1]
          /\ visited' = visited \cup {v} /\ que' = IF v \in visited THEN que ELSE Append(que, v)
      BY <1>7, <2>1 DEF CountEdge, SameRegion
    <3>2. CountState(graph, root_located, temp_root_arr, i, j + 1, TRUE,
                     IF v \in visited THEN que ELSE Append(que, v), curID, visited \cup {v},
                     [curInDegree EXCEPT ![v] = @ + 1])
      BY <1>1, <1>3, <1>5, <1>6, <1>7, <2>1, CountInward DEF Laid
    <3>3. curInDegree' \in [Vertex -> Int] /\ visited' \subseteq Vertex /\ que' \in Seq(Vertex)
      BY <1>3, <1>5, <1>8, <3>1
    <3> QED
      BY <3>1, <3>2, <3>3
  <2>2. CASE root_located[v] # root_located[curID]
    <3>1. curInDegree' = curInDegree /\ visited' = visited /\ que' = que
      BY <1>7, <2>2 DEF CountEdge, SameRegion
    <3>2. CountState(graph, root_located, temp_root_arr, i, j + 1, TRUE, que, curID, visited,
                     curInDegree)
      BY <1>1, <1>3, <1>6, <1>7, <2>2, CountOutward
    <3> QED
      BY <1>3, <1>5, <3>1, <3>2
  <2> QED
    BY <2>1, <2>2
<1>10. SearchTypes' /\ NumberTypes'
  BY <1>1, <1>3, <1>5, <1>9 DEF SearchTypes, NumberTypes
<1>11. BlankPart'
  BY <1>1 DEF Decoded, BlankPart
<1>12. CountInv' /\ DecodeInv'
  BY <1>1, <1>4, <1>9 DEF CountInv, DecodeInv
<1> QED
  BY <1>1, <1>2, <1>4, <1>9, <1>10, <1>11, <1>12, WalkNext

LEMMA CountPauseStep ==
    ASSUME Decoded, CountVertexEnd
    PROVE  Decoded'
<1>1. /\ pc = "cal_cross_degree_edges" /\ pc' = "cal_cross_degree" /\ j > Len(graph[curID])
      /\ i' = i /\ j' = j /\ curInDegree' = curInDegree
      /\ que' = que /\ curID' = curID /\ visited' = visited
      /\ idcount' = idcount /\ oldID_mapto_newID' = oldID_mapto_newID /\ rl' = rl /\ rlt' = rlt
      /\ excpID_O' = excpID_O /\ UNCHANGED layeringKept
  BY DEF CountVertexEnd, codeVars, searchVars, numberVars
<1>2. pc \in Walking /\ pc' \in Walking
  BY <1>1 DEF Walking, CountPhase, DecodePhase
<1>3. /\ Laid /\ curInDegree \in [Vertex -> Int] /\ SearchTypes /\ NumberTypes
      /\ temp_root_arr \in Seq(Vertex) /\ graph \in [Vertex -> Seq(Vertex)]
  BY <1>2, WalkParts
<1>4. Laid' /\ graph' = graph /\ root_located' = root_located /\ temp_root_arr' = temp_root_arr
  BY <1>1, <1>3, Kept
<1>5. CountState(graph, root_located, temp_root_arr, i, j, TRUE, que, curID, visited, curInDegree)
  BY <1>1 DEF Decoded, CountInv
<1>6. CountState(graph, root_located, temp_root_arr, i, j, FALSE, que, curID, visited, curInDegree)
  BY <1>1, <1>3, <1>5, CountPause
<1>7. SearchTypes' /\ NumberTypes'
  BY <1>1, <1>3 DEF SearchTypes, NumberTypes
<1>8. BlankPart'
  BY <1>1 DEF Decoded, BlankPart, CountPhase
<1>9. CountInv' /\ DecodeInv'
  BY <1>1, <1>4, <1>6 DEF CountInv, DecodeInv
<1> QED
  BY <1>1, <1>2, <1>3, <1>4, <1>7, <1>8, <1>9, WalkNext

LEMMA CountEndStep ==
    ASSUME Decoded, CountEnd
    PROVE  Decoded'
<1>1. /\ pc = "cal_cross_degree" /\ pc' = "decode" /\ que = <<>> /\ i > Len(temp_root_arr)
      /\ i' = 1 /\ j' = j /\ curInDegree' = curInDegree
      /\ que' = que /\ curID' = curID /\ visited' = visited
      /\ idcount' = idcount /\ oldID_mapto_newID' = oldID_mapto_newID /\ rl' = rl /\ rlt' = rlt
      /\ excpID_O' = excpID_O /\ UNCHANGED layeringKept
  BY DEF CountEnd, codeVars, searchVars, numberVars
<1>2. pc \in Walking /\ pc' \in Walking
  BY <1>1 DEF Walking, CountPhase, DecodePhase
<1>3. /\ Laid /\ curInDegree \in [Vertex -> Int] /\ SearchTypes /\ NumberTypes
      /\ temp_root_arr \in Seq(Vertex) /\ graph \in [Vertex -> Seq(Vertex)]
  BY <1>2, WalkParts
<1>4. /\ Laid' /\ graph' = graph /\ root_located' = root_located /\ temp_root_arr' = temp_root_arr
      /\ root_layer' = root_layer
  BY <1>1, <1>3, Kept
<1>5. CountState(graph, root_located, temp_root_arr, i, j, FALSE, <<>>, curID, visited, curInDegree)
  BY <1>1 DEF Decoded, CountInv
<1>6. Owed(graph, root_located, {}, curInDegree)
  BY <1>1, <1>3, <1>5, CountAll DEF Laid
<1>7. idcount = 0 /\ oldID_mapto_newID = Zero /\ \A u \in Vertex : excpID_O[u] = <<>>
  BY <1>1 DEF Decoded, BlankPart, CountPhase
<1>8. j \in Nat \ {0}
  BY <1>5 DEF CountState
<1>9. DecodeState(graph, root_located, root_layer, temp_root_arr, 1, j, FALSE, <<>>, curID,
                  curInDegree, 0, Zero, rl, rlt, excpID_O)
  BY <1>3, <1>6, <1>7, <1>8, DecodeStart DEF Laid
<1>10. SearchTypes' /\ NumberTypes'
  BY <1>1, <1>3 DEF SearchTypes, NumberTypes
<1>11. BlankPart'
  BY <1>1 DEF BlankPart, CountPhase, LayerPhase
<1>12. CountInv' /\ DecodeInv'
  BY <1>1, <1>4, <1>7, <1>9 DEF CountInv, DecodeInv
<1> QED
  BY <1>1, <1>2, <1>3, <1>4, <1>10, <1>11, <1>12, WalkNext

\* While a vertex waits there is a number for it.
LEMMA DecodeRoom ==
    ASSUME NEW g, NEW rt, NEW lay, NEW tra \in Seq(Vertex),
           NEW p, NEW q, NEW qu \in Seq(Vertex), qu # <<>>, NEW cur, NEW deg, NEW cnt \in Nat,
           NEW new \in [Vertex -> Nat], NEW l, NEW t, NEW ex,
           DecodeState(g, rt, lay, tra, p, q, FALSE, qu, cur, deg, cnt, new, l, t, ex)
    PROVE  cnt + 1 \in NewID /\ p - 1 \in 1 .. Len(tra)
<1>1. PICK H \in SUBSET Slot(g) :
        /\ p \in 1 .. Len(tra) + 1 /\ Numbering(new, cnt) /\ Waiting(g, rt, tra, p, qu, new, H)
        /\ InTurn(rt, lay, tra, p, FALSE, qu, cur, new)
  BY DEF DecodeState
<1>2. Head(qu) \in Vertex /\ Head(qu) \in Elems(qu)
  <2>1. Popped(qu, Tail(qu))
    BY <1>1, PopElems DEF Waiting
  <2> QED
    BY <2>1 DEF Popped
<1>3. Head(qu) \notin Numbered(new)
  BY <1>1, <1>2 DEF Waiting
<1>4. PICK c : c = Head(qu)
  OBVIOUS
<1>5. PICK new2 : new2 = [new EXCEPT ![c] = cnt + 1]
  OBVIOUS
<1>6. Given(new, c, cnt + 1, new2)
  BY <1>2, <1>4, <1>5 DEF Given
<1>7. cnt + 1 \in NewID
  BY <1>1, <1>2, <1>3, <1>4, <1>6, NumberingNext
<1>8. p >= 2
  BY <1>1, <1>2 DEF InTurn
<1> QED
  BY <1>1, <1>7, <1>8

LEMMA DecodeVertexStep ==
    ASSUME Decoded, DecodeVertex
    PROVE  Decoded'
<1>1. /\ pc = "decode" /\ pc' = "decode_edges" /\ que # <<>>
      /\ i' = i /\ que' = Tail(que) /\ curID' = Head(que) /\ j' = 1 /\ curInDegree' = curInDegree
      /\ visited' = visited /\ idcount' = idcount + 1
      /\ oldID_mapto_newID' = [oldID_mapto_newID EXCEPT ![curID'] = idcount + 1]
      /\ rl' = [rl EXCEPT ![idcount + 1] = root_layer[temp_root_arr[i - 1]]]
      /\ rlt' = [rlt EXCEPT ![idcount + 1] = root_located[curID']]
      /\ excpID_O' = excpID_O /\ UNCHANGED layeringKept
  BY DEF DecodeVertex, Take
<1>2. pc \in Walking /\ pc' \in Walking
  BY <1>1 DEF Walking, CountPhase, DecodePhase
<1>3. /\ Laid /\ curInDegree \in [Vertex -> Int] /\ SearchTypes /\ NumberTypes
      /\ temp_root_arr \in Seq(Vertex) /\ graph \in [Vertex -> Seq(Vertex)]
      /\ root_located \in [Vertex -> 1 .. maxID + 1] /\ root_layer \in [Vertex -> Nat]
  BY <1>2, WalkParts
<1>4. /\ Laid' /\ graph' = graph /\ root_located' = root_located /\ temp_root_arr' = temp_root_arr
      /\ root_layer' = root_layer
  BY <1>1, <1>3, Kept
<1>5. /\ que \in Seq(Vertex) /\ idcount \in Nat /\ idcount \in 0 .. maxID + 1
      /\ oldID_mapto_newID \in [Vertex -> 0 .. maxID + 1]
      /\ oldID_mapto_newID \in [Vertex -> Nat]
      /\ rl \in [NewID -> Nat] /\ rlt \in [NewID -> 0 .. maxID + 1]
  BY <1>3 DEF SearchTypes, NumberTypes
<1>6. DecodeState(graph, root_located, root_layer, temp_root_arr, i, j, FALSE, que, curID,
                  curInDegree, idcount, oldID_mapto_newID, rl, rlt, excpID_O)
  BY <1>1 DEF Decoded, DecodeInv
<1>7. idcount + 1 \in NewID /\ i - 1 \in 1 .. Len(temp_root_arr)
  BY <1>1, <1>3, <1>5, <1>6, DecodeRoom
<1>8. PICK n : n = idcount + 1
  OBVIOUS
<1>9. Tail(que) \in Seq(Vertex) /\ Head(que) \in Vertex /\ curID' \in Vertex
  BY <1>1, <1>5
<1>10. temp_root_arr[i - 1] \in Vertex
  BY <1>3, <1>7
<1>11. /\ rl' \in [NewID -> Nat] /\ rlt' \in [NewID -> 0 .. maxID + 1]
  <2>1. root_layer[temp_root_arr[i - 1]] \in Nat
    BY <1>3, <1>10
  <2>2. root_located[curID'] \in 0 .. maxID + 1
    <3>1. root_located[curID'] \in 1 .. maxID + 1
      BY <1>3, <1>9
    <3> QED
      BY <3>1, MaxIDAssumption
  <2> QED
    BY <1>1, <1>5, <2>1, <2>2
<1>12. oldID_mapto_newID' \in [Vertex -> 0 .. maxID + 1] /\ idcount' \in 0 .. maxID + 1
  BY <1>1, <1>5, <1>7, MaxIDAssumption DEF NewID
<1>13. Given(oldID_mapto_newID, Head(que), idcount + 1, oldID_mapto_newID')
  <2>1. oldID_mapto_newID' = [oldID_mapto_newID EXCEPT ![Head(que)] = n]
    BY <1>1, <1>8
  <2>2. n \in Nat /\ n # 0
    BY <1>5, <1>8
  <2>3. /\ oldID_mapto_newID' \in [Vertex -> Nat] /\ oldID_mapto_newID'[Head(que)] = n
        /\ \A v \in Vertex : v # Head(que) => oldID_mapto_newID'[v] = oldID_mapto_newID[v]
    BY <1>5, <1>9, <2>1, <2>2
  <2> QED
    BY <1>8, <2>2, <2>3 DEF Given
<1>14. /\ rl'[idcount + 1] = root_layer[temp_root_arr[i - 1]]
       /\ rlt'[idcount + 1] = root_located[Head(que)]
  BY <1>1, <1>5, <1>7
<1>15. \A k \in 1 .. idcount : rl'[k] = rl[k] /\ rlt'[k] = rlt[k]
  <2>1. SUFFICES ASSUME NEW k \in 1 .. idcount PROVE rl'[k] = rl[k] /\ rlt'[k] = rlt[k]
    OBVIOUS
  <2>2. k \in NewID /\ k # idcount + 1
    BY <1>5, MaxIDAssumption DEF NewID
  <2> QED
    BY <1>1, <1>5, <2>2
<1>16. DecodeState(graph, root_located, root_layer, temp_root_arr, i, 1, TRUE, Tail(que), Head(que),
                   curInDegree, idcount + 1, oldID_mapto_newID', rl', rlt', excpID_O)
  <2>1. PICK c, rest, new2, l2, t2 :
           c = Head(que) /\ rest = Tail(que) /\ new2 = oldID_mapto_newID' /\ l2 = rl' /\ t2 = rlt'
    OBVIOUS
  <2>2. /\ Given(oldID_mapto_newID, c, idcount + 1, new2)
        /\ RecordedNext(rl, rlt, idcount, root_layer[temp_root_arr[i - 1]], root_located[c], l2, t2)
    BY <1>13, <1>14, <1>15, <2>1 DEF RecordedNext
  <2>3. LaidOut(graph, TopoOrder, Ldown, root_located, root_layer, temp_root_arr)
    BY <1>3 DEF Laid
  <2>4. DecodeState(graph, root_located, root_layer, temp_root_arr, i, 1, TRUE, rest, c,
                    curInDegree, idcount + 1, new2, l2, t2, excpID_O)
    BY <1>1, <1>5, <1>6, <2>1, <2>2, <2>3, DecodeTake
  <2> QED
    BY <2>1, <2>4
<1>17. SearchTypes' /\ NumberTypes'
  BY <1>1, <1>3, <1>9, <1>11, <1>12 DEF SearchTypes, NumberTypes
<1>18. BlankPart'
  BY <1>1 DEF BlankPart, CountPhase, LayerPhase
<1>19. CountInv' /\ DecodeInv'
  BY <1>1, <1>4, <1>16 DEF CountInv, DecodeInv
<1> QED
  BY <1>1, <1>2, <1>3, <1>4, <1>17, <1>18, <1>19, WalkNext

LEMMA DecodeEdgeStep ==
    ASSUME Decoded, DecodeEdge
    PROVE  Decoded'
<1>1. /\ pc = "decode_edges" /\ pc' = pc /\ j <= Len(graph[curID])
      /\ i' = i /\ j' = j + 1 /\ curID' = curID /\ visited' = visited
      /\ idcount' = idcount /\ oldID_mapto_newID' = oldID_mapto_newID /\ rl' = rl /\ rlt' = rlt
      /\ UNCHANGED layeringKept
  BY DEF DecodeEdge
<1>2. pc \in Walking /\ pc' \in Walking
  BY <1>1 DEF Walking, CountPhase, DecodePhase
<1>3. /\ Laid /\ curInDegree \in [Vertex -> Int] /\ SearchTypes /\ NumberTypes
      /\ temp_root_arr \in Seq(Vertex) /\ graph \in [Vertex -> Seq(Vertex)]
  BY <1>2, WalkParts
<1>4. /\ Laid' /\ graph' = graph /\ root_located' = root_located /\ temp_root_arr' = temp_root_arr
      /\ root_layer' = root_layer
  BY <1>1, <1>3, Kept
<1>5. /\ que \in Seq(Vertex) /\ curID \in Vertex /\ visited \subseteq Vertex
      /\ idcount \in Nat /\ oldID_mapto_newID \in [Vertex -> Nat]
      /\ excpID_O \in [Vertex -> Seq(Vertex)]
  BY <1>3 DEF SearchTypes, NumberTypes
<1>6. DecodeState(graph, root_located, root_layer, temp_root_arr, i, j, TRUE, que, curID,
                  curInDegree, idcount, oldID_mapto_newID, rl, rlt, excpID_O)
  BY <1>1 DEF Decoded, DecodeInv
<1>7. PICK v : v = graph[curID][j]
  OBVIOUS
<1>8. v \in Vertex
  <2>1. j \in Nat \ {0}
    BY <1>6 DEF DecodeState
  <2>2. graph[curID] \in Seq(Vertex) /\ j \in 1 .. Len(graph[curID])
    BY <1>1, <1>3, <1>5, <2>1
  <2> QED
    BY <1>7, <2>2, ElementOfSeq
<1>9. /\ curInDegree' \in [Vertex -> Int] /\ excpID_O' \in [Vertex -> Seq(Vertex)]
      /\ que' \in Seq(Vertex)
      /\ DecodeState(graph, root_located, root_layer, temp_root_arr, i, j + 1, TRUE, que', curID,
                     curInDegree', idcount, oldID_mapto_newID, rl, rlt, excpID_O')
  <2>1. CASE root_located[v] = root_located[curID]
    <3>1. PICK left : left = IF curInDegree[v] > 0 THEN curInDegree[v] - 1 ELSE 0
      OBVIOUS
    <3>2. /\ curInDegree' = [curInDegree EXCEPT ![v] = left]
          /\ \/ left > 0 /\ excpID_O' = [excpID_O EXCEPT ![curID] = Append(@, v)] /\ que' = que
             \/ left = 0 /\ que' = <<v>> \o que /\ excpID_O' = excpID_O
      BY <1>7, <2>1, <3>1 DEF DecodeEdge, SameRegion
    <3>3. curInDegree[v] \in Int
      BY <1>3, <1>8
    <3>4. CASE curInDegree[v] - 1 # 0
      <4>1. PICK ex2 : ex2 = [excpID_O EXCEPT ![curID] = Append(excpID_O[curID], v)]
        OBVIOUS
      <4>2. curInDegree[v] > 0
        BY <1>1, <1>3, <1>5, <1>6, <1>7, <2>1, <3>4, <4>1, DecodeExcept DEF Laid
      <4>3. DecodeState(graph, root_located, root_layer, temp_root_arr, i, j + 1, TRUE, que, curID,
                        [curInDegree EXCEPT ![v] = curInDegree[v] - 1], idcount, oldID_mapto_newID,
                        rl, rlt, ex2)
        BY <1>1, <1>3, <1>5, <1>6, <1>7, <2>1, <3>4, <4>1, DecodeExcept DEF Laid
      <4>4. left = curInDegree[v] - 1 /\ left # 0
        BY <3>1, <3>3, <3>4, <4>2
      <4>5. excpID_O' = ex2 /\ que' = que /\ curInDegree' = [curInDegree EXCEPT ![v] = curInDegree[v] - 1]
        BY <3>2, <4>1, <4>4
      <4>6. ex2 \in [Vertex -> Seq(Vertex)] /\ curInDegree' \in [Vertex -> Int]
        <5>1. Append(excpID_O[curID], v) \in Seq(Vertex)
          BY <1>5, <1>8
        <5> QED
          BY <1>3, <1>5, <3>3, <4>1, <4>5, <5>1
      <4> QED
        BY <1>5, <4>3, <4>5, <4>6
    <3>5. CASE curInDegree[v] - 1 = 0
      <4>1. PICK qu2 : qu2 = <<v>> \o que
        OBVIOUS
      <4>2. curInDegree[v] > 0
        BY <1>1, <1>3, <1>5, <1>6, <1>7, <2>1, <3>5, <4>1, DecodeDescend DEF Laid
      <4>3. DecodeState(graph, root_located, root_layer, temp_root_arr, i, j + 1, TRUE, qu2, curID,
                        [curInDegree EXCEPT ![v] = curInDegree[v] - 1], idcount, oldID_mapto_newID,
                        rl, rlt, excpID_O)
        BY <1>1, <1>3, <1>5, <1>6, <1>7, <2>1, <3>5, <4>1, DecodeDescend DEF Laid
      <4>4. left = curInDegree[v] - 1 /\ left = 0
        BY <3>1, <3>3, <3>5, <4>2
      <4>5. excpID_O' = excpID_O /\ que' = qu2 /\ curInDegree' = [curInDegree EXCEPT ![v] = curInDegree[v] - 1]
        BY <3>2, <4>1, <4>4
      <4>6. qu2 \in Seq(Vertex) /\ curInDegree' \in [Vertex -> Int]
        <5>1. <<v>> \in Seq(Vertex)
          BY <1>8
        <5> QED
          BY <1>3, <1>5, <3>3, <4>1, <4>5, <5>1
      <4> QED
        BY <1>5, <4>3, <4>5, <4>6
    <3> QED
      BY <3>4, <3>5
  <2>2. CASE root_located[v] # root_located[curID]
    <3>1. curInDegree' = curInDegree /\ excpID_O' = excpID_O /\ que' = que
      BY <1>7, <2>2 DEF DecodeEdge, SameRegion
    <3>2. DecodeState(graph, root_located, root_layer, temp_root_arr, i, j + 1, TRUE, que, curID,
                      curInDegree, idcount, oldID_mapto_newID, rl, rlt, excpID_O)
      BY <1>1, <1>3, <1>6, <1>7, <2>2, DecodeOutward
    <3> QED
      BY <1>3, <1>5, <3>1, <3>2
  <2> QED
    BY <2>1, <2>2
<1>10. SearchTypes' /\ NumberTypes'
  BY <1>1, <1>3, <1>5, <1>9 DEF SearchTypes, NumberTypes
<1>11. BlankPart'
  BY <1>1 DEF BlankPart, CountPhase, LayerPhase
<1>12. CountInv' /\ DecodeInv'
  BY <1>1, <1>4, <1>9 DEF CountInv, DecodeInv
<1> QED
  BY <1>1, <1>2, <1>4, <1>9, <1>10, <1>11, <1>12, WalkNext

LEMMA DecodePauseStep ==
    ASSUME Decoded, DecodeVertexEnd
    PROVE  Decoded'
<1>1. /\ pc = "decode_edges" /\ pc' = "decode" /\ j > Len(graph[curID])
      /\ i' = i /\ j' = j /\ curInDegree' = curInDegree
      /\ que' = que /\ curID' = curID /\ visited' = visited
      /\ idcount' = idcount /\ oldID_mapto_newID' = oldID_mapto_newID /\ rl' = rl /\ rlt' = rlt
      /\ excpID_O' = excpID_O /\ UNCHANGED layeringKept
  BY DEF DecodeVertexEnd, codeVars, searchVars, numberVars
<1>2. pc \in Walking /\ pc' \in Walking
  BY <1>1 DEF Walking, CountPhase, DecodePhase
<1>3. /\ Laid /\ curInDegree \in [Vertex -> Int] /\ SearchTypes /\ NumberTypes
      /\ graph \in [Vertex -> Seq(Vertex)]
  BY <1>2, WalkParts
<1>4. /\ Laid' /\ graph' = graph /\ root_located' = root_located /\ temp_root_arr' = temp_root_arr
      /\ root_layer' = root_layer
  BY <1>1, <1>3, Kept
<1>5. DecodeState(graph, root_located, root_layer, temp_root_arr, i, j, TRUE, que, curID,
                  curInDegree, idcount, oldID_mapto_newID, rl, rlt, excpID_O)
  BY <1>1 DEF Decoded, DecodeInv
<1>6. DecodeState(graph, root_located, root_layer, temp_root_arr, i, j, FALSE, que, curID,
                  curInDegree, idcount, oldID_mapto_newID, rl, rlt, excpID_O)
  BY <1>1, <1>3, <1>5, DecodePause
<1>7. SearchTypes' /\ NumberTypes'
  BY <1>1, <1>3 DEF SearchTypes, NumberTypes
<1>8. BlankPart'
  BY <1>1 DEF BlankPart, CountPhase, LayerPhase
<1>9. CountInv' /\ DecodeInv'
  BY <1>1, <1>4, <1>6 DEF CountInv, DecodeInv
<1> QED
  BY <1>1, <1>2, <1>3, <1>4, <1>7, <1>8, <1>9, WalkNext

LEMMA DecodeEndStep ==
    ASSUME Decoded, DecodeEnd
    PROVE  Decoded'
<1>1. /\ pc = "decode" /\ pc' = "cal_index" /\ que = <<>> /\ i > Len(temp_root_arr)
      /\ i' = Len(TopoOrder) /\ j' = j /\ curInDegree' = curInDegree
      /\ que' = que /\ curID' = curID /\ visited' = visited
      /\ idcount' = idcount /\ oldID_mapto_newID' = oldID_mapto_newID /\ rl' = rl /\ rlt' = rlt
      /\ excpID_O' = excpID_O /\ UNCHANGED layeringKept
  BY DEF DecodeEnd, codeVars, searchVars, numberVars
<1>2. pc \in Walking
  BY <1>1 DEF Walking, CountPhase, DecodePhase
<1>3. /\ Laid /\ curInDegree \in [Vertex -> Int] /\ SearchTypes /\ NumberTypes
      /\ graph \in [Vertex -> Seq(Vertex)]
  BY <1>2, WalkParts
<1>4. /\ Laid' /\ graph' = graph /\ root_located' = root_located /\ temp_root_arr' = temp_root_arr
      /\ root_layer' = root_layer /\ TopoOrder' = TopoOrder
  BY <1>1, <1>3, Kept
<1>5. idcount \in Nat /\ oldID_mapto_newID \in [Vertex -> Nat]
  BY <1>3 DEF NumberTypes
<1>6. DecodeState(graph, root_located, root_layer, temp_root_arr, i, j, FALSE, <<>>, curID,
                  curInDegree, idcount, oldID_mapto_newID, rl, rlt, excpID_O)
  BY <1>1 DEF Decoded, DecodeInv
<1>7. /\ CodedAs(graph, root_located, root_layer, oldID_mapto_newID, rl, rlt, excpID_O)
      /\ curInDegree = Zero
  BY <1>1, <1>3, <1>5, <1>6, DecodeAll DEF Laid
<1>8. CodedInv'
  BY <1>1, <1>4, <1>7 DEF CodedInv, Coded
<1>9. SearchTypes' /\ NumberTypes'
  BY <1>1, <1>3 DEF SearchTypes, NumberTypes
<1>10. BlankPart' /\ LayerPart'
  BY <1>1 DEF BlankPart, CountPhase, LayerPhase, LayerPart
<1>11. PlacePart'
  <2>1. Len(TopoOrder) \in Nat
    BY <1>3, LaidTypes DEF Laid
  <2> QED
    BY <1>1, <1>4, <2>1 DEF PlacePart, LabelPhase
<1>12. pc' \in DecodeDone /\ LaidPart'
  BY <1>1, <1>3, <1>4 DEF LaidPart, DecodeDone, Indexing
<1>13. CountInv' /\ DecodeInv'
  BY <1>1 DEF CountInv, DecodeInv
<1> QED
  BY <1>8, <1>9, <1>10, <1>11, <1>12, <1>13 DEF Decoded

---------------------------------------------------------------------------
\* A step of cal_index or of the labels: what decode left stays.
LEMMA SettledNext ==
    ASSUME Decoded, pc \in DecodeDone, pc' \in DecodeDone, UNCHANGED layeringKept, UNCHANGED curInDegree,
           UNCHANGED numberVars, SearchTypes', PlacePart'
    PROVE  Decoded'
<1>1. Laid /\ curInDegree \in [Vertex -> Int] /\ NumberTypes /\ Coded /\ curInDegree = Zero
  BY DEF Decoded, LaidPart, CodedInv, DecodeDone
<1>2. /\ Laid' /\ graph' = graph /\ root_located' = root_located
      /\ root_layer' = root_layer /\ TopoOrder' = TopoOrder
  BY <1>1, Kept
<1>3. /\ idcount' = idcount /\ oldID_mapto_newID' = oldID_mapto_newID /\ rl' = rl /\ rlt' = rlt
      /\ excpID_O' = excpID_O /\ curInDegree' = curInDegree
  BY DEF numberVars
<1>4. CodedInv'
  BY <1>1, <1>2, <1>3 DEF CodedInv, Coded
<1>5. NumberTypes' /\ LaidPart'
  BY <1>1, <1>2, <1>3 DEF NumberTypes, LaidPart
<1>6. BlankPart' /\ LayerPart' /\ CountInv' /\ DecodeInv'
  BY DEF BlankPart, LayerPart, CountInv, DecodeInv, DecodeDone, CountPhase, LayerPhase, Indexing,
         Labelling, LabelPhase
<1> QED
  BY <1>4, <1>5, <1>6 DEF Decoded

\* The steps of cal_index.
LEMMA IndexStep ==
    ASSUME Decoded, IndexVertex \/ IndexEnd
    PROVE  Decoded'
<1>1. /\ pc = "cal_index" /\ UNCHANGED layeringKept /\ curInDegree' = curInDegree
      /\ UNCHANGED numberVars /\ UNCHANGED searchVars
  BY DEF IndexVertex, IndexEnd, codeVars
<1>2. i \in 0 .. Len(TopoOrder) /\ Len(TopoOrder) \in Nat
  <2>1. i \in 0 .. Len(TopoOrder) /\ Laid
    BY <1>1 DEF Decoded, PlacePart, LaidPart, DecodeDone, Indexing
  <2> QED
    BY <2>1, LaidTypes DEF Laid
<1>3. TopoOrder' = TopoOrder
  BY <1>1, Kept
<1>4. SearchTypes'
  BY <1>1 DEF searchVars, Decoded, SearchTypes
<1>5. CASE IndexVertex
  <2>1. pc' = "cal_index" /\ i' = i - 1 /\ i >= 1
    BY <1>1, <1>5 DEF IndexVertex
  <2>2. PlacePart'
    BY <1>2, <1>3, <2>1 DEF PlacePart, LabelPhase
  <2> QED
    BY <1>1, <1>4, <2>1, <2>2, SettledNext DEF DecodeDone, Indexing
<1>6. CASE IndexEnd
  <2>1. pc' = "cal_excp_and_cross_arr" /\ i' = Len(TopoOrder)
    BY <1>6 DEF IndexEnd
  <2>2. PlacePart'
    BY <1>2, <1>3, <2>1 DEF PlacePart, LabelPhase
  <2> QED
    BY <1>1, <1>4, <2>1, <2>2, SettledNext DEF DecodeDone, Indexing, Labelling
<1> QED
  BY <1>5, <1>6

\* The steps that choose a vertex to label, and that leave one.
LEMMA LabelStep ==
    ASSUME Decoded, LabelVertex \/ LabelVertexEnd \/ LabelEnd
    PROVE  Decoded'
<1>1. /\ pc \in DecodeDone /\ UNCHANGED layeringKept /\ curInDegree' = curInDegree
      /\ UNCHANGED numberVars
  BY DEF LabelVertex, LabelVertexEnd, LabelEnd, codeVars, DecodeDone, Labelling, LabelPhase
<1>2. i \in 0 .. Len(TopoOrder) /\ Len(TopoOrder) \in Nat /\ TopoOrder \in Seq(Vertex)
  <2>1. i \in 0 .. Len(TopoOrder) /\ Laid
    BY <1>1 DEF Decoded, PlacePart, LaidPart, DecodeDone
  <2> QED
    BY <2>1, LaidTypes DEF Laid
<1>3. TopoOrder' = TopoOrder
  BY <1>1, Kept
<1>4. CASE LabelVertex
  <2>1. /\ pc' = "label_edges" /\ i' = i /\ i >= 1 /\ curID' = TopoOrder[i] /\ j' = 1
        /\ que' = que /\ visited' = visited
    BY <1>4 DEF LabelVertex
  <2>2. TopoOrder[i] \in Vertex
    BY <1>2, <2>1
  <2>3. PlacePart' /\ SearchTypes'
    BY <1>2, <1>3, <2>1, <2>2 DEF PlacePart, Decoded, SearchTypes
  <2> QED
    BY <1>1, <2>1, <2>3, SettledNext DEF DecodeDone, Labelling, LabelPhase
<1>5. CASE LabelVertexEnd
  <2>1. /\ pc = "label_edges" /\ pc' = "cal_excp_and_cross_arr" /\ i' = i - 1
        /\ UNCHANGED searchVars
    BY <1>5 DEF LabelVertexEnd
  <2>2. i # 0
    BY <2>1 DEF Decoded, PlacePart, LabelPhase
  <2>3. PlacePart' /\ SearchTypes'
    BY <1>2, <1>3, <2>1, <2>2 DEF PlacePart, LabelPhase, Decoded, SearchTypes, searchVars
  <2> QED
    BY <1>1, <2>1, <2>3, SettledNext DEF DecodeDone, Labelling
<1>6. CASE LabelEnd
  <2>1. /\ pc' = "ready" /\ i' = i /\ i = 0 /\ UNCHANGED searchVars
    BY <1>6 DEF LabelEnd, codeVars
  <2>2. PlacePart' /\ SearchTypes'
    BY <1>2, <1>3, <2>1 DEF PlacePart, LabelPhase, Decoded, SearchTypes, searchVars
  <2> QED
    BY <1>1, <2>1, <2>2, SettledNext DEF DecodeDone
<1> QED
  BY <1>4, <1>5, <1>6

\* The steps within the label of one vertex.
LEMMA OfferStep ==
    ASSUME Decoded,
           \/ LabelEdge \/ KnownCandidate \/ OfferCandidate \/ CandidatesEnd
           \/ Incomparable \/ CompareAbove \/ CompareBelow \/ AcceptCandidate
    PROVE  Decoded'
<1>1. /\ pc \in LabelPhase /\ UNCHANGED layeringKept /\ curInDegree' = curInDegree
      /\ UNCHANGED numberVars /\ UNCHANGED searchVars /\ i' = i
      /\ pc' \in LabelPhase /\ (j' = j \/ j' = j + 1)
  BY DEF LabelEdge, KnownCandidate, OfferCandidate, CandidatesEnd, Incomparable, CompareAbove,
         CompareBelow, AcceptCandidate, codeVars, LabelPhase, DropCandidate
<1>2. i \in 0 .. Len(TopoOrder) /\ i # 0 /\ curID = TopoOrder[i] /\ j \in Nat \ {0}
  BY <1>1 DEF Decoded, PlacePart, DecodeDone, Labelling
<1>3. TopoOrder' = TopoOrder
  BY <1>1, Kept
<1>4. SearchTypes'
  BY <1>1 DEF searchVars, Decoded, SearchTypes
<1>5. PlacePart'
  BY <1>1, <1>2, <1>3 DEF PlacePart, searchVars, LabelPhase
<1> QED
  BY <1>1, <1>4, <1>5, SettledNext DEF DecodeDone, Labelling

\* A query, or no step at all.
Still == UNCHANGED <<vars, codeVars>>

\* A query writes nothing that the index is made of.
LEMMA StillStep ==
    ASSUME Decoded, Still
    PROVE  Decoded'
<1>1. /\ UNCHANGED vars /\ UNCHANGED layeringKept /\ pc' = pc /\ i' = i /\ j' = j
      /\ curInDegree' = curInDegree
  BY DEF Still, vars, layeringKept, scanVars, rootVars
<1>2. /\ que' = que /\ curID' = curID /\ visited' = visited /\ idcount' = idcount
      /\ oldID_mapto_newID' = oldID_mapto_newID /\ rl' = rl /\ rlt' = rlt /\ excpID_O' = excpID_O
  BY DEF Still, codeVars, searchVars, numberVars
<1>3. /\ graph' = graph /\ TopoOrder' = TopoOrder /\ Ldown' = Ldown
      /\ root_located' = root_located /\ root_layer' = root_layer
      /\ temp_root_arr' = temp_root_arr /\ (Laid => Laid')
  BY <1>1, Kept
<1>4. LayerPart'
  <2>1. TypeInv /\ ScanInv /\ RootsInv => TypeInv' /\ ScanInv' /\ RootsInv'
    BY <1>1, TypeInvNext, ScanInvNext, RootsInvNext
  <2> QED
    BY <1>1, <1>2, <2>1 DEF Decoded, LayerPart
<1>5. LaidPart' /\ BlankPart' /\ SearchTypes' /\ NumberTypes' /\ PlacePart'
  BY <1>1, <1>2, <1>3 DEF Decoded, LaidPart, BlankPart, SearchTypes, NumberTypes, PlacePart
<1>6. CountInv' /\ DecodeInv' /\ CodedInv'
  BY <1>1, <1>2, <1>3 DEF Decoded, CountInv, DecodeInv, CodedInv, Coded
<1>7. pc' \in LayerPhase \cup Walking \cup DecodeDone
  BY <1>1 DEF Decoded
<1> QED
  BY <1>4, <1>5, <1>6, <1>7 DEF Decoded

\* The steps together.
LEMMA DecodedNext == Decoded /\ [QueryNext]_queryVars => Decoded'
<1> SUFFICES ASSUME Decoded, [QueryNext]_queryVars PROVE Decoded'
  OBVIOUS
<1>1. CASE CodeNext
  BY <1>1, LayerStep, CodeStartStep, NextRootStep, CountVertexStep, CountEdgeStep, CountPauseStep,
     CountEndStep, DecodeVertexStep, DecodeEdgeStep, DecodePauseStep, DecodeEndStep, IndexStep,
     LabelStep, OfferStep DEF CodeNext
<1>2. CASE \E x, y \in Vertex : Query(x, y)
  <2>1. Still
    BY <1>2 DEF Query, Still
  <2> QED
    BY <2>1, StillStep
<1>3. CASE UNCHANGED queryVars
  <2>1. Still
    BY <1>3 DEF queryVars, Still
  <2> QED
    BY <2>1, StillStep
<1> QED
  BY <1>1, <1>2, <1>3 DEF QueryNext

\* What holds up to the end of decode, at every step.
LEMMA DecodedInvariance == QuerySpec => []Decoded
<1> QED
  BY DecodedInit, DecodedNext, PTL DEF QuerySpec

\* What the invariant says of the new ids once decode is done.
LEMMA RenumberedHolds == Decoded => Renumbered
<1>1. SUFFICES ASSUME Decoded, pc = "cal_index"
               PROVE  /\ \A u \in Vertex : \A v \in Vertex \ {u} :
                            oldID_mapto_newID[u] # oldID_mapto_newID[v]
                      /\ \A u \in Vertex : \A v \in Succ(graph, u) :
                            oldID_mapto_newID[u] < oldID_mapto_newID[v]
                      /\ curInDegree = Zero
  BY DEF Renumbered
<1>2. Coded /\ curInDegree = Zero
  BY <1>1 DEF Decoded, CodedInv, Indexing
<1> QED
  BY <1>2 DEF Coded, CodedAs

\* decode numbers every vertex once, along every edge, and uses its
\* counters up, in every graph of any size.
THEOREM RenumberedTheorem == QuerySpec => []Renumbered
BY RenumberedHolds, DecodedInvariance, PTL
=============================================================================
