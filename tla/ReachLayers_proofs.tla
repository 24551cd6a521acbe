------------------------ MODULE ReachLayers_proofs ------------------------
(***************************************************************************)
(* The layering of construct_index, for any acyclic input graph of any     *)
(* size: the types of its arrays, then what pre_process computes, then     *)
(* the rounds.                                                             *)
(***************************************************************************)
EXTENDS ReachLayers, SequenceTheorems, FiniteSetTheorems, TLAPS

---------------------------------------------------------------------------
(***************************************************************************)
(* Facts about graphs and their edge places.                               *)
(***************************************************************************)
LEMMA VertexFinite == IsFiniteSet(Vertex)
BY FS_Interval, MaxIDAssumption DEF Vertex

\* The places of the adjacency lists are the pairs of a vertex and an index.
LEMMA SlotMember ==
    ASSUME NEW g
    PROVE  \A s : s \in Slot(g) <=>
               \E u \in Vertex : \E k \in 1 .. Len(g[u]) : s = <<u, k>>
BY DEF Slot

LEMMA SlotFinite ==
    ASSUME NEW g \in [Vertex -> Seq(Vertex)]
    PROVE  IsFiniteSet(Slot(g))
<1> DEFINE F == [u \in Vertex |-> {u} \X (1 .. Len(g[u]))]
           R == {F[u] : u \in Vertex}
<1>1. F \in Surjection(Vertex, R)
  BY DEF Surjection
<1>2. IsFiniteSet(R)
  <2> HIDE DEF F, R
  <2> QED
    BY <1>1, VertexFinite, FS_Surjection
<1>3. ASSUME NEW T \in R PROVE IsFiniteSet(T)
  <2>1. PICK u \in Vertex : T = {u} \X (1 .. Len(g[u]))
    BY <1>3
  <2>2. Len(g[u]) \in Int /\ 1 \in Int
    OBVIOUS
  <2>3. IsFiniteSet({u})
    BY FS_Singleton
  <2>4. IsFiniteSet(1 .. Len(g[u]))
    BY <2>2, FS_Interval
  <2> QED
    BY <2>1, <2>3, <2>4, FS_Product, Zenon
<1>4. IsFiniteSet(UNION R)
  BY <1>2, <1>3, FS_UNION
<1> QED
  BY <1>4 DEF Slot

\* The places of the edges into v.
InSlots(g, v) == {s \in Slot(g) : Target(g, s) = v}

LEMMA InSlotsFinite ==
    ASSUME NEW g \in [Vertex -> Seq(Vertex)], NEW v
    PROVE  IsFiniteSet(InSlots(g, v))
BY SlotFinite, FS_Subset DEF InSlots

\* An edge is a place whose target is its head.
LEMMA EdgePlace ==
    ASSUME NEW g, NEW u \in Vertex, NEW v
    PROVE  v \in Succ(g, u) <=> \E k \in 1 .. Len(g[u]) : <<u, k>> \in InSlots(g, v)
BY SlotMember DEF Succ, InSlots, Target

\* A vertex has in-degree zero exactly if it is nobody's successor.
LEMMA InDegreeZero ==
    ASSUME NEW g \in [Vertex -> Seq(Vertex)], NEW v \in Vertex
    PROVE  /\ InDegree(g)[v] = Cardinality(InSlots(g, v))
           /\ InDegree(g)[v] \in Nat
           /\ InDegree(g)[v] = 0 <=> \A u \in Vertex : v \notin Succ(g, u)
<1>1. InDegree(g)[v] = Cardinality(InSlots(g, v))
  BY DEF InDegree, InSlots
<1>2. IsFiniteSet(InSlots(g, v))
  BY InSlotsFinite
<1>3. Cardinality(InSlots(g, v)) \in Nat
  BY <1>2, FS_CardinalityType
<1>4. Cardinality(InSlots(g, v)) = 0 <=> InSlots(g, v) = {}
  BY <1>2, FS_EmptySet
<1>5. InSlots(g, v) = {} <=> \A u \in Vertex : v \notin Succ(g, u)
  <2>1. ASSUME NEW s \in InSlots(g, v) PROVE \E u \in Vertex : v \in Succ(g, u)
    <3>1. s \in Slot(g)
      BY <2>1 DEF InSlots
    <3>2. PICK u \in Vertex : \E k \in 1 .. Len(g[u]) : s = <<u, k>>
      BY <3>1, SlotMember
    <3>3. v \in Succ(g, u)
      BY <2>1, <3>2, EdgePlace
    <3> QED
      BY <3>3
  <2>2. ASSUME NEW u \in Vertex, v \in Succ(g, u) PROVE InSlots(g, v) # {}
    BY <2>2, EdgePlace
  <2> QED
    BY <2>1, <2>2
<1> QED
  BY <1>1, <1>3, <1>4, <1>5

\* An acyclic graph has a root, so vertex 0 never has to stand in for one.
LEMMA RootsExist ==
    ASSUME NEW g \in [Vertex -> Seq(Vertex)], Acyclic(g)
    PROVE  \E v \in Vertex : InDegree(g)[v] = 0
<1>1. Vertex \in (SUBSET Vertex) \ {{}}
  <2>1. 0 \in Vertex
    BY MaxIDAssumption DEF Vertex
  <2>2. Vertex \subseteq Vertex /\ Vertex # {}
    BY <2>1
  <2> QED
    BY <2>2
<1>2. PICK v \in Vertex : \A u \in Vertex : v \notin Succ(g, u)
  BY <1>1 DEF Acyclic
<1> QED
  BY <1>2, InDegreeZero

---------------------------------------------------------------------------
(***************************************************************************)
(* Types.                                                                  *)
(***************************************************************************)
\* The batches end within the orders, and the scans stay within the batches.
Batches ==
    /\ graph \in Graphs
    /\ pc = "pre_process" => vectorsize <= Len(TopoOrder)
    /\ pc = "pre_process_cross" => vectorsize <= Len(TopoOrder_cross)

TypeInv == TypeOK /\ Batches

LEMMA GraphType ==
    ASSUME graph \in Graphs
    PROVE  graph \in [Vertex -> Seq(Vertex)] /\ Acyclic(graph)
BY GraphsAssumption

\* Whatever order qsort leaves the roots in, it lists each of them once.
LEMMA RootOrderType ==
    ASSUME NEW s \in RootOrders
    PROVE  /\ s \in Seq(Vertex)
           /\ Elems(s) = ForwardRoots
           /\ \A a, b \in 1 .. Len(s) : s[a] = s[b] => a = b
<1> DEFINE n == Cardinality(ForwardRoots)
<1>1. ForwardRoots \subseteq Vertex
  BY MaxIDAssumption DEF ForwardRoots, Vertex
<1>2. n \in Nat
  BY <1>1, VertexFinite, FS_Subset, FS_CardinalityType
<1>3. s \in [1 .. n -> ForwardRoots] /\ DOMAIN s = 1 .. n
  BY DEF RootOrders
<1>4. s \in [1 .. n -> Vertex]
  BY <1>1, <1>3
<1>5. s \in Seq(Vertex) /\ Len(s) = n
  BY <1>2, <1>4, IsASeq
<1>6. \A a, b \in 1 .. n : s[a] = s[b] => a = b
  <2>1. \A a, b \in DOMAIN s : a < b => s[a] # s[b]
    BY DEF RootOrders
  <2> QED
    BY <1>2, <1>3, <2>1
<1>7. Elems(s) = ForwardRoots
  BY DEF RootOrders
<1> QED
  BY <1>5, <1>6, <1>7

LEMMA TypeInvInit == Init => TypeInv
<1> SUFFICES ASSUME Init PROVE TypeInv
  OBVIOUS
<1>1. graph \in Graphs /\ graph \in [Vertex -> Seq(Vertex)]
  BY GraphType DEF Init
<1>2. indeg \in [Vertex -> Int]
  BY <1>1, InDegreeZero DEF Init, InDegree
<1>3. 0 \in 0 .. maxID + 1
  BY MaxIDAssumption
<1>4. LoopTypes /\ Batches
  BY <1>1 DEF Init, LoopTypes, Batches
<1>5. CounterTypes
  BY <1>2 DEF Init, CounterTypes, Zero
<1>6. RegionTypes
  BY <1>3 DEF Init, RegionTypes, Zero, None
<1>7. OrderTypes
  BY <1>1 DEF Init, OrderTypes, Zero
<1> QED
  BY <1>4, <1>5, <1>6, <1>7 DEF TypeInv, TypeOK

\* The shared body of the scans keeps the types of what it changes.
LEMMA ScanEdgeType ==
    ASSUME TypeInv, NEW u \in Vertex, NEW v \in Vertex, ScanEdge(u, v)
    PROVE  /\ cross' \in [Vertex -> BOOLEAN]
           /\ cross_id' \in Seq(Vertex)
           /\ root_located' \in [Vertex -> 0 .. maxID + 1]
<1> USE DEF TypeInv, TypeOK, RegionTypes
<1>1. 0 \in 0 .. maxID + 1
  BY MaxIDAssumption
<1>2. CASE Spread(u, v)
  BY <1>1, <1>2 DEF Spread
<1>3. CASE Meet(u, v)
  BY <1>1, <1>3, AppendProperties DEF Meet
<1>4. CASE Claim(u, v)
  BY <1>4 DEF Claim
<1>5. CASE Settled(u, v)
  BY <1>5 DEF Settled, scanVars
<1> QED
  BY <1>2, <1>3, <1>4, <1>5 DEF ScanEdge

LEMMA CountedType ==
    ASSUME NEW d \in [Vertex -> Int], NEW u, NEW v \in Vertex
    PROVE  Counted(d, u, v) \in [Vertex -> Int]
BY DEF Counted

\* The vertex and the edge a scan looks at exist.
LEMMA PlaceType ==
    ASSUME graph \in [Vertex -> Seq(Vertex)],
           NEW order \in Seq(Vertex), NEW n \in 1 .. Len(order),
           NEW k \in 1 .. Len(graph[order[n]])
    PROVE  order[n] \in Vertex /\ graph[order[n]][k] \in Vertex
<1>1. order[n] \in Vertex
  BY ElementOfSeq
<1>2. graph[order[n]] \in Seq(Vertex)
  BY <1>1
<1> QED
  BY <1>1, <1>2, ElementOfSeq

LEMMA PreEdgePlace ==
    ASSUME TypeInv, PreEdge
    PROVE  /\ i \in 1 .. Len(TopoOrder) /\ j \in 1 .. Len(graph[TopoOrder[i]])
           /\ TopoOrder[i] \in Vertex /\ graph[TopoOrder[i]][j] \in Vertex
<1>1. /\ graph \in [Vertex -> Seq(Vertex)] /\ TopoOrder \in Seq(Vertex)
      /\ i \in Nat \ {0} /\ j \in Nat \ {0} /\ vectorsize \in Nat
      /\ i <= vectorsize /\ vectorsize <= Len(TopoOrder)
      /\ j <= Len(graph[TopoOrder[i]])
  BY DEF TypeInv, TypeOK, LoopTypes, OrderTypes, Batches, PreEdge
<1>2. i \in 1 .. Len(TopoOrder)
  BY <1>1
<1>3. graph[TopoOrder[i]] \in Seq(Vertex)
  BY <1>1, <1>2, ElementOfSeq
<1>4. j \in 1 .. Len(graph[TopoOrder[i]])
  BY <1>1, <1>3
<1> QED
  BY <1>1, <1>2, <1>4, PlaceType

LEMMA CrossEdgePlace ==
    ASSUME TypeInv, CrossEdge
    PROVE  /\ i \in 1 .. Len(TopoOrder_cross)
           /\ j \in 1 .. Len(graph[TopoOrder_cross[i]])
           /\ TopoOrder_cross[i] \in Vertex
           /\ graph[TopoOrder_cross[i]][j] \in Vertex
<1>1. /\ graph \in [Vertex -> Seq(Vertex)] /\ TopoOrder_cross \in Seq(Vertex)
      /\ i \in Nat \ {0} /\ j \in Nat \ {0} /\ vectorsize \in Nat
      /\ i <= vectorsize /\ vectorsize <= Len(TopoOrder_cross)
      /\ j <= Len(graph[TopoOrder_cross[i]])
  BY DEF TypeInv, TypeOK, LoopTypes, OrderTypes, Batches, CrossEdge
<1>2. i \in 1 .. Len(TopoOrder_cross)
  BY <1>1
<1>3. graph[TopoOrder_cross[i]] \in Seq(Vertex)
  BY <1>1, <1>2, ElementOfSeq
<1>4. j \in 1 .. Len(graph[TopoOrder_cross[i]])
  BY <1>1, <1>3
<1> QED
  BY <1>1, <1>2, <1>4, PlaceType

LEMMA GrowType ==
    ASSUME NEW s \in Seq(Vertex), NEW v \in Vertex, NEW t,
           t = s \/ t = Append(s, v)
    PROVE  t \in Seq(Vertex) /\ Len(t) >= Len(s)
<1>1. Len(s) \in Nat
  OBVIOUS
<1>2. CASE t = Append(s, v)
  BY <1>1, <1>2, AppendProperties
<1> QED
  BY <1>1, <1>2

LEMMA TypeInvNext == TypeInv /\ [Next]_vars => TypeInv'
<1> SUFFICES ASSUME TypeInv, [Next]_vars PROVE TypeInv'
  OBVIOUS
<1> USE DEF TypeInv, TypeOK
<1>1. CASE ReadRoots
  <2>1. PICK roots \in RootOrders :
           temp_root_arr' = roots /\ TopoOrder' = roots /\ vectorsize' = Len(roots)
    BY <1>1 DEF ReadRoots
  <2>2. /\ temp_root_arr' \in Seq(Vertex) /\ TopoOrder' \in Seq(Vertex)
        /\ vectorsize' \in Nat /\ vectorsize' <= Len(TopoOrder')
    BY <2>1, RootOrderType
  <2>3. (\A v \in Vertex : v + 1 \in 0 .. maxID + 1) /\ 0 \in 0 .. maxID + 1
    BY MaxIDAssumption DEF Vertex
  <2>4. LoopTypes' /\ CounterTypes' /\ Batches'
    BY <1>1, <2>2 DEF ReadRoots, LoopTypes, CounterTypes, Batches
  <2>5. RegionTypes'
    BY <1>1, <2>2, <2>3 DEF ReadRoots, LoopTypes, RegionTypes
  <2>6. OrderTypes'
    BY <1>1, <2>2 DEF ReadRoots, OrderTypes
  <2> QED
    BY <2>4, <2>5, <2>6
<1>2. CASE PreEdge
  <2> DEFINE u == TopoOrder[i]
             v == graph[u][j]
  <2>1. u \in Vertex /\ v \in Vertex
    BY <1>2, PreEdgePlace
  <2>2. ScanEdge(u, v) /\ UNCHANGED rootVars
    BY <1>2 DEF PreEdge
  <2>3. /\ indeg' = [indeg EXCEPT ![v] = @ - 1] /\ nextInDegree' = nextInDegree
        /\ curInDegree' = Counted(curInDegree, u, v)
    BY <1>2 DEF PreEdge
  <2>4. /\ graph' = graph /\ TopoOrder_cross' = TopoOrder_cross
        /\ TopoOrder' = TopoOrder \/ TopoOrder' = Append(TopoOrder, v)
        /\ Ldown' = Ldown \/ Ldown' = [Ldown EXCEPT ![v] = layer]
    BY <1>2 DEF PreEdge
  <2>5. LoopTypes'
    BY <1>2 DEF PreEdge, rootVars, LoopTypes
  <2> HIDE DEF u, v
  <2>6. CounterTypes'
    BY <2>1, <2>3, CountedType DEF CounterTypes
  <2>7. RegionTypes'
    BY <2>1, <2>2, ScanEdgeType DEF rootVars, RegionTypes
  <2>8. TopoOrder' \in Seq(Vertex) /\ Len(TopoOrder') >= Len(TopoOrder)
    BY <2>1, <2>4, GrowType DEF OrderTypes
  <2>9. Ldown' \in [Vertex -> Nat]
    BY <2>1, <2>4 DEF OrderTypes, LoopTypes
  <2>10. OrderTypes'
    BY <2>4, <2>8, <2>9 DEF OrderTypes
  <2>11. Batches'
    BY <1>2, <2>8 DEF PreEdge, Batches, LoopTypes, OrderTypes
  <2> QED
    BY <2>5, <2>6, <2>7, <2>10, <2>11
<1>3. CASE PreVertex \/ PreBatch \/ PreEnd
  <2>1. LoopTypes' /\ CounterTypes'
    BY <1>3 DEF PreVertex, PreBatch, PreEnd, rootVars, topoVars, LoopTypes,
                CounterTypes, OrderTypes
  <2>2. RegionTypes'
    BY <1>3 DEF PreVertex, PreBatch, PreEnd, scanVars, rootVars, RegionTypes
  <2>3. OrderTypes' /\ Batches'
    BY <1>3 DEF PreVertex, PreBatch, PreEnd, topoVars, OrderTypes, Batches
  <2> QED
    BY <2>1, <2>2, <2>3
<1>4. CASE LayerStart \/ LayersEnd
  <2>1. LoopTypes' /\ CounterTypes'
    BY <1>4 DEF LayerStart, LayersEnd, rootVars, topoVars, LoopTypes, CounterTypes
  <2>2. RegionTypes'
    BY <1>4 DEF LayerStart, LayersEnd, scanVars, rootVars, RegionTypes
  <2>3. TopoOrder_cross' = <<>> \/ TopoOrder_cross' = TopoOrder_cross
    BY <1>4 DEF LayerStart, LayersEnd
  <2>4. OrderTypes'
    <3>1. TopoOrder_cross' \in Seq(Vertex)
      BY <2>3, EmptySeq DEF OrderTypes
    <3>2. UNCHANGED <<graph, TopoOrder, Ldown>>
      BY <1>4 DEF LayerStart, LayersEnd, topoVars
    <3> QED
      BY <3>1, <3>2 DEF OrderTypes
  <2>5. Batches'
    BY <1>4 DEF LayerStart, LayersEnd, Batches
  <2> QED
    BY <2>1, <2>2, <2>4, <2>5
<1>5. CASE LayerRoot
  <2> DEFINE r == cross_id[i]
  <2>1. i \in 1 .. Len(cross_id)
    BY <1>5 DEF LayerRoot, LoopTypes, RegionTypes
  <2>2. r \in Vertex
    BY <2>1, ElementOfSeq DEF RegionTypes
  <2>3. r + 1 \in 0 .. maxID + 1
    BY <2>2, MaxIDAssumption DEF Vertex
  <2>4. /\ temp_root_arr' = temp_root_arr \/ temp_root_arr' = Append(temp_root_arr, r)
        /\ TopoOrder_cross' = TopoOrder_cross \/ TopoOrder_cross' = Append(TopoOrder_cross, r)
        /\ root_located' = root_located \/ root_located' = [root_located EXCEPT ![r] = r + 1]
        /\ root_layer' = root_layer \/ root_layer' = [root_layer EXCEPT ![r] = count]
    BY <1>5 DEF LayerRoot
  <2>5. LoopTypes' /\ CounterTypes' /\ Batches'
    BY <1>5 DEF LayerRoot, topoVars, LoopTypes, CounterTypes, Batches
  <2>6. cross' = cross /\ cross_id' = cross_id /\ graph' = graph
        /\ TopoOrder' = TopoOrder /\ Ldown' = Ldown
    BY <1>5 DEF LayerRoot, topoVars
  <2> HIDE DEF r
  <2>7. /\ temp_root_arr' \in Seq(Vertex) /\ TopoOrder_cross' \in Seq(Vertex)
    BY <2>2, <2>4, GrowType DEF RegionTypes, OrderTypes
  <2>8. RegionTypes'
    BY <2>2, <2>3, <2>4, <2>6, <2>7 DEF RegionTypes, LoopTypes
  <2>9. OrderTypes'
    BY <2>6, <2>7 DEF OrderTypes
  <2> QED
    BY <2>5, <2>8, <2>9
<1>6. CASE CrossStart
  <2>1. LoopTypes' /\ CounterTypes'
    BY <1>6 DEF CrossStart, rootVars, topoVars, LoopTypes, CounterTypes, OrderTypes
  <2>2. RegionTypes'
    BY <1>6 DEF CrossStart, rootVars, RegionTypes, None
  <2>3. OrderTypes' /\ Batches'
    BY <1>6 DEF CrossStart, topoVars, OrderTypes, Batches
  <2> QED
    BY <2>1, <2>2, <2>3
<1>7. CASE CrossEdge
  <2> DEFINE u == TopoOrder_cross[i]
             v == graph[u][j]
  <2>1. u \in Vertex /\ v \in Vertex
    BY <1>7, CrossEdgePlace
  <2>2. ScanEdge(u, v) /\ UNCHANGED rootVars
    BY <1>7 DEF CrossEdge
  <2>3. /\ curInDegree' = [curInDegree EXCEPT ![v] = @ - 1] /\ indeg' = indeg
        /\ nextInDegree' = Counted(nextInDegree, u, v)
    BY <1>7 DEF CrossEdge, topoVars
  <2>4. /\ graph' = graph /\ TopoOrder' = TopoOrder /\ Ldown' = Ldown
        /\ \/ TopoOrder_cross' = TopoOrder_cross
           \/ TopoOrder_cross' = Append(TopoOrder_cross, v)
    BY <1>7 DEF CrossEdge, topoVars
  <2>5. LoopTypes'
    BY <1>7 DEF CrossEdge, rootVars, topoVars, LoopTypes
  <2> HIDE DEF u, v
  <2>6. CounterTypes'
    BY <2>1, <2>3, CountedType DEF CounterTypes
  <2>7. RegionTypes'
    BY <2>1, <2>2, ScanEdgeType DEF rootVars, RegionTypes
  <2>8. /\ TopoOrder_cross' \in Seq(Vertex)
        /\ Len(TopoOrder_cross') >= Len(TopoOrder_cross)
    BY <2>1, <2>4, GrowType DEF OrderTypes
  <2>9. OrderTypes'
    BY <2>4, <2>8 DEF OrderTypes
  <2>10. Batches'
    BY <1>7, <2>8 DEF CrossEdge, Batches, LoopTypes, OrderTypes
  <2> QED
    BY <2>5, <2>6, <2>7, <2>9, <2>10
<1>8. CASE CrossVertex \/ CrossBatch \/ CrossEnd
  <2>1. LoopTypes' /\ CounterTypes'
    BY <1>8 DEF CrossVertex, CrossBatch, CrossEnd, rootVars, topoVars,
                LoopTypes, CounterTypes, OrderTypes
  <2>2. RegionTypes'
    BY <1>8 DEF CrossVertex, CrossBatch, CrossEnd, scanVars, rootVars, RegionTypes
  <2>3. OrderTypes' /\ Batches'
    BY <1>8 DEF CrossVertex, CrossBatch, CrossEnd, topoVars, OrderTypes, Batches
  <2> QED
    BY <2>1, <2>2, <2>3
<1>9. CASE UNCHANGED vars
  BY <1>9 DEF vars, LoopTypes, CounterTypes, RegionTypes, OrderTypes, Batches
<1> QED
  BY <1>1, <1>2, <1>3, <1>4, <1>5, <1>6, <1>7, <1>8, <1>9 DEF Next

\* Every variable of construct_index keeps its type: in particular no scan
\* reads past the order or the adjacency list it walks.
THEOREM TypeCorrect == Spec => []TypeOK
<1>1. TypeInv => TypeOK
  BY DEF TypeInv
<1> QED
  BY TypeInvInit, TypeInvNext, <1>1, PTL DEF Spec

---------------------------------------------------------------------------
(***************************************************************************)
(* pre_process computes a topological order of the whole graph, for any    *)
(* acyclic input of any size.  The inductive invariant says what the       *)
(* counters mean in the middle of the scan: indeg[v] is the number of      *)
(* in-edges of v that the scan has not seen yet.                           *)
(***************************************************************************)

\* The scan has taken edge place s: its vertex stands before the current
\* one in TopoOrder, or it is the current one and the place is behind j.
Scanned(s) ==
    \E a \in 1 .. Len(TopoOrder) :
        /\ TopoOrder[a] = s[1]
        /\ a < i \/ (a = i /\ s[2] < j)

\* The edges into v still to come.
Open(v) == {s \in InSlots(graph, v) : ~Scanned(s)}

Untouched ==
    pc = "roots" =>
        /\ indeg = InDegree(graph)
        /\ TopoOrder = <<>> /\ i = 1 /\ j = 1 /\ layer = 1 /\ count = 1

NoRepeat ==
    \A a, b \in 1 .. Len(TopoOrder) : TopoOrder[a] = TopoOrder[b] => a = b

\* The counters count what is to come, and a vertex is listed once its
\* counter is zero.
Counting ==
    pc = "pre_process" =>
        \A v \in Vertex :
            /\ indeg[v] = Cardinality(Open(v))
            /\ indeg[v] = 0 <=> v \in Elems(TopoOrder)

\* The batch being read is one level deep, the one being written the next.
Levels ==
    pc = "pre_process" =>
        \A a \in 1 .. Len(TopoOrder) :
            /\ a <= vectorsize => Ldown[TopoOrder[a]] < layer
            /\ a >= i /\ a <= vectorsize => Ldown[TopoOrder[a]] = layer - 1
            /\ a > vectorsize => Ldown[TopoOrder[a]] = layer

\* A listed vertex is a root or one level below a predecessor.
OneBelow(v) ==
    \/ Ldown[v] = 1 /\ \A u \in Vertex : v \notin Succ(graph, u)
    \/ \E u \in Vertex : v \in Succ(graph, u) /\ Ldown[v] = Ldown[u] + 1

Stepped ==
    pc = "pre_process" => 
        \A b \in 1 .. Len(TopoOrder) : OneBelow(TopoOrder[b])

NoWrap == \A v \in Vertex : indeg[v] >= 0

ScanInv ==
    /\ Untouched /\ NoRepeat /\ Counting /\ Levels /\ Stepped /\ NoWrap
    /\ TopoSorted /\ ScanComplete

---------------------------------------------------------------------------
LEMMA SlotFields ==
    ASSUME NEW g \in [Vertex -> Seq(Vertex)], NEW s \in Slot(g)
    PROVE  /\ s[1] \in Vertex /\ s[2] \in 1 .. Len(g[s[1]]) /\ s[2] \in Nat
           /\ s = <<s[1], s[2]>>
<1>1. PICK u \in Vertex : \E k \in 1 .. Len(g[u]) : s = <<u, k>>
  BY SlotMember
<1>2. PICK k \in 1 .. Len(g[u]) : s = <<u, k>>
  BY <1>1
<1> QED
  BY <1>2

LEMMA OpenFinite ==
    ASSUME TypeInv, NEW v
    PROVE  /\ IsFiniteSet(Open(v)) /\ Cardinality(Open(v)) \in Nat
           /\ Cardinality(Open(v)) = 0 <=> Open(v) = {}
<1>1. graph \in [Vertex -> Seq(Vertex)]
  BY DEF TypeInv, TypeOK, OrderTypes
<1>2. IsFiniteSet(InSlots(graph, v))
  BY <1>1, InSlotsFinite
<1>3. Open(v) \subseteq InSlots(graph, v)
  BY DEF Open
<1>4. IsFiniteSet(Open(v))
  BY <1>2, <1>3, FS_Subset
<1> QED
  BY <1>4, FS_CardinalityType, FS_EmptySet

\* The vertices listed so far are those at some index.
LEMMA ListedIndex ==
    ASSUME NEW v
    PROVE  v \in Elems(TopoOrder) <=> \E a \in 1 .. Len(TopoOrder) : TopoOrder[a] = v
BY DEF Elems

---------------------------------------------------------------------------
(***************************************************************************)
(* The roots.                                                              *)
(***************************************************************************)
LEMMA RootsAreSources ==
    ASSUME TypeInv, indeg = InDegree(graph)
    PROVE  ForwardRoots = {v \in Vertex : indeg[v] = 0}
BY RootsExist, GraphType DEF TypeInv, Batches, ForwardRoots

LEMMA ReadRootsScan ==
    ASSUME TypeInv, TypeInv', ScanInv, ReadRoots
    PROVE  ScanInv'
<1>1. /\ pc = "roots" /\ pc' = "pre_process" /\ graph' = graph /\ indeg' = indeg
      /\ i' = 1 /\ j' = 1 /\ layer' = 2 /\ indeg = InDegree(graph)
  BY DEF ReadRoots, ScanInv, Untouched
<1>2. graph \in [Vertex -> Seq(Vertex)]
  BY DEF TypeInv, TypeOK, OrderTypes
<1>3. ForwardRoots = {v \in Vertex : indeg[v] = 0}
  BY <1>1, RootsAreSources
<1>4. PICK roots \in RootOrders : TopoOrder' = roots /\ vectorsize' = Len(roots)
  BY DEF ReadRoots
<1>5. /\ roots \in Seq(Vertex) /\ Elems(roots) = ForwardRoots
      /\ \A a, b \in 1 .. Len(roots) : roots[a] = roots[b] => a = b
      /\ Len(roots) \in Nat
  BY RootOrderType
<1>6. \A v \in Vertex : Ldown'[v] = IF v \in ForwardRoots THEN 1 ELSE 0
  BY DEF ReadRoots
<1>7. \A b \in 1 .. Len(roots) : roots[b] \in Vertex /\ indeg[roots[b]] = 0
  BY <1>3, <1>5 DEF Elems
<1>8. \A v \in Vertex : indeg[v] \in Nat /\ indeg[v] = Cardinality(InSlots(graph, v))
  BY <1>1, <1>2, InDegreeZero
<1>9. \A v \in Vertex : indeg[v] = 0 <=> \A u \in Vertex : v \notin Succ(graph, u)
  BY <1>1, <1>2, InDegreeZero
<1>10. NoRepeat'
  BY <1>4, <1>5 DEF NoRepeat
<1>11. Counting'
  <2>1. \A q \in Slot(graph) : q[2] \in Int /\ q[2] >= 1
    BY <1>2, SlotFields
  <2>2. \A q \in Slot(graph) : ~Scanned(q)'
    BY <1>1, <1>4, <1>5, <2>1 DEF Scanned
  <2>3. ASSUME NEW v \in Vertex PROVE Open(v)' = InSlots(graph, v)
    BY <1>1, <2>2 DEF Open, InSlots
  <2>4. \A v \in Vertex : v \in Elems(TopoOrder') <=> indeg[v] = 0
    BY <1>3, <1>4, <1>5
  <2> QED
    BY <1>1, <1>8, <2>3, <2>4 DEF Counting
<1>12. Levels'
  <2>1. \A b \in 1 .. Len(roots) : Ldown'[roots[b]] = 1
    BY <1>3, <1>6, <1>7
  <2> QED
    BY <1>1, <1>4, <1>5, <2>1 DEF Levels
<1>13. Stepped'
  <2>1. \A b \in 1 .. Len(roots) : Ldown'[roots[b]] = 1
    BY <1>3, <1>6, <1>7
  <2>2. \A b \in 1 .. Len(roots) : \A u \in Vertex : roots[b] \notin Succ(graph, u)
    BY <1>7, <1>9
  <2> QED
    BY <1>1, <1>4, <2>1, <2>2 DEF Stepped, OneBelow
<1>14. TopoSorted'
  <2>1. \A b \in 1 .. Len(roots) : \A u \in Vertex : roots[b] \notin Succ(graph, u)
    BY <1>7, <1>9
  <2> QED
    BY <1>1, <1>4, <1>5, <2>1 DEF TopoSorted
<1> QED
  BY <1>1, <1>8, <1>10, <1>11, <1>12, <1>13, <1>14
     DEF ScanInv, Untouched, NoWrap, ScanComplete

---------------------------------------------------------------------------
(***************************************************************************)
(* One edge.                                                               *)
(***************************************************************************)
\* The edge being read was still to come, and nothing else changes.
LEMMA PreEdgeOpen ==
    ASSUME TypeInv, NoRepeat, PreEdge,
           NEW u, u = TopoOrder[i], NEW v, v = graph[u][j],
           NEW e, e = <<u, j>>
    PROVE  /\ e \in Open(v)
           /\ \A w \in Vertex :
                 Open(w)' = IF w = v THEN Open(v) \ {e} ELSE Open(w)
<1>1. /\ graph \in [Vertex -> Seq(Vertex)] /\ TopoOrder \in Seq(Vertex)
      /\ Len(TopoOrder) \in Nat
  BY DEF TypeInv, TypeOK, OrderTypes
<1>2. /\ i \in 1 .. Len(TopoOrder) /\ j \in 1 .. Len(graph[u])
      /\ u \in Vertex /\ v \in Vertex
  BY PreEdgePlace
<1>3. /\ i' = i /\ j' = j + 1 /\ graph' = graph
      /\ TopoOrder' = TopoOrder \/ TopoOrder' = Append(TopoOrder, v)
  BY DEF PreEdge
<1>4. /\ Len(TopoOrder') \in Nat /\ Len(TopoOrder') >= Len(TopoOrder)
      /\ \A a \in 1 .. Len(TopoOrder) : TopoOrder'[a] = TopoOrder[a]
  BY <1>1, <1>2, <1>3, AppendProperties
<1>5. e \in InSlots(graph, v)
  BY <1>2, SlotMember DEF InSlots, Target
<1>6. ~Scanned(e)
  <2>1. SUFFICES ASSUME NEW a \in 1 .. Len(TopoOrder), TopoOrder[a] = u,
                        a < i \/ (a = i /\ j < j)
                 PROVE  FALSE
    BY DEF Scanned
  <2>2. a = i
    BY <1>2, <2>1 DEF NoRepeat
  <2> QED
    BY <1>2, <2>1, <2>2
<1>7. ASSUME NEW q \in Slot(graph) PROVE Scanned(q)' <=> Scanned(q) \/ q = e
  <2>1. q[1] \in Vertex /\ q[2] \in Nat /\ q = <<q[1], q[2]>>
    BY <1>1, SlotFields
  <2>2. ASSUME Scanned(q) PROVE Scanned(q)'
    <3>1. PICK a \in 1 .. Len(TopoOrder) :
             TopoOrder[a] = q[1] /\ (a < i \/ (a = i /\ q[2] < j))
      BY <2>2 DEF Scanned
    <3>2. a \in 1 .. Len(TopoOrder') /\ TopoOrder'[a] = q[1]
      BY <1>1, <1>4, <3>1
    <3>3. a < i' \/ (a = i' /\ q[2] < j')
      BY <1>2, <1>3, <2>1, <3>1
    <3> QED
      BY <3>2, <3>3 DEF Scanned
  <2>3. ASSUME q = e PROVE Scanned(q)'
    <3>1. i \in 1 .. Len(TopoOrder') /\ TopoOrder'[i] = q[1] /\ q[2] < j'
      BY <1>1, <1>2, <1>3, <1>4, <2>3
    <3> QED
      BY <1>3, <3>1 DEF Scanned
  <2>4. ASSUME Scanned(q)' PROVE Scanned(q) \/ q = e
    <3>1. PICK a \in 1 .. Len(TopoOrder') :
             TopoOrder'[a] = q[1] /\ (a < i' \/ (a = i' /\ q[2] < j'))
      BY <2>4 DEF Scanned
    <3>2. a \in 1 .. Len(TopoOrder) /\ TopoOrder[a] = q[1]
      BY <1>1, <1>2, <1>3, <1>4, <3>1
    <3>3. CASE a = i /\ q[2] = j
      BY <2>1, <3>2, <3>3
    <3>4. CASE a < i \/ (a = i /\ q[2] < j)
      BY <3>2, <3>4 DEF Scanned
    <3> QED
      BY <1>2, <1>3, <2>1, <3>1, <3>2, <3>3, <3>4
  <2> QED
    BY <2>2, <2>3, <2>4
<1>8. e \in Open(v)
  BY <1>5, <1>6 DEF Open
<1>9. ASSUME NEW w \in Vertex
      PROVE  Open(w)' = IF w = v THEN Open(v) \ {e} ELSE Open(w)
  <2>1. InSlots(graph, w)' = InSlots(graph, w) /\ InSlots(graph, w) \subseteq Slot(graph)
    BY <1>3 DEF InSlots
  <2>2. e \in InSlots(graph, w) <=> w = v
    BY <1>5 DEF InSlots
  <2>3. Open(w)' = {q \in InSlots(graph, w) : ~(Scanned(q) \/ q = e)}
    BY <1>7, <2>1 DEF Open
  <2> QED
    BY <2>2, <2>3 DEF Open
<1> QED
  BY <1>8, <1>9

\* What the edge does to the order: its head is listed exactly if this was
\* the last edge into it, and it was not listed before.
LEMMA PreEdgeOrder ==
    ASSUME TypeInv, NoRepeat, Counting, PreEdge,
           NEW u, u = TopoOrder[i], NEW v, v = graph[u][j]
    PROVE  /\ v \in Vertex /\ v \notin Elems(TopoOrder)
           /\ indeg[v] \in Nat /\ indeg[v] > 0
           /\ \A w \in Vertex :
                 /\ indeg'[w] = IF w = v THEN indeg[v] - 1 ELSE indeg[w]
                 /\ indeg'[w] = Cardinality(Open(w)')
           /\ \/ /\ indeg[v] = 1 /\ Open(v)' = {}
                 /\ TopoOrder' = Append(TopoOrder, v)
                 /\ Ldown' = [Ldown EXCEPT ![v] = layer]
              \/ indeg[v] # 1 /\ TopoOrder' = TopoOrder /\ Ldown' = Ldown
<1>0. PICK e : e = <<u, j>>
  OBVIOUS
<1>1. v \in Vertex /\ pc = "pre_process"
  BY PreEdgePlace DEF PreEdge
<1>2. /\ e \in Open(v)
      /\ \A w \in Vertex : Open(w)' = IF w = v THEN Open(v) \ {e} ELSE Open(w)
  BY <1>0, PreEdgeOpen
<1>3. /\ indeg \in [Vertex -> Int] /\ indeg' = [indeg EXCEPT ![v] = @ - 1]
      /\ IF indeg[v] = 1
         THEN TopoOrder' = Append(TopoOrder, v) /\ Ldown' = [Ldown EXCEPT ![v] = layer]
         ELSE TopoOrder' = TopoOrder /\ Ldown' = Ldown
  BY DEF PreEdge, TypeInv, TypeOK, CounterTypes
<1>4. \A w \in Vertex : indeg[w] = Cardinality(Open(w))
  BY <1>1 DEF Counting
<1>5. /\ IsFiniteSet(Open(v)) /\ Cardinality(Open(v)) \in Nat
      /\ Cardinality(Open(v)) = 0 <=> Open(v) = {}
  BY OpenFinite
<1>6. indeg[v] \in Nat /\ indeg[v] > 0
  BY <1>1, <1>2, <1>4, <1>5
<1>7. v \notin Elems(TopoOrder)
  BY <1>1, <1>6 DEF Counting
<1>8. IsFiniteSet(Open(v) \ {e}) /\ Cardinality(Open(v) \ {e}) = indeg[v] - 1
  BY <1>1, <1>2, <1>4, <1>5, FS_RemoveElement
<1>9. \A w \in Vertex :
         /\ indeg'[w] = IF w = v THEN indeg[v] - 1 ELSE indeg[w]
         /\ indeg'[w] = Cardinality(Open(w)')
  BY <1>1, <1>2, <1>3, <1>4, <1>8
<1>10. indeg[v] = 1 => Open(v)' = {}
  <2>1. Cardinality(Open(v) \ {e}) = 0 <=> Open(v) \ {e} = {}
    BY <1>8, FS_EmptySet
  <2> QED
    BY <1>1, <1>2, <1>6, <1>8, <2>1
<1> QED
  BY <1>1, <1>3, <1>6, <1>7, <1>9, <1>10

\* An edge step keeps the invariant.
LEMMA PreEdgeScan ==
    ASSUME TypeInv, TypeInv', ScanInv, PreEdge
    PROVE  ScanInv'
<1>0. PICK u, v, n : u = TopoOrder[i] /\ v = graph[u][j] /\ n = Len(TopoOrder)
  OBVIOUS
<1>1. /\ u \in Vertex /\ v \in Vertex /\ i \in 1 .. n /\ i <= vectorsize
      /\ v \in Succ(graph, u)
  BY <1>0, PreEdgePlace DEF PreEdge, Succ
<1>2. /\ pc = "pre_process" /\ pc' = pc /\ graph' = graph /\ layer' = layer
      /\ i' = i /\ vectorsize' = vectorsize
  BY DEF PreEdge
<1>3. /\ v \notin Elems(TopoOrder) /\ indeg[v] \in Nat /\ indeg[v] > 0
      /\ \A w \in Vertex :
            /\ indeg'[w] = IF w = v THEN indeg[v] - 1 ELSE indeg[w]
            /\ indeg'[w] = Cardinality(Open(w)')
      /\ \/ /\ indeg[v] = 1 /\ Open(v)' = {}
            /\ TopoOrder' = Append(TopoOrder, v)
            /\ Ldown' = [Ldown EXCEPT ![v] = layer]
         \/ indeg[v] # 1 /\ TopoOrder' = TopoOrder /\ Ldown' = Ldown
  BY <1>0, PreEdgeOrder DEF ScanInv
<1>4. /\ TopoOrder \in Seq(Vertex) /\ n \in Nat /\ Ldown \in [Vertex -> Nat]
      /\ layer \in Nat /\ vectorsize \in Nat /\ vectorsize <= n
  BY <1>0, <1>2 DEF TypeInv, TypeOK, OrderTypes, LoopTypes, Batches
<1>5. \A a \in 1 .. n : TopoOrder[a] \in Vertex /\ TopoOrder[a] # v
  BY <1>0, <1>3, <1>4, ElementOfSeq DEF Elems
<1>6. CASE indeg[v] # 1
  <2>1. TopoOrder' = TopoOrder /\ Ldown' = Ldown
    BY <1>3, <1>6
  <2>2. NoRepeat' /\ Levels' /\ Stepped' /\ TopoSorted'
    BY <1>2, <2>1 DEF ScanInv, NoRepeat, Levels, Stepped, OneBelow, TopoSorted
  <2>3. \A w \in Vertex : indeg'[w] = 0 <=> indeg[w] = 0
    BY <1>3, <1>6
  <2>4. Counting'
    BY <1>2, <1>3, <2>1, <2>3 DEF ScanInv, Counting
  <2>5. NoWrap'
    BY <1>3 DEF ScanInv, NoWrap
  <2> QED
    BY <1>2, <2>2, <2>4, <2>5 DEF ScanInv, Untouched, ScanComplete
<1>7. CASE indeg[v] = 1
  <2>1. TopoOrder' = Append(TopoOrder, v) /\ Ldown' = [Ldown EXCEPT ![v] = layer]
    BY <1>3, <1>7
  <2>2. /\ Len(TopoOrder') = n + 1 /\ TopoOrder'[n + 1] = v
        /\ \A a \in 1 .. n : TopoOrder'[a] = TopoOrder[a]
    BY <1>0, <1>1, <1>4, <2>1, AppendProperties
  <2>3. /\ Ldown'[v] = layer
        /\ \A a \in 1 .. n : Ldown'[TopoOrder[a]] = Ldown[TopoOrder[a]]
    BY <1>1, <1>4, <1>5, <2>1
  <2>4. NoRepeat'
    BY <1>0, <1>4, <1>5, <2>2 DEF ScanInv, NoRepeat
  <2>5. Levels'
    <3>1. \A a \in 1 .. n :
             /\ a <= vectorsize => Ldown[TopoOrder[a]] < layer
             /\ a >= i /\ a <= vectorsize => Ldown[TopoOrder[a]] = layer - 1
             /\ a > vectorsize => Ldown[TopoOrder[a]] = layer
      BY <1>0, <1>2 DEF ScanInv, Levels
    <3>2. ASSUME NEW a \in 1 .. n + 1
          PROVE  /\ a <= vectorsize => Ldown'[TopoOrder'[a]] < layer
                 /\ a >= i /\ a <= vectorsize => Ldown'[TopoOrder'[a]] = layer - 1
                 /\ a > vectorsize => Ldown'[TopoOrder'[a]] = layer
      <4>1. CASE a \in 1 .. n
        BY <2>2, <2>3, <3>1, <4>1
      <4>2. CASE a = n + 1
        BY <1>4, <2>2, <2>3, <4>2
      <4> QED
        BY <1>4, <4>1, <4>2
    <3> QED
      BY <1>2, <2>2, <3>2 DEF Levels
  <2>6. Counting'
    <3>1. \A w \in Vertex : w \in Elems(TopoOrder)' <=> w \in Elems(TopoOrder) \/ w = v
      BY <1>0, <1>4, <2>2 DEF Elems
    <3>2. \A w \in Vertex : indeg'[w] = 0 <=> indeg[w] = 0 \/ w = v
      BY <1>3, <1>7
    <3> QED
      BY <1>2, <1>3, <3>1, <3>2 DEF ScanInv, Counting
  <2>7. Ldown[u] = layer - 1 /\ Ldown'[u] = Ldown[u] 
    BY <1>0, <1>1, <1>2, <1>4, <1>5, <2>3 DEF ScanInv, Levels
  <2>8. ASSUME NEW w \in Vertex, v \in Succ(graph, w)
        PROVE  \E a \in 1 .. n : TopoOrder[a] = w /\ Ldown[w] < layer
    <3>1. PICK a \in 1 .. Len(TopoOrder') : TopoOrder'[a] = w /\ a <= i
      <4>1. PICK k \in 1 .. Len(graph[w]) : <<w, k>> \in InSlots(graph, v)
        BY <2>8, EdgePlace
      <4>2. Open(v)' = {} /\ InSlots(graph, v)' = InSlots(graph, v)
        BY <1>2, <1>3, <1>7 DEF InSlots
      <4>3. Scanned(<<w, k>>)'
        BY <4>1, <4>2 DEF Open
      <4>4. PICK a \in 1 .. Len(TopoOrder') :
               TopoOrder'[a] = w /\ (a < i' \/ a = i')
        BY <4>3 DEF Scanned
      <4>5. i \in Nat /\ a \in Nat
        BY <1>1
      <4> QED
        BY <1>2, <4>4, <4>5
    <3>2. a \in 1 .. n /\ TopoOrder[a] = w /\ a <= vectorsize
      BY <1>1, <1>4, <2>2, <3>1
    <3> QED
      BY <1>0, <1>2, <3>2 DEF ScanInv, Levels
  <2>9. TopoSorted'
    <3>1. \A b \in 1 .. n : \A w \in Vertex :
             TopoOrder[b] \in Succ(graph, w) =>
                 \E a \in 1 .. b - 1 :
                     TopoOrder'[a] = w /\ Ldown'[w] < Ldown'[TopoOrder'[b]]
      <4>1. SUFFICES ASSUME NEW b \in 1 .. n, NEW w \in Vertex,
                            TopoOrder[b] \in Succ(graph, w)
                     PROVE  \E a \in 1 .. b - 1 :
                               TopoOrder'[a] = w /\ Ldown'[w] < Ldown'[TopoOrder'[b]]
        OBVIOUS
      <4>2. PICK a \in 1 .. b - 1 :
               TopoOrder[a] = w /\ Ldown[w] < Ldown[TopoOrder[b]]
        BY <1>0, <4>1 DEF ScanInv, TopoSorted
      <4>3. a \in 1 .. n
        BY <1>4, <4>2
      <4> QED
        BY <2>2, <2>3, <4>2, <4>3
    <3>2. \A w \in Vertex : v \in Succ(graph, w) =>
             \E a \in 1 .. n : TopoOrder'[a] = w /\ Ldown'[w] < Ldown'[v]
      BY <2>2, <2>3, <2>8
    <3>3. \A b \in 1 .. Len(TopoOrder') : \A w \in Vertex :
             TopoOrder'[b] \in Succ(graph', w) =>
                 \E a \in 1 .. b - 1 :
                     TopoOrder'[a] = w /\ Ldown'[w] < Ldown'[TopoOrder'[b]]
      <4>1. SUFFICES ASSUME NEW b \in 1 .. Len(TopoOrder')
                     PROVE  \A w \in Vertex :
                              TopoOrder'[b] \in Succ(graph, w) =>
                                \E a \in 1 .. b - 1 :
                                   TopoOrder'[a] = w /\ Ldown'[w] < Ldown'[TopoOrder'[b]]
        BY <1>2
      <4>2. CASE b \in 1 .. n
        BY <2>2, <3>1, <4>2
      <4>3. CASE b = n + 1
        BY <1>4, <2>2, <3>2, <4>3
      <4> QED
        BY <1>4, <2>2, <4>2, <4>3
    <3> QED
      BY <2>4, <3>3 DEF TopoSorted, NoRepeat
  <2>10. Stepped'
    <3>1. ASSUME NEW b \in 1 .. n PROVE OneBelow(TopoOrder[b])'
      <4>1. OneBelow(TopoOrder[b]) /\ TopoOrder[b] \in Vertex
        BY <1>0, <1>2, <1>5 DEF ScanInv, Stepped
      <4>2. ASSUME NEW w \in Vertex, TopoOrder[b] \in Succ(graph, w)
            PROVE  Ldown'[w] = Ldown[w]
        <5>1. PICK a \in 1 .. b - 1 : TopoOrder[a] = w
          BY <1>0, <4>2 DEF ScanInv, TopoSorted
        <5>2. a \in 1 .. n
          BY <1>4
        <5> QED
          BY <2>3, <5>1, <5>2
      <4> QED
        BY <1>2, <2>2, <2>3, <4>1, <4>2 DEF OneBelow
    <3>2. OneBelow(v)'
      BY <1>1, <1>2, <1>4, <2>3, <2>7 DEF OneBelow
    <3> QED
      BY <1>4, <2>2, <3>1, <3>2 DEF Stepped
  <2>11. NoWrap'
    BY <1>3 DEF ScanInv, NoWrap
  <2> QED
    BY <1>2, <2>4, <2>5, <2>6, <2>9, <2>10, <2>11
       DEF ScanInv, Untouched, ScanComplete
<1> QED
  BY <1>6, <1>7

---------------------------------------------------------------------------
(***************************************************************************)
(* The other steps of the scan, and those after it.                        *)
(***************************************************************************)
LEMMA PreVertexScan ==
    ASSUME TypeInv, TypeInv', ScanInv, PreVertex
    PROVE  ScanInv'
<1>1. /\ graph \in [Vertex -> Seq(Vertex)] /\ TopoOrder \in Seq(Vertex)
      /\ i \in Nat /\ j \in Nat
  BY DEF TypeInv, TypeOK, OrderTypes, LoopTypes
<1>2. /\ pc = "pre_process" /\ i' = i + 1 /\ j' = 1
      /\ j > Len(graph[TopoOrder[i]])
      /\ UNCHANGED <<graph, pc, indeg, TopoOrder, Ldown, layer, vectorsize>>
  BY DEF PreVertex, topoVars
<1>3. ASSUME NEW q \in Slot(graph) PROVE Scanned(q)' <=> Scanned(q)
  <2>0. q[1] \in Vertex /\ q[2] \in 1 .. Len(graph[q[1]])
    BY <1>1, SlotFields
  <2>1. /\ q[2] \in Nat /\ q[2] >= 1
        /\ q[2] <= Len(graph[q[1]]) /\ Len(graph[q[1]]) \in Nat
    <3>1. Len(graph[q[1]]) \in Nat
      BY <1>1, <2>0
    <3> QED
      BY <2>0, <3>1
  <2>2. \A a \in 1 .. Len(TopoOrder) : TopoOrder[a] = q[1] =>
           ((a < i \/ (a = i /\ q[2] < j)) <=> (a < i' \/ (a = i' /\ q[2] < j')))
    BY <1>1, <1>2, <2>1
  <2> QED
    BY <1>2, <2>2 DEF Scanned
<1>4. \A v \in Vertex : Open(v)' = Open(v)
  BY <1>2, <1>3 DEF Open, InSlots
<1>5. Counting'
  BY <1>2, <1>4 DEF ScanInv, Counting
<1>6. Levels'
  BY <1>1, <1>2 DEF ScanInv, Levels
<1>7. NoRepeat' /\ Stepped' /\ NoWrap' /\ TopoSorted'
  BY <1>2 DEF ScanInv, NoRepeat, Stepped, OneBelow, NoWrap, TopoSorted
<1> QED
  BY <1>2, <1>5, <1>6, <1>7 DEF ScanInv, Untouched, ScanComplete

LEMMA PreBatchScan ==
    ASSUME TypeInv, TypeInv', ScanInv, PreBatch
    PROVE  ScanInv'
<1>1. /\ TopoOrder \in Seq(Vertex) /\ i \in Nat /\ vectorsize \in Nat
      /\ layer \in Nat /\ Ldown \in [Vertex -> Nat]
  BY DEF TypeInv, TypeOK, OrderTypes, LoopTypes
<1>2. /\ pc = "pre_process" /\ i > vectorsize /\ layer' = layer + 1
      /\ vectorsize' = Len(TopoOrder)
      /\ UNCHANGED <<graph, pc, i, j, indeg, TopoOrder, Ldown>>
  BY DEF PreBatch
<1>3. \A v \in Vertex : Open(v)' = Open(v)
  BY <1>2 DEF Open, InSlots, Scanned
<1>4. Counting'
  BY <1>2, <1>3 DEF ScanInv, Counting
<1>5. \A a \in 1 .. Len(TopoOrder) : TopoOrder[a] \in Vertex
  BY <1>1, ElementOfSeq
<1>6. Levels'
  BY <1>1, <1>2, <1>5 DEF ScanInv, Levels
<1>7. NoRepeat' /\ Stepped' /\ NoWrap' /\ TopoSorted'
  BY <1>2 DEF ScanInv, NoRepeat, Stepped, OneBelow, NoWrap, TopoSorted
<1> QED
  BY <1>2, <1>4, <1>6, <1>7 DEF ScanInv, Untouched, ScanComplete

\* When the last batch is empty every vertex is listed: among the vertices
\* left out, one would have all its in-edges read.
LEMMA PreEndScan ==
    ASSUME TypeInv, TypeInv', ScanInv, PreEnd
    PROVE  ScanInv'
<1>1. /\ graph \in [Vertex -> Seq(Vertex)] /\ Acyclic(graph)
      /\ TopoOrder \in Seq(Vertex) /\ i \in Nat /\ Len(TopoOrder) \in Nat
  BY GraphType DEF TypeInv, TypeOK, OrderTypes, LoopTypes, Batches
<1>2. /\ pc = "pre_process" /\ pc' = "next_layer" /\ i > Len(TopoOrder)
      /\ UNCHANGED <<graph, indeg, TopoOrder, Ldown>>
  BY DEF PreEnd, topoVars
<1>3. Elems(TopoOrder) \subseteq Vertex
  BY <1>1, ElementOfSeq DEF Elems
<1>4. Elems(TopoOrder) = Vertex
  <2> DEFINE S == Vertex \ Elems(TopoOrder)
  <2>1. SUFFICES ASSUME S # {} PROVE FALSE
    BY <1>3
  <2>2. S \in (SUBSET Vertex) \ {{}}
    BY <2>1
  <2>3. PICK v \in S : \A u \in S : v \notin Succ(graph, u)
    BY <1>1, <2>2 DEF Acyclic
  <2>4. ASSUME NEW q \in InSlots(graph, v) PROVE Scanned(q)
    <3>1. q \in Slot(graph) /\ Target(graph, q) = v
      BY DEF InSlots
    <3>2. q[1] \in Vertex /\ q[2] \in 1 .. Len(graph[q[1]]) /\ q = <<q[1], q[2]>>
      BY <1>1, <3>1, SlotFields
    <3>3. v \in Succ(graph, q[1])
      BY <3>1, <3>2 DEF Succ, Target
    <3>4. q[1] \in Elems(TopoOrder)
      BY <2>3, <3>2, <3>3
    <3>5. PICK a \in 1 .. Len(TopoOrder) : TopoOrder[a] = q[1]
      BY <3>4 DEF Elems
    <3>6. a < i
      BY <1>1, <1>2
    <3> QED
      BY <3>5, <3>6 DEF Scanned
  <2>5. Open(v) = {}
    BY <2>4 DEF Open
  <2>6. indeg[v] = 0
    BY <1>2, <2>3, <2>5, FS_EmptySet DEF ScanInv, Counting
  <2> QED
    BY <1>2, <2>3, <2>6 DEF ScanInv, Counting
<1>5. \A v \in Vertex : OneBelow(v)
  BY <1>2, <1>4 DEF ScanInv, Stepped, Elems
<1>6. ScanComplete'
  BY <1>2, <1>4, <1>5 DEF ScanComplete, OneBelow, Elems
<1>7. NoRepeat' /\ NoWrap' /\ TopoSorted'
  BY <1>2 DEF ScanInv, NoRepeat, NoWrap, TopoSorted
<1> QED
  BY <1>2, <1>6, <1>7 DEF ScanInv, Untouched, Counting, Levels, Stepped

\* The layers read neither the order nor the levels again.
LEMMA LaterScan ==
    ASSUME ScanInv, UNCHANGED <<graph, indeg, TopoOrder, Ldown>>,
           pc \notin {"roots", "pre_process"}, pc' \notin {"roots", "pre_process"}
    PROVE  ScanInv'
BY DEF ScanInv, Untouched, NoRepeat, Counting, Levels, Stepped, NoWrap,
       TopoSorted, ScanComplete, Elems

LEMMA ScanInvNext == TypeInv /\ TypeInv' /\ ScanInv /\ [Next]_vars => ScanInv'
<1> SUFFICES ASSUME TypeInv, TypeInv', ScanInv, [Next]_vars PROVE ScanInv'
  OBVIOUS
<1>1. CASE PreEdge \/ PreVertex \/ PreBatch \/ PreEnd \/ ReadRoots
  BY <1>1, ReadRootsScan, PreEdgeScan, PreVertexScan, PreBatchScan, PreEndScan
<1>2. CASE LayerStart \/ LayerRoot \/ CrossStart \/ LayersEnd
  BY <1>2, LaterScan DEF LayerStart, LayerRoot, CrossStart, LayersEnd, topoVars
<1>3. CASE CrossEdge \/ CrossVertex \/ CrossBatch \/ CrossEnd
  BY <1>3, LaterScan DEF CrossEdge, CrossVertex, CrossBatch, CrossEnd, topoVars
<1>4. CASE UNCHANGED vars
  BY <1>4 DEF vars, ScanInv, Untouched, NoRepeat, Counting, Levels, Stepped,
              OneBelow, NoWrap, TopoSorted, ScanComplete, Elems, Open, Scanned,
              InSlots
<1> QED
  BY <1>1, <1>2, <1>3, <1>4 DEF Next

LEMMA ScanInvInit == Init => ScanInv
<1> SUFFICES ASSUME Init PROVE ScanInv
  OBVIOUS
<1>1. graph \in [Vertex -> Seq(Vertex)]
  BY GraphType DEF Init
<1>2. \A v \in Vertex : indeg[v] >= 0
  BY <1>1, InDegreeZero DEF Init
<1>3. pc = "roots" /\ TopoOrder = <<>> /\ Len(TopoOrder) = 0
  BY DEF Init
<1>4. Untouched
  BY DEF Init, Untouched
<1> QED
  BY <1>2, <1>3, <1>4 DEF ScanInv, NoRepeat, Counting, Levels, Stepped, NoWrap,
                          TopoSorted, ScanComplete

LEMMA ScanInvariance == Spec => [](TypeInv /\ ScanInv)
<1>1. Init => TypeInv /\ ScanInv
  BY TypeInvInit, ScanInvInit
<1>2. TypeInv /\ ScanInv /\ [Next]_vars => (TypeInv /\ ScanInv)'
  BY TypeInvNext, ScanInvNext
<1> QED
  BY <1>1, <1>2, PTL DEF Spec

\* TopoOrder is at all times a topological order without repetition in
\* which Ldown grows along every edge, for every acyclic graph.
THEOREM TopologicalOrder == Spec => []TopoSorted
<1>1. ScanInv => TopoSorted
  BY DEF ScanInv
<1> QED
  BY ScanInvariance, <1>1, PTL

\* pre_process reaches every vertex of every acyclic graph, and Ldown is
\* one more than that of a predecessor.
THEOREM WholeGraphScanned == Spec => []ScanComplete
<1>1. ScanInv => ScanComplete
  BY DEF ScanInv
<1> QED
  BY ScanInvariance, <1>1, PTL

\* The unsigned counters indeg of pre_process never wrap below zero.
THEOREM InDegreesNeverWrap == Spec => [](\A v \in Vertex : indeg[v] >= 0)
<1>1. ScanInv => \A v \in Vertex : indeg[v] >= 0
  BY DEF ScanInv, NoWrap
<1> QED
  BY ScanInvariance, <1>1, PTL

---------------------------------------------------------------------------
(***************************************************************************)
(* The rounds of construct_index: pre_process scans the whole graph, each  *)
(* pre_process_cross what the round before has crossed.  A round sorts its *)
(* vertices topologically and spreads the regions of the sources along     *)
(* their edges; the vertices that two regions reach are what is left for   *)
(* the next one.  Its meaning is stated over the set A of the vertices the *)
(* round is about, the set D of the edge places it has taken and the three *)
(* arrays it writes, so that one lemma serves both scans.                  *)
(***************************************************************************)

\* The places of the edges into v that start in A; the vertices without one.
Into(g, A, v)  == {s \in InSlots(g, v) : s[1] \in A}
SourcesIn(g, A) == {v \in A : Into(g, A, v) = {}}

\* The places taken by a scan of ord that stands at edge q of vertex p.
Taken(g, ord, p, q) ==
    {s \in Slot(g) : \E a \in 1 .. Len(ord) :
        ord[a] = s[1] /\ (a < p \/ (a = p /\ s[2] < q))}

Distinct(s) == \A a, b \in 1 .. Len(s) : s[a] = s[b] => a = b

\* D is the set of the places taken.
Takes(g, ord, p, q, D) == D = Taken(g, ord, p, q)

\* deg counts the edges still to come.
Remains(g, A, D, deg) ==
    \A v \in Vertex : deg[v] = Cardinality(Into(g, A, v) \ D)

\* A vertex of A is listed when no edge into it is to come, and once.
Listed(A, ord, deg) ==
    /\ Distinct(ord) /\ Elems(ord) \subseteq A
    /\ \A v \in A : deg[v] = 0 <=> v \in Elems(ord)

---------------------------------------------------------------------------
\* The places in D into v whose tail has been crossed.
Hot(g, D, cr, v) == {s \in D : Target(g, s) = v /\ cr[s[1]]}

\* nxt counts the edges the next round will have to take.
Counts(g, D, cr, nxt) == \A v \in Vertex : nxt[v] = Cardinality(Hot(g, D, cr, v))

\* A vertex is scanned after every edge into it.
Ordered(g, A, D) ==
    /\ D \subseteq Slot(g)
    /\ \A s \in D : s[1] \in A /\ Into(g, A, s[1]) \subseteq D

\* A crossed vertex has no region; a region is that of a source, and it came
\* along an edge of the region.
Regions(g, A, D, cr, rl) ==
    /\ \A v \in Vertex : cr[v] => v \in A /\ rl[v] = 0
    /\ \A v \in SourcesIn(g, A) : rl[v] = v + 1
    /\ \A v \in A : rl[v] # 0 =>
          /\ rl[v] - 1 \in SourcesIn(g, A)
          /\ v \notin SourcesIn(g, A) =>
                \E s \in D : Target(g, s) = v /\ rl[s[1]] = rl[v]

\* Below a crossed vertex all is crossed, below another one all is crossed
\* or of its region.
Spreads(g, D, cr, rl) ==
    \A s \in D :
        /\ cr[s[1]] => cr[Target(g, s)]
        /\ ~cr[s[1]] => /\ rl[s[1]] # 0
                        /\ cr[Target(g, s)] \/ rl[Target(g, s)] = rl[s[1]]

\* Two taken edges bring v two regions.
TwoRegions(g, D, cr, rl, v) ==
    \E s, t \in D :
        /\ Target(g, s) = v /\ Target(g, t) = v
        /\ ~cr[s[1]] /\ ~cr[t[1]] /\ rl[s[1]] # rl[t[1]]

\* A crossed vertex lies below another one or was remembered in cid, once.
Crossings(g, A, D, cr, cid, rl) ==
    /\ \A v \in A : cr[v] =>
          \/ Hot(g, D, cr, v) # {}
          \/ v \in Elems(cid) /\ TwoRegions(g, D, cr, rl, v)
    /\ Distinct(cid)
    /\ \A v \in Elems(cid) : cr[v]

Painted(g, A, D, cr, cid, rl) ==
    /\ Ordered(g, A, D) /\ Regions(g, A, D, cr, rl) /\ Spreads(g, D, cr, rl)
    /\ Crossings(g, A, D, cr, cid, rl)

---------------------------------------------------------------------------
(***************************************************************************)
(* A round as a topological sort.                                          *)
(***************************************************************************)
\* t is s or goes on where s ends.
Prefix(s, t) ==
    /\ Len(t) \in Nat /\ Len(t) >= Len(s)
    /\ \A a \in 1 .. Len(s) : t[a] = s[a]

\* What Append does to the members of a list.
LEMMA LongerElems ==
    ASSUME NEW s \in Seq(Vertex), NEW v \in Vertex
    PROVE  Elems(Append(s, v)) = Elems(s) \cup {v}
<1> DEFINE t == Append(s, v)
<1>1. /\ t \in Seq(Vertex) /\ Len(s) \in Nat /\ Len(t) = Len(s) + 1
      /\ t[Len(s) + 1] = v
      /\ \A a \in 1 .. Len(s) : t[a] = s[a]
  BY AppendProperties
<1> HIDE DEF t
<1>2. \A a : a \in 1 .. Len(t) <=> a \in 1 .. Len(s) \/ a = Len(s) + 1
  BY <1>1
<1>3. Elems(t) = Elems(s) \cup {v}
  BY <1>1, <1>2 DEF Elems
<1> QED
  BY <1>3 DEF t

LEMMA LongerPrefix ==
    ASSUME NEW s \in Seq(Vertex), NEW v \in Vertex
    PROVE  Prefix(s, s) /\ Prefix(s, Append(s, v))
<1>1. /\ Len(s) \in Nat /\ Len(Append(s, v)) = Len(s) + 1
      /\ \A a \in 1 .. Len(s) : Append(s, v)[a] = s[a]
  BY AppendProperties
<1> QED
  BY <1>1 DEF Prefix

LEMMA LongerDistinct ==
    ASSUME NEW s \in Seq(Vertex), NEW v \in Vertex, Distinct(s), v \notin Elems(s)
    PROVE  Distinct(Append(s, v))
<1> DEFINE t == Append(s, v)
<1>1. /\ t \in Seq(Vertex) /\ Len(s) \in Nat /\ Len(t) = Len(s) + 1
      /\ t[Len(s) + 1] = v
      /\ \A a \in 1 .. Len(s) : t[a] = s[a]
  BY AppendProperties
<1> HIDE DEF t
<1>2. \A a : a \in 1 .. Len(t) <=> a \in 1 .. Len(s) \/ a = Len(s) + 1
  BY <1>1
<1>3. \A a \in 1 .. Len(s) : s[a] # v
  BY DEF Elems
<1>4. Distinct(t)
  BY <1>1, <1>2, <1>3 DEF Distinct
<1> QED
  BY <1>4 DEF t

LEMMA IntoFinite ==
    ASSUME NEW g \in [Vertex -> Seq(Vertex)], NEW A, NEW v, NEW D
    PROVE  /\ IsFiniteSet(Into(g, A, v) \ D)
           /\ Cardinality(Into(g, A, v) \ D) \in Nat
           /\ Cardinality(Into(g, A, v) \ D) = 0 <=> Into(g, A, v) \subseteq D
<1>1. Into(g, A, v) \ D \subseteq InSlots(g, v)
  BY DEF Into
<1>2. IsFiniteSet(Into(g, A, v) \ D)
  BY <1>1, InSlotsFinite, FS_Subset
<1> QED
  BY <1>2, FS_CardinalityType, FS_EmptySet

\* The place (p, q) is not taken yet, and taking it takes nothing else.
LEMMA TakenEdge ==
    ASSUME NEW g \in [Vertex -> Seq(Vertex)], NEW ord \in Seq(Vertex), Distinct(ord),
           NEW p \in 1 .. Len(ord), NEW q \in Nat,
           NEW e \in Slot(g), e = <<ord[p], q>>,
           NEW D, Takes(g, ord, p, q, D), NEW ord2, Prefix(ord, ord2)
    PROVE  e \notin D /\ Takes(g, ord2, p, q + 1, D \cup {e})
<1>1. Len(ord) \in Nat /\ p \in Nat
  OBVIOUS
<1>2. e \notin Taken(g, ord, p, q)
  BY <1>1 DEF Taken, Distinct
<1>3. ASSUME NEW s \in Slot(g)
      PROVE  s \in Taken(g, ord2, p, q + 1) <=> s \in Taken(g, ord, p, q) \/ s = e
  <2>1. s[2] \in Nat /\ s = <<s[1], s[2]>>
    BY SlotFields
  <2>2. /\ \A a \in 1 .. Len(ord) : a \in 1 .. Len(ord2) /\ ord2[a] = ord[a]
        /\ \A a \in 1 .. Len(ord2) : a < p \/ a = p => a \in 1 .. Len(ord)
    BY <1>1 DEF Prefix
  <2>3. s \in Taken(g, ord2, p, q + 1) <=>
           \E a \in 1 .. Len(ord) :
              ord[a] = s[1] /\ (a < p \/ (a = p /\ (s[2] < q \/ s[2] = q)))
    <3>1. s \in Taken(g, ord2, p, q + 1) <=>
             \E a \in 1 .. Len(ord2) :
                ord2[a] = s[1] /\ (a < p \/ (a = p /\ s[2] < q + 1))
      BY DEF Taken
    <3>2. s[2] < q + 1 <=> s[2] < q \/ s[2] = q
      BY <2>1
    <3> QED
      BY <2>2, <3>1, <3>2
  <2>4. s = e <=> s[1] = ord[p] /\ s[2] = q
    BY <2>1
  <2>5. s \in Taken(g, ord, p, q) <=>
           \E a \in 1 .. Len(ord) : ord[a] = s[1] /\ (a < p \/ (a = p /\ s[2] < q))
    BY DEF Taken
  <2> QED
    BY <2>3, <2>4, <2>5
<1>4. Taken(g, ord2, p, q + 1) \subseteq Slot(g) /\ Taken(g, ord, p, q) \subseteq Slot(g)
  BY DEF Taken
<1> QED
  BY <1>2, <1>3, <1>4 DEF Takes

\* At the end of a list the scan turns to the next vertex: nothing is taken.
LEMMA TakenVertex ==
    ASSUME NEW g \in [Vertex -> Seq(Vertex)], NEW ord, NEW p \in Nat, NEW q \in Nat,
           q > Len(g[ord[p]]), NEW D, Takes(g, ord, p, q, D)
    PROVE  Takes(g, ord, p + 1, 1, D)
<1>1. ASSUME NEW s \in Slot(g), NEW a \in 1 .. Len(ord), ord[a] = s[1]
      PROVE  (a < p \/ (a = p /\ s[2] < q)) <=> (a < p + 1 \/ (a = p + 1 /\ s[2] < 1))
  <2>1. /\ s[2] \in Nat /\ s[2] >= 1 /\ s[2] <= Len(g[s[1]]) /\ Len(g[s[1]]) \in Nat
    <3>1. s[1] \in Vertex /\ s[2] \in 1 .. Len(g[s[1]])
      BY SlotFields
    <3>2. Len(g[s[1]]) \in Nat
      BY <3>1
    <3> QED
      BY <3>1, <3>2
  <2>2. a \in Int
    OBVIOUS
  <2> QED
    BY <1>1, <2>1, <2>2
<1> QED
  BY <1>1 DEF Takes, Taken

\* The counters when one more place is taken.
LEMMA CounterEdge ==
    ASSUME NEW g \in [Vertex -> Seq(Vertex)], NEW A, NEW D, NEW v \in Vertex,
           NEW e \in Into(g, A, v), e \notin D,
           NEW deg \in [Vertex -> Int], Remains(g, A, D, deg),
           NEW deg2, deg2 = [deg EXCEPT ![v] = @ - 1]
    PROVE  Remains(g, A, D \cup {e}, deg2) /\ deg[v] \in Nat /\ deg[v] # 0
<1>0. ASSUME NEW w \in Vertex
      PROVE  /\ IsFiniteSet(Into(g, A, w) \ D)
             /\ Cardinality(Into(g, A, w) \ D) \in Nat
             /\ deg[w] = Cardinality(Into(g, A, w) \ D)
  BY IntoFinite DEF Remains
<1>1. ASSUME NEW w \in Vertex PROVE deg2[w] = Cardinality(Into(g, A, w) \ (D \cup {e}))
  <2>1. CASE w = v
    <3>1. Into(g, A, w) \ (D \cup {e}) = (Into(g, A, w) \ D) \ {e} /\ e \in Into(g, A, w) \ D
      BY <2>1
    <3>2. Cardinality((Into(g, A, w) \ D) \ {e}) = Cardinality(Into(g, A, w) \ D) - 1
      BY <1>0, <3>1, FS_RemoveElement
    <3> QED
      BY <1>0, <2>1, <3>1, <3>2
  <2>2. CASE w # v
    <3>1. e \notin Into(g, A, w)
      BY <2>2 DEF Into, InSlots
    <3>2. Into(g, A, w) \ (D \cup {e}) = Into(g, A, w) \ D
      BY <3>1
    <3> QED
      BY <1>0, <2>2, <3>2
  <2> QED
    BY <2>1, <2>2
<1>2. deg[v] \in Nat /\ deg[v] # 0
  <2>1. Cardinality(Into(g, A, v) \ D) # 0
    BY IntoFinite
  <2> QED
    BY <1>0, <2>1
<1> QED
  BY <1>1, <1>2 DEF Remains

\* The list when one more place is taken.
Queued(ord, deg, v, ord2) == ord2 = IF deg[v] = 1 THEN Append(ord, v) ELSE ord

LEMMA ListEdge ==
    ASSUME NEW A \in SUBSET Vertex, NEW ord \in Seq(Vertex), NEW v \in A,
           NEW deg \in [Vertex -> Int], Listed(A, ord, deg), deg[v] \in Nat, deg[v] # 0,
           NEW deg2, deg2 = [deg EXCEPT ![v] = @ - 1],
           NEW ord2, Queued(ord, deg, v, ord2)
    PROVE  Listed(A, ord2, deg2)
<1> USE DEF Queued
<1>1. /\ Distinct(ord) /\ Elems(ord) \subseteq A /\ v \notin Elems(ord)
      /\ \A w \in A : deg[w] = 0 <=> w \in Elems(ord)
  BY DEF Listed
<1>2. \A w \in A : deg2[w] = IF w = v THEN deg[v] - 1 ELSE deg[w]
  OBVIOUS
<1>3. CASE deg[v] = 1
  <2>1. Elems(ord2) = Elems(ord) \cup {v}
    BY <1>3, LongerElems
  <2>2. Distinct(ord2)
    BY <1>1, <1>3, LongerDistinct
  <2> QED
    BY <1>1, <1>2, <1>3, <2>1, <2>2 DEF Listed
<1>4. CASE deg[v] # 1
  BY <1>1, <1>2, <1>4 DEF Listed
<1> QED
  BY <1>3, <1>4

\* A vertex is listed only after every edge into it has been taken.
LEMMA ListedTaken ==
    ASSUME NEW g \in [Vertex -> Seq(Vertex)], NEW A \in SUBSET Vertex, NEW D,
           NEW ord, NEW deg, Remains(g, A, D, deg), Listed(A, ord, deg),
           NEW u \in Elems(ord)
    PROVE  u \in A /\ Into(g, A, u) \subseteq D
<1>1. u \in A /\ deg[u] = 0
  BY DEF Listed
<1>2. Cardinality(Into(g, A, u) \ D) = 0
  BY <1>1 DEF Remains
<1> QED
  BY <1>1, <1>2, IntoFinite

\* When the scan is past its last vertex it has listed A and taken every edge.
LEMMA SortingEnd ==
    ASSUME NEW g \in [Vertex -> Seq(Vertex)], Acyclic(g), NEW A \in SUBSET Vertex,
           NEW ord \in Seq(Vertex), NEW p \in Nat, NEW q, p > Len(ord),
           NEW D, Takes(g, ord, p, q, D),
           NEW deg, Remains(g, A, D, deg), Listed(A, ord, deg)
    PROVE  /\ \A v \in A : deg[v] = 0
           /\ \A s \in Slot(g) : s \in D <=> s[1] \in A
<1>1. \A s \in Slot(g) : s \in D <=> s[1] \in Elems(ord)
  <2>1. Len(ord) \in Nat /\ \A a \in 1 .. Len(ord) : a < p
    OBVIOUS
  <2> QED
    BY <2>1 DEF Takes, Taken, Elems
<1>2. Elems(ord) \subseteq A
  BY DEF Listed
<1>3. A \subseteq Elems(ord)
  <2>1. SUFFICES ASSUME A \ Elems(ord) # {} PROVE FALSE
    OBVIOUS
  <2>2. PICK v \in A \ Elems(ord) : \A u \in A \ Elems(ord) : v \notin Succ(g, u)
    BY <2>1 DEF Acyclic
  <2>3. Into(g, A, v) \subseteq D
    <3>1. SUFFICES ASSUME NEW s \in Into(g, A, v) PROVE s[1] \in Elems(ord) /\ s \in Slot(g)
      BY <1>1
    <3>2. s \in Slot(g) /\ Target(g, s) = v /\ s[1] \in A
      BY DEF Into, InSlots
    <3>3. s[2] \in 1 .. Len(g[s[1]])
      BY <3>2, SlotFields
    <3>4. v \in Succ(g, s[1])
      BY <3>2, <3>3 DEF Target, Succ
    <3> QED
      BY <2>2, <3>2, <3>4
  <2>4. deg[v] = 0
    <3>1. Cardinality(Into(g, A, v) \ D) = 0
      BY <2>3, IntoFinite
    <3> QED
      BY <2>2, <3>1 DEF Remains
  <2> QED
    BY <2>2, <2>4 DEF Listed
<1>4. Elems(ord) = A
  BY <1>2, <1>3
<1> QED
  BY <1>1, <1>4 DEF Listed

---------------------------------------------------------------------------
(***************************************************************************)
(* A round as a spreading of regions.                                      *)
(***************************************************************************)
\* What the four outcomes of ScanEdge have in common and what each says of
\* v, on the arrays as values.
Touched(cr, cid, rl, u, v, cr2, cid2, rl2) ==
    /\ \A w \in Vertex : w # v => cr2[w] = cr[w] /\ rl2[w] = rl[w]
    /\ \/ cr[u] /\ cr2[v] /\ rl2[v] = 0 /\ cid2 = cid
       \/ /\ ~cr[u] /\ ~cr[v] /\ rl[v] # 0 /\ rl[v] # rl[u]
          /\ cr2[v] /\ rl2[v] = 0 /\ cid2 = Append(cid, v)
       \/ /\ ~cr[u] /\ ~cr[v] /\ rl[v] = 0
          /\ ~cr2[v] /\ rl2[v] = rl[u] /\ cid2 = cid
       \/ /\ ~cr[u] /\ (cr[v] \/ (rl[v] # 0 /\ rl[v] = rl[u]))
          /\ cr2[v] = cr[v] /\ rl2[v] = rl[v] /\ cid2 = cid

LEMMA ScanEdgeTouched ==
    ASSUME TypeInv, NEW u \in Vertex, NEW v \in Vertex, ScanEdge(u, v)
    PROVE  Touched(cross, cross_id, root_located, u, v, cross', cross_id', root_located')
<1>1. cross \in [Vertex -> BOOLEAN] /\ root_located \in [Vertex -> 0 .. maxID + 1]
  BY DEF TypeInv, TypeOK, RegionTypes
<1>2. CASE Spread(u, v)
  BY <1>1, <1>2 DEF Spread, Touched
<1>3. CASE Meet(u, v)
  BY <1>1, <1>3 DEF Meet, Touched
<1>4. CASE Claim(u, v)
  BY <1>1, <1>4 DEF Claim, Touched
<1>5. CASE Settled(u, v)
  BY <1>1, <1>5 DEF Settled, scanVars, Touched
<1> QED
  BY <1>2, <1>3, <1>4, <1>5 DEF ScanEdge

\* A scanned vertex that is not crossed has a region.
LEMMA ScannedHasRegion ==
    ASSUME NEW g \in [Vertex -> Seq(Vertex)], NEW A \in SUBSET Vertex, NEW D,
           NEW cr, NEW rl, Regions(g, A, D, cr, rl), Spreads(g, D, cr, rl),
           NEW u \in A, Into(g, A, u) \subseteq D, ~cr[u]
    PROVE  rl[u] # 0
<1>1. CASE u \in SourcesIn(g, A)
  <2>1. rl[u] = u + 1 /\ u \in Int /\ u >= 0
    BY <1>1, MaxIDAssumption DEF Regions, Vertex
  <2> QED
    BY <2>1
<1>2. CASE u \notin SourcesIn(g, A)
  <2>1. PICK s \in Into(g, A, u) : TRUE
    BY <1>2 DEF SourcesIn
  <2>2. s \in D /\ Target(g, s) = u
    BY <2>1 DEF Into, InSlots
  <2> QED
    BY <2>2 DEF Spreads
<1> QED
  BY <1>1, <1>2

\* The tails of the edges in D keep what the array holds for them.
TailsSame(D, a, b) == \A s \in D : b[s[1]] = a[s[1]]

\* The tails of the edges taken so far are not what the new edge points to.
LEMMA TailsKept ==
    ASSUME NEW g \in [Vertex -> Seq(Vertex)], NEW A \in SUBSET Vertex, NEW D,
           NEW cr, NEW cid, NEW rl, NEW v \in A, NEW e \in Into(g, A, v), e \notin D,
           Into(g, A, e[1]) \subseteq D, Ordered(g, A, D), NEW cr2, NEW cid2, NEW rl2,
           Touched(cr, cid, rl, e[1], v, cr2, cid2, rl2)
    PROVE  /\ Ordered(g, A, D \cup {e})
           /\ TailsSame(D \cup {e}, cr, cr2) /\ TailsSame(D \cup {e}, rl, rl2)
<1>1. e[1] \in A /\ e \in Slot(g) /\ Target(g, e) = v
  BY DEF Into, InSlots
<1>2. \A s \in D : s[1] \in A /\ Into(g, A, s[1]) \subseteq D
  BY DEF Ordered
<1>3. \A s \in D \cup {e} : s[1] \in A /\ s[1] # v
  BY <1>1, <1>2
<1>4. Ordered(g, A, D \cup {e})
  BY <1>1, <1>2 DEF Ordered
<1> QED
  BY <1>3, <1>4 DEF Touched, TailsSame

LEMMA RegionsEdge ==
    ASSUME NEW g \in [Vertex -> Seq(Vertex)], NEW A \in SUBSET Vertex, NEW D,
           NEW cr, NEW cid, NEW rl, NEW v \in A, NEW e \in Into(g, A, v), e \notin D,
           Into(g, A, e[1]) \subseteq D, Ordered(g, A, D),
           Regions(g, A, D, cr, rl), Spreads(g, D, cr, rl), NEW cr2, NEW cid2, NEW rl2,
           Touched(cr, cid, rl, e[1], v, cr2, cid2, rl2)
    PROVE  Regions(g, A, D \cup {e}, cr2, rl2)
<1>1. e[1] \in A /\ Target(g, e) = v /\ v \notin SourcesIn(g, A)
  BY DEF Into, InSlots, SourcesIn
<1>2. \A s \in D \cup {e} : rl2[s[1]] = rl[s[1]]
  <2>1. TailsSame(D \cup {e}, cr, cr2) /\ TailsSame(D \cup {e}, rl, rl2)
    BY TailsKept
  <2> QED
    BY <2>1 DEF TailsSame
<1>3. \A w \in Vertex : w # v => cr2[w] = cr[w] /\ rl2[w] = rl[w]
  BY DEF Touched
<1>4. /\ \A w \in Vertex : cr[w] => w \in A /\ rl[w] = 0
      /\ \A w \in SourcesIn(g, A) : rl[w] = w + 1
  BY DEF Regions
<1>5. ASSUME NEW w \in A, rl[w] # 0
      PROVE  /\ rl[w] - 1 \in SourcesIn(g, A)
             /\ w \notin SourcesIn(g, A) =>
                    \E s \in D : Target(g, s) = w /\ rl[s[1]] = rl[w]
  BY <1>5 DEF Regions
<1>6. cr2[v] => rl2[v] = 0
  BY <1>4 DEF Touched
<1>7. ASSUME rl2[v] # 0
      PROVE  /\ rl2[v] - 1 \in SourcesIn(g, A)
             /\ \E s \in D \cup {e} : Target(g, s) = v /\ rl2[s[1]] = rl2[v]
  <2>1. \/ rl2[v] = rl[e[1]]
        \/ rl2[v] = rl[v] 
    BY <1>7 DEF Touched
  <2>2. CASE rl2[v] = rl[e[1]]
    BY <1>1, <1>2, <1>5, <1>7, <2>2
  <2>3. CASE rl2[v] = rl[v]
    <3>1. PICK s \in D : Target(g, s) = v /\ rl[s[1]] = rl[v]
      BY <1>1, <1>5, <1>7, <2>3
    <3>2. s \in D \cup {e}
      OBVIOUS
    <3> QED
      BY <1>2, <1>5, <1>7, <2>3, <3>1, <3>2
  <2> QED
    BY <2>1, <2>2, <2>3
<1>8. ASSUME NEW w \in A, rl2[w] # 0
      PROVE  /\ rl2[w] - 1 \in SourcesIn(g, A)
             /\ w \notin SourcesIn(g, A) =>
                    \E s \in D \cup {e} : Target(g, s) = w /\ rl2[s[1]] = rl2[w]
  <2>1. CASE w = v
    BY <1>7, <1>8, <2>1
  <2>2. CASE w # v
    BY <1>2, <1>3, <1>5, <1>8, <2>2
  <2> QED
    BY <2>1, <2>2
<1>9. \A w \in Vertex : cr2[w] => w \in A /\ rl2[w] = 0
  BY <1>3, <1>4, <1>6
<1>10. \A w \in SourcesIn(g, A) : rl2[w] = w + 1
  BY <1>1, <1>3, <1>4 DEF SourcesIn
<1> QED
  BY <1>8, <1>9, <1>10 DEF Regions

LEMMA SpreadsEdge ==
    ASSUME NEW g \in [Vertex -> Seq(Vertex)], NEW A \in SUBSET Vertex, NEW D,
           NEW cr, NEW cid, NEW rl, NEW v \in A, NEW e \in Into(g, A, v), e \notin D,
           Into(g, A, e[1]) \subseteq D, Ordered(g, A, D),
           Regions(g, A, D, cr, rl), Spreads(g, D, cr, rl), NEW cr2, NEW cid2, NEW rl2,
           Touched(cr, cid, rl, e[1], v, cr2, cid2, rl2)
    PROVE  Spreads(g, D \cup {e}, cr2, rl2)
<1>1. e[1] \in A /\ Target(g, e) = v /\ v \in Vertex
  BY DEF Into, InSlots
<1>2. \A s \in D \cup {e} : cr2[s[1]] = cr[s[1]] /\ rl2[s[1]] = rl[s[1]]
  <2>1. TailsSame(D \cup {e}, cr, cr2) /\ TailsSame(D \cup {e}, rl, rl2)
    BY TailsKept
  <2> QED
    BY <2>1 DEF TailsSame
<1>3. \A w \in Vertex : w # v => cr2[w] = cr[w] /\ rl2[w] = rl[w]
  BY DEF Touched
<1>4. \A s \in D :
          /\ cr[s[1]] => cr[Target(g, s)]
          /\ ~cr[s[1]] => /\ rl[s[1]] # 0
                          /\ cr[Target(g, s)] \/ rl[Target(g, s)] = rl[s[1]]
  BY DEF Spreads
<1>5. \A s \in D : Target(g, s) \in Vertex
  <2>1. \A s \in D : s \in Slot(g)
    BY DEF Ordered
  <2> QED
    BY <2>1, SlotFields DEF Target
<1>6. ~cr[e[1]] => rl[e[1]] # 0
  BY <1>1, ScannedHasRegion
<1>7. ASSUME NEW s \in D, Target(g, s) = v
      PROVE  /\ cr[s[1]] => cr2[v]
             /\ ~cr[s[1]] => rl[s[1]] # 0 /\ (cr2[v] \/ rl2[v] = rl[s[1]])
  BY <1>4, <1>7 DEF Touched
<1>8. /\ cr[e[1]] => cr2[v]
      /\ ~cr[e[1]] => cr2[v] \/ rl2[v] = rl[e[1]]
  BY DEF Touched
<1>9. ASSUME NEW s \in D \cup {e}
      PROVE  /\ cr2[s[1]] => cr2[Target(g, s)]
             /\ ~cr2[s[1]] => /\ rl2[s[1]] # 0
                              /\ cr2[Target(g, s)] \/ rl2[Target(g, s)] = rl2[s[1]]
  <2>1. CASE s = e
    BY <1>1, <1>2, <1>6, <1>8, <2>1
  <2>2. CASE s \in D /\ Target(g, s) = v
    BY <1>2, <1>7, <2>2
  <2>3. CASE s \in D /\ Target(g, s) # v
    BY <1>2, <1>3, <1>4, <1>5, <2>3
  <2> QED
    BY <2>1, <2>2, <2>3
<1> QED
  BY <1>9 DEF Spreads

LEMMA TwoRegionsEdge ==
    ASSUME NEW g, NEW D, NEW cr, NEW rl, NEW cr2, NEW rl2, NEW e,
           TailsSame(D \cup {e}, cr, cr2), TailsSame(D \cup {e}, rl, rl2),
           NEW w, TwoRegions(g, D, cr, rl, w)
    PROVE  TwoRegions(g, D \cup {e}, cr2, rl2, w)
BY DEF TailsSame, TwoRegions

LEMMA CrossingsEdge ==
    ASSUME NEW g \in [Vertex -> Seq(Vertex)], NEW A \in SUBSET Vertex, NEW D,
           NEW cr, NEW cid \in Seq(Vertex), NEW rl, NEW v \in A,
           NEW e \in Into(g, A, v), e \notin D,
           Into(g, A, e[1]) \subseteq D, Ordered(g, A, D),
           Regions(g, A, D, cr, rl), Spreads(g, D, cr, rl),
           Crossings(g, A, D, cr, cid, rl), NEW cr2, NEW cid2, NEW rl2,
           Touched(cr, cid, rl, e[1], v, cr2, cid2, rl2)
    PROVE  Crossings(g, A, D \cup {e}, cr2, cid2, rl2)
<1>1. e[1] \in A /\ Target(g, e) = v /\ v \in Vertex /\ v \notin SourcesIn(g, A)
  BY DEF Into, InSlots, SourcesIn
<1>2. TailsSame(D \cup {e}, cr, cr2) /\ TailsSame(D \cup {e}, rl, rl2)
  BY TailsKept
<1>3. \A w \in Vertex : w # v => cr2[w] = cr[w] /\ rl2[w] = rl[w]
  BY DEF Touched
<1>4. /\ \A w \in A : cr[w] =>
            \/ Hot(g, D, cr, w) # {}
            \/ w \in Elems(cid) /\ TwoRegions(g, D, cr, rl, w)
      /\ Distinct(cid)
      /\ \A w \in Elems(cid) : cr[w]
  BY DEF Crossings
<1>5. \A w : Hot(g, D, cr, w) # {} => Hot(g, D \cup {e}, cr2, w) # {}
  BY <1>2 DEF TailsSame, Hot
<1>6. \/ cid2 = cid
      \/ /\ cid2 = Append(cid, v) /\ ~cr[v] /\ cr2[v] /\ ~cr[e[1]]
         /\ rl[v] # 0 /\ rl[v] # rl[e[1]]
  BY DEF Touched
<1>7. Elems(cid) \subseteq Elems(cid2) /\ Elems(cid2) \subseteq Elems(cid) \cup {v}
  BY <1>1, <1>6, LongerElems
<1>8. Distinct(cid2)
  <2>1. CASE cid2 = cid
    BY <1>4, <2>1
  <2>2. CASE cid2 = Append(cid, v) /\ ~cr[v]
    BY <1>1, <1>4, <2>2, LongerDistinct
  <2> QED
    BY <1>6, <2>1, <2>2
<1>9. cr[v] => cr2[v]
  BY DEF Touched
<1>10. \A w \in Elems(cid2) : cr2[w]
  <2>1. Elems(cid) \subseteq Vertex
    BY ElementOfSeq DEF Elems
  <2>2. CASE cid2 = cid
    BY <1>3, <1>4, <1>9, <2>1, <2>2
  <2>3. CASE cid2 = Append(cid, v) /\ cr2[v]
    BY <1>3, <1>4, <1>7, <2>1, <2>3
  <2> QED
    BY <1>6, <2>2, <2>3
<1>11. ASSUME NEW w \in A, cr[w]
       PROVE  \/ Hot(g, D \cup {e}, cr2, w) # {}
              \/ w \in Elems(cid2) /\ TwoRegions(g, D \cup {e}, cr2, rl2, w)
  <2>1. CASE Hot(g, D, cr, w) # {}
    BY <1>5, <2>1
  <2>2. CASE w \in Elems(cid) /\ TwoRegions(g, D, cr, rl, w)
    <3>1. TwoRegions(g, D \cup {e}, cr2, rl2, w)
      BY <1>2, <2>2, TwoRegionsEdge
    <3> QED
      BY <1>7, <2>2, <3>1
  <2> QED
    BY <1>4, <1>11, <2>1, <2>2
<1>12. ASSUME ~cr[v], cr2[v]
       PROVE  \/ Hot(g, D \cup {e}, cr2, v) # {}
              \/ v \in Elems(cid2) /\ TwoRegions(g, D \cup {e}, cr2, rl2, v)
  <2>1. \/ cr[e[1]]
        \/ /\ cid2 = Append(cid, v) /\ ~cr[e[1]] /\ rl[v] # 0 /\ rl[v] # rl[e[1]]
    BY <1>12 DEF Touched
  <2>2. CASE cr[e[1]]
    <3>1. Hot(g, D \cup {e}, cr2, v) = Hot(g, D, cr, v) \cup {e}
      BY <1>1, <1>2, <2>2 DEF TailsSame, Hot
    <3> QED
      BY <3>1
  <2>3. CASE cid2 = Append(cid, v) /\ ~cr[e[1]] /\ rl[v] # 0 /\ rl[v] # rl[e[1]]
    <3>1. v \in Elems(cid2)
      BY <1>1, <2>3, LongerElems
    <3>2. PICK s \in D : Target(g, s) = v /\ rl[s[1]] = rl[v]
      BY <1>1, <2>3 DEF Regions
    <3>3. ~cr[s[1]]
      BY <1>12, <3>2 DEF Spreads
    <3>4. /\ rl2[s[1]] = rl[v] /\ rl2[e[1]] = rl[e[1]]
          /\ ~cr2[s[1]] /\ ~cr2[e[1]]
      BY <1>2, <2>3, <3>2, <3>3 DEF TailsSame
    <3>5. TwoRegions(g, D \cup {e}, cr2, rl2, v)
      BY <1>1, <2>3, <3>2, <3>4 DEF TwoRegions
    <3> QED
      BY <3>1, <3>5
  <2> QED
    BY <2>1, <2>2, <2>3
<1>13. \A w \in A : cr2[w] =>
            \/ Hot(g, D \cup {e}, cr2, w) # {}
            \/ w \in Elems(cid2) /\ TwoRegions(g, D \cup {e}, cr2, rl2, w)
  BY <1>3, <1>11, <1>12
<1> QED
  BY <1>8, <1>10, <1>13 DEF Crossings

LEMMA PaintEdge ==
    ASSUME NEW g \in [Vertex -> Seq(Vertex)], NEW A \in SUBSET Vertex, NEW D,
           NEW cr, NEW cid \in Seq(Vertex), NEW rl, NEW v \in A,
           NEW e \in Into(g, A, v), e \notin D, Into(g, A, e[1]) \subseteq D,
           Painted(g, A, D, cr, cid, rl), NEW cr2, NEW cid2, NEW rl2,
           Touched(cr, cid, rl, e[1], v, cr2, cid2, rl2)
    PROVE  Painted(g, A, D \cup {e}, cr2, cid2, rl2)
<1>1. /\ Ordered(g, A, D) /\ Regions(g, A, D, cr, rl) /\ Spreads(g, D, cr, rl)
      /\ Crossings(g, A, D, cr, cid, rl)
  BY DEF Painted
<1>2. Ordered(g, A, D \cup {e})
  BY <1>1, TailsKept
<1>3. Regions(g, A, D \cup {e}, cr2, rl2)
  BY <1>1, RegionsEdge
<1>4. Spreads(g, D \cup {e}, cr2, rl2)
  BY <1>1, SpreadsEdge
<1>5. Crossings(g, A, D \cup {e}, cr2, cid2, rl2)
  BY <1>1, CrossingsEdge
<1> QED
  BY <1>2, <1>3, <1>4, <1>5 DEF Painted

\* nextInDegree goes up exactly with the places below crossed vertices.
LEMMA CountsEdge ==
    ASSUME NEW g \in [Vertex -> Seq(Vertex)], NEW A \in SUBSET Vertex, NEW D,
           NEW cr, NEW cid, NEW rl, NEW v \in A, NEW e \in Into(g, A, v), e \notin D,
           Into(g, A, e[1]) \subseteq D, Ordered(g, A, D), NEW cr2, NEW cid2, NEW rl2,
           Touched(cr, cid, rl, e[1], v, cr2, cid2, rl2),
           NEW nxt \in [Vertex -> Int], Counts(g, D, cr, nxt),
           NEW nxt2, nxt2 = IF cr[e[1]] THEN [nxt EXCEPT ![v] = @ + 1] ELSE nxt
    PROVE  Counts(g, D \cup {e}, cr2, nxt2)
<1>1. Target(g, e) = v /\ v \in Vertex
  BY DEF Into, InSlots
<1>2. TailsSame(D \cup {e}, cr, cr2)
  BY TailsKept
<1>3. SUFFICES ASSUME NEW w \in Vertex
               PROVE  nxt2[w] = Cardinality(Hot(g, D \cup {e}, cr2, w))
  BY DEF Counts
<1>4. nxt[w] = Cardinality(Hot(g, D, cr, w))
  BY DEF Counts
<1>5. CASE v = w /\ cr[e[1]]
  <2>1. Hot(g, D \cup {e}, cr2, w) = Hot(g, D, cr, w) \cup {e}
    BY <1>1, <1>2, <1>5 DEF TailsSame, Hot
  <2>2. Hot(g, D, cr, w) \subseteq Slot(g) /\ e \notin Hot(g, D, cr, w)
    BY DEF Hot, Ordered
  <2>3. IsFiniteSet(Hot(g, D, cr, w))
    BY <2>2, SlotFinite, FS_Subset
  <2>4. Cardinality(Hot(g, D, cr, w) \cup {e}) = Cardinality(Hot(g, D, cr, w)) + 1
    BY <2>2, <2>3, FS_AddElement
  <2> QED
    BY <1>1, <1>4, <1>5, <2>1, <2>4
<1>6. CASE v # w \/ ~cr[e[1]]
  <2>1. Hot(g, D \cup {e}, cr2, w) = Hot(g, D, cr, w)
    BY <1>1, <1>2, <1>6 DEF TailsSame, Hot
  <2>2. nxt2[w] = nxt[w]
    BY <1>1, <1>6
  <2> QED
    BY <1>4, <2>1, <2>2
<1> QED
  BY <1>5, <1>6

---------------------------------------------------------------------------
(***************************************************************************)
(* A round from its start to its end.                                      *)
(***************************************************************************)
Round(g, A, ord, p, q, deg, nxt, cr, cid, rl) ==
    LET D == Taken(g, ord, p, q)
    IN  /\ Remains(g, A, D, deg) /\ Listed(A, ord, deg)
        /\ Counts(g, D, cr, nxt) /\ Painted(g, A, D, cr, cid, rl)

\* Each listed vertex is a region of its own, the others have none.
OwnRegions(A, ord, rl) == \A v \in A : rl[v] = IF v \in Elems(ord) THEN v + 1 ELSE 0

\* A layer before its first edge: ord lists the sources, each its own region.
LEMMA RoundStart ==
    ASSUME NEW g \in [Vertex -> Seq(Vertex)], NEW A \in SUBSET Vertex,
           NEW ord, NEW deg, Remains(g, A, {}, deg), Listed(A, ord, deg),
           NEW rl, OwnRegions(A, ord, rl)
    PROVE  Round(g, A, ord, 1, 1, deg, Zero, None, <<>>, rl)
<1>1. Taken(g, ord, 1, 1) = {}
  <2>1. ASSUME NEW s \in Slot(g), NEW a \in 1 .. Len(ord), a < 1 \/ (a = 1 /\ s[2] < 1)
        PROVE  FALSE
    BY <2>1, SlotFields
  <2> QED
    BY <2>1 DEF Taken
<1>2. \A v \in A : v \in SourcesIn(g, A) <=> v \in Elems(ord)
  <2>1. \A v \in A : deg[v] = Cardinality(Into(g, A, v) \ {})
    BY DEF Remains
  <2>2. ASSUME NEW v PROVE Cardinality(Into(g, A, v) \ {}) = 0 <=> Into(g, A, v) = {}
    <3>1. IsFiniteSet(Into(g, A, v) \ {})
      BY IntoFinite
    <3> QED
      BY <3>1, FS_EmptySet
  <2> QED
    BY <2>1, <2>2 DEF Listed, SourcesIn
<1>3. Counts(g, {}, None, Zero)
  <2>1. \A v : Hot(g, {}, None, v) = {}
    BY DEF Hot
  <2> QED
    BY <2>1, FS_EmptySet DEF Counts, Zero
<1>4. Ordered(g, A, {}) /\ Spreads(g, {}, None, rl)
  BY DEF Ordered, Spreads
<1>5. Regions(g, A, {}, None, rl)
  <2>1. /\ \A v \in Vertex : ~None[v]
        /\ \A v \in Vertex : (v + 1) - 1 = v
    BY MaxIDAssumption DEF None, Vertex
  <2>2. SourcesIn(g, A) \subseteq A
    BY DEF SourcesIn
  <2> QED
    BY <1>2, <2>1, <2>2 DEF Regions, OwnRegions
<1>6. Crossings(g, A, {}, None, <<>>, rl)
  BY DEF Crossings, None, Distinct, Elems
<1> QED
  BY <1>1, <1>3, <1>4, <1>5, <1>6 DEF Round, Painted

LEMMA QueuedPrefix ==
    ASSUME NEW ord \in Seq(Vertex), NEW v \in Vertex, NEW deg, NEW ord2,
           Queued(ord, deg, v, ord2)
    PROVE  Prefix(ord, ord2)
<1>1. Prefix(ord, ord) /\ Prefix(ord, Append(ord, v))
  BY LongerPrefix
<1> QED
  BY <1>1 DEF Queued

\* The scan of ord stands at the edge u -> v.
EdgeAt(g, ord, p, q, u, v) ==
    p \in 1 .. Len(ord) /\ q \in 1 .. Len(g[ord[p]]) /\ u = ord[p] /\ v = g[u][q]

\* What the edge does to the counter of this round and to that of the next.
Lowered(deg, v, deg2) == deg2 = [deg EXCEPT ![v] = @ - 1]
Raised(cr, nxt, u, v, nxt2) ==
    nxt2 = IF cr[u] THEN [nxt EXCEPT ![v] = @ + 1] ELSE nxt

\* No edge leads out of A.
Inward(g, A) == \A u \in A : Succ(g, u) \subseteq A

\* One edge of a round.
LEMMA RoundEdge ==
    ASSUME NEW g \in [Vertex -> Seq(Vertex)], NEW A \in SUBSET Vertex, Inward(g, A),
           NEW ord \in Seq(Vertex), NEW p, NEW q, NEW u, NEW v,
           EdgeAt(g, ord, p, q, u, v),
           NEW deg \in [Vertex -> Int], NEW nxt \in [Vertex -> Int],
           NEW cr, NEW cid \in Seq(Vertex), NEW rl,
           Round(g, A, ord, p, q, deg, nxt, cr, cid, rl),
           NEW deg2, Lowered(deg, v, deg2), NEW nxt2, Raised(cr, nxt, u, v, nxt2),
           NEW ord2, Queued(ord, deg, v, ord2),
           NEW cr2, NEW cid2, NEW rl2, Touched(cr, cid, rl, u, v, cr2, cid2, rl2)
    PROVE  Round(g, A, ord2, p, q + 1, deg2, nxt2, cr2, cid2, rl2) /\ v \in A
<1>0. /\ p \in 1 .. Len(ord) /\ q \in 1 .. Len(g[ord[p]]) /\ u = ord[p]
      /\ v = g[u][q]
  BY DEF EdgeAt
<1>1. PICK D : D = Taken(g, ord, p, q)
  OBVIOUS
<1>00. PICK e : e = <<u, q>>
  OBVIOUS
<1>2. u = ord[p] /\ e = <<u, q>> /\ e[1] = u
  BY <1>0, <1>00
<1>3. /\ Remains(g, A, D, deg) /\ Listed(A, ord, deg)
      /\ Counts(g, D, cr, nxt) /\ Painted(g, A, D, cr, cid, rl)
  BY <1>1 DEF Round
<1>4. u \in Elems(ord)
  BY <1>0 DEF Elems
<1>5. u \in A /\ Into(g, A, u) \subseteq D
  BY <1>3, <1>4, ListedTaken
<1>6. v \in A /\ v \in Vertex
  BY <1>0, <1>5 DEF Inward, Succ
<1>7. e \in Slot(g) /\ e \in Into(g, A, v)
  <2>1. e \in Slot(g)
    BY <1>0, <1>2, <1>5, SlotMember
  <2> QED
    BY <1>0, <1>2, <1>5, <2>1 DEF Into, InSlots, Target
<1>8. Distinct(ord) /\ Takes(g, ord, p, q, D) /\ q \in Nat
  BY <1>0, <1>1, <1>3 DEF Listed, Takes
<1>9. e \in Slot(g) /\ e = <<ord[p], q>> /\ Prefix(ord, ord2)
  BY <1>2, <1>6, <1>7, QueuedPrefix
<1>10. e \notin D /\ Takes(g, ord2, p, q + 1, D \cup {e})
  BY <1>0, <1>8, <1>9, TakenEdge
<1>11. Remains(g, A, D \cup {e}, deg2) /\ deg[v] \in Nat /\ deg[v] # 0
  BY <1>3, <1>6, <1>7, <1>10, CounterEdge DEF Lowered
<1>12. Listed(A, ord2, deg2)
  BY <1>3, <1>6, <1>11, ListEdge DEF Lowered
<1>13. Into(g, A, e[1]) \subseteq D /\ Touched(cr, cid, rl, e[1], v, cr2, cid2, rl2)
  BY <1>2, <1>5
<1>14. Painted(g, A, D \cup {e}, cr2, cid2, rl2)
  BY <1>3, <1>6, <1>7, <1>10, <1>13, PaintEdge
<1>15. Ordered(g, A, D) /\ nxt2 = IF cr[e[1]] THEN [nxt EXCEPT ![v] = @ + 1] ELSE nxt
  BY <1>2, <1>3 DEF Painted, Raised
<1>16. Counts(g, D \cup {e}, cr2, nxt2)
  BY <1>3, <1>6, <1>7, <1>10, <1>13, <1>15, CountsEdge
<1>17. Taken(g, ord2, p, q + 1) = D \cup {e}
  BY <1>10 DEF Takes
<1> QED
  BY <1>6, <1>11, <1>12, <1>14, <1>16, <1>17 DEF Round

LEMMA RoundVertex ==
    ASSUME NEW g \in [Vertex -> Seq(Vertex)], NEW A, NEW ord, NEW p \in Nat, NEW q \in Nat,
           q > Len(g[ord[p]]), NEW deg, NEW nxt, NEW cr, NEW cid, NEW rl,
           Round(g, A, ord, p, q, deg, nxt, cr, cid, rl)
    PROVE  Round(g, A, ord, p + 1, 1, deg, nxt, cr, cid, rl)
<1>1. Takes(g, ord, p, q, Taken(g, ord, p, q))
  BY DEF Takes
<1>2. Takes(g, ord, p + 1, 1, Taken(g, ord, p, q))
  BY <1>1, TakenVertex
<1>3. Taken(g, ord, p + 1, 1) = Taken(g, ord, p, q)
  BY <1>2 DEF Takes
<1> QED
  BY <1>3 DEF Round

---------------------------------------------------------------------------
(***************************************************************************)
(* What the rounds leave to each other.                                    *)
(***************************************************************************)
\* The set A is what is in no region of the first n layers.
LeftAfter(A, rl, lay, n) ==
    A = {v \in Vertex : rl[v] = 0 \/ ~(lay[rl[v] - 1] <= n)}

\* Nothing leads back into a finished layer, nor from one region to another
\* of the same layer.
PeeledOff(g, A, rl, lay) ==
    /\ \A u \in A : Succ(g, u) \subseteq A
    /\ \A u \in Vertex \ A :
          /\ rl[u] - 1 \in Vertex \ A
          /\ \A v \in Succ(g, u) :
                v \in A \/ rl[v] = rl[u] \/ lay[rl[u] - 1] < lay[rl[v] - 1]

\* The sources are the roots of the layer.
RootsAt(g, A, lay, n) == \A v \in SourcesIn(g, A) : lay[v] = n

SameOutside(A, a, b) == \A v \in Vertex \ A : b[v] = a[v]

LEMMA SuccVertex ==
    ASSUME NEW g \in [Vertex -> Seq(Vertex)], NEW u \in Vertex, NEW v \in Succ(g, u)
    PROVE  v \in Vertex
BY ElementOfSeq DEF Succ

LEMMA PeeledKept ==
    ASSUME NEW g \in [Vertex -> Seq(Vertex)], NEW A, NEW rl, NEW lay, NEW rl2, NEW lay2,
           PeeledOff(g, A, rl, lay), SameOutside(A, rl, rl2), SameOutside(A, lay, lay2)
    PROVE  PeeledOff(g, A, rl2, lay2)
<1>1. SUFFICES ASSUME NEW u \in Vertex \ A
               PROVE  /\ rl2[u] - 1 \in Vertex \ A
                      /\ \A v \in Succ(g, u) :
                            \/ v \in A \/ rl2[v] = rl2[u]
                            \/ lay2[rl2[u] - 1] < lay2[rl2[v] - 1]
  BY DEF PeeledOff
<1>2. /\ rl[u] - 1 \in Vertex \ A
      /\ \A v \in Succ(g, u) :
            v \in A \/ rl[v] = rl[u] \/ lay[rl[u] - 1] < lay[rl[v] - 1]
  BY DEF PeeledOff
<1>3. rl2[u] = rl[u] /\ lay2[rl[u] - 1] = lay[rl[u] - 1]
  BY <1>2 DEF SameOutside
<1>4. ASSUME NEW v \in Succ(g, u), v \notin A
      PROVE  rl2[v] = rl[v] /\ lay2[rl[v] - 1] = lay[rl[v] - 1]
  <2>1. v \in Vertex \ A
    BY <1>4, SuccVertex
  <2>2. rl[v] - 1 \in Vertex \ A
    BY <2>1 DEF PeeledOff
  <2> QED
    BY <2>1, <2>2 DEF SameOutside
<1> QED
  BY <1>2, <1>3, <1>4

\* During a round the regions of the round are not finished.
LEMMA LeftKept ==
    ASSUME NEW g, NEW A \in SUBSET Vertex, NEW D, NEW cr, NEW rl, NEW rl2,
           NEW lay, NEW n \in Nat, LeftAfter(A, rl, lay, n - 1),
           RootsAt(g, A, lay, n), SameOutside(A, rl, rl2), Regions(g, A, D, cr, rl2)
    PROVE  LeftAfter(A, rl2, lay, n - 1)
<1>1. SUFFICES ASSUME NEW v \in Vertex
               PROVE  v \in A <=> rl2[v] = 0 \/ ~(lay[rl2[v] - 1] <= n - 1)
  BY DEF LeftAfter
<1>2. CASE v \in A
  <2>1. SUFFICES ASSUME rl2[v] # 0 PROVE ~(lay[rl2[v] - 1] <= n - 1)
    BY <1>2
  <2>2. rl2[v] - 1 \in SourcesIn(g, A)
    BY <1>2, <2>1 DEF Regions
  <2>3. lay[rl2[v] - 1] = n
    BY <2>2 DEF RootsAt
  <2> QED
    BY <2>3
<1>3. CASE v \notin A
  <2>1. ~(rl[v] = 0 \/ ~(lay[rl[v] - 1] <= n - 1))
    BY <1>3 DEF LeftAfter
  <2>2. rl2[v] = rl[v]
    BY <1>3 DEF SameOutside
  <2> QED
    BY <1>3, <2>1, <2>2
<1> QED
  BY <1>2, <1>3

\* What the next round starts from, before any of its roots is known: the
\* crossed vertices B, the edges among them, and their sources remembered.
Due(g, B, cr, cid, deg) ==
    /\ \A v \in Vertex : v \in B <=> cr[v]
    /\ Remains(g, B, {}, deg)
    /\ Distinct(cid) /\ Elems(cid) \subseteq B /\ SourcesIn(g, B) \subseteq Elems(cid)

NoRegion(B, rl) == \A v \in B : rl[v] = 0

\* The places a finished scan has taken.
AllFrom(g, A, D) == \A s \in Slot(g) : s \in D <=> s[1] \in A

\* An uncrossed vertex of a finished round is in the region of a source.
LEMMA EndRegion ==
    ASSUME NEW g \in [Vertex -> Seq(Vertex)], NEW A \in SUBSET Vertex, NEW D,
           NEW cr, NEW cid, NEW rl, Painted(g, A, D, cr, cid, rl), AllFrom(g, A, D),
           NEW v \in A, ~cr[v]
    PROVE  /\ rl[v] # 0 /\ rl[v] - 1 \in SourcesIn(g, A) /\ rl[v] - 1 \in A
           /\ ~cr[rl[v] - 1]
<1>1. Regions(g, A, D, cr, rl) /\ Spreads(g, D, cr, rl)
  BY DEF Painted
<1>2. Into(g, A, v) \subseteq D
  BY DEF AllFrom, Into, InSlots
<1>3. rl[v] # 0
  BY <1>1, <1>2, ScannedHasRegion
<1>4. rl[v] - 1 \in SourcesIn(g, A)
  BY <1>1, <1>3 DEF Regions
<1>5. PICK r \in SourcesIn(g, A) : r = rl[v] - 1
  BY <1>4
<1>6. r \in A /\ r \in Vertex /\ rl[r] = r + 1
  BY <1>1 DEF SourcesIn, Regions
<1>7. ~cr[r]
  <2>1. r + 1 # 0
    BY <1>6, MaxIDAssumption DEF Vertex
  <2> QED
    BY <1>1, <1>6, <2>1 DEF Regions
<1> QED
  BY <1>3, <1>4, <1>5, <1>6, <1>7

\* Every edge has its place.
LEMMA EdgeSlot ==
    ASSUME NEW g, NEW u \in Vertex, NEW v \in Succ(g, u)
    PROVE  \E s \in Slot(g) : s[1] = u /\ Target(g, s) = v
<1>1. PICK k \in 1 .. Len(g[u]) : g[u][k] = v
  BY DEF Succ
<1>2. <<u, k>> \in Slot(g)
  BY SlotMember
<1>3. <<u, k>>[1] = u /\ Target(g, <<u, k>>) = v
  BY <1>1 DEF Target
<1> QED
  BY <1>2, <1>3

LEMMA EndDue ==
    ASSUME NEW g \in [Vertex -> Seq(Vertex)], NEW A \in SUBSET Vertex, NEW D,
           NEW cr, NEW cid \in Seq(Vertex), NEW rl, Painted(g, A, D, cr, cid, rl), AllFrom(g, A, D),
           NEW nxt, Counts(g, D, cr, nxt),
           NEW B, \A v : v \in B <=> v \in Vertex /\ cr[v]
    PROVE  Due(g, B, cr, cid, nxt)
<1>1. /\ Regions(g, A, D, cr, rl) /\ Spreads(g, D, cr, rl) /\ Ordered(g, A, D)
      /\ Crossings(g, A, D, cr, cid, rl)
  BY DEF Painted
<1>2. B \subseteq A
  BY <1>1 DEF Regions
<1>3. ASSUME NEW v PROVE Into(g, B, v) = Hot(g, D, cr, v)
  <2>1. \A s \in D : s \in Slot(g) /\ s[1] \in Vertex
    BY <1>1 DEF Ordered
  <2>2. \A s \in Slot(g) : s[1] \in A => s \in D
    BY DEF AllFrom
  <2> QED
    BY <1>2, <2>1, <2>2 DEF Into, InSlots, Hot
<1>4. Remains(g, B, {}, nxt)
  <2>1. ASSUME NEW v PROVE Into(g, B, v) \ {} = Hot(g, D, cr, v)
    BY <1>3
  <2> QED
    BY <2>1 DEF Remains, Counts
<1>5. SourcesIn(g, B) \subseteq Elems(cid)
  <2>1. SUFFICES ASSUME NEW v \in SourcesIn(g, B) PROVE v \in Elems(cid)
    OBVIOUS
  <2>2. v \in A /\ cr[v] /\ Hot(g, D, cr, v) = {}
    BY <1>2, <1>3 DEF SourcesIn
  <2> QED
    BY <1>1, <2>2 DEF Crossings
<1>6. Distinct(cid) /\ Elems(cid) \subseteq B
  <2>1. Elems(cid) \subseteq Vertex
    BY ElementOfSeq DEF Elems
  <2> QED
    BY <1>1, <2>1 DEF Crossings
<1> QED
  BY <1>4, <1>5, <1>6 DEF Due

LEMMA EndLeft ==
    ASSUME NEW g \in [Vertex -> Seq(Vertex)], NEW A \in SUBSET Vertex, NEW D,
           NEW cr, NEW cid, NEW rl, Painted(g, A, D, cr, cid, rl), AllFrom(g, A, D),
           NEW lay \in [Vertex -> Nat], NEW n \in Nat, LeftAfter(A, rl, lay, n - 1),
           RootsAt(g, A, lay, n), PeeledOff(g, A, rl, lay),
           NEW B, \A v : v \in B <=> v \in Vertex /\ cr[v]
    PROVE  LeftAfter(B, rl, lay, n)
<1>1. SUFFICES ASSUME NEW v \in Vertex
               PROVE  cr[v] <=> rl[v] = 0 \/ ~(lay[rl[v] - 1] <= n)
  BY DEF LeftAfter
<1>2. cr[v] => v \in A /\ rl[v] = 0
  BY DEF Painted, Regions
<1>3. CASE v \in A /\ ~cr[v]
  <2>1. rl[v] # 0 /\ rl[v] - 1 \in SourcesIn(g, A)
    BY <1>3, EndRegion
  <2>2. lay[rl[v] - 1] = n
    BY <2>1 DEF RootsAt
  <2> QED
    BY <1>3, <2>1, <2>2
<1>4. CASE v \notin A
  <2>1. rl[v] # 0 /\ lay[rl[v] - 1] <= n - 1
    BY <1>4 DEF LeftAfter
  <2>2. lay[rl[v] - 1] \in Nat
    BY <1>4 DEF PeeledOff
  <2> QED
    BY <1>2, <1>4, <2>1, <2>2
<1> QED
  BY <1>2, <1>3, <1>4

LEMMA EndPeeled ==
    ASSUME NEW g \in [Vertex -> Seq(Vertex)], NEW A \in SUBSET Vertex, NEW D,
           NEW cr, NEW cid, NEW rl, Painted(g, A, D, cr, cid, rl), AllFrom(g, A, D),
           NEW lay \in [Vertex -> Nat], NEW n \in Nat, LeftAfter(A, rl, lay, n - 1),
           RootsAt(g, A, lay, n), PeeledOff(g, A, rl, lay),
           NEW B, \A v : v \in B <=> v \in Vertex /\ cr[v]
    PROVE  PeeledOff(g, B, rl, lay) /\ NoRegion(B, rl)
<1>1. \A v \in Vertex : cr[v] => v \in A /\ rl[v] = 0
  BY DEF Painted, Regions
<1>2. ASSUME NEW u \in B PROVE Succ(g, u) \subseteq B
  <2>1. SUFFICES ASSUME NEW v \in Succ(g, u) PROVE v \in B
    OBVIOUS
  <2>2. u \in A /\ cr[u]
    BY <1>1
  <2>3. PICK s \in Slot(g) : s[1] = u /\ Target(g, s) = v
    BY <2>2, EdgeSlot
  <2>5. cr[v]
    BY <2>2, <2>3 DEF AllFrom, Painted, Spreads
  <2>4. v \in Vertex
    BY SuccVertex
  <2> QED
    BY <2>4, <2>5
<1>3. ASSUME NEW u \in A, ~cr[u]
      PROVE  /\ rl[u] - 1 \in Vertex \ B
             /\ \A v \in Succ(g, u) :
                   v \in B \/ rl[v] = rl[u] \/ lay[rl[u] - 1] < lay[rl[v] - 1]
  <2>1. rl[u] - 1 \in A /\ ~cr[rl[u] - 1]
    BY <1>3, EndRegion
  <2>2. ASSUME NEW v \in Succ(g, u) PROVE v \in B \/ rl[v] = rl[u]
    <3>1. v \in Vertex
      BY SuccVertex
    <3>2. u \in Vertex
      OBVIOUS
    <3>3. PICK s \in Slot(g) : s[1] = u /\ Target(g, s) = v
      BY <3>2, EdgeSlot
    <3>4. s \in D
      BY <3>3 DEF AllFrom
    <3>5. cr[v] \/ rl[v] = rl[u]
      BY <1>3, <3>3, <3>4 DEF Painted, Spreads
    <3> QED
      BY <3>1, <3>5
  <2> QED
    BY <2>1, <2>2
<1>4. ASSUME NEW u \in Vertex \ A
      PROVE  /\ rl[u] - 1 \in Vertex \ B
             /\ \A v \in Succ(g, u) :
                   v \in B \/ rl[v] = rl[u] \/ lay[rl[u] - 1] < lay[rl[v] - 1]
  <2>1. /\ rl[u] - 1 \in Vertex \ A
        /\ \A v \in Succ(g, u) :
              v \in A \/ rl[v] = rl[u] \/ lay[rl[u] - 1] < lay[rl[v] - 1]
    BY DEF PeeledOff
  <2>2. lay[rl[u] - 1] <= n - 1 /\ lay[rl[u] - 1] \in Nat
    BY <2>1 DEF LeftAfter
  <2>3. ASSUME NEW v \in Succ(g, u), v \in A, ~cr[v]
        PROVE  lay[rl[u] - 1] < lay[rl[v] - 1]
    <3>1. rl[v] - 1 \in SourcesIn(g, A)
      BY <2>3, EndRegion
    <3>2. lay[rl[v] - 1] = n
      BY <3>1 DEF RootsAt
    <3> QED
      BY <2>2, <3>2
  <2> QED
    BY <1>1, <2>1, <2>3
<1>5. ASSUME NEW u \in Vertex \ B
      PROVE  /\ rl[u] - 1 \in Vertex \ B
             /\ \A v \in Succ(g, u) :
                   v \in B \/ rl[v] = rl[u] \/ lay[rl[u] - 1] < lay[rl[v] - 1]
  <2>1. CASE u \in A
    BY <1>3, <2>1
  <2>2. CASE u \notin A
    BY <1>4, <2>2
  <2> QED
    BY <2>1, <2>2
<1> QED
  BY <1>1, <1>2, <1>5 DEF PeeledOff, NoRegion

---------------------------------------------------------------------------
(***************************************************************************)
(* The inductive invariant of construct_index, over the set A of what is   *)
(* left to be layered.                                                     *)
(***************************************************************************)
AtRoots(A) ==
    pc = "roots" =>
        /\ count = 1 /\ cross = None /\ cross_id = <<>> /\ A = Vertex
        /\ curInDegree = Zero /\ nextInDegree = Zero

InFirst(A) ==
    pc = "pre_process" =>
        /\ A # {} /\ nextInDegree = Zero
        /\ RootsAt(graph, A, root_layer, count)
        /\ Round(graph, A, TopoOrder, i, j, indeg, curInDegree, cross, cross_id,
                 root_located)

AtNext(A) ==
    pc = "next_layer" =>
        /\ nextInDegree = Zero
        /\ Due(graph, A, cross, cross_id, curInDegree)
        /\ NoRegion(A, root_located)

\* The roots read so far are the sources among the first k - 1 remembered.
RootsRead(A, deg, cid, k, ord, rl, lay, n) ==
    /\ Distinct(ord)
    /\ \A v : v \in Elems(ord) <=>
          \E a \in 1 .. Len(cid) : a < k /\ cid[a] = v /\ deg[v] = 0
    /\ \A v \in A : IF v \in Elems(ord) THEN rl[v] = v + 1 /\ lay[v] = n
                                       ELSE rl[v] = 0

InRoots(A) ==
    pc = "layer_roots" =>
        /\ A # {} /\ nextInDegree = Zero
        /\ Due(graph, A, cross, cross_id, curInDegree)
        /\ RootsRead(A, curInDegree, cross_id, i, TopoOrder_cross, root_located,
                     root_layer, count)

InLater(A) ==
    pc = "pre_process_cross" =>
        /\ A # {} /\ RootsAt(graph, A, root_layer, count)
        /\ Round(graph, A, TopoOrder_cross, i, j, curInDegree, nextInDegree, cross,
                 cross_id, root_located)

AtEnd(A) ==
    pc = "layered" =>
        /\ A = {} /\ nextInDegree = Zero
        /\ Due(graph, A, cross, cross_id, curInDegree)

\* A is what is left.
RoundOf(A) ==
    /\ LeftAfter(A, root_located, root_layer, Finished)
    /\ PeeledOff(graph, A, root_located, root_layer)
    /\ AtRoots(A) /\ InFirst(A) /\ AtNext(A) /\ InRoots(A) /\ InLater(A) /\ AtEnd(A)

RoundInv == count \in Nat \ {0} /\ \E A \in SUBSET Vertex : RoundOf(A)

---------------------------------------------------------------------------
(***************************************************************************)
(* The edges.                                                              *)
(***************************************************************************)
LEMMA EdgeLeft ==
    ASSUME NEW A \in SUBSET Vertex, NEW u, NEW v \in A, NEW n \in Nat, NEW D,
           LeftAfter(A, root_located, root_layer, n - 1),
           PeeledOff(graph, A, root_located, root_layer),
           RootsAt(graph, A, root_layer, n),
           graph \in [Vertex -> Seq(Vertex)], graph' = graph, root_layer' = root_layer,
           Touched(cross, cross_id, root_located, u, v, cross', cross_id', root_located'),
           Regions(graph, A, D, cross', root_located')
    PROVE  /\ LeftAfter(A, root_located', root_layer', n - 1)
           /\ PeeledOff(graph', A, root_located', root_layer')
<1>1. SameOutside(A, root_located, root_located')
  BY DEF Touched, SameOutside
<1>2. SameOutside(A, root_layer, root_layer')
  BY DEF SameOutside
<1>3. LeftAfter(A, root_located', root_layer, n - 1)
  BY <1>1, LeftKept
<1>4. PeeledOff(graph, A, root_located', root_layer')
  BY <1>1, <1>2, PeeledKept
<1> QED
  BY <1>3, <1>4

LEMMA PreEdgeRound ==
    ASSUME TypeInv, NEW A \in SUBSET Vertex, count \in Nat, RoundOf(A), PreEdge
    PROVE  RoundOf(A)'
<1>1. PICK u : u = TopoOrder[i]
  OBVIOUS
<1>2. PICK v : v = graph[u][j]
  OBVIOUS
<1>3. /\ i \in 1 .. Len(TopoOrder) /\ j \in 1 .. Len(graph[TopoOrder[i]])
      /\ u \in Vertex /\ v \in Vertex
  BY <1>1, <1>2, PreEdgePlace
<1>4. /\ graph \in [Vertex -> Seq(Vertex)] /\ TopoOrder \in Seq(Vertex)
      /\ indeg \in [Vertex -> Int] /\ curInDegree \in [Vertex -> Int]
      /\ cross_id \in Seq(Vertex)
  BY DEF TypeInv, TypeOK, OrderTypes, CounterTypes, RegionTypes
<1>5. /\ pc = "pre_process" /\ pc' = pc /\ graph' = graph /\ root_layer' = root_layer
      /\ count' = count /\ i' = i /\ j' = j + 1 /\ nextInDegree' = nextInDegree
      /\ Lowered(indeg, v, indeg') /\ Raised(cross, curInDegree, u, v, curInDegree')
      /\ ScanEdge(u, v)
  BY <1>1, <1>2 DEF PreEdge, rootVars, Counted, Lowered, Raised
<1>6. Queued(TopoOrder, indeg, v, TopoOrder')
  BY <1>1, <1>2 DEF PreEdge, Queued
<1>7. Touched(cross, cross_id, root_located, u, v, cross', cross_id',
              root_located')
  BY <1>1, <1>3, <1>5, ScanEdgeTouched
<1>8. /\ LeftAfter(A, root_located, root_layer, count - 1)
      /\ PeeledOff(graph, A, root_located, root_layer)
      /\ A # {} /\ nextInDegree = Zero /\ RootsAt(graph, A, root_layer, count)
      /\ Round(graph, A, TopoOrder, i, j, indeg, curInDegree, cross, cross_id,
               root_located)
  BY <1>5 DEF RoundOf, InFirst, Finished, Scanning
<1>9. Inward(graph, A) /\ EdgeAt(graph, TopoOrder, i, j, u, v)
  BY <1>1, <1>2, <1>3, <1>8 DEF Inward, PeeledOff, EdgeAt
<1>11. /\ v \in A
       /\ Round(graph, A, TopoOrder', i, j + 1, indeg', curInDegree', cross', cross_id',
                root_located')
  BY <1>3, <1>4, <1>5, <1>6, <1>7, <1>8, <1>9, RoundEdge
<1>12. PICK D : Regions(graph, A, D, cross', root_located')
  BY <1>11 DEF Round, Painted
<1>13. /\ LeftAfter(A, root_located', root_layer', count - 1)
       /\ PeeledOff(graph', A, root_located', root_layer')
  BY <1>4, <1>5, <1>7, <1>8, <1>11, <1>12, EdgeLeft
<1> QED
  BY <1>5, <1>8, <1>11, <1>13 DEF RoundOf, AtRoots, InFirst, AtNext, InRoots, InLater,
                                  AtEnd, Finished, Scanning

LEMMA CrossEdgeRound ==
    ASSUME TypeInv, NEW A \in SUBSET Vertex, count \in Nat, RoundOf(A), CrossEdge
    PROVE  RoundOf(A)'
<1>1. PICK u : u = TopoOrder_cross[i]
  OBVIOUS
<1>2. PICK v : v = graph[u][j]
  OBVIOUS
<1>3. /\ i \in 1 .. Len(TopoOrder_cross) /\ j \in 1 .. Len(graph[TopoOrder_cross[i]])
      /\ u \in Vertex /\ v \in Vertex
  BY <1>1, <1>2, CrossEdgePlace
<1>4. /\ graph \in [Vertex -> Seq(Vertex)] /\ TopoOrder_cross \in Seq(Vertex)
      /\ curInDegree \in [Vertex -> Int] /\ nextInDegree \in [Vertex -> Int]
      /\ cross_id \in Seq(Vertex)
  BY DEF TypeInv, TypeOK, OrderTypes, CounterTypes, RegionTypes
<1>5. /\ pc = "pre_process_cross" /\ pc' = pc /\ graph' = graph
      /\ root_layer' = root_layer /\ count' = count /\ i' = i /\ j' = j + 1
      /\ Lowered(curInDegree, v, curInDegree')
      /\ Raised(cross, nextInDegree, u, v, nextInDegree')
      /\ ScanEdge(u, v)
  BY <1>1, <1>2 DEF CrossEdge, rootVars, Counted, Lowered, Raised
<1>6. Queued(TopoOrder_cross, curInDegree, v, TopoOrder_cross')
  BY <1>1, <1>2 DEF CrossEdge, Queued
<1>7. Touched(cross, cross_id, root_located, u, v, cross', cross_id',
              root_located')
  BY <1>1, <1>3, <1>5, ScanEdgeTouched
<1>8. /\ LeftAfter(A, root_located, root_layer, count - 1)
      /\ PeeledOff(graph, A, root_located, root_layer)
      /\ A # {} /\ RootsAt(graph, A, root_layer, count)
      /\ Round(graph, A, TopoOrder_cross, i, j, curInDegree, nextInDegree, cross,
               cross_id, root_located)
  BY <1>5 DEF RoundOf, InLater, Finished, Scanning
<1>9. Inward(graph, A) /\ EdgeAt(graph, TopoOrder_cross, i, j, u, v)
  BY <1>1, <1>2, <1>3, <1>8 DEF Inward, PeeledOff, EdgeAt
<1>11. /\ v \in A
       /\ Round(graph, A, TopoOrder_cross', i, j + 1, curInDegree', nextInDegree',
                cross', cross_id', root_located')
  BY <1>3, <1>4, <1>5, <1>6, <1>7, <1>8, <1>9, RoundEdge
<1>12. PICK D : Regions(graph, A, D, cross', root_located')
  BY <1>11 DEF Round, Painted
<1>13. /\ LeftAfter(A, root_located', root_layer', count - 1)
       /\ PeeledOff(graph', A, root_located', root_layer')
  BY <1>4, <1>5, <1>7, <1>8, <1>11, <1>12, EdgeLeft
<1> QED
  BY <1>5, <1>8, <1>11, <1>13 DEF RoundOf, AtRoots, InFirst, AtNext, InRoots, InLater,
                                  AtEnd, Finished, Scanning

---------------------------------------------------------------------------
(***************************************************************************)
(* The vertices and the batches.                                           *)
(***************************************************************************)
LEMMA VertexRound ==
    ASSUME TypeInv, NEW A \in SUBSET Vertex, RoundOf(A), PreVertex \/ CrossVertex
    PROVE  RoundOf(A)'
<1>1. /\ graph \in [Vertex -> Seq(Vertex)] /\ i \in Nat /\ j \in Nat
  BY DEF TypeInv, TypeOK, OrderTypes, LoopTypes
<1>2. UNCHANGED <<graph, pc, curInDegree, nextInDegree, cross, cross_id, root_located,
                  root_layer, count, indeg, TopoOrder, TopoOrder_cross>>
      /\ i' = i + 1 /\ j' = 1
  BY DEF PreVertex, CrossVertex, scanVars, rootVars, topoVars
<1>3. /\ LeftAfter(A, root_located, root_layer, Finished)'
      /\ PeeledOff(graph, A, root_located, root_layer)'
  BY <1>2 DEF RoundOf, Finished, Scanning
<1>4. CASE PreVertex
  <2>1. pc = "pre_process" /\ j > Len(graph[TopoOrder[i]])
    BY <1>4 DEF PreVertex
  <2>2. /\ A # {} /\ nextInDegree = Zero /\ RootsAt(graph, A, root_layer, count)
        /\ Round(graph, A, TopoOrder, i, j, indeg, curInDegree, cross, cross_id,
                 root_located)
    BY <2>1 DEF RoundOf, InFirst
  <2>3. Round(graph, A, TopoOrder, i + 1, 1, indeg, curInDegree, cross, cross_id,
              root_located)
    BY <1>1, <2>1, <2>2, RoundVertex
  <2>4. InFirst(A)'
    BY <1>2, <2>2, <2>3 DEF InFirst
  <2> QED
    BY <1>2, <1>3, <2>1, <2>4 DEF RoundOf, AtRoots, AtNext, InRoots, InLater, AtEnd
<1>5. CASE CrossVertex
  <2>1. pc = "pre_process_cross" /\ j > Len(graph[TopoOrder_cross[i]])
    BY <1>5 DEF CrossVertex
  <2>2. /\ A # {} /\ RootsAt(graph, A, root_layer, count)
        /\ Round(graph, A, TopoOrder_cross, i, j, curInDegree, nextInDegree, cross,
                 cross_id, root_located)
    BY <2>1 DEF RoundOf, InLater
  <2>3. Round(graph, A, TopoOrder_cross, i + 1, 1, curInDegree, nextInDegree, cross,
              cross_id, root_located)
    BY <1>1, <2>1, <2>2, RoundVertex
  <2>4. InLater(A)'
    BY <1>2, <2>2, <2>3 DEF InLater
  <2> QED
    BY <1>2, <1>3, <2>1, <2>4 DEF RoundOf, AtRoots, AtNext, InRoots, InFirst, AtEnd
<1> QED
  BY <1>4, <1>5

\* A batch changes nothing the invariant speaks about.
LEMMA BatchRound ==
    ASSUME NEW A \in SUBSET Vertex, RoundOf(A), 
           UNCHANGED <<graph, pc, curInDegree, nextInDegree, cross, cross_id,
                       root_located, root_layer, count, indeg, TopoOrder,
                       TopoOrder_cross, i, j>>
    PROVE  RoundOf(A)'
BY DEF RoundOf, AtRoots, InFirst, AtNext, InRoots, InLater, AtEnd, Finished, Scanning,
       LeftAfter, PeeledOff

---------------------------------------------------------------------------
(***************************************************************************)
(* The ends of the rounds.                                                 *)
(***************************************************************************)
\* What a finished round hands to the next one.
HandsOver(g, nxt, cr, cid, rl, lay, n) ==
    \E B \in SUBSET Vertex :
        /\ LeftAfter(B, rl, lay, n) /\ PeeledOff(g, B, rl, lay)
        /\ Due(g, B, cr, cid, nxt) /\ NoRegion(B, rl)

UsedUp(deg) == \A v \in Vertex : deg[v] = 0

\* What a round has painted when it has taken every edge.
Done(g, A, cr, cid, rl) == \E D : Painted(g, A, D, cr, cid, rl) /\ AllFrom(g, A, D)

\* deg is used up, and what nxt has counted is due, for what is crossed.
LEMMA RoundEnd ==
    ASSUME NEW g \in [Vertex -> Seq(Vertex)], Acyclic(g), NEW A \in SUBSET Vertex,
           NEW ord \in Seq(Vertex), NEW p \in Nat, p > Len(ord), NEW q,
           NEW deg \in [Vertex -> Int], NEW nxt, NEW cr, NEW cid \in Seq(Vertex), NEW rl,
           Round(g, A, ord, p, q, deg, nxt, cr, cid, rl),
           NEW lay \in [Vertex -> Nat], NEW n \in Nat, LeftAfter(A, rl, lay, n - 1),
           RootsAt(g, A, lay, n), PeeledOff(g, A, rl, lay)
    PROVE  /\ UsedUp(deg) /\ Done(g, A, cr, cid, rl)
           /\ HandsOver(g, nxt, cr, cid, rl, lay, n)
<1>1. PICK D : Takes(g, ord, p, q, D)
  BY DEF Takes
<1>2. /\ Remains(g, A, D, deg) /\ Listed(A, ord, deg)
      /\ Counts(g, D, cr, nxt) /\ Painted(g, A, D, cr, cid, rl)
  BY <1>1 DEF Round, Takes
<1>3. AllFrom(g, A, D)
  <2>1. \A s \in Slot(g) : s \in D <=> s[1] \in A
    BY <1>1, <1>2, SortingEnd
  <2> QED
    BY <2>1 DEF AllFrom
<1>4. PICK B : B = {v \in Vertex : cr[v]}
  OBVIOUS
<1>5. \A v : v \in B <=> v \in Vertex /\ cr[v]
  BY <1>4
<1>6. LeftAfter(B, rl, lay, n)
  BY <1>2, <1>3, <1>5, EndLeft
<1>7. PeeledOff(g, B, rl, lay) /\ NoRegion(B, rl)
  BY <1>2, <1>3, <1>5, EndPeeled
<1>8. Due(g, B, cr, cid, nxt)
  BY <1>2, <1>3, <1>5, EndDue
<1>9. UsedUp(deg)
  <2>1. ASSUME NEW v \in Vertex PROVE deg[v] = 0
    <3>1. Into(g, A, v) \ D = {}
      BY <1>3 DEF AllFrom, Into, InSlots
    <3> QED
      BY <1>2, <3>1, FS_EmptySet DEF Remains
  <2> QED
    BY <2>1 DEF UsedUp
<1>10. B \in SUBSET Vertex
  BY <1>5
<1> QED
  BY <1>2, <1>3, <1>6, <1>7, <1>8, <1>9, <1>10 DEF Done, HandsOver

LEMMA PreEndRound ==
    ASSUME TypeInv, NEW A \in SUBSET Vertex, count \in Nat, RoundOf(A), PreEnd
    PROVE  \E B \in SUBSET Vertex : RoundOf(B)'
<1>1. /\ graph \in [Vertex -> Seq(Vertex)] /\ Acyclic(graph)
      /\ TopoOrder \in Seq(Vertex) /\ indeg \in [Vertex -> Int] /\ i \in Nat
      /\ cross_id \in Seq(Vertex) /\ root_layer \in [Vertex -> Nat]
  BY GraphType DEF TypeInv, TypeOK, OrderTypes, CounterTypes, RegionTypes, LoopTypes,
                   Batches
<1>2. /\ pc = "pre_process" /\ pc' = "next_layer" /\ i > Len(TopoOrder)
      /\ UNCHANGED <<graph, curInDegree, nextInDegree, cross, cross_id, root_located,
                     root_layer, count>>
  BY DEF PreEnd, scanVars, rootVars
<1>3. /\ LeftAfter(A, root_located, root_layer, count - 1)
      /\ PeeledOff(graph, A, root_located, root_layer)
      /\ A # {} /\ nextInDegree = Zero /\ RootsAt(graph, A, root_layer, count)
      /\ Round(graph, A, TopoOrder, i, j, indeg, curInDegree, cross, cross_id,
               root_located)
  BY <1>2 DEF RoundOf, InFirst, Finished, Scanning
<1>0. HandsOver(graph, curInDegree, cross, cross_id, root_located, root_layer, count)
  BY <1>1, <1>2, <1>3, RoundEnd
<1>4. PICK B \in SUBSET Vertex :
         /\ LeftAfter(B, root_located, root_layer, count)
         /\ PeeledOff(graph, B, root_located, root_layer)
         /\ Due(graph, B, cross, cross_id, curInDegree) /\ NoRegion(B, root_located)
  BY <1>0 DEF HandsOver
<1>5. RoundOf(B)'
  BY <1>2, <1>3, <1>4 DEF RoundOf, AtRoots, InFirst, AtNext, InRoots, InLater, AtEnd,
                          Finished, Scanning
<1> QED
  BY <1>5

LEMMA CrossEndRound ==
    ASSUME TypeInv, NEW A \in SUBSET Vertex, count \in Nat, RoundOf(A), CrossEnd
    PROVE  \E B \in SUBSET Vertex : RoundOf(B)'
<1>1. /\ graph \in [Vertex -> Seq(Vertex)] /\ Acyclic(graph)
      /\ TopoOrder_cross \in Seq(Vertex) /\ curInDegree \in [Vertex -> Int] /\ i \in Nat
      /\ cross_id \in Seq(Vertex) /\ root_layer \in [Vertex -> Nat]
  BY GraphType DEF TypeInv, TypeOK, OrderTypes, CounterTypes, RegionTypes, LoopTypes,
                   Batches
<1>2. /\ pc = "pre_process_cross" /\ pc' = "next_layer" /\ i > Len(TopoOrder_cross)
      /\ curInDegree' = nextInDegree /\ nextInDegree' = curInDegree
      /\ UNCHANGED <<graph, cross, cross_id, root_located, root_layer, count>>
  BY DEF CrossEnd, scanVars, rootVars
<1>3. /\ LeftAfter(A, root_located, root_layer, count - 1)
      /\ PeeledOff(graph, A, root_located, root_layer)
      /\ RootsAt(graph, A, root_layer, count)
      /\ Round(graph, A, TopoOrder_cross, i, j, curInDegree, nextInDegree, cross,
               cross_id, root_located)
  BY <1>2 DEF RoundOf, InLater, Finished, Scanning
<1>0. HandsOver(graph, nextInDegree, cross, cross_id, root_located, root_layer, count)
  BY <1>1, <1>2, <1>3, RoundEnd
<1>4. PICK B \in SUBSET Vertex :
         /\ LeftAfter(B, root_located, root_layer, count)
         /\ PeeledOff(graph, B, root_located, root_layer)
         /\ Due(graph, B, cross, cross_id, nextInDegree) /\ NoRegion(B, root_located)
  BY <1>0 DEF HandsOver
<1>5. curInDegree = Zero
  <2>1. UsedUp(curInDegree)
    BY <1>1, <1>2, <1>3, RoundEnd
  <2> QED
    BY <1>1, <2>1 DEF UsedUp, Zero
<1>6. RoundOf(B)'
  BY <1>2, <1>4, <1>5 DEF RoundOf, AtRoots, InFirst, AtNext, InRoots, InLater, AtEnd,
                          Finished, Scanning
<1> QED
  BY <1>6

---------------------------------------------------------------------------
(***************************************************************************)
(* The roots of a layer.                                                   *)
(***************************************************************************)
LEMMA LayerStartRound ==
    ASSUME TypeInv, NEW A \in SUBSET Vertex, count \in Nat, RoundOf(A), LayerStart
    PROVE  RoundOf(A)'
<1>1. /\ pc = "next_layer" /\ pc' = "layer_roots" /\ cross_id # <<>>
      /\ TopoOrder_cross' = <<>> /\ count' = count + 1 /\ i' = 1
      /\ UNCHANGED <<graph, curInDegree, nextInDegree, cross, cross_id, root_located,
                     root_layer>>
  BY DEF LayerStart, scanVars
<1>2. /\ LeftAfter(A, root_located, root_layer, count)
      /\ PeeledOff(graph, A, root_located, root_layer)
      /\ nextInDegree = Zero /\ Due(graph, A, cross, cross_id, curInDegree)
      /\ NoRegion(A, root_located)
  BY <1>1 DEF RoundOf, AtNext, Finished, Scanning
<1>3. (count + 1) - 1 = count
  OBVIOUS
<1>4. A # {}
  <2>1. cross_id \in Seq(Vertex)
    BY DEF TypeInv, TypeOK, RegionTypes
  <2>2. 1 \in 1 .. Len(cross_id)
    BY <1>1, <2>1
  <2>3. cross_id[1] \in A
    BY <1>2, <2>2 DEF Due, Elems
  <2> QED
    BY <2>3
<1>5. RootsRead(A, curInDegree, cross_id, 1, <<>>, root_located, root_layer, count + 1)
  <2>1. Elems(<<>>) = {} /\ Distinct(<<>>)
    BY DEF Elems, Distinct
  <2>2. ~\E a \in 1 .. Len(cross_id) : a < 1
    BY DEF TypeInv, TypeOK, RegionTypes
  <2> QED
    BY <1>2, <2>1, <2>2 DEF RootsRead, NoRegion
<1>6. Finished' = count
  BY <1>1, <1>3 DEF Finished, Scanning
<1> QED
  BY <1>1, <1>2, <1>4, <1>5, <1>6 DEF RoundOf, AtRoots, InFirst, AtNext, InRoots,
                                      InLater, AtEnd

\* One remembered vertex is looked at; it is not a root.
LEMMA RootsReadSkip ==
    ASSUME NEW A, NEW deg, NEW cid \in Seq(Vertex), NEW k \in 1 .. Len(cid), NEW ord,
           NEW rl, NEW lay, NEW n, RootsRead(A, deg, cid, k, ord, rl, lay, n),
           deg[cid[k]] # 0
    PROVE  RootsRead(A, deg, cid, k + 1, ord, rl, lay, n)
<1>1. \A a \in 1 .. Len(cid) : a < k + 1 <=> a < k \/ a = k
  OBVIOUS
<1> QED
  BY <1>1 DEF RootsRead

\* It is one.
LEMMA RootsReadAdd ==
    ASSUME NEW A \in SUBSET Vertex, NEW deg, NEW cid \in Seq(Vertex), Distinct(cid),
           NEW k \in 1 .. Len(cid), NEW ord \in Seq(Vertex),
           NEW rl \in [Vertex -> Int], NEW lay \in [Vertex -> Int], NEW n,
           RootsRead(A, deg, cid, k, ord, rl, lay, n),
           NEW r \in A, r = cid[k], deg[r] = 0
    PROVE  RootsRead(A, deg, cid, k + 1, Append(ord, r), [rl EXCEPT ![r] = r + 1],
                     [lay EXCEPT ![r] = n], n)
<1>1. \A a \in 1 .. Len(cid) : a < k + 1 <=> a < k \/ a = k
  OBVIOUS
<1>2. r \notin Elems(ord)
  <2>1. \A a \in 1 .. Len(cid) : cid[a] = r => a = k
    BY DEF Distinct
  <2>2. ~(k < k)
    OBVIOUS
  <2> QED
    BY <2>1, <2>2 DEF RootsRead
<1>3. Elems(Append(ord, r)) = Elems(ord) \cup {r} /\ Distinct(Append(ord, r))
  <2>1. Elems(Append(ord, r)) = Elems(ord) \cup {r}
    BY LongerElems
  <2>2. Distinct(ord)
    BY DEF RootsRead
  <2> QED
    BY <1>2, <2>1, <2>2, LongerDistinct
<1>4. PICK ord2, rl2, lay2 :
         /\ ord2 = Append(ord, r) /\ rl2 = [rl EXCEPT ![r] = r + 1]
         /\ lay2 = [lay EXCEPT ![r] = n]
  OBVIOUS
<1>5. /\ rl2[r] = r + 1 /\ lay2[r] = n
      /\ \A v \in A : v # r => rl2[v] = rl[v] /\ lay2[v] = lay[v]
  BY <1>4
<1>6. /\ Distinct(ord2) /\ \A v : v \in Elems(ord2) <=> v \in Elems(ord) \/ v = r
  BY <1>3, <1>4
<1>7. \A v : v \in Elems(ord2) <=>
         \E a \in 1 .. Len(cid) : a < k + 1 /\ cid[a] = v /\ deg[v] = 0
  BY <1>1, <1>6 DEF RootsRead
<1>8. \A v \in A : IF v \in Elems(ord2) THEN rl2[v] = v + 1 /\ lay2[v] = n
                                        ELSE rl2[v] = 0
  BY <1>2, <1>5, <1>6 DEF RootsRead
<1> QED
  BY <1>4, <1>6, <1>7, <1>8 DEF RootsRead

LEMMA LayerRootRound ==
    ASSUME TypeInv, NEW A \in SUBSET Vertex, count \in Nat \ {0}, RoundOf(A), LayerRoot
    PROVE  RoundOf(A)'
<1>1. /\ graph \in [Vertex -> Seq(Vertex)] /\ cross_id \in Seq(Vertex)
      /\ i \in Nat \ {0} /\ TopoOrder_cross \in Seq(Vertex)
      /\ root_located \in [Vertex -> Int] /\ root_layer \in [Vertex -> Int]
  BY DEF TypeInv, TypeOK, OrderTypes, RegionTypes, LoopTypes
<1>2. PICK r : r = cross_id[i]
  OBVIOUS
<1>3. /\ pc = "layer_roots" /\ pc' = pc /\ i <= Len(cross_id) /\ i' = i + 1
      /\ UNCHANGED <<graph, curInDegree, nextInDegree, cross, cross_id, count>>
  BY DEF LayerRoot
<1>4. /\ LeftAfter(A, root_located, root_layer, count - 1)
      /\ PeeledOff(graph, A, root_located, root_layer)
      /\ A # {} /\ nextInDegree = Zero /\ Due(graph, A, cross, cross_id, curInDegree)
      /\ RootsRead(A, curInDegree, cross_id, i, TopoOrder_cross, root_located,
                   root_layer, count)
  BY <1>3 DEF RoundOf, InRoots, Finished, Scanning
<1>5. i \in 1 .. Len(cross_id)
  BY <1>1, <1>3
<1>6. r \in A /\ Distinct(cross_id)
  BY <1>2, <1>4, <1>5 DEF Due, Elems
<1>7. /\ LeftAfter(A, root_located', root_layer', count - 1)
      /\ PeeledOff(graph, A, root_located', root_layer')
      /\ RootsRead(A, curInDegree, cross_id, i + 1, TopoOrder_cross', root_located',
                   root_layer', count)
  <2>1. CASE curInDegree[r] # 0
    <3>1. UNCHANGED <<TopoOrder_cross, root_located, root_layer>>
      BY <1>2, <2>1 DEF LayerRoot
    <3>2. RootsRead(A, curInDegree, cross_id, i + 1, TopoOrder_cross, root_located,
                    root_layer, count)
      BY <1>1, <1>2, <1>4, <1>5, <2>1, RootsReadSkip
    <3> QED
      BY <1>4, <3>1, <3>2
  <2>2. CASE curInDegree[r] = 0
    <3>1. /\ TopoOrder_cross' = Append(TopoOrder_cross, r)
          /\ root_located' = [root_located EXCEPT ![r] = r + 1]
          /\ root_layer' = [root_layer EXCEPT ![r] = count]
      BY <1>2, <2>2 DEF LayerRoot
    <3>2. RootsRead(A, curInDegree, cross_id, i + 1, Append(TopoOrder_cross, r),
                    [root_located EXCEPT ![r] = r + 1],
                    [root_layer EXCEPT ![r] = count], count)
      BY <1>1, <1>2, <1>4, <1>5, <1>6, <2>2, RootsReadAdd
    <3>3. SameOutside(A, root_located, root_located') /\ SameOutside(A, root_layer, root_layer')
      BY <1>6, <3>1 DEF SameOutside
    <3>4. PeeledOff(graph, A, root_located', root_layer')
      BY <1>1, <1>4, <3>3, PeeledKept
    <3>5. LeftAfter(A, root_located', root_layer', count - 1)
      <4>1. SUFFICES ASSUME NEW v \in Vertex
                     PROVE  v \in A <=> \/ root_located'[v] = 0
                                        \/ ~(root_layer'[root_located'[v] - 1] <= count - 1)
        BY DEF LeftAfter
      <4>2. CASE v \in A
        <5>1. \/ root_located'[v] = 0
              \/ root_located'[v] = v + 1 /\ root_layer'[v] = count
          BY <1>1, <1>4, <1>6, <3>1, <4>2 DEF RootsRead
        <5>2. (v + 1) - 1 = v /\ ~(count <= count - 1)
          BY MaxIDAssumption DEF Vertex
        <5> QED
          BY <4>2, <5>1, <5>2
      <4>3. CASE v \notin A
        <5>1. root_located[v] # 0 /\ root_layer[root_located[v] - 1] <= count - 1
          BY <1>4, <4>3 DEF LeftAfter
        <5>2. root_located[v] - 1 \in Vertex \ A
          BY <1>4, <4>3 DEF PeeledOff
        <5>3. /\ root_located'[v] = root_located[v]
              /\ root_layer'[root_located[v] - 1] = root_layer[root_located[v] - 1]
          BY <3>3, <4>3, <5>2 DEF SameOutside
        <5> QED
          BY <4>3, <5>1, <5>3
      <4> QED
        BY <4>2, <4>3
    <3> QED
      BY <3>1, <3>2, <3>4, <3>5
  <2> QED
    BY <2>1, <2>2
<1>8. Finished' = count - 1
  BY <1>3 DEF Finished, Scanning
<1> QED
  BY <1>3, <1>4, <1>7, <1>8 DEF RoundOf, AtRoots, InFirst, AtNext, InRoots, InLater,
                                AtEnd

\* When every remembered vertex was looked at, the roots are the sources.
LEMMA RootsAllRead ==
    ASSUME NEW g \in [Vertex -> Seq(Vertex)], NEW A \in SUBSET Vertex, NEW cr,
           NEW deg, NEW cid \in Seq(Vertex), NEW k, k > Len(cid), k \in Nat, NEW ord,
           NEW rl, NEW lay, NEW n, Due(g, A, cr, cid, deg),
           RootsRead(A, deg, cid, k, ord, rl, lay, n)
    PROVE  /\ Remains(g, A, {}, deg) /\ Listed(A, ord, deg) /\ RootsAt(g, A, lay, n)
           /\ OwnRegions(A, ord, rl)
<1>1. \A v : v \in Elems(ord) <=> v \in Elems(cid) /\ deg[v] = 0
  <2>1. \A a \in 1 .. Len(cid) : a < k
    OBVIOUS
  <2> QED
    BY <2>1 DEF RootsRead, Elems
<1>2. ASSUME NEW v \in A PROVE v \in SourcesIn(g, A) <=> deg[v] = 0
  <2>1. deg[v] = Cardinality(Into(g, A, v) \ {})
    BY DEF Due, Remains
  <2>2. Cardinality(Into(g, A, v) \ {}) = 0 <=> Into(g, A, v) \ {} = {}
    BY IntoFinite, FS_EmptySet
  <2> QED
    BY <2>1, <2>2 DEF SourcesIn
<1>3. /\ SourcesIn(g, A) \subseteq Elems(cid) /\ Elems(cid) \subseteq A
      /\ SourcesIn(g, A) \subseteq A /\ Remains(g, A, {}, deg)
  BY DEF Due, SourcesIn
<1>4. Listed(A, ord, deg)
  BY <1>1, <1>2, <1>3 DEF Listed, RootsRead
<1>5. RootsAt(g, A, lay, n)
  BY <1>1, <1>2, <1>3 DEF RootsAt, RootsRead
<1> QED
  BY <1>3, <1>4, <1>5 DEF RootsRead, OwnRegions

LEMMA CrossStartRound ==
    ASSUME TypeInv, NEW A \in SUBSET Vertex, count \in Nat, RoundOf(A), CrossStart
    PROVE  RoundOf(A)'
<1>1. /\ graph \in [Vertex -> Seq(Vertex)] /\ cross_id \in Seq(Vertex) /\ i \in Nat
  BY DEF TypeInv, TypeOK, OrderTypes, RegionTypes, LoopTypes
<1>2. /\ pc = "layer_roots" /\ pc' = "pre_process_cross" /\ i > Len(cross_id)
      /\ cross' = None /\ cross_id' = <<>> /\ i' = 1 /\ j' = 1
      /\ UNCHANGED <<graph, curInDegree, nextInDegree, root_located, root_layer, count,
                     TopoOrder_cross>>
  BY DEF CrossStart, rootVars
<1>3. /\ LeftAfter(A, root_located, root_layer, count - 1)
      /\ PeeledOff(graph, A, root_located, root_layer)
      /\ A # {} /\ nextInDegree = Zero /\ Due(graph, A, cross, cross_id, curInDegree)
      /\ RootsRead(A, curInDegree, cross_id, i, TopoOrder_cross, root_located,
                   root_layer, count)
  BY <1>2 DEF RoundOf, InRoots, Finished, Scanning
<1>4. /\ Remains(graph, A, {}, curInDegree) /\ Listed(A, TopoOrder_cross, curInDegree)
      /\ RootsAt(graph, A, root_layer, count)
      /\ OwnRegions(A, TopoOrder_cross, root_located)
  BY <1>1, <1>2, <1>3, RootsAllRead
<1>5. Round(graph, A, TopoOrder_cross, 1, 1, curInDegree, Zero, None, <<>>, root_located)
  BY <1>1, <1>4, RoundStart
<1>6. Finished' = count - 1
  BY <1>2 DEF Finished, Scanning
<1> QED
  BY <1>2, <1>3, <1>4, <1>5, <1>6 DEF RoundOf, AtRoots, InFirst, AtNext, InRoots,
                                      InLater, AtEnd

\* Nothing was remembered, so nothing is left: it would have a source.
LEMMA LayersEndRound ==
    ASSUME TypeInv, NEW A \in SUBSET Vertex, RoundOf(A), LayersEnd
    PROVE  RoundOf(A)'
<1>1. graph \in [Vertex -> Seq(Vertex)] /\ Acyclic(graph)
  BY GraphType DEF TypeInv, Batches
<1>2. /\ pc = "next_layer" /\ pc' = "layered" /\ cross_id = <<>>
      /\ UNCHANGED <<graph, curInDegree, nextInDegree, cross, cross_id, root_located,
                     root_layer, count>>
  BY DEF LayersEnd, scanVars, rootVars
<1>3. /\ LeftAfter(A, root_located, root_layer, count)
      /\ PeeledOff(graph, A, root_located, root_layer)
      /\ nextInDegree = Zero /\ Due(graph, A, cross, cross_id, curInDegree)
  BY <1>2 DEF RoundOf, AtNext, Finished, Scanning
<1>4. SourcesIn(graph, A) = {}
  BY <1>2, <1>3 DEF Due, Elems
<1>5. A = {}
  <2>1. SUFFICES ASSUME A # {} PROVE FALSE
    OBVIOUS
  <2>2. PICK v \in A : \A u \in A : v \notin Succ(graph, u)
    BY <1>1, <2>1 DEF Acyclic
  <2>3. Into(graph, A, v) = {}
    <3>1. SUFFICES ASSUME NEW s \in Into(graph, A, v) PROVE FALSE
      OBVIOUS
    <3>2. s \in Slot(graph) /\ Target(graph, s) = v /\ s[1] \in A
      BY DEF Into, InSlots
    <3>3. s[2] \in 1 .. Len(graph[s[1]])
      BY <1>1, <3>2, SlotFields
    <3> QED
      BY <2>2, <3>2, <3>3 DEF Target, Succ
  <2> QED
    BY <1>4, <2>2, <2>3 DEF SourcesIn
<1>6. Finished' = count
  BY <1>2 DEF Finished, Scanning
<1> QED
  BY <1>2, <1>3, <1>5, <1>6 DEF RoundOf, AtRoots, InFirst, AtNext, InRoots, InLater,
                                AtEnd

LEMMA ReadRootsRound ==
    ASSUME TypeInv, ScanInv, RoundOf(Vertex), ReadRoots
    PROVE  RoundOf(Vertex)'
<1>1. graph \in [Vertex -> Seq(Vertex)]
  BY DEF TypeInv, TypeOK, OrderTypes
<1>2. /\ pc = "roots" /\ pc' = "pre_process" /\ indeg = InDegree(graph)
      /\ i = 1 /\ j = 1 /\ count = 1
      /\ UNCHANGED <<graph, indeg, curInDegree, nextInDegree, cross, cross_id, count,
                     i, j>>
      /\ TopoOrder' \in RootOrders
      /\ root_located' = [v \in Vertex |-> IF v \in ForwardRoots THEN v + 1 ELSE 0]
      /\ root_layer' = [v \in Vertex |-> IF v \in ForwardRoots THEN count ELSE 0]
  BY DEF ReadRoots, ScanInv, Untouched
<1>3. cross = None /\ cross_id = <<>> /\ curInDegree = Zero /\ nextInDegree = Zero
  BY <1>2 DEF RoundOf, AtRoots
<1>4. ForwardRoots = {v \in Vertex : indeg[v] = 0}
  BY <1>2, RootsAreSources
<1>5. Distinct(TopoOrder') /\ Elems(TopoOrder') = ForwardRoots
  BY <1>2, RootOrderType DEF Distinct
<1>6. Listed(Vertex, TopoOrder', indeg)
  BY <1>4, <1>5 DEF Listed
<1>7. ASSUME NEW v \in Vertex PROVE indeg[v] = Cardinality(Into(graph, Vertex, v))
  <2>1. Into(graph, Vertex, v) = InSlots(graph, v)
    BY <1>1, SlotFields DEF Into, InSlots
  <2> QED
    BY <1>1, <1>2, <2>1, InDegreeZero
<1>8. Remains(graph, Vertex, {}, indeg)
  <2>1. \A v : Into(graph, Vertex, v) \ {} = Into(graph, Vertex, v)
    OBVIOUS
  <2> QED
    BY <1>7, <2>1 DEF Remains
<1>9. OwnRegions(Vertex, TopoOrder', root_located')
  BY <1>2, <1>5 DEF OwnRegions
<1>10. Round(graph, Vertex, TopoOrder', 1, 1, indeg, Zero, None, <<>>, root_located')
  BY <1>1, <1>6, <1>8, <1>9, RoundStart
<1>11. RootsAt(graph, Vertex, root_layer', 1)
  <2>1. SUFFICES ASSUME NEW v \in SourcesIn(graph, Vertex) PROVE v \in ForwardRoots
    BY <1>2, <1>4 DEF RootsAt
  <2>2. v \in Vertex /\ Into(graph, Vertex, v) = {}
    BY DEF SourcesIn
  <2> QED
    BY <1>4, <1>7, <2>2, FS_EmptySet
<1>12. LeftAfter(Vertex, root_located', root_layer', 0)
  <2>1. SUFFICES ASSUME NEW v \in Vertex
                 PROVE  \/ root_located'[v] = 0
                        \/ ~(root_layer'[root_located'[v] - 1] <= 0)
    BY DEF LeftAfter
  <2>2. (v + 1) - 1 = v
    BY MaxIDAssumption DEF Vertex
  <2> QED
    BY <1>2, <2>2
<1>13. PeeledOff(graph, Vertex, root_located', root_layer')
  BY <1>1, SuccVertex DEF PeeledOff
<1>14. Finished' = 0 /\ Vertex # {}
  <2>1. 0 \in Vertex
    BY MaxIDAssumption DEF Vertex
  <2> QED
    BY <1>2, <2>1 DEF Finished, Scanning
<1> QED
  BY <1>2, <1>3, <1>10, <1>11, <1>12, <1>13, <1>14
     DEF RoundOf, AtRoots, InFirst, AtNext, InRoots, InLater, AtEnd

---------------------------------------------------------------------------
LEMMA RoundInvInit == Init => RoundInv
<1> SUFFICES ASSUME Init PROVE RoundInv
  OBVIOUS
<1>1. graph \in [Vertex -> Seq(Vertex)]
  BY GraphType DEF Init
<1>2. pc = "roots" /\ count = 1
  BY DEF Init
<1>3. AtRoots(Vertex) /\ LeftAfter(Vertex, root_located, root_layer, Finished)
  BY DEF Init, AtRoots, LeftAfter, Zero
<1>4. PeeledOff(graph, Vertex, root_located, root_layer)
  BY <1>1, SuccVertex DEF PeeledOff
<1>5. RoundOf(Vertex)
  BY <1>2, <1>3, <1>4 DEF RoundOf, InFirst, AtNext, InRoots, InLater, AtEnd
<1> QED
  BY <1>2, <1>5 DEF RoundInv

LEMMA RoundInvNext == TypeInv /\ ScanInv /\ RoundInv /\ [Next]_vars => RoundInv'
<1> SUFFICES ASSUME TypeInv, ScanInv, RoundInv, [Next]_vars PROVE RoundInv'
  OBVIOUS
<1>1. PICK A \in SUBSET Vertex : RoundOf(A)
  BY DEF RoundInv
<1>2. count \in Nat \ {0} /\ count \in Nat
  BY DEF RoundInv
<1>3. count' \in Nat \ {0}
  BY <1>2 DEF Next, ReadRoots, PreEdge, PreVertex, PreBatch, PreEnd, LayerStart,
              LayerRoot, CrossStart, CrossEdge, CrossVertex, CrossBatch, CrossEnd,
              LayersEnd, rootVars, vars
<1>4. ASSUME RoundOf(A)' PROVE RoundInv'
  BY <1>3, <1>4 DEF RoundInv
<1>5. ASSUME NEW B \in SUBSET Vertex, RoundOf(B)' PROVE RoundInv'
  BY <1>3, <1>5 DEF RoundInv
<1>6. CASE ReadRoots
  <2>1. A = Vertex
    BY <1>1, <1>6 DEF ReadRoots, RoundOf, AtRoots
  <2> QED
    BY <1>1, <1>4, <1>6, <2>1, ReadRootsRound
<1>7. CASE PreEdge
  BY <1>1, <1>2, <1>4, <1>7, PreEdgeRound
<1>8. CASE PreVertex \/ CrossVertex
  BY <1>1, <1>4, <1>8, VertexRound
<1>9. CASE PreBatch \/ CrossBatch \/ UNCHANGED vars
  <2>1. UNCHANGED <<graph, pc, curInDegree, nextInDegree, cross, cross_id,
                    root_located, root_layer, count, indeg, TopoOrder,
                    TopoOrder_cross, i, j>>
    BY <1>9 DEF PreBatch, CrossBatch, vars, scanVars, rootVars, topoVars
  <2> QED
    BY <1>1, <1>4, <2>1, BatchRound
<1>10. CASE PreEnd
  BY <1>1, <1>2, <1>5, <1>10, PreEndRound
<1>11. CASE LayerStart
  BY <1>1, <1>2, <1>4, <1>11, LayerStartRound
<1>12. CASE LayerRoot
  BY <1>1, <1>2, <1>4, <1>12, LayerRootRound
<1>13. CASE CrossStart
  BY <1>1, <1>2, <1>4, <1>13, CrossStartRound
<1>14. CASE CrossEdge
  BY <1>1, <1>2, <1>4, <1>14, CrossEdgeRound
<1>15. CASE CrossEnd
  BY <1>1, <1>2, <1>5, <1>15, CrossEndRound
<1>16. CASE LayersEnd
  BY <1>1, <1>4, <1>16, LayersEndRound
<1> QED
  BY <1>6, <1>7, <1>8, <1>9, <1>10, <1>11, <1>12, <1>13, <1>14, <1>15, <1>16 DEF Next

LEMMA RoundInvariance == Spec => [](TypeInv /\ ScanInv /\ RoundInv)
<1>1. Init /\ TypeInv /\ ScanInv => RoundInv
  BY RoundInvInit
<1>2. (TypeInv /\ ScanInv) /\ RoundInv /\ [Next]_vars => RoundInv'
  BY RoundInvNext
<1> QED
  BY <1>1, <1>2, ScanInvariance, PTL DEF Spec

\* No counter of construct_index wraps, the arrays the rounds swap are zero
\* where the next round starts to count in them, and in the end an edge stays
\* in its region or leads to a later layer: for every acyclic graph.
THEOREM LayeredTheorem == Spec => []Layered
<1>1. ASSUME TypeInv, ScanInv, RoundInv PROVE Layered
  <2>1. PICK A \in SUBSET Vertex : RoundOf(A)
    BY <1>1 DEF RoundInv
  <2>2. graph \in [Vertex -> Seq(Vertex)] /\ curInDegree \in [Vertex -> Int]
    BY <1>1 DEF TypeInv, TypeOK, OrderTypes, CounterTypes
  <2>3. \A v \in Vertex : Zero[v] >= 0
    BY DEF Zero
  <2>4. pc \in {"roots", "pre_process", "next_layer", "layer_roots",
                "pre_process_cross", "layered"}
    BY <1>1 DEF TypeInv, TypeOK, LoopTypes
  <2>5. ASSUME NEW L, NEW D, NEW deg, Remains(graph, L, D, deg)
        PROVE  \A v \in Vertex : deg[v] >= 0
    <3>1. ASSUME NEW v \in Vertex PROVE Cardinality(Into(graph, L, v) \ D) \in Nat
      BY <2>2, IntoFinite
    <3>2. ASSUME NEW v \in Vertex PROVE deg[v] = Cardinality(Into(graph, L, v) \ D)
      BY <2>5 DEF Remains
    <3>3. ASSUME NEW v \in Vertex PROVE deg[v] >= 0
      <4>1. PICK c : c = Cardinality(Into(graph, L, v) \ D)
        OBVIOUS
      <4>2. c \in Nat
        BY <3>1, <4>1
      <4>3. deg[v] = c
        BY <3>2, <4>1
      <4> QED
        BY <4>2, <4>3
    <3> QED
      BY <3>3
  <2>6. ASSUME NEW D, NEW deg, Counts(graph, D, cross, deg), D \subseteq Slot(graph)
        PROVE  \A v \in Vertex : deg[v] >= 0
    <3>1. ASSUME NEW v \in Vertex PROVE Cardinality(Hot(graph, D, cross, v)) \in Nat
      BY <2>2, <2>6, SlotFinite, FS_Subset, FS_CardinalityType DEF Hot
    <3> QED
      BY <2>6, <3>1 DEF Counts
  <2>7. CASE pc = "roots"
    <3>1. \A v \in Vertex : curInDegree[v] >= 0 /\ nextInDegree[v] >= 0
      BY <2>1, <2>3, <2>7 DEF RoundOf, AtRoots
    <3> QED
      BY <1>1, <2>7, <3>1 DEF ScanInv, NoWrap, Layered, NoUnderflow, Drained, NoCrossEdges
  <2>8. CASE pc \in {"pre_process", "pre_process_cross"}
    <3>1. PICK D \in SUBSET Slot(graph) :
             \/ nextInDegree = Zero /\ Counts(graph, D, cross, curInDegree)
             \/ /\ Remains(graph, A, D, curInDegree)
                /\ Counts(graph, D, cross, nextInDegree)
      BY <2>1, <2>8 DEF RoundOf, InFirst, InLater, Round, Painted, Ordered
    <3>2. \A v \in Vertex : curInDegree[v] >= 0 /\ nextInDegree[v] >= 0
      BY <2>3, <2>5, <2>6, <3>1
    <3> QED
      BY <1>1, <2>8, <3>2 DEF ScanInv, NoWrap, Layered, NoUnderflow, Drained, NoCrossEdges
  <2>9. CASE pc \in {"next_layer", "layer_roots", "layered"}
    <3>1. nextInDegree = Zero /\ Remains(graph, A, {}, curInDegree)
      BY <2>1, <2>9 DEF RoundOf, AtNext, InRoots, AtEnd, Due
    <3>2. NoUnderflow
      BY <1>1, <2>3, <2>5, <3>1 DEF NoUnderflow, ScanInv, NoWrap
    <3>3. Drained
      <4>1. SUFFICES ASSUME pc = "layered" PROVE curInDegree = Zero
        BY <3>1 DEF Drained
      <4>2. A = {}
        BY <2>1, <4>1 DEF RoundOf, AtEnd
      <4>3. ASSUME NEW v \in Vertex PROVE curInDegree[v] = 0
        <5>1. Into(graph, A, v) \ {} = {}
          BY <4>2 DEF Into
        <5> QED
          BY <3>1, <5>1, FS_EmptySet DEF Remains
      <4> QED
        BY <2>2, <4>3 DEF Zero
    <3>4. NoCrossEdges
      <4>1. SUFFICES ASSUME pc = "layered" PROVE NoCrossEdges
        BY DEF NoCrossEdges
      <4>2. A = {} /\ LeftAfter(A, root_located, root_layer, Finished)
            /\ PeeledOff(graph, A, root_located, root_layer)
        BY <2>1, <4>1 DEF RoundOf, AtEnd
      <4> QED
        BY <4>2 DEF NoCrossEdges, LayerOf, LeftAfter, PeeledOff
    <3> QED
      BY <3>2, <3>3, <3>4 DEF Layered
  <2> QED
    BY <2>4, <2>7, <2>8, <2>9
<1> QED
  BY <1>1, RoundInvariance, PTL

---------------------------------------------------------------------------
(***************************************************************************)
(* Whose a vertex is at the end of a round: the sources of A that reach it *)
(* inside A.                                                               *)
(***************************************************************************)
Own(g, A, r, v) == r \in SourcesIn(g, A) /\ ReachableIn(g, A, r, v)

\* An edge hands on the owners of its tail.
LEMMA OwnStep ==
    ASSUME NEW g, NEW A, NEW r, NEW u \in A, NEW v \in A, v \in Succ(g, u),
           Own(g, A, r, u)
    PROVE  Own(g, A, r, v)
BY DEF Own, ReachableIn, Closed

\* A member of A that no member of the set W of A points to.
LEMMA FirstOf ==
    ASSUME NEW g, Acyclic(g), NEW A \in SUBSET Vertex, NEW W \in SUBSET A, W # {}
    PROVE  \E w \in W : \A u \in W : w \notin Succ(g, u)
BY DEF Acyclic

\* The end of a round, in the terms the owners are about.
Settlement(g, A, cr, rl) ==
    /\ \A v \in Vertex : cr[v] => v \in A /\ rl[v] = 0
    /\ \A u \in A : \A v \in Succ(g, u) :
          (cr[u] => cr[v]) /\ (~cr[u] => cr[v] \/ rl[v] = rl[u])
    /\ \A v \in SourcesIn(g, A) : rl[v] = v + 1
    /\ \A v \in A : ~cr[v] =>
          /\ rl[v] # 0 /\ rl[v] - 1 \in SourcesIn(g, A)
          /\ \/ v = rl[v] - 1
             \/ \E u \in A : v \in Succ(g, u) /\ rl[u] = rl[v]
    /\ \A v \in A : cr[v] =>
          \/ \E u \in A : v \in Succ(g, u) /\ cr[u]
          \/ \E u, w \in A :
                /\ v \in Succ(g, u) /\ v \in Succ(g, w)
                /\ ~cr[u] /\ ~cr[w] /\ rl[u] # rl[w]

LEMMA DoneSettles ==
    ASSUME NEW g \in [Vertex -> Seq(Vertex)], NEW A \in SUBSET Vertex,
           NEW cr, NEW cid, NEW rl, Done(g, A, cr, cid, rl)
    PROVE  Settlement(g, A, cr, rl)
<1>1. PICK D : Painted(g, A, D, cr, cid, rl) /\ AllFrom(g, A, D)
  BY DEF Done
<1>2. /\ Regions(g, A, D, cr, rl) /\ Spreads(g, D, cr, rl) /\ Ordered(g, A, D)
      /\ Crossings(g, A, D, cr, cid, rl)
  BY <1>1 DEF Painted
<1>3. ASSUME NEW s \in D
      PROVE  s[1] \in A /\ Target(g, s) \in Succ(g, s[1])
  <2>1. s \in Slot(g) /\ s[1] \in A
    BY <1>2 DEF Ordered
  <2> QED
    BY <2>1, SlotFields DEF Target, Succ
<1>4. ASSUME NEW u \in A, NEW v \in Succ(g, u)
      PROVE  (cr[u] => cr[v]) /\ (~cr[u] => cr[v] \/ rl[v] = rl[u])
  <2>1. u \in Vertex
    OBVIOUS
  <2>2. PICK s \in Slot(g) : s[1] = u /\ Target(g, s) = v
    BY <2>1, EdgeSlot
  <2>3. s \in D
    BY <1>1, <2>2 DEF AllFrom
  <2> QED
    BY <1>2, <2>2, <2>3 DEF Spreads
<1>5. ASSUME NEW v \in A, ~cr[v]
      PROVE  /\ rl[v] # 0 /\ rl[v] - 1 \in SourcesIn(g, A)
             /\ \/ v = rl[v] - 1
                \/ \E u \in A : v \in Succ(g, u) /\ rl[u] = rl[v]
  <2>1. rl[v] # 0 /\ rl[v] - 1 \in SourcesIn(g, A)
    BY <1>1, <1>5, EndRegion
  <2>2. CASE v \in SourcesIn(g, A)
    <3>1. rl[v] = v + 1 /\ (v + 1) - 1 = v
      BY <1>2, <2>2, MaxIDAssumption DEF Regions, Vertex
    <3> QED
      BY <2>1, <3>1
  <2>3. CASE v \notin SourcesIn(g, A)
    <3>1. PICK s \in D : Target(g, s) = v /\ rl[s[1]] = rl[v]
      BY <1>2, <2>1, <2>3 DEF Regions
    <3> QED
      BY <1>3, <2>1, <3>1
  <2> QED
    BY <2>2, <2>3
<1>6. ASSUME NEW v \in A, cr[v]
      PROVE  \/ \E u \in A : v \in Succ(g, u) /\ cr[u]
             \/ \E u, w \in A :
                   /\ v \in Succ(g, u) /\ v \in Succ(g, w)
                   /\ ~cr[u] /\ ~cr[w] /\ rl[u] # rl[w]
  <2>1. CASE Hot(g, D, cr, v) # {}
    <3>1. PICK s \in D : Target(g, s) = v /\ cr[s[1]]
      BY <2>1 DEF Hot
    <3> QED
      BY <1>3, <3>1
  <2>2. CASE TwoRegions(g, D, cr, rl, v)
    <3>1. PICK s, t \in D :
             /\ Target(g, s) = v /\ Target(g, t) = v
             /\ ~cr[s[1]] /\ ~cr[t[1]] /\ rl[s[1]] # rl[t[1]]
      BY <2>2 DEF TwoRegions
    <3> QED
      BY <1>3, <3>1
  <2> QED
    BY <1>2, <1>6, <2>1, <2>2 DEF Crossings
<1>7. /\ \A v \in Vertex : cr[v] => v \in A /\ rl[v] = 0
      /\ \A v \in SourcesIn(g, A) : rl[v] = v + 1
  BY <1>2 DEF Regions
<1> QED
  BY <1>4, <1>5, <1>6, <1>7 DEF Settlement

OwnedBy(g, A, r, v) == \A t : Own(g, A, t, v) <=> t = r

\* An uncrossed vertex has one owner, the root of its region.
LEMMA OneOwner ==
    ASSUME NEW g \in [Vertex -> Seq(Vertex)], Acyclic(g), NEW A \in SUBSET Vertex,
           NEW cr, NEW rl, Settlement(g, A, cr, rl), NEW v \in A, ~cr[v]
    PROVE  OwnedBy(g, A, rl[v] - 1, v)
<1>1. PICK r0 : r0 = rl[v] - 1
  OBVIOUS
<1>2. /\ \A w \in Vertex : cr[w] => w \in A /\ rl[w] = 0
      /\ \A u \in A : \A w \in Succ(g, u) :
            (cr[u] => cr[w]) /\ (~cr[u] => cr[w] \/ rl[w] = rl[u])
      /\ \A w \in SourcesIn(g, A) : rl[w] = w + 1
      /\ \A w \in A : ~cr[w] =>
            /\ rl[w] # 0 /\ rl[w] - 1 \in SourcesIn(g, A)
            /\ \/ w = rl[w] - 1
               \/ \E u \in A : w \in Succ(g, u) /\ rl[u] = rl[w]
  BY DEF Settlement
<1>3. r0 \in SourcesIn(g, A) /\ SourcesIn(g, A) \subseteq A
  BY <1>1, <1>2 DEF SourcesIn
<1>4. ReachableIn(g, A, r0, v)
  <2>1. SUFFICES ASSUME NEW S \in SUBSET A, r0 \in S, Closed(g, A, S), v \notin S
                 PROVE  FALSE
    BY DEF ReachableIn
  <2>2. PICK W \in SUBSET A : \A w : w \in W <=> w \in A /\ ~cr[w] /\ rl[w] = rl[v] /\ w \notin S
    <3>1. {w \in A : ~cr[w] /\ rl[w] = rl[v] /\ w \notin S} \in SUBSET A
      OBVIOUS
    <3> QED
      BY <3>1
  <2>3. v \in W
    BY <2>1, <2>2
  <2>4. PICK w \in W : \A u \in W : w \notin Succ(g, u)
    BY <2>3, FirstOf
  <2>5. w \in A /\ ~cr[w] /\ rl[w] = rl[v] /\ w \notin S
    BY <2>2
  <2>6. w # r0
    BY <2>1, <2>5
  <2>7. PICK u \in A : w \in Succ(g, u) /\ rl[u] = rl[w]
    BY <1>1, <1>2, <2>5, <2>6
  <2>8. ~cr[u]
    BY <1>2, <2>5, <2>7
  <2>9. u \in S
    BY <2>2, <2>4, <2>5, <2>7, <2>8
  <2> QED
    BY <2>1, <2>5, <2>7, <2>9 DEF Closed
<1>5. ASSUME NEW r, Own(g, A, r, v) PROVE r = r0
  <2>1. r \in SourcesIn(g, A) /\ ReachableIn(g, A, r, v)
    BY <1>5 DEF Own
  <2>0. \A w \in Vertex : (w + 1) - 1 = w
    BY MaxIDAssumption DEF Vertex
  <2>2. r \in A /\ rl[r] = r + 1
    BY <1>2, <1>3, <2>1
  <2>3. PICK S \in SUBSET A : \A w : w \in S <=> w \in A /\ (cr[w] \/ rl[w] = r + 1)
    <3>1. {w \in A : cr[w] \/ rl[w] = r + 1} \in SUBSET A
      OBVIOUS
    <3> QED
      BY <3>1
  <2>4. r \in S
    BY <2>2, <2>3
  <2>5. Closed(g, A, S)
    <3>1. SUFFICES ASSUME NEW u \in S, NEW w \in Succ(g, u), w \in A PROVE w \in S
      BY DEF Closed
    <3>2. u \in A /\ (cr[u] \/ rl[u] = r + 1)
      BY <2>3
    <3>3. cr[w] \/ rl[w] = r + 1
      BY <1>2, <3>1, <3>2
    <3> QED
      BY <2>3, <3>1, <3>3
  <2>6. v \in S
    BY <2>1, <2>4, <2>5 DEF ReachableIn
  <2>7. rl[v] = r + 1
    BY <2>3, <2>6
  <2> QED
    BY <1>1, <2>0, <2>2, <2>7
<1> QED
  BY <1>1, <1>3, <1>4, <1>5 DEF Own, OwnedBy

\* A crossed vertex has two owners at least.
LEMMA TwoOwners ==
    ASSUME NEW g \in [Vertex -> Seq(Vertex)], Acyclic(g), NEW A \in SUBSET Vertex,
           NEW cr, NEW rl \in [Vertex -> Int], Settlement(g, A, cr, rl),
           NEW v \in A, cr[v]
    PROVE  \E r, t : Own(g, A, r, v) /\ Own(g, A, t, v) /\ r # t
<1> DEFINE Two(w) == \E r, t : Own(g, A, r, w) /\ Own(g, A, t, w) /\ r # t
<1>1. SUFFICES ASSUME ~Two(v) PROVE FALSE
  OBVIOUS
<1>2. PICK W \in SUBSET A : \A w : w \in W <=> w \in A /\ cr[w] /\ ~Two(w)
  <2>1. {w \in A : cr[w] /\ ~Two(w)} \in SUBSET A
    OBVIOUS
  <2> QED
    BY <2>1
<1>3. v \in W
  BY <1>1, <1>2
<1>4. PICK w \in W : \A u \in W : w \notin Succ(g, u)
  BY <1>3, FirstOf
<1>5. w \in A /\ cr[w] /\ ~Two(w)
  BY <1>2
<1>6. \A x \in A : cr[x] =>
         \/ \E u \in A : x \in Succ(g, u) /\ cr[u]
         \/ \E u, y \in A :
               /\ x \in Succ(g, u) /\ x \in Succ(g, y)
               /\ ~cr[u] /\ ~cr[y] /\ rl[u] # rl[y]
  BY DEF Settlement
<1>7. CASE \E u \in A : w \in Succ(g, u) /\ cr[u]
  <2>1. PICK u \in A : w \in Succ(g, u) /\ cr[u]
    BY <1>7
  <2>2. Two(u)
    BY <1>2, <1>4, <2>1
  <2>3. PICK r, t : Own(g, A, r, u) /\ Own(g, A, t, u) /\ r # t
    BY <2>2
  <2>4. Own(g, A, r, w) /\ Own(g, A, t, w)
    BY <1>5, <2>1, <2>3, OwnStep
  <2> QED
    BY <1>5, <2>3, <2>4
<1>8. CASE \E u, y \in A :
              /\ w \in Succ(g, u) /\ w \in Succ(g, y)
              /\ ~cr[u] /\ ~cr[y] /\ rl[u] # rl[y]
  <2>1. PICK u, y \in A :
           /\ w \in Succ(g, u) /\ w \in Succ(g, y)
           /\ ~cr[u] /\ ~cr[y] /\ rl[u] # rl[y]
    BY <1>8
  <2>2. Own(g, A, rl[u] - 1, u) /\ Own(g, A, rl[y] - 1, y)
    <3>1. OwnedBy(g, A, rl[u] - 1, u) /\ OwnedBy(g, A, rl[y] - 1, y)
      BY <2>1, OneOwner
    <3> QED
      BY <3>1 DEF OwnedBy
  <2>3. Own(g, A, rl[u] - 1, w) /\ Own(g, A, rl[y] - 1, w)
    BY <1>5, <2>1, <2>2, OwnStep
  <2>4. rl[u] - 1 # rl[y] - 1
    <3>1. rl[u] \in Int /\ rl[y] \in Int
      OBVIOUS
    <3> QED
      BY <2>1, <3>1
  <2> QED
    BY <1>5, <2>3, <2>4
<1> QED
  BY <1>5, <1>6, <1>7, <1>8

---------------------------------------------------------------------------
(***************************************************************************)
(* The refinement: a finished round is a peeling, all else a stutter.      *)
(***************************************************************************)
\* The owners of the abstract specification are those above.
LEMMA OwnersAre ==
    ASSUME graph \in [Vertex -> Seq(Vertex)], NEW A \in SUBSET Vertex, NEW v, NEW r
    PROVE  r \in Layers!Owners(A, v) <=> Own(graph, A, r, v)
<1>1. ASSUME NEW t \in A
      PROVE  t \in SourcesIn(graph, A) <=> \A u \in A : t \notin Succ(graph, u)
  <2>1. ASSUME NEW u \in A, t \in Succ(graph, u) PROVE Into(graph, A, t) # {}
    <3>1. PICK s \in Slot(graph) : s[1] = u /\ Target(graph, s) = t
      BY <2>1, EdgeSlot
    <3> QED
      BY <3>1 DEF Into, InSlots
  <2>2. ASSUME NEW s \in Into(graph, A, t) PROVE \E u \in A : t \in Succ(graph, u)
    <3>1. s \in Slot(graph) /\ Target(graph, s) = t /\ s[1] \in A
      BY DEF Into, InSlots
    <3> QED
      BY <3>1, SlotFields DEF Target, Succ
  <2> QED
    BY <2>1, <2>2 DEF SourcesIn
<1>2. r \in Layers!Source(A) <=> r \in SourcesIn(graph, A)
  BY <1>1 DEF Layers!Source, Layers!Succ, Succ, SourcesIn
<1>3. ReachableIn(graph, A, r, v) <=> Layers!ReachableIn(graph, A, r, v)
  BY DEF ReachableIn, Layers!ReachableIn, Closed, Layers!Closed, Succ, Layers!Succ
<1> QED
  BY <1>2, <1>3 DEF Own, Layers!Owners

\* The instance has a cardinality of its own, which is the same.
LEMMA SameCardinality == \A S : Layers!Cardinality(S) = Cardinality(S)
BY DEF Layers!Cardinality, Cardinality

\* A vertex joins a region when one source owns it: when it is not crossed.
JoinsUncrossed(A, cr, rl, v) ==
    /\ Cardinality(Layers!Owners(A, v)) = 1 <=> ~cr[v]
    /\ ~cr[v] => 1 + (CHOOSE r \in Layers!Owners(A, v) : TRUE) = rl[v]

LEMMA OwnersCount ==
    ASSUME graph \in [Vertex -> Seq(Vertex)], Acyclic(graph), NEW A \in SUBSET Vertex,
           NEW cr, NEW rl \in [Vertex -> Int], Settlement(graph, A, cr, rl), NEW v \in A
    PROVE  JoinsUncrossed(A, cr, rl, v)
<1>1. PICK O : O = Layers!Owners(A, v)
  OBVIOUS
<1>2. \A r : r \in O <=> Own(graph, A, r, v)
  BY <1>1, OwnersAre
<1>3. IsFiniteSet(O)
  <2>1. O \subseteq Vertex
    BY <1>2 DEF Own, SourcesIn
  <2> QED
    BY <2>1, VertexFinite, FS_Subset
<1>4. CASE ~cr[v]
  <2>1. OwnedBy(graph, A, rl[v] - 1, v)
    BY <1>4, OneOwner
  <2>2. O = {rl[v] - 1}
    BY <1>2, <2>1 DEF OwnedBy
  <2>3. Cardinality(O) = 1
    BY <2>2, FS_Singleton
  <2>4. (CHOOSE r \in O : TRUE) = rl[v] - 1
    BY <2>2
  <2>5. 1 + (rl[v] - 1) = rl[v]
    OBVIOUS
  <2> QED
    BY <1>1, <1>4, <2>3, <2>4, <2>5 DEF JoinsUncrossed
<1>5. CASE cr[v]
  <2>1. PICK r, t : r \in O /\ t \in O /\ r # t
    BY <1>2, <1>5, TwoOwners
  <2>2. Cardinality(O) # 1
    BY <1>3, <2>1, FS_Singleton
  <2> QED
    BY <1>1, <1>5, <2>2 DEF JoinsUncrossed
<1> QED
  BY <1>4, <1>5

\* The variables of the abstract specification, from the set that is left.
LEMMA LeftIs ==
    ASSUME NEW A \in SUBSET Vertex, LeftAfter(A, root_located, root_layer, Finished)
    PROVE  /\ {v \in Vertex : ~Final(v)} = A
           /\ \A v \in Vertex : Final(v) <=> v \notin A
BY DEF LeftAfter, Final, LayerOf

\* A step that leaves the finished regions alone is a stutter.
LEMMA StutterStep ==
    ASSUME NEW A \in SUBSET Vertex,
           LeftAfter(A, root_located, root_layer, Finished),
           LeftAfter(A, root_located, root_layer, Finished)',
           SameOutside(A, root_located, root_located'),
           graph' = graph, Finished' = Finished
    PROVE  UNCHANGED Layers!peelVars
<1>1. /\ {v \in Vertex : ~Final(v)} = A
      /\ \A v \in Vertex : Final(v) <=> v \notin A
  BY LeftIs
<1>2. /\ {v \in Vertex : ~Final(v)'} = A
      /\ \A v \in Vertex : Final(v)' <=> v \notin A
  BY DEF LeftAfter, Final, LayerOf
<1>3. [v \in Vertex |-> IF Final(v)' THEN root_located'[v] ELSE 0] =
      [v \in Vertex |-> IF Final(v) THEN root_located[v] ELSE 0]
  BY <1>1, <1>2 DEF SameOutside
<1> QED
  BY <1>1, <1>2, <1>3 DEF Layers!peelVars

\* The vertices of A that are not in B are the non-shared ones.
LEMMA NonSharedAre ==
    ASSUME graph \in [Vertex -> Seq(Vertex)], Acyclic(graph), NEW A \in SUBSET Vertex,
           NEW cr, NEW rl \in [Vertex -> Int], Settlement(graph, A, cr, rl), NEW v
    PROVE  v \in Layers!NonShared(A) <=> v \in A /\ ~cr[v]
<1>1. ASSUME v \in A PROVE Cardinality(Layers!Owners(A, v)) = 1 <=> ~cr[v]
  <2>1. JoinsUncrossed(A, cr, rl, v)
    BY <1>1, OwnersCount
  <2> QED
    BY <2>1 DEF JoinsUncrossed
<1> QED
  BY <1>1, SameCardinality DEF Layers!NonShared

\* The end of a round peels the layer.
LEMMA PeelStep ==
    ASSUME graph \in [Vertex -> Seq(Vertex)], Acyclic(graph),
           root_located \in [Vertex -> Int],
           NEW A \in SUBSET Vertex, A # {}, NEW B \in SUBSET Vertex,
           Settlement(graph, A, cross, root_located),
           \A v \in Vertex : v \in B <=> cross[v],
           LeftAfter(A, root_located, root_layer, Finished),
           LeftAfter(B, root_located, root_layer, Finished)',
           graph' = graph, root_located' = root_located, Finished' = Finished + 1
    PROVE  Layers!Peel
<1>1. /\ {v \in Vertex : ~Final(v)} = A
      /\ \A v \in Vertex : Final(v) <=> v \notin A
  BY LeftIs
<1>2. /\ {v \in Vertex : ~Final(v)'} = B
      /\ \A v \in Vertex : Final(v)' <=> v \notin B
  BY DEF LeftAfter, Final, LayerOf
<1>3. \A v \in Vertex : v \in Layers!NonShared(A) <=> v \in A /\ v \notin B
  BY NonSharedAre
<1>4. B = A \ Layers!NonShared(A)
  <2>1. \A v \in Vertex : v \in B => v \in A
    BY DEF Settlement
  <2>2. \A v \in Vertex : v \in B <=> v \in A \ Layers!NonShared(A)
    BY <1>3, <2>1
  <2>3. A \ Layers!NonShared(A) \subseteq Vertex
    OBVIOUS
  <2> QED
    BY <2>2, <2>3
<1>5. ASSUME NEW v \in Vertex
      PROVE  (IF Final(v)' THEN root_located'[v] ELSE 0) =
             IF v \in Layers!NonShared(A)
             THEN 1 + CHOOSE r \in Layers!Owners(A, v) : TRUE
             ELSE [w \in Vertex |-> IF Final(w) THEN root_located[w] ELSE 0][v]
  <2>1. CASE v \in Layers!NonShared(A)
    <3>1. v \in A /\ ~cross[v] /\ v \notin B
      BY <1>3, <2>1
    <3>2. 1 + (CHOOSE r \in Layers!Owners(A, v) : TRUE) = root_located[v]
      <4>1. JoinsUncrossed(A, cross, root_located, v)
        BY <3>1, OwnersCount
      <4> QED
        BY <3>1, <4>1 DEF JoinsUncrossed
    <3> QED
      BY <1>2, <2>1, <3>1, <3>2
  <2>2. CASE v \notin Layers!NonShared(A)
    <3>1. Final(v)' <=> Final(v)
      BY <1>1, <1>2, <1>4, <2>2
    <3> QED
      BY <2>2, <3>1
  <2> QED
    BY <2>1, <2>2
<1>6. [v \in Vertex |-> IF Final(v)' THEN root_located'[v] ELSE 0] =
      [v \in Vertex |->
          IF v \in Layers!NonShared(A)
          THEN 1 + CHOOSE r \in Layers!Owners(A, v) : TRUE
          ELSE [w \in Vertex |-> IF Final(w) THEN root_located[w] ELSE 0][v]]
  BY <1>5
<1> QED
  <2>1. Layers!Vertex = Vertex
    BY DEF Layers!Vertex, Vertex
  <2>2. {v \in Vertex : ~Final(v)}' = B
    BY <1>2
  <2>3. [v \in Vertex |-> IF Final(v) THEN root_located[v] ELSE 0]' =
        [v \in Vertex |->
          IF v \in Layers!NonShared(A)
          THEN 1 + CHOOSE r \in Layers!Owners(A, v) : TRUE
          ELSE [w \in Vertex |-> IF Final(w) THEN root_located[w] ELSE 0][v]]
    BY <1>6
  <2> QED
    BY <1>1, <1>4, <2>1, <2>2, <2>3 DEF Layers!Peel

\* The scans write to vertices of A alone.
LEMMA EdgeStutter ==
    ASSUME TypeInv, NEW A \in SUBSET Vertex, RoundOf(A), PreEdge \/ CrossEdge
    PROVE  /\ SameOutside(A, root_located, root_located')
           /\ graph' = graph /\ Finished' = Finished
<1>1. PICK o : o = IF pc = "pre_process" THEN TopoOrder ELSE TopoOrder_cross
  OBVIOUS
<1>2. PICK u : u = o[i]
  OBVIOUS
<1>3. PICK v : v = graph[u][j]
  OBVIOUS
<1>4. /\ i \in 1 .. Len(o) /\ j \in 1 .. Len(graph[u]) /\ u \in Vertex /\ v \in Vertex
  BY <1>1, <1>2, <1>3, PreEdgePlace, CrossEdgePlace DEF PreEdge, CrossEdge
<1>5. /\ pc \in {"pre_process", "pre_process_cross"} /\ pc' = pc /\ graph' = graph
      /\ count' = count /\ ScanEdge(u, v)
  BY <1>1, <1>2, <1>3 DEF PreEdge, CrossEdge, rootVars
<1>6. Elems(o) \subseteq A /\ Inward(graph, A)
  BY <1>1, <1>5 DEF RoundOf, InFirst, InLater, Round, Listed, PeeledOff, Inward
<1>7. v \in A
  BY <1>2, <1>3, <1>4, <1>6 DEF Elems, Inward, Succ
<1>8. Touched(cross, cross_id, root_located, u, v, cross', cross_id', root_located')
  BY <1>4, <1>5, ScanEdgeTouched DEF TypeInv
<1> QED
  BY <1>5, <1>7, <1>8 DEF SameOutside, Touched, Finished, Scanning

LEMMA RootStutter ==
    ASSUME TypeInv, NEW A \in SUBSET Vertex, RoundOf(A), LayerRoot
    PROVE  /\ SameOutside(A, root_located, root_located')
           /\ graph' = graph /\ Finished' = Finished
<1>1. PICK r : r = cross_id[i]
  OBVIOUS
<1>2. i \in 1 .. Len(cross_id) /\ Due(graph, A, cross, cross_id, curInDegree)
  BY DEF LayerRoot, TypeInv, TypeOK, LoopTypes, RegionTypes, RoundOf, InRoots
<1>3. r \in A
  BY <1>1, <1>2 DEF Due, Elems
<1>4. \/ root_located' = root_located
      \/ root_located' = [root_located EXCEPT ![r] = r + 1]
  BY <1>1 DEF LayerRoot
<1>5. root_located \in [Vertex -> 0 .. maxID + 1]
  BY DEF TypeInv, TypeOK, RegionTypes
<1> QED
  BY <1>3, <1>4, <1>5 DEF SameOutside, LayerRoot, Finished, Scanning

LEMMA EndPeels ==
    ASSUME TypeInv, NEW A \in SUBSET Vertex, count \in Nat \ {0}, RoundOf(A),
           PreEnd \/ CrossEnd
    PROVE  Layers!Peel
<1>1. /\ graph \in [Vertex -> Seq(Vertex)] /\ Acyclic(graph) /\ count \in Nat
      /\ TopoOrder \in Seq(Vertex) /\ indeg \in [Vertex -> Int] /\ i \in Nat
      /\ TopoOrder_cross \in Seq(Vertex) /\ curInDegree \in [Vertex -> Int]
      /\ cross_id \in Seq(Vertex) /\ root_layer \in [Vertex -> Nat]
      /\ root_located \in [Vertex -> Int]
  BY GraphType DEF TypeInv, TypeOK, OrderTypes, CounterTypes, RegionTypes, LoopTypes,
                   Batches
<1>2. /\ pc \in {"pre_process", "pre_process_cross"} /\ pc' = "next_layer"
      /\ pc = "pre_process" => i > Len(TopoOrder)
      /\ pc = "pre_process_cross" => i > Len(TopoOrder_cross)
      /\ UNCHANGED <<graph, cross, cross_id, root_located, root_layer, count>>
  BY DEF PreEnd, CrossEnd, scanVars, rootVars
<1>3. /\ A # {} /\ LeftAfter(A, root_located, root_layer, count - 1)
      /\ PeeledOff(graph, A, root_located, root_layer)
      /\ RootsAt(graph, A, root_layer, count)
      /\ \/ /\ pc = "pre_process"
            /\ Round(graph, A, TopoOrder, i, j, indeg, curInDegree, cross, cross_id,
                     root_located)
         \/ /\ pc = "pre_process_cross"
            /\ Round(graph, A, TopoOrder_cross, i, j, curInDegree, nextInDegree, cross,
                     cross_id, root_located)
  BY <1>2 DEF RoundOf, InFirst, InLater, Finished, Scanning
<1>4. PICK nxt : /\ Done(graph, A, cross, cross_id, root_located)
                 /\ HandsOver(graph, nxt, cross, cross_id, root_located, root_layer, count)
  <2>1. CASE pc = "pre_process"
    BY <1>1, <1>2, <1>3, <2>1, RoundEnd
  <2>2. CASE pc = "pre_process_cross"
    BY <1>1, <1>2, <1>3, <2>2, RoundEnd
  <2> QED
    BY <1>2, <2>1, <2>2
<1>5. Settlement(graph, A, cross, root_located)
  BY <1>1, <1>4, DoneSettles
<1>6. PICK B \in SUBSET Vertex :
         /\ LeftAfter(B, root_located, root_layer, count)
         /\ \A v \in Vertex : v \in B <=> cross[v]
  BY <1>4 DEF HandsOver, Due
<1>7. Finished = count - 1 /\ Finished' = count /\ Finished' = Finished + 1
  BY <1>1, <1>2 DEF Finished, Scanning
<1>8. /\ LeftAfter(A, root_located, root_layer, Finished)
      /\ LeftAfter(B, root_located, root_layer, Finished)'
  BY <1>2, <1>3, <1>6, <1>7
<1> QED
  BY <1>1, <1>2, <1>3, <1>5, <1>6, <1>7, <1>8, PeelStep

LEMMA PeelInitial == Init => Layers!PeelInit
<1> SUFFICES ASSUME Init PROVE Layers!PeelInit
  OBVIOUS
<1>1. graph \in [Vertex -> Seq(Vertex)] /\ Acyclic(graph)
  BY GraphsAssumption DEF Init
<1>2. Finished = 0
  BY DEF Init, Finished, Scanning
<1>3. \A v \in Vertex : ~Final(v)
  BY DEF Init, Final, Zero
<1>4. /\ {v \in Vertex : ~Final(v)} = Vertex
      /\ [v \in Vertex |-> IF Final(v) THEN root_located[v] ELSE 0] = [v \in Vertex |-> 0]
  BY <1>3
<1>5. Layers!Vertex = Vertex
  BY DEF Layers!Vertex, Vertex
<1>6. Layers!Acyclic(graph)
  BY <1>1, <1>5 DEF Acyclic, Layers!Acyclic, Succ, Layers!Succ
<1> QED
  BY <1>1, <1>2, <1>4, <1>5, <1>6 DEF Layers!PeelInit

\* Every step: the ends of the scans peel, the rest changes nothing.
LEMMA PeelNext ==
    TypeInv /\ ScanInv /\ RoundInv /\ [Next]_vars => [Layers!Peel]_(Layers!peelVars)
<1> SUFFICES ASSUME TypeInv, ScanInv, RoundInv, [Next]_vars
             PROVE  Layers!Peel \/ UNCHANGED Layers!peelVars
  OBVIOUS
<1>1. PICK A \in SUBSET Vertex : RoundOf(A)
  BY DEF RoundInv
<1>2. count \in Nat \ {0} /\ count \in Nat
  BY DEF RoundInv
<1>3. LeftAfter(A, root_located, root_layer, Finished)
  BY <1>1 DEF RoundOf
<1>4. ASSUME RoundOf(A)', SameOutside(A, root_located, root_located'),
             graph' = graph, Finished' = Finished
      PROVE  UNCHANGED Layers!peelVars
  BY <1>3, <1>4, StutterStep DEF RoundOf
<1>5. root_located' = root_located => SameOutside(A, root_located, root_located')
  BY DEF SameOutside
<1>6. CASE ReadRoots
  <2>1. A = Vertex
    BY <1>1, <1>6 DEF ReadRoots, RoundOf, AtRoots
  <2>2. RoundOf(A)'
    BY <1>1, <1>6, <2>1, ReadRootsRound
  <2>3. SameOutside(A, root_located, root_located')
    BY <2>1 DEF SameOutside
  <2> QED
    BY <1>4, <1>6, <2>2, <2>3 DEF ReadRoots, Finished, Scanning
<1>7. CASE PreEdge \/ CrossEdge
  <2>1. RoundOf(A)'
    BY <1>1, <1>2, <1>7, PreEdgeRound, CrossEdgeRound
  <2> QED
    BY <1>1, <1>4, <1>7, <2>1, EdgeStutter
<1>8. CASE PreVertex \/ CrossVertex
  <2>1. RoundOf(A)'
    BY <1>1, <1>8, VertexRound
  <2> QED
    BY <1>4, <1>5, <1>8, <2>1 DEF PreVertex, CrossVertex, scanVars, rootVars, Finished,
                                  Scanning
<1>9. CASE PreBatch \/ CrossBatch \/ UNCHANGED vars
  <2>1. UNCHANGED <<graph, pc, curInDegree, nextInDegree, cross, cross_id,
                    root_located, root_layer, count, indeg, TopoOrder,
                    TopoOrder_cross, i, j>>
    BY <1>9 DEF PreBatch, CrossBatch, vars, scanVars, rootVars, topoVars
  <2>2. RoundOf(A)'
    BY <1>1, <2>1, BatchRound
  <2> QED
    BY <1>4, <1>5, <2>1, <2>2 DEF Finished, Scanning
<1>10. CASE PreEnd \/ CrossEnd
  BY <1>1, <1>2, <1>10, EndPeels
<1>11. CASE LayerStart
  <2>1. RoundOf(A)'
    BY <1>1, <1>2, <1>11, LayerStartRound
  <2> QED
    BY <1>2, <1>4, <1>5, <1>11, <2>1 DEF LayerStart, scanVars, Finished, Scanning
<1>12. CASE LayerRoot
  <2>1. RoundOf(A)'
    BY <1>1, <1>2, <1>12, LayerRootRound
  <2> QED
    BY <1>1, <1>4, <1>12, <2>1, RootStutter
<1>13. CASE CrossStart
  <2>1. RoundOf(A)'
    BY <1>1, <1>2, <1>13, CrossStartRound
  <2> QED
    BY <1>4, <1>5, <1>13, <2>1 DEF CrossStart, rootVars, Finished, Scanning
<1>14. CASE LayersEnd
  <2>1. RoundOf(A)'
    BY <1>1, <1>14, LayersEndRound
  <2> QED
    BY <1>4, <1>5, <1>14, <2>1 DEF LayersEnd, scanVars, rootVars, Finished, Scanning
<1> QED
  BY <1>6, <1>7, <1>8, <1>9, <1>10, <1>11, <1>12, <1>13, <1>14 DEF Next

\* construct_index implements the peeling: for every acyclic graph, each of
\* its rounds makes a layer of the vertices that exactly one source of what
\* was left reaches, with that source for a root, and leaves the others.
THEOREM PeelingTheorem == Spec => ImplementsPeeling
<1>1. Spec => Layers!PeelInit
  BY PeelInitial, PTL DEF Spec
<1>2. Spec => [][Layers!Peel]_(Layers!peelVars)
  BY RoundInvariance, PeelNext, PTL DEF Spec
<1> QED
  BY <1>1, <1>2, PTL DEF ImplementsPeeling, Layers!PeelSpec
=============================================================================
