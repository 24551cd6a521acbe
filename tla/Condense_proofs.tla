-------------------------- MODULE Condense_proofs --------------------------
(***************************************************************************)
(* Graph::readGraph2 (Matrix/Graph.cpp) for every graph: the in-degrees of *)
(* generate_DAG, the new ids of recode and the lists of construct_adj_DAG. *)
(* Everything follows from one inductive invariant.                        *)
(***************************************************************************)
EXTENDS Condense, SequenceTheorems, FiniteSetTheorems, TLAPS

---------------------------------------------------------------------------
(***************************************************************************)
(* The inductive invariant.                                                *)
(***************************************************************************)
\* What InputsAssumption says of one input.
GoodInput(g, s) ==
    /\ g \in [Vertex -> Seq(Vertex)]
    /\ \A v \in Vertex : v \notin Succ(g, v)
    /\ s \in Seq(Seq(Vertex))
    /\ \A c \in DOMAIN s : IsInjective(s[c]) /\ Len(s[c]) >= 2
    /\ \A c, d \in DOMAIN s : ToSet(s[c]) \cap ToSet(s[d]) # {} => c = d
    /\ \A x \in Vertex : \A y \in Vertex \ {x} :
          Mutual(g, x, y) <=> \E c \in DOMAIN s : {x, y} \subseteq ToSet(s[c])

\* After num components the arrays hold the name and number of each one's.
Located(s, num, loc, nloc) ==
    \A v \in Vertex :
        \/ /\ loc[v] = 0 /\ nloc[v] = 0
           /\ \A c \in 1 .. num : v \notin ToSet(s[c])
        \/ \E c \in 1 .. num :
              /\ v \in ToSet(s[c])
              /\ loc[v] = FirstSccID(s[c]) /\ nloc[v] = c

\* What every vertex stands for, and whose successors each goes through.
StandOf(loc) == [v \in Vertex |-> IF loc[v] = 0 THEN v ELSE loc[v]]

MembersOf(s, loc, nloc) ==
    [u \in Vertex |->
        IF loc[u] = 0 THEN <<u>>
        ELSE IF loc[u] = u THEN s[nloc[u]] ELSE <<>>]

StandMap == StandOf(scc_located)
MemberMap == MembersOf(sccs, scc_located, scc_num_located)

\* st takes each vertex to the one that stands for its component, and mem lists
\* the members of every component for that vertex.
Collapses(g, st) ==
    /\ st \in [Vertex -> Vertex]
    /\ \A x, y \in Vertex : st[x] = st[y] <=> Mutual(g, x, y)
    /\ \A x \in Vertex : st[st[x]] = st[x]

\* The vertex that names a component is located in it.
Names(loc) ==
    \A v \in Vertex : loc[v] # 0 => loc[v] \in Vertex /\ loc[loc[v]] = loc[v]

ListsMembers(st, mem) ==
    \A u \in Vertex :
        /\ mem[u] \in Seq(Vertex) /\ IsInjective(mem[u])
        /\ ToSet(mem[u]) = {x \in Vertex : st[x] = u}

\* The edges generate_DAG has gone through when it is at edge k of the member m
\* of vertex n.
Scanned(g, mem, n, m, e) ==
    {s \in Slot(g) :
        \E u \in Vertex : \E p \in 1 .. Len(mem[u]) :
            /\ mem[u][p] = s[1]
            /\ u < n \/ (u = n /\ (p < m \/ (p = m /\ s[2] < e)))}

ScannedNow == Scanned(graph, MemberMap, i, member, k)

\* D has the edges of H between components, each once.
Condensed(g, st, H, D) ==
    \A u \in Vertex :
        /\ IsInjective(D[u])
        /\ \A w \in Vertex :
              w \in Succ(D, u) <=>
                  w # u /\ \E s \in H : st[s[1]] = u /\ st[Target(g, s)] = w

InSlots(g, v) == {s \in Slot(g) : Target(g, s) = v}

\* The number of edges into v that are not in H.
Left(g, H, v) == Cardinality(InSlots(g, v) \ H)

\* The in-degree d of a vertex when the edges of H are in D.
Degrees(g, loc, H, D, d) ==
    \A v \in Vertex :
        IF loc[v] # 0 THEN d[v] = InEdges(D, v)
        ELSE /\ Left(g, H, v) + InEdges(D, v) <= d[v]
             /\ d[v] <= InEdges(g, v)

\* The marks are those of earlier vertices, but for the list under construction.
Flags(flag, q, m, D, n) ==
    /\ q = n + (IF m > 0 THEN 1 ELSE 0)
    /\ \A w \in Vertex : flag[w] <= q
    /\ m > 0 => \A w \in Vertex : flag[w] = q <=> w \in Succ(D, n)

OutDegrees(D, d, n) == \A u \in Vertex : u < n => d[u] = Len(D[u])

Reading ==
    pc \in {"adj", "scc"} =>
        /\ DAG = Empty /\ visit_flag = Zero
        /\ querycnt = 0 /\ i = 0 /\ member = 0 /\ k = 0
        /\ \A v \in Vertex :
              indeg[v] = IF scc_located[v] = 0 THEN InEdges(graph, v) ELSE 0

Collapsed ==
    pc \notin {"adj", "scc", "aborted"} =>
        /\ Collapses(graph, StandMap) /\ Names(scc_located)
        /\ ListsMembers(StandMap, MemberMap)

Condensing ==
    pc = "dag" =>
        /\ i \in 0 .. maxID + 1 /\ (member > 0 => i <= maxID /\ k > 0)
        /\ Flags(visit_flag, querycnt, member, DAG, i)
        /\ Condensed(graph, StandMap, ScannedNow, DAG)
        /\ Degrees(graph, scc_located, ScannedNow, DAG, indeg)
        /\ OutDegrees(DAG, outdeg, i)

CondensedAll ==
    pc \in {"roots", "recode", "recode_edges", "adj_DAG", "done"} =>
        /\ Condensed(graph, StandMap, Slot(graph), DAG)
        /\ Slot(DAG) # {}
        /\ OutDegrees(DAG, outdeg, maxID + 1)

Uncoded ==
    pc \in {"adj", "scc", "dag", "roots"} =>
        /\ que = <<>> /\ visited_arr = [v \in Vertex |-> FALSE]
        /\ idcount = 0 /\ newID = Zero /\ out = Empty

\* The roots of D, and its vertices that have an edge.
Sources(D) == {v \in Vertex : D[v] # <<>> /\ InEdges(D, v) = 0}
LiveIn(D) == {v \in Vertex : D[v] # <<>> \/ InEdges(D, v) > 0}

\* new numbers the vertices of N from 0 to n - 1.
Numbers(new, N, n) ==
    /\ \A x \in N : new[x] \in 0 .. n - 1
    /\ \A x, y \in N : new[x] = new[y] => x = y
    /\ \A m \in 0 .. n - 1 : \E x \in N : new[x] = m

Visited == {v \in Vertex : visited_arr[v]}
Numbered == Visited \ ToSet(que)

RootsListed ==
    pc \in {"recode", "recode_edges"} =>
        /\ IsInjective(root_arr) /\ ToSet(root_arr) = Sources(DAG)
        /\ i \in 1 .. Len(root_arr) + 1

\* A successor of a numbered vertex is visited, or still to be looked at.
Followed ==
    \A x \in Numbered : \A e \in 1 .. Len(DAG[x]) :
        \/ DAG[x][e] \in Visited
        \/ pc = "recode_edges" /\ x = curID /\ e >= k

Coding ==
    pc \in {"recode", "recode_edges"} =>
        /\ IsInjective(que) /\ ToSet(que) \subseteq Visited
        /\ Numbers(newID, Numbered, idcount)
        /\ pc = "recode_edges" => curID \in Numbered /\ k > 0
        /\ Followed
        /\ \A v \in Visited :
              \/ \E n \in 1 .. i - 1 : root_arr[n] = v
              \/ \E u \in Vertex : v \in Succ(DAG, u)
        /\ \A n \in 1 .. i - 1 : root_arr[n] \in Visited

Coded ==
    pc \in {"adj_DAG", "done"} =>
        /\ Numbers(newID, LiveIn(DAG), idcount + 1)
        /\ i \in 0 .. idcount + 1
        /\ pc = "done" => i = idcount + 1

\* The list of the vertex numbered n, under the new ids, each once.
ListWritten(n) ==
    /\ IsInjective(out[n])
    /\ \A u \in LiveIn(DAG) :
          newID[u] = n => Succ(out, n) = {newID[w] : w \in Succ(DAG, u)}

Writing ==
    pc \in {"adj_DAG", "done"} => \A n \in Vertex : n < i => ListWritten(n)

IInv ==
    /\ TypeOK /\ InDegreesSuffice
    /\ GoodInput(graph, sccs)
    /\ Located(sccs, scc_num, scc_located, scc_num_located)
    /\ Reading /\ Collapsed /\ Condensing /\ CondensedAll /\ Uncoded
    /\ RootsListed /\ Coding /\ Coded /\ Writing
---------------------------------------------------------------------------
(***************************************************************************)
(* Graphs and their edge places.                                           *)
(***************************************************************************)
\* The vertices are finitely many.
LEMMA VertexFinite == IsFiniteSet(Vertex)
BY FS_Interval, MaxIDAssumption DEF Vertex

\* An edge place is a vertex and an index into its list.
LEMMA SlotIs ==
    ASSUME NEW g, NEW s
    PROVE  s \in Slot(g) <=> \E u \in Vertex : \E e \in 1 .. Len(g[u]) : s = <<u, e>>
BY DEF Slot

\* A vertex and an index into its list make an edge place.
LEMMA SlotMade ==
    ASSUME NEW g, NEW u \in Vertex, NEW e \in 1 .. Len(g[u])
    PROVE  /\ <<u, e>> \in Slot(g)
           /\ Target(g, <<u, e>>) = g[u][e]
           /\ Target(g, <<u, e>>) \in Succ(g, u)
BY SlotIs DEF Target, Succ

\* The parts of an edge place, and its head.
LEMMA SlotParts ==
    ASSUME NEW g \in [Vertex -> Seq(Vertex)], NEW s \in Slot(g)
    PROVE  /\ s[1] \in Vertex /\ s[2] \in 1 .. Len(g[s[1]])
           /\ s[2] \in Nat \ {0} /\ s[2] <= Len(g[s[1]]) /\ Len(g[s[1]]) \in Nat
           /\ s = <<s[1], s[2]>>
           /\ Target(g, s) \in Vertex /\ Target(g, s) \in Succ(g, s[1])
<1>1. PICK u \in Vertex : \E e \in 1 .. Len(g[u]) : s = <<u, e>>
  BY SlotIs
<1>2. PICK e \in 1 .. Len(g[u]) : s = <<u, e>>
  BY <1>1
<1>3. s[1] = u /\ s[2] = e
  BY <1>2
<1>4. g[u][e] \in Vertex
  BY ElementOfSeq
<1>5. Target(g, s) = g[u][e]
  BY <1>3 DEF Target
<1>6. g[u][e] \in Succ(g, u)
  BY DEF Succ
<1> QED
  BY <1>2, <1>3, <1>4, <1>5, <1>6

HasPlace(g, u, w) == \E s \in Slot(g) : s[1] = u /\ Target(g, s) = w

\* A successor is the target of a place.
LEMMA SuccPlace ==
    ASSUME NEW g \in [Vertex -> Seq(Vertex)], NEW u \in Vertex, NEW w
    PROVE  w \in Succ(g, u) <=> HasPlace(g, u, w)
<1>1. ASSUME w \in Succ(g, u) PROVE HasPlace(g, u, w)
  <2>1. PICK e \in 1 .. Len(g[u]) : w = g[u][e]
    BY <1>1 DEF Succ
  <2>2. <<u, e>> \in Slot(g) /\ Target(g, <<u, e>>) = w
    BY <2>1, SlotMade
  <2>3. <<u, e>>[1] = u
    OBVIOUS
  <2> QED
    BY <2>2, <2>3 DEF HasPlace
<1>2. ASSUME NEW s \in Slot(g), s[1] = u, Target(g, s) = w PROVE w \in Succ(g, u)
  BY <1>2, SlotParts
<1> QED
  BY <1>1, <1>2 DEF HasPlace

\* Successors are vertices.
LEMMA SuccVertex ==
    ASSUME NEW g \in [Vertex -> Seq(Vertex)], NEW u \in Vertex
    PROVE  Succ(g, u) \subseteq Vertex
<1>1. ASSUME NEW w \in Succ(g, u) PROVE w \in Vertex
  <2>1. HasPlace(g, u, w)
    BY SuccPlace
  <2> QED
    BY <2>1, SlotParts DEF HasPlace
<1> QED
  BY <1>1

\* A graph has finitely many edges.
LEMMA SlotFinite ==
    ASSUME NEW g \in [Vertex -> Seq(Vertex)]
    PROVE  IsFiniteSet(Slot(g))
<1> DEFINE F == [u \in Vertex |-> {u} \X (1 .. Len(g[u]))]
           R == {F[u] : u \in Vertex}
<1>1. F \in Surjection(Vertex, R)
  BY DEF Surjection
<1>2. IsFiniteSet(R)
  <2> HIDE DEF F, R
  <2> QED
    BY <1>1, VertexFinite, FS_Surjection
<1>3. ASSUME NEW T \in R PROVE IsFiniteSet(T)
  <2>1. PICK u \in Vertex : T = {u} \X (1 .. Len(g[u]))
    BY <1>3
  <2>2. Len(g[u]) \in Int /\ 1 \in Int
    OBVIOUS
  <2>3. IsFiniteSet({u})
    BY FS_Singleton
  <2>4. IsFiniteSet(1 .. Len(g[u]))
    BY <2>2, FS_Interval
  <2> QED
    BY <2>1, <2>3, <2>4, FS_Product, Zenon
<1>4. IsFiniteSet(UNION R)
  BY <1>2, <1>3, FS_UNION
<1> QED
  BY <1>4 DEF Slot

\* The in-degree counts the places into a vertex.
LEMMA InEdgesIs ==
    ASSUME NEW g \in [Vertex -> Seq(Vertex)], NEW v
    PROVE  /\ IsFiniteSet(InSlots(g, v))
           /\ InEdges(g, v) = Cardinality(InSlots(g, v))
           /\ InEdges(g, v) \in Nat
           /\ InEdges(g, v) = 0 <=> InSlots(g, v) = {}
<1>1. IsFiniteSet(InSlots(g, v))
  BY SlotFinite, FS_Subset DEF InSlots
<1>2. InEdges(g, v) = Cardinality(InSlots(g, v))
  BY DEF InEdges, InSlots
<1> QED
  BY <1>1, <1>2, FS_CardinalityType, FS_EmptySet

\* A vertex has no in-edge iff it is nobody's successor.
LEMMA NoInEdge ==
    ASSUME NEW g \in [Vertex -> Seq(Vertex)], NEW v
    PROVE  InEdges(g, v) = 0 <=> \A u \in Vertex : v \notin Succ(g, u)
<1>1. InEdges(g, v) = 0 <=> InSlots(g, v) = {}
  BY InEdgesIs
<1>2. ASSUME NEW s \in InSlots(g, v) PROVE \E u \in Vertex : v \in Succ(g, u)
  <2>1. s \in Slot(g) /\ Target(g, s) = v
    BY DEF InSlots
  <2> QED
    BY <2>1, SlotParts
<1>3. ASSUME NEW u \in Vertex, v \in Succ(g, u) PROVE InSlots(g, v) # {}
  <2>1. HasPlace(g, u, v)
    BY <1>3, SuccPlace
  <2> QED
    BY <2>1 DEF HasPlace, InSlots
<1> QED
  BY <1>1, <1>2, <1>3

---------------------------------------------------------------------------
(***************************************************************************)
(* Reachability.                                                           *)
(***************************************************************************)
\* S is a set of vertices that keeps the successors of its members.
IsClosed(g, S) == S \subseteq Vertex /\ \A u \in S : Succ(g, u) \subseteq S

\* Reachable without the detour over subsets of Vertex.
LEMMA ReachableIs ==
    ASSUME NEW g \in [Vertex -> Seq(Vertex)], NEW x, NEW y
    PROVE  Reachable(g, x, y) <=> \A S : IsClosed(g, S) /\ x \in S => y \in S
<1>1. ASSUME NEW S \in SUBSET Vertex
      PROVE  Closed(g, Vertex, S) <=> \A u \in S : Succ(g, u) \subseteq S
  <2>1. \A u \in S : Succ(g, u) \cap Vertex = Succ(g, u)
    BY SuccVertex
  <2> QED
    BY <2>1 DEF Closed
<1> QED
  BY <1>1 DEF Reachable, ReachableIn, IsClosed

\* Reachability is reflexive, transitive and has the edges.
LEMMA ReachSelf ==
    ASSUME NEW g \in [Vertex -> Seq(Vertex)], NEW x
    PROVE  Reachable(g, x, x)
BY ReachableIs

\* What is reached from what is reached is reached.
LEMMA ReachTransitive ==
    ASSUME NEW g \in [Vertex -> Seq(Vertex)], NEW x, NEW y, NEW z,
           Reachable(g, x, y), Reachable(g, y, z)
    PROVE  Reachable(g, x, z)
<1>1. ASSUME NEW S, IsClosed(g, S), x \in S PROVE z \in S
  <2>1. y \in S
    BY <1>1, ReachableIs
  <2> QED
    BY <2>1, <1>1, ReachableIs
<1> QED
  BY <1>1, ReachableIs

\* A successor is reached.
LEMMA ReachEdge ==
    ASSUME NEW g \in [Vertex -> Seq(Vertex)], NEW x, NEW y \in Succ(g, x)
    PROVE  Reachable(g, x, y)
<1>1. ASSUME NEW S, IsClosed(g, S), x \in S PROVE y \in S
  BY <1>1 DEF IsClosed
<1> QED
  BY <1>1, ReachableIs

---------------------------------------------------------------------------
(***************************************************************************)
(* The condensation of a graph: acyclic, and it keeps reachability.        *)
(***************************************************************************)
\* An edge of g leads from what stands as u to what stands as w.
Crosses(g, st, u, w) ==
    \E a \in Vertex : \E b \in Succ(g, a) : st[a] = u /\ st[b] = w

\* An edge of the condensation goes between two components that an edge of the
\* graph connects.
LEMMA CondensedEdge ==
    ASSUME NEW g \in [Vertex -> Seq(Vertex)], NEW st, NEW D \in [Vertex -> Seq(Vertex)],
           Condensed(g, st, Slot(g), D), NEW u \in Vertex, NEW w \in Vertex
    PROVE  w \in Succ(D, u) <=> w # u /\ Crosses(g, st, u, w)
<1>1. w \in Succ(D, u) <=>
          w # u /\ \E s \in Slot(g) : st[s[1]] = u /\ st[Target(g, s)] = w
  BY DEF Condensed
<1>2. ASSUME NEW s \in Slot(g), st[s[1]] = u, st[Target(g, s)] = w
      PROVE  Crosses(g, st, u, w)
  <2>1. s[1] \in Vertex /\ Target(g, s) \in Succ(g, s[1])
    BY SlotParts
  <2> QED
    BY <1>2, <2>1 DEF Crosses
<1>3. ASSUME NEW a \in Vertex, NEW b \in Succ(g, a), st[a] = u, st[b] = w
      PROVE  \E s \in Slot(g) : st[s[1]] = u /\ st[Target(g, s)] = w
  <2>1. HasPlace(g, a, b)
    BY SuccPlace
  <2>2. PICK s \in Slot(g) : s[1] = a /\ Target(g, s) = b
    BY <2>1 DEF HasPlace
  <2> QED
    BY <1>3, <2>2
<1>4. Crosses(g, st, u, w) => \E s \in Slot(g) : st[s[1]] = u /\ st[Target(g, s)] = w
  BY <1>3 DEF Crosses
<1> QED
  BY <1>1, <1>2, <1>4

\* Vertices that one vertex stands for reach each other.
LEMMA StandMutual ==
    ASSUME NEW g, NEW st, Collapses(g, st), NEW x \in Vertex, NEW y \in Vertex,
           st[x] = st[y]
    PROVE  Reachable(g, x, y) /\ Reachable(g, y, x)
BY DEF Collapses, Mutual

\* Condensing keeps what can be reached.
LEMMA CondensedReach ==
    ASSUME NEW g \in [Vertex -> Seq(Vertex)], NEW st, NEW D \in [Vertex -> Seq(Vertex)],
           Collapses(g, st), Condensed(g, st, Slot(g), D),
           NEW x \in Vertex, NEW y \in Vertex
    PROVE  Reachable(g, x, y) <=> Reachable(D, st[x], st[y])
<1>0. st \in [Vertex -> Vertex] /\ \A v \in Vertex : st[st[v]] = st[v]
  BY DEF Collapses
<1>1. ASSUME Reachable(g, x, y), NEW S, IsClosed(D, S), st[x] \in S
      PROVE  st[y] \in S
  <2> DEFINE T == {v \in Vertex : st[v] \in S}
  <2>1. ASSUME NEW a \in T, NEW b \in Succ(g, a) PROVE b \in T
    <3>1. a \in Vertex /\ st[a] \in S /\ b \in Vertex
      BY SuccVertex
    <3>2. CASE st[b] = st[a]
      BY <3>1, <3>2
    <3>3. CASE st[b] # st[a]
      <4>1. st[a] \in Vertex /\ st[b] \in Vertex
        BY <1>0, <3>1
      <4>2. st[b] \in Succ(D, st[a])
        <5>1. Crosses(g, st, st[a], st[b])
          BY <3>1 DEF Crosses
        <5> QED
          BY <3>3, <4>1, <5>1, CondensedEdge
      <4> QED
        BY <1>1, <3>1, <4>2 DEF IsClosed
    <3> QED
      BY <3>2, <3>3
  <2>2. IsClosed(g, T)
    BY <2>1 DEF IsClosed
  <2>3. y \in T
    <3> HIDE DEF T
    <3>1. x \in T
      BY <1>1 DEF T
    <3> QED
      BY <1>1, <2>2, <3>1, ReachableIs
  <2> QED
    BY <2>3
<1>2. ASSUME Reachable(D, st[x], st[y]) PROVE Reachable(g, x, y)
  <2> DEFINE T == {v \in Vertex : Reachable(g, x, v)}
  <2>1. ASSUME NEW u \in T, NEW w \in Succ(D, u) PROVE w \in T
    <3>1. u \in Vertex /\ w \in Vertex /\ Reachable(g, x, u)
      BY SuccVertex
    <3>2. Crosses(g, st, u, w)
      BY <3>1, CondensedEdge
    <3>31. PICK a \in Vertex : \E b \in Succ(g, a) : st[a] = u /\ st[b] = w
      BY <3>2 DEF Crosses
    <3>3. PICK b \in Succ(g, a) : st[a] = u /\ st[b] = w
      BY <3>31
    <3>4. b \in Vertex
      BY SuccVertex
    <3>5. st[u] = st[a] /\ st[w] = st[b]
      BY <1>0, <3>3, <3>4
    <3>6. Reachable(g, u, a) /\ Reachable(g, b, w)
      BY <3>1, <3>4, <3>5, StandMutual
    <3>7. Reachable(g, a, b)
      BY ReachEdge
    <3>8. Reachable(g, x, w)
      BY <3>1, <3>6, <3>7, ReachTransitive
    <3> QED
      BY <3>1, <3>8
  <2>2. IsClosed(D, T)
    BY <2>1 DEF IsClosed
  <2>3. st[x] \in Vertex /\ st[y] \in Vertex
    BY <1>0
  <2>4. Reachable(g, x, st[x]) /\ Reachable(g, st[y], y)
    BY <1>0, <2>3, StandMutual
  <2>5. st[x] \in T
    BY <2>3, <2>4
  <2>6. st[y] \in T
    <3> HIDE DEF T
    <3> QED
      BY <1>2, <2>2, <2>5, ReachableIs
  <2> QED
    BY <2>4, <2>6, ReachTransitive
<1> QED
  BY <1>1, <1>2, ReachableIs

\* The vertices that reach v.
Ancestors(g, v) == {u \in Vertex : Reachable(g, u, v)}

\* Ancestors can be counted.
LEMMA AncestorsCount ==
    ASSUME NEW g, NEW v
    PROVE  IsFiniteSet(Ancestors(g, v)) /\ Cardinality(Ancestors(g, v)) \in Nat
<1>1. Ancestors(g, v) \subseteq Vertex
  BY DEF Ancestors
<1> QED
  BY <1>1, VertexFinite, FS_Subset, FS_CardinalityType

\* Every nonempty set of vertices has a member with the fewest ancestors.
LEMMA FewestAncestors ==
    ASSUME NEW g, NEW S \in SUBSET Vertex, S # {}
    PROVE  \E v \in S : \A u \in S :
               Cardinality(Ancestors(g, v)) <= Cardinality(Ancestors(g, u))
<1> DEFINE N == {Cardinality(Ancestors(g, v)) : v \in S}
<1>1. N \subseteq Nat /\ N # {}
  BY AncestorsCount
<1>2. PICK n \in N : \A m \in N : ~ (<<m, n>> \in OpToRel(<, Nat))
  <2> HIDE DEF N
  <2> QED
    BY <1>1, NatLessThanWellFounded, WFMin
<1>3. \A m \in N : n <= m
  <2>1. ASSUME NEW m \in N PROVE ~ (m < n)
    <3>1. m \in Nat /\ n \in Nat
      BY <1>1
    <3>2. <<m, n>> \in Nat \X Nat /\ <<m, n>>[1] = m /\ <<m, n>>[2] = n
      BY <3>1
    <3> QED
      BY <1>2, <3>2 DEF OpToRel
  <2> QED
    BY <1>1, <2>1
<1>4. PICK v \in S : n = Cardinality(Ancestors(g, v))
  OBVIOUS
<1> QED
  BY <1>3, <1>4

\* Who reaches v and is not reached by it has fewer ancestors than v.
LEMMA FewerAncestors ==
    ASSUME NEW g \in [Vertex -> Seq(Vertex)], NEW u \in Vertex, NEW v \in Vertex,
           Reachable(g, u, v), ~ Reachable(g, v, u)
    PROVE  Cardinality(Ancestors(g, u)) < Cardinality(Ancestors(g, v))
<1> DEFINE A == Ancestors(g, u)
           B == Ancestors(g, v)
<1>1. A \subseteq B
  BY ReachTransitive DEF Ancestors
<1>2. v \in B /\ v \notin A
  BY ReachSelf DEF Ancestors
<1>3. IsFiniteSet(B) /\ Cardinality(A) \in Nat /\ Cardinality(B) \in Nat
  BY AncestorsCount
<1>4. Cardinality(A) <= Cardinality(B) /\ Cardinality(A) # Cardinality(B)
  <2> HIDE DEF A, B
  <2> QED
    BY <1>1, <1>2, <1>3, FS_Subset
<1> QED
  BY <1>3, <1>4

\* Condensing leaves no cycle.
LEMMA CondensedAcyclic ==
    ASSUME NEW g \in [Vertex -> Seq(Vertex)], NEW st, NEW D \in [Vertex -> Seq(Vertex)],
           Collapses(g, st), Condensed(g, st, Slot(g), D)
    PROVE  Acyclic(D)
<1>0. st \in [Vertex -> Vertex] /\ \A v \in Vertex : st[st[v]] = st[v]
  BY DEF Collapses
<1>1. ASSUME NEW S \in SUBSET Vertex, S # {}
      PROVE  \E v \in S : \A u \in S : v \notin Succ(D, u)
  <2>1. PICK v \in S : \A u \in S :
            Cardinality(Ancestors(g, v)) <= Cardinality(Ancestors(g, u))
    BY <1>1, FewestAncestors
  <2>2. ASSUME NEW u \in S, v \in Succ(D, u) PROVE FALSE
    <3>1. u \in Vertex /\ v \in Vertex
      OBVIOUS
    <3>2. v # u /\ Crosses(g, st, u, v)
      BY <2>2, <3>1, CondensedEdge
    <3>3. PICK a \in Vertex : \E b \in Succ(g, a) : st[a] = u /\ st[b] = v
      BY <3>2 DEF Crosses
    <3>4. PICK b \in Succ(g, a) : st[a] = u /\ st[b] = v
      BY <3>3
    <3>5. b \in Vertex
      BY SuccVertex
    <3>6. st[u] = u /\ st[v] = v
      BY <1>0, <3>4, <3>5
    <3>7. Reachable(g, u, a) /\ Reachable(g, a, b) /\ Reachable(g, b, v)
      BY <3>1, <3>4, <3>5, <3>6, StandMutual, ReachEdge
    <3>8. Reachable(g, u, v)
      BY <3>7, ReachTransitive
    <3>9. ~ Reachable(g, v, u)
      BY <3>1, <3>2, <3>6, <3>8 DEF Collapses, Mutual
    <3>10. Cardinality(Ancestors(g, u)) < Cardinality(Ancestors(g, v))
      BY <3>1, <3>8, <3>9, FewerAncestors
    <3>11. Cardinality(Ancestors(g, v)) <= Cardinality(Ancestors(g, u))
      BY <2>1
    <3> QED
      BY <3>10, <3>11, AncestorsCount
  <2> QED
    BY <2>2
<1>2. \A S \in (SUBSET Vertex) \ {{}} : \E v \in S : \A u \in S : v \notin Succ(D, u)
  BY <1>1
<1> QED
  BY <1>2 DEF Acyclic

---------------------------------------------------------------------------
(***************************************************************************)
(* What readScc makes of the component file.                               *)
(***************************************************************************)
LEMMA InputGood ==
    ASSUME NEW in \in Inputs
    PROVE  GoodInput(in.adj, in.scc)
BY InputsAssumption DEF GoodInput

\* A vertex is in at most one component, whose name is a vertex of it other than 0.
LEMMA NameOf ==
    ASSUME NEW g, NEW s, GoodInput(g, s), NEW c \in 1 .. Len(s)
    PROVE  /\ s[c] \in Seq(Vertex) /\ IsInjective(s[c])
           /\ ToSet(s[c]) \subseteq Vertex
           /\ FirstSccID(s[c]) \in ToSet(s[c]) /\ FirstSccID(s[c]) # 0
           /\ FirstSccID(s[c]) \in Vertex
<1>1. s \in Seq(Seq(Vertex)) /\ DOMAIN s = 1 .. Len(s)
  BY DEF GoodInput
<1>2. s[c] \in Seq(Vertex)
  BY <1>1, ElementOfSeq
<1>3. IsInjective(s[c]) /\ Len(s[c]) >= 2
  BY <1>1 DEF GoodInput
<1>4. DOMAIN s[c] = 1 .. Len(s[c]) /\ Len(s[c]) \in Nat
  BY <1>2
<1>5. ToSet(s[c]) \subseteq Vertex
  <2>1. \A n \in 1 .. Len(s[c]) : s[c][n] \in Vertex
    BY <1>2, ElementOfSeq
  <2> QED
    BY <1>4, <2>1 DEF ToSet
<1>6. 1 \in DOMAIN s[c] /\ 2 \in DOMAIN s[c]
  BY <1>3, <1>4
<1>7. s[c][1] # s[c][2]
  BY <1>3, <1>6 DEF IsInjective
<1>8. s[c][1] \in ToSet(s[c]) /\ s[c][2] \in ToSet(s[c])
  BY <1>6 DEF ToSet
<1> QED
  BY <1>2, <1>3, <1>5, <1>7, <1>8 DEF FirstSccID

\* Components share no vertex.
LEMMA OneComponent ==
    ASSUME NEW g, NEW s, GoodInput(g, s), NEW c \in 1 .. Len(s), NEW d \in 1 .. Len(s),
           NEW v, v \in ToSet(s[c]), v \in ToSet(s[d])
    PROVE  c = d
<1>1. DOMAIN s = 1 .. Len(s)
  BY DEF GoodInput
<1>2. \A a, b \in DOMAIN s : ToSet(s[a]) \cap ToSet(s[b]) # {} => a = b
  BY DEF GoodInput
<1>3. v \in ToSet(s[c]) \cap ToSet(s[d])
  OBVIOUS
<1> QED
  BY <1>1, <1>2, <1>3

\* Before readScc nothing is located.
LEMMA LocatedStart == ASSUME NEW s PROVE Located(s, 0, Zero, Zero)
BY DEF Located, Zero

\* One component is entered in both arrays.
LEMMA LocatedNext ==
    ASSUME NEW g, NEW s, GoodInput(g, s), NEW num \in Nat, num < Len(s),
           NEW loc, NEW nloc, Located(s, num, loc, nloc),
           NEW loc2, NEW nloc2,
           loc2 = [v \in Vertex |->
               IF v \in ToSet(s[num + 1]) THEN FirstSccID(s[num + 1]) ELSE loc[v]],
           nloc2 = [v \in Vertex |-> IF v \in ToSet(s[num + 1]) THEN num + 1 ELSE nloc[v]]
    PROVE  Located(s, num + 1, loc2, nloc2)
<1> SUFFICES ASSUME NEW v \in Vertex
             PROVE  \/ /\ loc2[v] = 0 /\ nloc2[v] = 0
                       /\ \A c \in 1 .. num + 1 : v \notin ToSet(s[c])
                    \/ \E c \in 1 .. num + 1 :
                          /\ v \in ToSet(s[c])
                          /\ loc2[v] = FirstSccID(s[c]) /\ nloc2[v] = c
  BY DEF Located
<1>1. CASE v \in ToSet(s[num + 1])
  BY <1>1
<1>2. CASE v \notin ToSet(s[num + 1])
  <2>1. loc2[v] = loc[v] /\ nloc2[v] = nloc[v]
    BY <1>2
  <2>2. CASE loc[v] = 0 /\ nloc[v] = 0 /\ \A c \in 1 .. num : v \notin ToSet(s[c])
    <3>1. \A c \in 1 .. num + 1 : c \in 1 .. num \/ c = num + 1
      OBVIOUS
    <3> QED
      BY <1>2, <2>1, <2>2, <3>1
  <2>3. CASE \E c \in 1 .. num :
                 v \in ToSet(s[c]) /\ loc[v] = FirstSccID(s[c]) /\ nloc[v] = c
    BY <2>1, <2>3
  <2> QED
    BY <2>2, <2>3 DEF Located
<1> QED
  BY <1>1, <1>2

\* The arrays when the whole file has been read.
InNone(s, v) == \A c \in 1 .. Len(s) : v \notin ToSet(s[c])

\* What the arrays hold for one vertex.
LEMMA LocatedAt ==
    ASSUME NEW g, NEW s, GoodInput(g, s), NEW loc, NEW nloc,
           Located(s, Len(s), loc, nloc), NEW v \in Vertex
    PROVE  /\ InNone(s, v) => loc[v] = 0
           /\ \A c \in 1 .. Len(s) :
                 v \in ToSet(s[c]) => /\ loc[v] = FirstSccID(s[c]) /\ loc[v] # 0
                                      /\ nloc[v] = c
<1>1. CASE loc[v] = 0 /\ nloc[v] = 0 /\ InNone(s, v)
  BY <1>1 DEF InNone
<1>2. CASE \E c \in 1 .. Len(s) :
               v \in ToSet(s[c]) /\ loc[v] = FirstSccID(s[c]) /\ nloc[v] = c
  <2>1. PICK c \in 1 .. Len(s) :
            v \in ToSet(s[c]) /\ loc[v] = FirstSccID(s[c]) /\ nloc[v] = c
    BY <1>2
  <2>2. ASSUME NEW d \in 1 .. Len(s), v \in ToSet(s[d]) PROVE d = c
    BY <2>1, <2>2, OneComponent
  <2>3. loc[v] # 0
    BY <2>1, NameOf
  <2> QED
    BY <2>1, <2>2, <2>3 DEF InNone
<1> QED
  BY <1>1, <1>2 DEF Located, InNone

\* What stands for a vertex.
LEMMA StandAt ==
    ASSUME NEW g, NEW s, GoodInput(g, s), NEW loc, NEW nloc,
           Located(s, Len(s), loc, nloc), NEW v \in Vertex
    PROVE  /\ StandOf(loc)[v] \in Vertex
           /\ InNone(s, v) => StandOf(loc)[v] = v
           /\ \A c \in 1 .. Len(s) :
                 v \in ToSet(s[c]) => StandOf(loc)[v] = FirstSccID(s[c])
<1>1. StandOf(loc)[v] = IF loc[v] = 0 THEN v ELSE loc[v]
  BY DEF StandOf
<1>2. CASE InNone(s, v)
  BY <1>1, <1>2, LocatedAt DEF InNone
<1>3. CASE ~ InNone(s, v)
  <2>1. PICK c \in 1 .. Len(s) : v \in ToSet(s[c])
    BY <1>3 DEF InNone
  <2>2. \A d \in 1 .. Len(s) : v \in ToSet(s[d]) => StandOf(loc)[v] = FirstSccID(s[d])
    BY <1>1, LocatedAt
  <2>3. FirstSccID(s[c]) \in Vertex
    BY NameOf
  <2> QED
    BY <1>3, <2>1, <2>2, <2>3
<1> QED
  BY <1>2, <1>3

\* Two vertices stand for the same component iff they are equal or in one.
LEMMA SameStand ==
    ASSUME NEW g, NEW s, GoodInput(g, s), NEW loc, NEW nloc,
           Located(s, Len(s), loc, nloc), NEW x \in Vertex, NEW y \in Vertex, x # y
    PROVE  StandOf(loc)[x] = StandOf(loc)[y] <=>
               \E c \in 1 .. Len(s) : x \in ToSet(s[c]) /\ y \in ToSet(s[c])
<1> DEFINE st == StandOf(loc)
<1>1. ASSUME NEW c \in 1 .. Len(s), x \in ToSet(s[c]), y \in ToSet(s[c])
      PROVE  st[x] = st[y]
  <2>1. st[x] = FirstSccID(s[c]) /\ st[y] = FirstSccID(s[c])
    BY <1>1, StandAt
  <2> QED
    BY <2>1
<1>2. ASSUME NEW c \in 1 .. Len(s), x \in ToSet(s[c]), st[x] = st[y]
      PROVE  y \in ToSet(s[c])
  <2>1. st[x] = FirstSccID(s[c])
    BY <1>2, StandAt
  <2>2. st[y] \in ToSet(s[c])
    BY <1>2, <2>1, NameOf
  <2>3. CASE InNone(s, y)
    <3>1. st[y] = y
      BY <2>3, StandAt
    <3> QED
      BY <2>2, <3>1
  <2>4. CASE ~ InNone(s, y)
    <3>1. PICK d \in 1 .. Len(s) : y \in ToSet(s[d])
      BY <2>4 DEF InNone
    <3>2. st[y] = FirstSccID(s[d])
      BY <3>1, StandAt
    <3>3. st[y] \in ToSet(s[d])
      BY <3>2, NameOf
    <3>4. c = d
      BY <2>2, <3>3, OneComponent
    <3> QED
      BY <3>1, <3>4
  <2> QED
    BY <2>3, <2>4
<1>3. ASSUME NEW d \in 1 .. Len(s), y \in ToSet(s[d]), st[x] = st[y], InNone(s, x)
      PROVE  FALSE
  <2>1. st[y] = FirstSccID(s[d]) /\ st[x] = x
    BY <1>3, StandAt
  <2>2. x \in ToSet(s[d])
    BY <1>3, <2>1, NameOf
  <2> QED
    BY <1>3, <2>2 DEF InNone
<1>4. ASSUME st[x] = st[y]
      PROVE  \E c \in 1 .. Len(s) : x \in ToSet(s[c]) /\ y \in ToSet(s[c])
  <2>1. CASE InNone(s, x)
    <3>1. InNone(s, y)
      BY <1>3, <1>4, <2>1 DEF InNone
    <3>2. st[x] = x /\ st[y] = y
      BY <2>1, <3>1, StandAt
    <3> QED
      BY <1>4, <3>2
  <2>2. CASE ~ InNone(s, x)
    <3>1. PICK c \in 1 .. Len(s) : x \in ToSet(s[c])
      BY <2>2 DEF InNone
    <3>2. y \in ToSet(s[c])
      BY <1>2, <1>4, <3>1
    <3> QED
      BY <3>1, <3>2
  <2> QED
    BY <2>1, <2>2
<1> QED
  BY <1>1, <1>4

\* The arrays of readScc take each vertex to its strongly connected component.
LEMMA StandsCollapse ==
    ASSUME NEW g, NEW s, GoodInput(g, s), NEW loc, NEW nloc,
           Located(s, Len(s), loc, nloc)
    PROVE  Collapses(g, StandOf(loc))
<1> DEFINE st == StandOf(loc)
<1>1. st \in [Vertex -> Vertex]
  BY StandAt DEF StandOf
<1>2. g \in [Vertex -> Seq(Vertex)]
  BY DEF GoodInput
<1>3. ASSUME NEW x \in Vertex, NEW y \in Vertex PROVE st[x] = st[y] <=> Mutual(g, x, y)
  <2>1. CASE x = y
    BY <1>2, <2>1, ReachSelf DEF Mutual
  <2>2. CASE x # y
    <3>1. DOMAIN s = 1 .. Len(s)
      BY DEF GoodInput
    <3>2. Mutual(g, x, y) <=>
              \E c \in 1 .. Len(s) : x \in ToSet(s[c]) /\ y \in ToSet(s[c])
      <4>1. y \in Vertex \ {x}
        BY <2>2
      <4>2. Mutual(g, x, y) <=> \E c \in DOMAIN s : {x, y} \subseteq ToSet(s[c])
        BY <4>1 DEF GoodInput
      <4>3. \A c : {x, y} \subseteq ToSet(s[c]) <=> x \in ToSet(s[c]) /\ y \in ToSet(s[c])
        OBVIOUS
      <4> QED
        BY <3>1, <4>2, <4>3
    <3>3. st[x] = st[y] <=>
              \E c \in 1 .. Len(s) : x \in ToSet(s[c]) /\ y \in ToSet(s[c])
      BY <2>2, SameStand
    <3> QED
      BY <3>2, <3>3
  <2> QED
    BY <2>1, <2>2
<1>4. ASSUME NEW x \in Vertex PROVE st[st[x]] = st[x]
  <2>1. CASE InNone(s, x)
    BY <2>1, StandAt
  <2>2. CASE ~ InNone(s, x)
    <3>1. PICK c \in 1 .. Len(s) : x \in ToSet(s[c])
      BY <2>2 DEF InNone
    <3>2. st[x] = FirstSccID(s[c])
      BY <3>1, StandAt
    <3>3. st[x] \in ToSet(s[c]) /\ st[x] \in Vertex
      BY <3>2, NameOf
    <3>4. st[st[x]] = FirstSccID(s[c])
      BY <3>3, StandAt
    <3> QED
      BY <3>2, <3>4
  <2> QED
    BY <2>1, <2>2
<1> QED
  BY <1>1, <1>3, <1>4 DEF Collapses

\* The name of a component is located in it.
LEMMA NamesFixed ==
    ASSUME NEW g, NEW s, GoodInput(g, s), NEW loc, NEW nloc,
           Located(s, Len(s), loc, nloc)
    PROVE  Names(loc)
<1> SUFFICES ASSUME NEW v \in Vertex, loc[v] # 0
             PROVE  loc[v] \in Vertex /\ loc[loc[v]] = loc[v]
  BY DEF Names
<1>1. PICK c \in 1 .. Len(s) : v \in ToSet(s[c])
  BY LocatedAt DEF InNone
<1>2. loc[v] = FirstSccID(s[c])
  BY <1>1, LocatedAt
<1>3. loc[v] \in ToSet(s[c]) /\ loc[v] \in Vertex
  BY <1>2, NameOf
<1>4. loc[loc[v]] = FirstSccID(s[c])
  BY <1>3, LocatedAt
<1> QED
  BY <1>2, <1>3, <1>4

\* The vertex that stands for a component goes through all of its members.
LEMMA MembersListed ==
    ASSUME NEW g, NEW s, GoodInput(g, s), NEW loc, NEW nloc,
           Located(s, Len(s), loc, nloc)
    PROVE  ListsMembers(StandOf(loc), MembersOf(s, loc, nloc))
<1> DEFINE st == StandOf(loc)
           mem == MembersOf(s, loc, nloc)
<1> SUFFICES ASSUME NEW u \in Vertex
             PROVE  /\ mem[u] \in Seq(Vertex) /\ IsInjective(mem[u])
                    /\ ToSet(mem[u]) = {x \in Vertex : st[x] = u}
  BY DEF ListsMembers
<1>0. mem[u] = IF loc[u] = 0 THEN <<u>>
               ELSE IF loc[u] = u THEN s[nloc[u]] ELSE <<>>
  BY DEF MembersOf
<1>1. CASE InNone(s, u)
  <2>1. loc[u] = 0 /\ st[u] = u
    BY <1>1, LocatedAt, StandAt
  <2>2. mem[u] = <<u>>
    BY <1>0, <2>1
  <2>3. <<u>> \in Seq(Vertex) /\ IsInjective(<<u>>)
    BY DEF IsInjective
  <2>4. ToSet(<<u>>) = {u}
    BY DEF ToSet
  <2>5. ASSUME NEW x \in Vertex, st[x] = u PROVE x = u
    <3>1. SUFFICES ASSUME x # u PROVE FALSE
      OBVIOUS
    <3>2. st[x] = st[u]
      BY <2>1, <2>5
    <3>3. \E c \in 1 .. Len(s) : x \in ToSet(s[c]) /\ u \in ToSet(s[c])
      BY <3>1, <3>2, SameStand
    <3> QED
      BY <1>1, <3>3 DEF InNone
  <2> QED
    BY <2>1, <2>2, <2>3, <2>4, <2>5
<1>2. CASE ~ InNone(s, u)
  <2>1. PICK c \in 1 .. Len(s) : u \in ToSet(s[c])
    BY <1>2 DEF InNone
  <2>2. loc[u] = FirstSccID(s[c]) /\ loc[u] # 0 /\ nloc[u] = c /\ st[u] = FirstSccID(s[c])
    BY <2>1, LocatedAt, StandAt
  <2>3. ASSUME NEW x \in Vertex, st[x] = u PROVE x \in ToSet(s[c]) /\ st[u] = u
    <3>1. st[u] = u
      BY <2>3, StandsCollapse DEF Collapses
    <3>2. CASE x = u
      BY <2>1, <3>1, <3>2
    <3>3. CASE x # u
      <4>1. PICK d \in 1 .. Len(s) : x \in ToSet(s[d]) /\ u \in ToSet(s[d])
        BY <2>3, <3>1, <3>3, SameStand
      <4>2. d = c
        BY <2>1, <4>1, OneComponent
      <4> QED
        BY <3>1, <4>1, <4>2
    <3> QED
      BY <3>2, <3>3
  <2>4. CASE loc[u] = u
    <3>1. mem[u] = s[c]
      BY <1>0, <2>2, <2>4
    <3>2. s[c] \in Seq(Vertex) /\ IsInjective(s[c]) /\ ToSet(s[c]) \subseteq Vertex
      BY NameOf
    <3>3. ASSUME NEW x \in ToSet(s[c]) PROVE st[x] = u
      <4>1. x \in Vertex
        BY <3>2
      <4>2. st[x] = FirstSccID(s[c])
        BY <4>1, StandAt
      <4> QED
        BY <2>2, <2>4, <4>2
    <3> QED
      BY <2>3, <3>1, <3>2, <3>3
  <2>5. CASE loc[u] # u
    <3>1. mem[u] = <<>>
      BY <1>0, <2>2, <2>5
    <3>2. <<>> \in Seq(Vertex) /\ IsInjective(<<>>)
      BY DEF IsInjective
    <3>3. ToSet(<<>>) = {}
      BY DEF ToSet
    <3>4. \A x \in Vertex : st[x] # u
      BY <2>2, <2>3, <2>5
    <3> QED
      BY <3>1, <3>2, <3>3, <3>4
  <2> QED
    BY <2>4, <2>5
<1> QED
  BY <1>1, <1>2

---------------------------------------------------------------------------
(***************************************************************************)
(* The order in which generate_DAG goes through the edges.                 *)
(***************************************************************************)
\* The place s is the turn of member p of u.
TurnOf(mem, s, u, p) == u \in Vertex /\ p \in 1 .. Len(mem[u]) /\ mem[u][p] = s[1]

\* A turn at (u, p) comes before edge e of the member m of n.
Before(s, u, p, n, m, e) == u < n \/ (u = n /\ (p < m \/ (p = m /\ s[2] < e)))

\* Every edge has its turn.
LEMMA HasTurn ==
    ASSUME NEW g \in [Vertex -> Seq(Vertex)], NEW st \in [Vertex -> Vertex], NEW mem,
           ListsMembers(st, mem), NEW s \in Slot(g)
    PROVE  \E u \in Vertex : \E p \in 1 .. Len(mem[u]) : TurnOf(mem, s, u, p)
<1>1. s[1] \in Vertex /\ st[s[1]] \in Vertex
  BY SlotParts
<1>2. PICK u \in Vertex : u = st[s[1]]
  BY <1>1
<1>3. mem[u] \in Seq(Vertex) /\ s[1] \in ToSet(mem[u])
  BY <1>1, <1>2 DEF ListsMembers
<1>31. DOMAIN mem[u] = 1 .. Len(mem[u])
  BY <1>3
<1>4. PICK p \in 1 .. Len(mem[u]) : mem[u][p] = s[1]
  BY <1>3, <1>31 DEF ToSet
<1> QED
  BY <1>4 DEF TurnOf

\* An edge's turn is with the vertex its tail stands for.
LEMMA TurnStand ==
    ASSUME NEW st, NEW mem, ListsMembers(st, mem), NEW s, NEW u, NEW p,
           TurnOf(mem, s, u, p)
    PROVE  s[1] \in Vertex /\ st[s[1]] = u
<1>1. mem[u] \in Seq(Vertex) /\ ToSet(mem[u]) = {x \in Vertex : st[x] = u}
  BY DEF ListsMembers, TurnOf
<1>2. s[1] \in ToSet(mem[u])
  BY <1>1 DEF ToSet, TurnOf
<1> QED
  BY <1>1, <1>2

\* No edge has two turns.
LEMMA OneTurn ==
    ASSUME NEW st, NEW mem, ListsMembers(st, mem), NEW s, NEW u, NEW p, NEW u2, NEW p2,
           TurnOf(mem, s, u, p), TurnOf(mem, s, u2, p2)
    PROVE  u = u2 /\ p = p2
<1>1. u = u2
  BY TurnStand
<1>2. mem[u] \in Seq(Vertex) /\ IsInjective(mem[u])
  BY DEF ListsMembers, TurnOf
<1> QED
  BY <1>1, <1>2 DEF TurnOf, IsInjective

\* An edge is scanned once its turn is past.
LEMMA ScannedAt ==
    ASSUME NEW g, NEW st, NEW mem, ListsMembers(st, mem), NEW s \in Slot(g),
           NEW u, NEW p, TurnOf(mem, s, u, p), NEW n, NEW m, NEW e
    PROVE  s \in Scanned(g, mem, n, m, e) <=> Before(s, u, p, n, m, e)
<1>1. s \in Scanned(g, mem, n, m, e) <=>
          \E u2 \in Vertex : \E p2 \in 1 .. Len(mem[u2]) :
              TurnOf(mem, s, u2, p2) /\ Before(s, u2, p2, n, m, e)
  BY DEF Scanned, TurnOf, Before
<1>2. u \in Vertex /\ p \in 1 .. Len(mem[u])
  BY DEF TurnOf
<1> QED
  BY <1>1, <1>2, OneTurn

\* Every turn is before both of two positions or before neither.
Alike(g, mem, n, m, e, n2, m2, e2) ==
    \A s \in Slot(g) : \A u, p :
        TurnOf(mem, s, u, p) =>
            (Before(s, u, p, n, m, e) <=> Before(s, u, p, n2, m2, e2))

SameScan(g, mem, n, m, e, n2, m2, e2) ==
    Scanned(g, mem, n, m, e) = Scanned(g, mem, n2, m2, e2)

\* Positions that no turn lies between have scanned the same edges.
LEMMA ScannedAlike ==
    ASSUME NEW g \in [Vertex -> Seq(Vertex)], NEW st \in [Vertex -> Vertex], NEW mem,
           ListsMembers(st, mem), NEW n, NEW m, NEW e, NEW n2, NEW m2, NEW e2,
           Alike(g, mem, n, m, e, n2, m2, e2)
    PROVE  SameScan(g, mem, n, m, e, n2, m2, e2)
<1>1. ASSUME NEW s \in Slot(g)
      PROVE  s \in Scanned(g, mem, n, m, e) <=> s \in Scanned(g, mem, n2, m2, e2)
  <2>1. PICK u \in Vertex : \E p \in 1 .. Len(mem[u]) : TurnOf(mem, s, u, p)
    BY HasTurn
  <2>2. PICK p \in 1 .. Len(mem[u]) : TurnOf(mem, s, u, p)
    BY <2>1
  <2>3. s \in Scanned(g, mem, n, m, e) <=> Before(s, u, p, n, m, e)
    BY <2>2, ScannedAt
  <2>4. s \in Scanned(g, mem, n2, m2, e2) <=> Before(s, u, p, n2, m2, e2)
    BY <2>2, ScannedAt
  <2> QED
    BY <2>2, <2>3, <2>4 DEF Alike
<1>2. /\ Scanned(g, mem, n, m, e) \subseteq Slot(g)
      /\ Scanned(g, mem, n2, m2, e2) \subseteq Slot(g)
  BY DEF Scanned
<1> QED
  BY <1>1, <1>2 DEF SameScan

\* Nothing is scanned at the start.
LEMMA ScanNone ==
    ASSUME NEW g \in [Vertex -> Seq(Vertex)], NEW mem
    PROVE  Scanned(g, mem, 0, 0, 0) = {}
<1>1. \A u \in Vertex : u \in Nat
  BY DEF Vertex
<1>2. ASSUME NEW u \in Vertex, NEW p \in 1 .. Len(mem[u]), NEW s \in Slot(g),
             u < 0 \/ (u = 0 /\ (p < 0 \/ (p = 0 /\ s[2] < 0)))
      PROVE  FALSE
  BY <1>1, <1>2
<1> QED
  BY <1>2 DEF Scanned

\* Going to the next list, member or vertex scans no edge.
LEMMA ScanBegin ==
    ASSUME NEW g \in [Vertex -> Seq(Vertex)], NEW st \in [Vertex -> Vertex], NEW mem,
           ListsMembers(st, mem), NEW n, NEW e
    PROVE  Scanned(g, mem, n, 1, 1) = Scanned(g, mem, n, 0, e)
<1>1. ASSUME NEW s \in Slot(g), NEW u, NEW p, TurnOf(mem, s, u, p)
      PROVE  Before(s, u, p, n, 1, 1) <=> Before(s, u, p, n, 0, e)
  <2>1. s[2] \in Nat \ {0} /\ p \in Nat \ {0}
    BY <1>1, SlotParts DEF TurnOf
  <2> QED
    BY <2>1 DEF Before
<1>2. Alike(g, mem, n, 1, 1, n, 0, e)
  BY <1>1 DEF Alike
<1>3. SameScan(g, mem, n, 1, 1, n, 0, e)
  BY <1>2, ScannedAlike
<1> QED
  BY <1>3 DEF SameScan

\* After the last edge of a member comes the next member.
LEMMA ScanMember ==
    ASSUME NEW g \in [Vertex -> Seq(Vertex)], NEW st \in [Vertex -> Vertex], NEW mem,
           ListsMembers(st, mem), NEW n \in Vertex, NEW m \in 1 .. Len(mem[n]),
           NEW e \in Nat, e > Len(g[mem[n][m]])
    PROVE  Scanned(g, mem, n, m + 1, 1) = Scanned(g, mem, n, m, e)
<1>1. ASSUME NEW s \in Slot(g), NEW u, NEW p, TurnOf(mem, s, u, p)
      PROVE  Before(s, u, p, n, m + 1, 1) <=> Before(s, u, p, n, m, e)
  <2>0. s[2] \in Nat \ {0} /\ s[2] <= Len(g[s[1]])
    BY SlotParts
  <2>1. p \in Nat \ {0} /\ m \in Nat
    BY <1>1 DEF TurnOf
  <2>2. u = n /\ p = m => s[1] = mem[n][m]
    BY <1>1 DEF TurnOf
  <2>3. s[1] \in Vertex /\ Len(g[s[1]]) \in Nat
    BY SlotParts
  <2>4. u = n /\ p = m => s[2] < e
    BY <2>0, <2>1, <2>2, <2>3
  <2> QED
    BY <2>0, <2>1, <2>4 DEF Before
<1>2. Alike(g, mem, n, m + 1, 1, n, m, e)
  BY <1>1 DEF Alike
<1>3. SameScan(g, mem, n, m + 1, 1, n, m, e)
  BY <1>2, ScannedAlike
<1> QED
  BY <1>3 DEF SameScan

\* After the last member of a vertex comes the next vertex.
LEMMA ScanVertex ==
    ASSUME NEW g \in [Vertex -> Seq(Vertex)], NEW st \in [Vertex -> Vertex], NEW mem,
           ListsMembers(st, mem), NEW n \in Vertex, NEW m \in Nat, m > Len(mem[n]), NEW e
    PROVE  Scanned(g, mem, n + 1, 0, 0) = Scanned(g, mem, n, m, e)
<1>1. ASSUME NEW s \in Slot(g), NEW u, NEW p, TurnOf(mem, s, u, p)
      PROVE  Before(s, u, p, n + 1, 0, 0) <=> Before(s, u, p, n, m, e)
  <2>1. s[2] \in Nat \ {0} /\ p \in Nat \ {0} /\ u \in Nat /\ n \in Nat
    BY <1>1, SlotParts DEF TurnOf, Vertex
  <2>2. mem[n] \in Seq(Vertex) /\ Len(mem[n]) \in Nat
    BY DEF ListsMembers
  <2>3. u = n => p <= Len(mem[n])
    BY <1>1, <2>2 DEF TurnOf
  <2>4. u = n => p < m
    BY <2>1, <2>2, <2>3
  <2> QED
    BY <2>1, <2>4 DEF Before
<1>2. Alike(g, mem, n + 1, 0, 0, n, m, e)
  BY <1>1 DEF Alike
<1>3. SameScan(g, mem, n + 1, 0, 0, n, m, e)
  BY <1>2, ScannedAlike
<1> QED
  BY <1>3 DEF SameScan

\* At the end all edges are scanned.
LEMMA ScanAll ==
    ASSUME NEW g \in [Vertex -> Seq(Vertex)], NEW st \in [Vertex -> Vertex], NEW mem,
           ListsMembers(st, mem), NEW m, NEW e
    PROVE  Scanned(g, mem, maxID + 1, m, e) = Slot(g)
<1>1. ASSUME NEW s \in Slot(g) PROVE s \in Scanned(g, mem, maxID + 1, m, e)
  <2>1. PICK u \in Vertex : \E p \in 1 .. Len(mem[u]) : TurnOf(mem, s, u, p)
    BY HasTurn
  <2>2. PICK p \in 1 .. Len(mem[u]) : TurnOf(mem, s, u, p)
    BY <2>1
  <2>3. u < maxID + 1
    BY MaxIDAssumption DEF Vertex
  <2> QED
    BY <2>2, <2>3, ScannedAt DEF Before
<1> QED
  BY <1>1 DEF Scanned

\* s0 is edge e of the member m of n, and all that the scan of it adds.
EdgePlace(g, mem, n, m, e, s0) ==
    /\ m \in 1 .. Len(mem[n]) /\ e \in 1 .. Len(g[mem[n][m]])
    /\ s0 = <<mem[n][m], e>>

ScannedOne(g, st, mem, n, m, e, s0) ==
    /\ mem[n][m] \in Vertex /\ st[mem[n][m]] = n
    /\ s0 \in Slot(g) /\ s0 \notin Scanned(g, mem, n, m, e)
    /\ Scanned(g, mem, n, m, e + 1) = Scanned(g, mem, n, m, e) \cup {s0}

\* The edge that is scanned next is new, and is all that is added.
LEMMA ScanEdge ==
    ASSUME NEW g \in [Vertex -> Seq(Vertex)], NEW st \in [Vertex -> Vertex], NEW mem,
           ListsMembers(st, mem), NEW n \in Vertex, NEW m, NEW e, NEW s0,
           EdgePlace(g, mem, n, m, e, s0)
    PROVE  ScannedOne(g, st, mem, n, m, e, s0)
<1>0. /\ m \in 1 .. Len(mem[n]) /\ e \in 1 .. Len(g[mem[n][m]])
      /\ s0 = <<mem[n][m], e>> /\ Len(mem[n]) \in Nat
  BY DEF EdgePlace, ListsMembers
<1> DEFINE H == Scanned(g, mem, n, m, e)
           H2 == Scanned(g, mem, n, m, e + 1)
<1>1. s0[1] = mem[n][m] /\ s0[2] = e
  BY <1>0
<1>2. TurnOf(mem, s0, n, m)
  BY <1>0, <1>1 DEF TurnOf
<1>3. mem[n][m] \in Vertex /\ st[mem[n][m]] = n
  BY <1>1, <1>2, TurnStand
<1>4. s0 \in Slot(g)
  BY <1>0, <1>3, SlotMade
<1>5. n \in Nat /\ m \in Nat /\ e \in Nat
  BY <1>0, <1>3 DEF Vertex
<1>6. s0 \notin H
  <2>1. ~ Before(s0, n, m, n, m, e)
    BY <1>1, <1>5 DEF Before
  <2> QED
    BY <1>2, <1>4, <2>1, ScannedAt
<1>7. s0 \in H2
  <2>1. Before(s0, n, m, n, m, e + 1)
    BY <1>1, <1>5 DEF Before
  <2> QED
    BY <1>2, <1>4, <2>1, ScannedAt
<1>8. ASSUME NEW s \in Slot(g), s # s0 PROVE s \in H <=> s \in H2
  <2>1. PICK u \in Vertex : \E p \in 1 .. Len(mem[u]) : TurnOf(mem, s, u, p)
    BY HasTurn
  <2>2. PICK p \in 1 .. Len(mem[u]) : TurnOf(mem, s, u, p)
    BY <2>1
  <2>3. s[2] \in Nat /\ s = <<s[1], s[2]>>
    BY SlotParts
  <2>4. ~ (u = n /\ p = m /\ s[2] = e)
    BY <1>0, <1>8, <2>2, <2>3 DEF TurnOf
  <2>5. Before(s, u, p, n, m, e) <=> Before(s, u, p, n, m, e + 1)
    BY <1>5, <2>3, <2>4 DEF Before
  <2> QED
    BY <2>2, <2>5, ScannedAt
<1>9. H \subseteq Slot(g) /\ H2 \subseteq Slot(g)
  BY DEF Scanned
<1>10. H2 = H \cup {s0}
  <2> HIDE DEF H, H2
  <2> QED
    BY <1>4, <1>6, <1>7, <1>8, <1>9
<1> QED
  BY <1>3, <1>4, <1>6, <1>10 DEF ScannedOne

---------------------------------------------------------------------------
(***************************************************************************)
(* One edge of generate_DAG.                                               *)
(***************************************************************************)
\* v lies in the component of n.
InsideOf(loc, n, v) == loc[v] # 0 /\ loc[v] = loc[n]

\* An edge lies inside a component iff both its ends stand for one vertex.
LEMMA InsideIs ==
    ASSUME NEW g \in [Vertex -> Seq(Vertex)], NEW loc \in [Vertex -> Vertex], Names(loc),
           \A v \in Vertex : v \notin Succ(g, v),
           NEW n \in Vertex, NEW x \in Vertex, StandOf(loc)[x] = n,
           NEW v \in Vertex, v \in Succ(g, x)
    PROVE  InsideOf(loc, n, v) <=> StandOf(loc)[v] = n
<1>1. /\ StandOf(loc)[x] = IF loc[x] = 0 THEN x ELSE loc[x]
      /\ StandOf(loc)[v] = IF loc[v] = 0 THEN v ELSE loc[v]
  BY DEF StandOf
<1>2. v # x
  OBVIOUS
<1>3. /\ loc[x] # 0 => loc[loc[x]] = loc[x]
      /\ loc[v] # 0 => loc[loc[v]] = loc[v]
  BY DEF Names
<1> QED
  BY <1>1, <1>2, <1>3 DEF InsideOf

\* The empty lists have no successors.
LEMMA EmptySucc ==
    ASSUME NEW u \in Vertex
    PROVE  Succ(Empty, u) = {} /\ IsInjective(Empty[u]) /\ Empty \in [Vertex -> Seq(Vertex)]
BY DEF Succ, Empty, IsInjective

\* A list grows by one edge.
LEMMA GrownList ==
    ASSUME NEW D \in [Vertex -> Seq(Vertex)], NEW n \in Vertex, NEW w \in Vertex,
           NEW D2, D2 = [D EXCEPT ![n] = Append(D[n], w)]
    PROVE  /\ D2 \in [Vertex -> Seq(Vertex)]
           /\ \A u \in Vertex : u # n => D2[u] = D[u]
           /\ Len(D2[n]) = Len(D[n]) + 1 /\ Len(D[n]) \in Nat
           /\ D2[n][Len(D[n]) + 1] = w
           /\ \A e \in 1 .. Len(D[n]) : D2[n][e] = D[n][e]
<1>1. D[n] \in Seq(Vertex)
  OBVIOUS
<1>2. D2[n] = Append(D[n], w)
  OBVIOUS
<1> QED
  BY <1>1, <1>2, AppendProperties

Grown(D, n, w, D2) ==
    /\ \A u \in Vertex : u # n => Succ(D2, u) = Succ(D, u)
    /\ \A x : x \in Succ(D2, n) <=> x \in Succ(D, n) \/ x = w
    /\ IsInjective(D[n]) => (w \in Succ(D, n) \/ IsInjective(D2[n]))

\* What appending w to the list of n does to the successors.
LEMMA GrownSucc ==
    ASSUME NEW D \in [Vertex -> Seq(Vertex)], NEW n \in Vertex, NEW w \in Vertex,
           NEW D2, D2 = [D EXCEPT ![n] = Append(D[n], w)]
    PROVE  Grown(D, n, w, D2)
<1> DEFINE L == Len(D[n])
<1>1. /\ D2 \in [Vertex -> Seq(Vertex)]
      /\ \A u \in Vertex : u # n => D2[u] = D[u]
      /\ Len(D2[n]) = L + 1 /\ L \in Nat /\ D2[n][L + 1] = w
      /\ \A e \in 1 .. L : D2[n][e] = D[n][e]
  BY GrownList
<1>2. \A u \in Vertex : u # n => Succ(D2, u) = Succ(D, u)
  BY <1>1 DEF Succ
<1>3. \A e \in 1 .. L + 1 : e \in 1 .. L \/ e = L + 1
  BY <1>1
<1>4. \A e \in 1 .. L : e \in 1 .. L + 1
  BY <1>1
<1>5. L + 1 \in 1 .. L + 1
  BY <1>1
<1>6. ASSUME NEW x PROVE x \in Succ(D2, n) <=> x \in Succ(D, n) \/ x = w
  <2> HIDE DEF L
  <2>1. x \in Succ(D2, n) <=> \E e \in 1 .. L + 1 : x = D2[n][e]
    BY <1>1 DEF Succ
  <2>2. x \in Succ(D, n) <=> \E e \in 1 .. L : x = D[n][e]
    BY DEF Succ, L
  <2>3. ASSUME NEW e \in 1 .. L + 1, x = D2[n][e] PROVE x \in Succ(D, n) \/ x = w
    <3>1. CASE e \in 1 .. L
      BY <1>1, <2>2, <2>3, <3>1
    <3>2. CASE e = L + 1
      BY <1>1, <2>3, <3>2
    <3> QED
      BY <1>3, <3>1, <3>2
  <2>4. ASSUME NEW e \in 1 .. L, x = D[n][e] PROVE x \in Succ(D2, n)
    BY <1>1, <1>4, <2>1, <2>4
  <2>5. x = w => x \in Succ(D2, n)
    BY <1>1, <1>5, <2>1
  <2> QED
    BY <2>1, <2>2, <2>3, <2>4, <2>5
<1>7. ASSUME IsInjective(D[n]), w \notin Succ(D, n) PROVE IsInjective(D2[n])
  <2>1. DOMAIN D2[n] = 1 .. L + 1 /\ DOMAIN D[n] = 1 .. L
    BY <1>1
  <2>2. \A e \in 1 .. L : D[n][e] # w
    BY <1>7 DEF Succ
  <2>3. ASSUME NEW a \in 1 .. L + 1, NEW b \in 1 .. L + 1, D2[n][a] = D2[n][b] PROVE a = b
    <3>1. CASE a \in 1 .. L /\ b \in 1 .. L
      <4>1. D[n][a] = D[n][b]
        BY <1>1, <2>3, <3>1
      <4> QED
        BY <1>7, <2>1, <3>1, <4>1 DEF IsInjective
    <3>2. CASE a \in 1 .. L /\ b = L + 1
      BY <1>1, <2>2, <2>3, <3>2
    <3>3. CASE a = L + 1 /\ b \in 1 .. L
      BY <1>1, <2>2, <2>3, <3>3
    <3> QED
      BY <1>3, <3>1, <3>2, <3>3
  <2> QED
    BY <2>1, <2>3 DEF IsInjective
<1> QED
  BY <1>2, <1>6, <1>7 DEF Grown

GrownIn(D, w, D2, v) ==
    /\ v = w => InEdges(D2, v) = InEdges(D, v) + 1
    /\ v # w => InEdges(D2, v) = InEdges(D, v)

\* What appending w to the list of n does to the in-degrees.
LEMMA GrownInEdges ==
    ASSUME NEW D \in [Vertex -> Seq(Vertex)], NEW n \in Vertex, NEW w \in Vertex,
           NEW D2, D2 = [D EXCEPT ![n] = Append(D[n], w)], NEW v \in Vertex
    PROVE  GrownIn(D, w, D2, v)
<1> DEFINE L == Len(D[n])
           s0 == <<n, L + 1>>
<1>1. /\ D2 \in [Vertex -> Seq(Vertex)]
      /\ \A u \in Vertex : u # n => D2[u] = D[u]
      /\ Len(D2[n]) = L + 1 /\ L \in Nat /\ D2[n][L + 1] = w
      /\ \A e \in 1 .. L : D2[n][e] = D[n][e]
  BY GrownList
<1>2. s0[1] = n /\ s0[2] = L + 1
  OBVIOUS
<1>3. s0 \notin Slot(D)
  <2>1. SUFFICES ASSUME s0 \in Slot(D) PROVE FALSE
    OBVIOUS
  <2>2. s0[2] <= Len(D[s0[1]])
    BY <2>1, SlotParts
  <2> QED
    BY <1>1, <1>2, <2>2
<1>4. s0 \in Slot(D2) /\ Target(D2, s0) = w
  <2>1. L + 1 \in 1 .. Len(D2[n])
    BY <1>1
  <2>2. s0 \in Slot(D2)
    BY <1>1, <2>1, SlotMade
  <2> QED
    BY <1>1, <1>2, <2>2 DEF Target
<1>5. ASSUME NEW s \in Slot(D) PROVE s \in Slot(D2) /\ Target(D2, s) = Target(D, s)
  <2>1. /\ s[1] \in Vertex /\ s[2] \in 1 .. Len(D[s[1]]) /\ s = <<s[1], s[2]>>
        /\ s[2] \in Nat \ {0} /\ s[2] <= Len(D[s[1]])
    BY SlotParts
  <2>2. CASE s[1] = n
    <3>1. s[2] \in 1 .. Len(D2[n]) /\ D2[n][s[2]] = D[n][s[2]]
      BY <1>1, <2>1, <2>2
    <3>2. <<n, s[2]>> \in Slot(D2)
      BY <3>1, SlotMade
    <3> QED
      BY <2>1, <2>2, <3>1, <3>2 DEF Target
  <2>3. CASE s[1] # n
    <3>1. D2[s[1]] = D[s[1]]
      BY <1>1, <2>1, <2>3
    <3>2. <<s[1], s[2]>> \in Slot(D2)
      BY <2>1, <3>1, SlotMade
    <3> QED
      BY <2>1, <3>1, <3>2 DEF Target
  <2> QED
    BY <2>2, <2>3
<1>6. ASSUME NEW s \in Slot(D2), s # s0 PROVE s \in Slot(D)
  <2>1. /\ s[1] \in Vertex /\ s = <<s[1], s[2]>>
        /\ s[2] \in Nat \ {0} /\ s[2] <= Len(D2[s[1]])
    BY <1>1, SlotParts
  <2>2. s[2] \in 1 .. Len(D[s[1]])
    <3>1. CASE s[1] = n
      <4>1. s[2] # L + 1
        BY <1>6, <2>1, <3>1
      <4> QED
        BY <1>1, <2>1, <3>1, <4>1
    <3>2. CASE s[1] # n
      <4>1. D2[s[1]] = D[s[1]]
        BY <1>1, <2>1, <3>2
      <4>2. Len(D[s[1]]) \in Nat
        BY <2>1
      <4> QED
        BY <2>1, <4>1, <4>2
    <3> QED
      BY <3>1, <3>2
  <2>3. <<s[1], s[2]>> \in Slot(D)
    BY <2>1, <2>2, SlotMade
  <2> QED
    BY <2>1, <2>3
<1>7. /\ InEdges(D, v) = Cardinality(InSlots(D, v)) /\ IsFiniteSet(InSlots(D, v))
      /\ InEdges(D2, v) = Cardinality(InSlots(D2, v)) /\ InEdges(D, v) \in Nat
  BY <1>1, InEdgesIs
<1> HIDE DEF s0, L
<1>8. CASE v = w
  <2>1. InSlots(D2, v) = InSlots(D, v) \cup {s0}
    BY <1>3, <1>4, <1>5, <1>6, <1>8 DEF InSlots
  <2>2. s0 \notin InSlots(D, v)
    BY <1>3 DEF InSlots
  <2> QED
    BY <1>7, <1>8, <2>1, <2>2, FS_AddElement DEF GrownIn
<1>9. CASE v # w
  <2>1. InSlots(D2, v) = InSlots(D, v)
    BY <1>3, <1>4, <1>5, <1>6, <1>9 DEF InSlots
  <2> QED
    BY <1>7, <1>9, <2>1 DEF GrownIn
<1> QED
  BY <1>8, <1>9

\* What DagEdge does to the condensed lists.
Kept(D, n, w, skip, D2) ==
    IF skip THEN D2 = D ELSE D2 = [D EXCEPT ![n] = Append(D[n], w)]

\* The lists have the new edge, and still each once.
LEMMA CondensedNext ==
    ASSUME NEW g \in [Vertex -> Seq(Vertex)], NEW st \in [Vertex -> Vertex], NEW H,
           NEW D \in [Vertex -> Seq(Vertex)], Condensed(g, st, H, D),
           NEW n \in Vertex, NEW s0, st[s0[1]] = n, Target(g, s0) \in Vertex,
           NEW w, w = st[Target(g, s0)], NEW skip \in BOOLEAN,
           skip <=> w = n \/ w \in Succ(D, n),
           NEW D2, Kept(D, n, w, skip, D2)
    PROVE  D2 \in [Vertex -> Seq(Vertex)] /\ Condensed(g, st, H \cup {s0}, D2)
<1>1. w \in Vertex
  OBVIOUS
<1>2. \A u \in Vertex : \A x \in Vertex :
          (\E s \in H \cup {s0} : st[s[1]] = u /\ st[Target(g, s)] = x)
              <=> \/ \E s \in H : st[s[1]] = u /\ st[Target(g, s)] = x
                  \/ u = n /\ x = w
  OBVIOUS
<1>3. \A u \in Vertex :
          /\ IsInjective(D[u])
          /\ \A x \in Vertex :
                x \in Succ(D, u) <=>
                    x # u /\ \E s \in H : st[s[1]] = u /\ st[Target(g, s)] = x
  BY DEF Condensed
<1>4. CASE skip
  <2>1. D2 = D
    BY <1>4 DEF Kept
  <2>2. ASSUME NEW u \in Vertex, NEW x \in Vertex
        PROVE  x \in Succ(D, u) <=>
                   x # u /\ \E s \in H \cup {s0} : st[s[1]] = u /\ st[Target(g, s)] = x
    BY <1>2, <1>3, <1>4
  <2> QED
    BY <1>3, <2>1, <2>2 DEF Condensed
<1>5. CASE ~ skip
  <2>1. D2 = [D EXCEPT ![n] = Append(D[n], w)]
    BY <1>5 DEF Kept
  <2>2. /\ \A u \in Vertex : u # n => Succ(D2, u) = Succ(D, u)
        /\ \A x : x \in Succ(D2, n) <=> x \in Succ(D, n) \/ x = w
        /\ IsInjective(D[n]) => (w \in Succ(D, n) \/ IsInjective(D2[n]))
    <3>1. Grown(D, n, w, D2)
      BY <1>1, <2>1, GrownSucc
    <3> QED
      BY <3>1 DEF Grown
  <2>3. /\ D2 \in [Vertex -> Seq(Vertex)]
        /\ \A u \in Vertex : u # n => D2[u] = D[u]
    BY <1>1, <2>1, GrownList
  <2>4. ASSUME NEW u \in Vertex PROVE IsInjective(D2[u])
    BY <1>3, <1>5, <2>2, <2>3
  <2>5. ASSUME NEW u \in Vertex, NEW x \in Vertex
        PROVE  x \in Succ(D2, u) <=>
                   x # u /\ \E s \in H \cup {s0} : st[s[1]] = u /\ st[Target(g, s)] = x
    <3>1. x \in Succ(D2, u) <=> x \in Succ(D, u) \/ (u = n /\ x = w)
      BY <2>2
    <3>2. u = n /\ x = w => x # u
      BY <1>5
    <3> QED
      BY <1>2, <1>3, <3>1, <3>2
  <2> QED
    BY <2>3, <2>4, <2>5 DEF Condensed
<1> QED
  BY <1>4, <1>5

---------------------------------------------------------------------------
(***************************************************************************)
(* The in-degrees that generate_DAG corrects.                              *)
(***************************************************************************)
\* What DagEdge does at an edge with head v: w is what v stands for, n the vertex
\* that is scanned.
EdgeStep(loc, D, d, n, v, w, D2, d2) ==
    /\ D2 = IF InsideOf(loc, n, v) \/ w \in Succ(D, n)
            THEN D ELSE [D EXCEPT ![n] = Append(D[n], w)]
    /\ d2 = IF loc[v] # 0
            THEN IF loc[v] # loc[n] /\ w \notin Succ(D, n)
                 THEN [d EXCEPT ![w] = @ + 1] ELSE d
            ELSE IF loc[n] # 0 /\ w \in Succ(D, n) THEN [d EXCEPT ![v] = @ - 1] ELSE d

EdgeHead(g, loc, s0, v, w) == v = Target(g, s0) /\ w = StandOf(loc)[v]

CountsKept(g, loc, H, s0, D2, d2) ==
    d2 \in [Vertex -> Nat] /\ Degrees(g, loc, H \cup {s0}, D2, d2)

\* The places into v that are left when s0 has been scanned.
LEMMA LeftNat ==
    ASSUME NEW g \in [Vertex -> Seq(Vertex)], NEW H, NEW v
    PROVE  Left(g, H, v) \in Nat
<1>1. IsFiniteSet(InSlots(g, v) \ H)
  BY InEdgesIs, FS_Subset
<1> QED
  BY <1>1, FS_CardinalityType DEF Left

\* Scanning an edge into v leaves one less into v.
LEMMA LeftInto ==
    ASSUME NEW g \in [Vertex -> Seq(Vertex)], NEW H, NEW s0 \in Slot(g), s0 \notin H,
           NEW v \in Vertex
    PROVE  /\ Target(g, s0) = v =>
                 Left(g, H \cup {s0}, v) = Left(g, H, v) - 1 /\ Left(g, H, v) > 0
           /\ Target(g, s0) # v => Left(g, H \cup {s0}, v) = Left(g, H, v)
<1> DEFINE A == InSlots(g, v) \ H
           B == InSlots(g, v) \ (H \cup {s0})
<1>1. IsFiniteSet(A) /\ IsFiniteSet(B)
  BY InEdgesIs, FS_Subset
<1>2. Cardinality(A) \in Nat /\ Cardinality(B) \in Nat
  BY <1>1, FS_CardinalityType
<1>3. CASE Target(g, s0) = v
  <2>1. s0 \in A /\ B = A \ {s0}
    BY <1>3 DEF InSlots
  <2> HIDE DEF A, B
  <2>2. Cardinality(B) = Cardinality(A) - 1
    BY <1>1, <2>1, FS_RemoveElement
  <2> QED
    BY <1>2, <1>3, <2>2 DEF A, B, Left
<1>4. CASE Target(g, s0) # v
  <2>1. A = B
    BY <1>4 DEF InSlots
  <2> QED
    BY <1>2, <1>4, <2>1 DEF Left
<1> QED
  BY <1>3, <1>4

\* One vertex's count against its edges.
DegreeFits(loc, l, e, d, top) ==
    IF loc # 0 THEN d = e ELSE l + e <= d /\ d <= top

\* Degrees vertex by vertex.
LEMMA DegreesAre ==
    ASSUME NEW g, NEW loc, NEW H, NEW D, NEW d
    PROVE  Degrees(g, loc, H, D, d) <=>
               \A v \in Vertex :
                   DegreeFits(loc[v], Left(g, H, v), InEdges(D, v), d[v], InEdges(g, v))
BY DEF Degrees, DegreeFits

\* One edge keeps the in-degrees right.
LEMMA DegreesNext ==
    ASSUME NEW g \in [Vertex -> Seq(Vertex)], NEW loc \in [Vertex -> Vertex], Names(loc),
           NEW H, NEW D \in [Vertex -> Seq(Vertex)], NEW d \in [Vertex -> Nat],
           Degrees(g, loc, H, D, d),
           NEW n \in Vertex, NEW s0 \in Slot(g), s0 \notin H,
           NEW v \in Vertex, NEW w \in Vertex, EdgeHead(g, loc, s0, v, w),
           NEW D2 \in [Vertex -> Seq(Vertex)], NEW d2, EdgeStep(loc, D, d, n, v, w, D2, d2)
    PROVE  CountsKept(g, loc, H, s0, D2, d2)
<1> DEFINE fl == w \in Succ(D, n)
           skip == InsideOf(loc, n, v) \/ fl
<1>0. v = Target(g, s0) /\ w = StandOf(loc)[v]
  BY DEF EdgeHead
<1>1. ASSUME NEW x \in Vertex
      PROVE  /\ InEdges(D, x) \in Nat /\ InEdges(D2, x) \in Nat /\ InEdges(g, x) \in Nat
             /\ Left(g, H, x) \in Nat /\ Left(g, H \cup {s0}, x) \in Nat
  BY InEdgesIs, LeftNat
<1>2. ASSUME NEW x \in Vertex
      PROVE  /\ ~ skip /\ x = w => InEdges(D2, x) = InEdges(D, x) + 1
             /\ skip \/ x # w => InEdges(D2, x) = InEdges(D, x)
  <2>1. CASE skip
    BY <2>1 DEF EdgeStep
  <2>2. CASE ~ skip
    <3>1. D2 = [D EXCEPT ![n] = Append(D[n], w)]
      BY <2>2 DEF EdgeStep
    <3>2. GrownIn(D, w, D2, x)
      BY <3>1, GrownInEdges
    <3> QED
      BY <2>2, <3>2 DEF GrownIn
  <2> QED
    BY <2>1, <2>2
<1>3. ASSUME NEW x \in Vertex
      PROVE  /\ x = v => /\ Left(g, H \cup {s0}, x) = Left(g, H, x) - 1
                         /\ Left(g, H, x) > 0
             /\ x # v => Left(g, H \cup {s0}, x) = Left(g, H, x)
  BY <1>0, LeftInto
<1>4. \A x \in Vertex :
          DegreeFits(loc[x], Left(g, H, x), InEdges(D, x), d[x], InEdges(g, x))
  BY DegreesAre
<1>5. /\ loc[v] = 0 => w = v
      /\ loc[v] # 0 => w = loc[v] /\ loc[w] = w /\ loc[w] # 0
  BY <1>0 DEF StandOf, Names
<1>6. \/ /\ loc[v] # 0 /\ ~ skip
         /\ d2 = [d EXCEPT ![w] = @ + 1]
      \/ /\ loc[v] = 0 /\ fl /\ skip
         /\ d2 = [d EXCEPT ![v] = @ - 1]
      \/ /\ (loc[v] = 0 \/ skip)
         /\ d2 = d
  BY DEF EdgeStep, InsideOf
<1> HIDE DEF fl, skip
<1>7. ASSUME NEW x \in Vertex
      PROVE  /\ d2[x] \in Nat
             /\ DegreeFits(loc[x], Left(g, H \cup {s0}, x), InEdges(D2, x), d2[x],
                           InEdges(g, x))
  <2>1. PICK l \in Nat : l = Left(g, H, x)
    BY <1>1
  <2>2. PICK l2 \in Nat : l2 = Left(g, H \cup {s0}, x)
    BY <1>1
  <2>3. PICK e \in Nat : e = InEdges(D, x)
    BY <1>1
  <2>4. PICK e2 \in Nat : e2 = InEdges(D2, x)
    BY <1>1
  <2>5. PICK top \in Nat : top = InEdges(g, x)
    BY <1>1
  <2>6. PICK c \in Nat : c = d[x]
    OBVIOUS
  <2>7. DegreeFits(loc[x], l, e, c, top)
    BY <1>4, <2>1, <2>3, <2>5, <2>6
  <2>8. /\ ~ skip /\ x = w => e2 = e + 1
        /\ skip \/ x # w => e2 = e
    BY <1>2, <2>3, <2>4
  <2>9. /\ x = v => l2 = l - 1 /\ l > 0
        /\ x # v => l2 = l
    BY <1>3, <2>1, <2>2
  <2>10. CASE loc[v] # 0 /\ ~ skip /\ d2 = [d EXCEPT ![w] = @ + 1]
    <3>1. d2[x] = IF x = w THEN c + 1 ELSE c
      BY <2>6, <2>10
    <3>2. loc[x] = 0 => x # v /\ x # w
      BY <1>5, <2>10
    <3>3. d2[x] \in Nat /\ DegreeFits(loc[x], l2, e2, d2[x], top)
      BY <2>7, <2>8, <2>9, <2>10, <3>1, <3>2 DEF DegreeFits
    <3> QED
      BY <2>2, <2>4, <2>5, <3>3
  <2>11. CASE loc[v] = 0 /\ fl /\ skip /\ d2 = [d EXCEPT ![v] = @ - 1]
    <3>1. d2[x] = IF x = v THEN c - 1 ELSE c
      BY <2>6, <2>11
    <3>2. x = v => c > 0
      BY <2>7, <2>9, <2>11 DEF DegreeFits
    <3>3. e2 = e
      BY <2>8, <2>11
    <3>4. CASE x = v
      <4>1. c - 1 \in Nat /\ DegreeFits(loc[x], l2, e2, c - 1, top)
        BY <2>7, <2>9, <2>11, <3>2, <3>3, <3>4 DEF DegreeFits
      <4> QED
        BY <2>2, <2>4, <2>5, <3>1, <3>4, <4>1
    <3>5. CASE x # v
      <4>1. DegreeFits(loc[x], l2, e2, c, top)
        BY <2>7, <2>9, <3>3, <3>5
      <4> QED
        BY <2>2, <2>4, <2>5, <3>1, <3>5, <4>1
    <3> QED
      BY <3>4, <3>5
  <2>12. CASE (loc[v] = 0 \/ skip) /\ d2 = d
    <3>1. d2[x] = c
      BY <2>6, <2>12
    <3>2. ~ skip => w = v
      BY <1>5, <2>12
    <3>3. e2 = e \/ (x = v /\ e2 = e + 1 /\ loc[x] = 0)
      BY <2>8, <2>12, <3>2
    <3>4. DegreeFits(loc[x], l2, e2, c, top)
      BY <2>7, <2>9, <3>3 DEF DegreeFits
    <3> QED
      BY <2>2, <2>4, <2>5, <3>1, <3>4
  <2> QED
    BY <1>6, <2>10, <2>11, <2>12
<1>8. Degrees(g, loc, H \cup {s0}, D2, d2)
  BY <1>7, DegreesAre
<1>9. d2 \in [Vertex -> Nat]
  <2>1. DOMAIN d2 = Vertex /\ d2 = [x \in Vertex |-> d2[x]]
    BY <1>6
  <2> QED
    BY <1>7, <2>1
<1> QED
  BY <1>8, <1>9 DEF CountsKept

\* The counts never fall below the edges kept.
LEMMA DegreesSuffice ==
    ASSUME NEW g \in [Vertex -> Seq(Vertex)], NEW loc, NEW H,
           NEW D \in [Vertex -> Seq(Vertex)], NEW d \in [Vertex -> Nat],
           Degrees(g, loc, H, D, d), NEW v \in Vertex
    PROVE  d[v] >= InEdges(D, v)
<1>1. PICK l \in Nat : l = Left(g, H, v)
  BY LeftNat
<1>2. PICK e \in Nat : e = InEdges(D, v)
  BY InEdgesIs
<1>3. PICK c \in Nat : c = d[v]
  OBVIOUS
<1>4. DegreeFits(loc[v], l, e, c, InEdges(g, v))
  BY <1>1, <1>2, <1>3, DegreesAre
<1>5. c >= e
  BY <1>4 DEF DegreeFits
<1> QED
  BY <1>2, <1>3, <1>5

\* When all edges are scanned a vertex of in-degree zero has none.
LEMMA DegreesEnd ==
    ASSUME NEW g \in [Vertex -> Seq(Vertex)], NEW loc \in [Vertex -> Vertex], Names(loc),
           \A v \in Vertex : v \notin Succ(g, v), Collapses(g, StandOf(loc)),
           NEW D \in [Vertex -> Seq(Vertex)], NEW d \in [Vertex -> Nat],
           Condensed(g, StandOf(loc), Slot(g), D), Degrees(g, loc, Slot(g), D, d),
           NEW v \in Vertex, InEdges(D, v) = 0
    PROVE  d[v] = 0
<1>1. CASE loc[v] # 0
  BY <1>1 DEF Degrees
<1>2. CASE loc[v] = 0
  <2>1. InSlots(g, v) = {}
    <3>1. SUFFICES ASSUME NEW s \in InSlots(g, v) PROVE FALSE
      OBVIOUS
    <3>2. s \in Slot(g) /\ Target(g, s) = v
      BY DEF InSlots
    <3>3. s[1] \in Vertex /\ v \in Succ(g, s[1])
      BY <3>2, SlotParts
    <3>4. PICK n \in Vertex : n = StandOf(loc)[s[1]]
      BY <3>3 DEF Collapses
    <3>5. ~ InsideOf(loc, n, v)
      BY <1>2 DEF InsideOf
    <3>6. StandOf(loc)[v] # n
      BY <3>3, <3>4, <3>5, InsideIs
    <3>7. StandOf(loc)[v] = v
      BY <1>2 DEF StandOf
    <3>8. v \in Succ(D, n)
      BY <3>2, <3>4, <3>6, <3>7 DEF Condensed
    <3> QED
      BY <3>8, NoInEdge
  <2>2. InEdges(g, v) = 0
    BY <2>1, InEdgesIs
  <2>3. d[v] <= InEdges(g, v) /\ d[v] \in Nat
    BY <1>2 DEF Degrees
  <2> QED
    BY <2>2, <2>3
<1> QED
  BY <1>1, <1>2

\* Before the first edge the counts are those of construct_adj.
LEMMA DegreesStart ==
    ASSUME NEW g \in [Vertex -> Seq(Vertex)], NEW loc, NEW d \in [Vertex -> Nat],
           \A v \in Vertex : d[v] = IF loc[v] = 0 THEN InEdges(g, v) ELSE 0
    PROVE  Degrees(g, loc, {}, Empty, d)
<1>1. ASSUME NEW v \in Vertex PROVE InEdges(Empty, v) = 0
  <2>1. Empty \in [Vertex -> Seq(Vertex)] /\ \A u \in Vertex : v \notin Succ(Empty, u)
    BY EmptySucc
  <2> QED
    BY <2>1, NoInEdge
<1>2. ASSUME NEW v \in Vertex
      PROVE  /\ InSlots(g, v) \ {} = InSlots(g, v)
             /\ InEdges(g, v) = Cardinality(InSlots(g, v)) /\ InEdges(g, v) \in Nat
  BY InEdgesIs
<1> QED
  BY <1>1, <1>2 DEF Degrees, Left

---------------------------------------------------------------------------
(***************************************************************************)
(* Reading the components.                                                 *)
(***************************************************************************)
\* What the passes after generate_DAG rest on.
CodeParts == Uncoded /\ RootsListed /\ Coding /\ Coded /\ Writing

\* The invariant with the later passes in one part.
LEMMA IInvParts ==
    IInv <=> /\ TypeOK /\ InDegreesSuffice
             /\ GoodInput(graph, sccs)
             /\ Located(sccs, scc_num, scc_located, scc_num_located)
             /\ Reading /\ Collapsed /\ Condensing /\ CondensedAll /\ CodeParts
BY DEF IInv, CodeParts

\* Before recode starts its arrays stay as they were.
LEMMA CodeIdle ==
    ASSUME CodeParts, pc \in {"adj", "scc", "dag"},
           pc' \in {"adj", "scc", "dag", "roots", "aborted"},
           UNCHANGED <<codeVars, out>>
    PROVE  CodeParts'
<1>1. UNCHANGED <<que, visited_arr, curID, idcount, newID, out>>
  BY DEF codeVars
<1>2. Uncoded'
  BY <1>1 DEF CodeParts, Uncoded
<1>3. RootsListed' /\ Coding' /\ Coded' /\ Writing'
  BY DEF RootsListed, Coding, Coded, Writing
<1> QED
  BY <1>2, <1>3 DEF CodeParts

\* The inductive invariant holds at the start.
LEMMA IInvInit == Init => IInv
<1> SUFFICES ASSUME Init PROVE IInv
  OBVIOUS
<1>1. PICK in \in Inputs : graph = in.adj /\ sccs = in.scc
  BY DEF Init
<1>2. GoodInput(graph, sccs)
  BY <1>1, InputGood
<1>3. graph \in [Vertex -> Seq(Vertex)] /\ Len(sccs) \in Nat
  BY <1>2 DEF GoodInput
<1>4. 0 \in Vertex /\ 0 \in 0 .. maxID + 2 /\ 0 \in 0 .. maxID + 1 /\ 0 \in 0 .. maxID
      /\ 0 \in 0 .. Len(sccs)
  BY <1>3, MaxIDAssumption DEF Vertex
<1>5. SccTypes
  BY <1>4 DEF Init, SccTypes, Zero
<1>6. /\ indeg = [v \in Vertex |-> InEdges(graph, v)]
      /\ outdeg = [v \in Vertex |-> Len(graph[v])]
      /\ DAG = Empty /\ visit_flag = Zero /\ querycnt = 0 /\ i = 0 /\ member = 0 /\ k = 0
      /\ scc_located = Zero /\ scc_num = 0 /\ scc_num_located = Zero /\ pc = "adj"
  BY DEF Init
<1>7. indeg \in [Vertex -> Nat] /\ outdeg \in [Vertex -> Nat]
  BY <1>3, <1>6, InEdgesIs
<1>8. DAG \in [Vertex -> Seq(Vertex)] /\ visit_flag \in [Vertex -> 0 .. maxID + 1]
  BY <1>4, <1>6 DEF Empty, Zero
<1>9. DagTypes
  BY <1>3, <1>4, <1>6, <1>7, <1>8 DEF DagTypes
<1>10. CodeTypes
  BY <1>4 DEF Init, CodeTypes, Zero, Empty
<1>11. TypeOK
  BY <1>5, <1>6, <1>9, <1>10 DEF TypeOK
<1>12. ASSUME NEW v \in Vertex PROVE InEdges(DAG, v) = 0
  <2>1. \A u \in Vertex : v \notin Succ(DAG, u)
    BY <1>6, EmptySucc
  <2> QED
    BY <1>8, <2>1, NoInEdge
<1>13. InDegreesSuffice
  BY <1>6, <1>7, <1>12 DEF InDegreesSuffice
<1>14. Located(sccs, scc_num, scc_located, scc_num_located)
  BY <1>6, LocatedStart
<1>15. Reading
  BY <1>6 DEF Reading, Zero
<1>16. CodeParts
  BY DEF Init, CodeParts, Uncoded, RootsListed, Coding, Coded, Writing
<1>17. Collapsed /\ Condensing /\ CondensedAll
  BY <1>6 DEF Collapsed, Condensing, CondensedAll
<1> QED
  BY <1>2, <1>11, <1>13, <1>14, <1>15, <1>16, <1>17, IInvParts

\* construct_adj keeps the inductive invariant.
LEMMA ConstructAdjInv == IInv /\ ConstructAdj => IInv'
<1> SUFFICES ASSUME IInv, ConstructAdj PROVE IInv'
  OBVIOUS
<1>1. /\ pc = "adj" /\ pc' \in {"scc", "aborted"}
      /\ UNCHANGED <<graph, sccs, indeg, sccVars, dagVars, root_arr, codeVars, out>>
  BY DEF ConstructAdj, SortEdges
<1>2. UNCHANGED <<scc_num, scc_located, scc_num_located, i, member, k, DAG, visit_flag,
                  querycnt, outdeg, que, visited_arr, curID, idcount, newID>>
  BY <1>1 DEF sccVars, dagVars, codeVars
<1>3. TypeOK'
  BY <1>1, <1>2 DEF IInv, TypeOK, SccTypes, DagTypes, CodeTypes
<1>4. InDegreesSuffice'
  BY <1>1, <1>2 DEF IInv, InDegreesSuffice
<1>5. /\ GoodInput(graph, sccs)'
      /\ Located(sccs, scc_num, scc_located, scc_num_located)'
  BY <1>1, <1>2 DEF IInv
<1>6. Reading'
  BY <1>1, <1>2 DEF IInv, Reading
<1>7. Collapsed' /\ Condensing' /\ CondensedAll'
  BY <1>1 DEF Collapsed, Condensing, CondensedAll
<1>8. CodeParts'
  BY <1>1, IInvParts, CodeIdle
<1> QED
  BY <1>3, <1>4, <1>5, <1>6, <1>7, <1>8 DEF IInv, CodeParts

\* Reading one component keeps it.
LEMMA ReadSccInv == IInv /\ ReadScc => IInv'
<1> SUFFICES ASSUME IInv, ReadScc PROVE IInv'
  OBVIOUS
<1> DEFINE c == sccs[scc_num + 1]
<1>1. /\ pc = "scc" /\ pc' = "scc" /\ scc_num < Len(sccs) /\ scc_num' = scc_num + 1
      /\ scc_located' = [v \in Vertex |->
             IF v \in ToSet(c) THEN FirstSccID(c) ELSE scc_located[v]]
      /\ scc_num_located' = [v \in Vertex |->
             IF v \in ToSet(c) THEN scc_num + 1 ELSE scc_num_located[v]]
      /\ indeg' = [v \in Vertex |-> IF v \in ToSet(c) THEN 0 ELSE indeg[v]]
      /\ UNCHANGED <<graph, sccs, dagVars, root_arr, codeVars, out>>
  BY DEF ReadScc
<1>2. UNCHANGED <<i, member, k, DAG, visit_flag, querycnt, outdeg, que, visited_arr, curID,
                  idcount, newID>>
  BY <1>1 DEF dagVars, codeVars
<1>3. SccTypes /\ DagTypes /\ CodeTypes
  BY DEF IInv, TypeOK
<1>4. GoodInput(graph, sccs) /\ Located(sccs, scc_num, scc_located, scc_num_located)
  BY DEF IInv
<1>5. Len(sccs) \in Nat /\ scc_num \in Nat
  BY <1>3, <1>4 DEF SccTypes, GoodInput
<1>6. scc_num + 1 \in 1 .. Len(sccs) /\ scc_num + 1 \in 0 .. Len(sccs)
  BY <1>1, <1>5
<1>7. FirstSccID(c) \in Vertex /\ FirstSccID(c) # 0
  BY <1>4, <1>6, NameOf
<1>8. SccTypes'
  BY <1>1, <1>3, <1>6, <1>7 DEF SccTypes
<1>9. DagTypes'
  BY <1>1, <1>2, <1>3 DEF DagTypes
<1>10. CodeTypes'
  BY <1>1, <1>2, <1>3 DEF CodeTypes
<1>11. TypeOK'
  BY <1>1, <1>8, <1>9, <1>10 DEF TypeOK
<1>12. Located(sccs, scc_num, scc_located, scc_num_located)'
  BY <1>1, <1>4, <1>5, LocatedNext
<1>13. Reading'
  BY <1>1, <1>2, <1>7 DEF IInv, Reading
<1>14. InDegreesSuffice'
  <2>1. ASSUME NEW v \in Vertex PROVE indeg'[v] >= InEdges(DAG', v)
    <3>1. DAG' = Empty
      BY <1>1, <1>2 DEF IInv, Reading
    <3>2. \A u \in Vertex : v \notin Succ(Empty, u)
      BY EmptySucc
    <3>3. InEdges(DAG', v) = 0
      BY <1>9, <3>1, <3>2, NoInEdge DEF DagTypes
    <3> QED
      BY <1>9, <3>3 DEF DagTypes
  <2> QED
    BY <1>1, <2>1 DEF InDegreesSuffice
<1>15. Collapsed' /\ Condensing' /\ CondensedAll'
  BY <1>1 DEF Collapsed, Condensing, CondensedAll
<1>16. CodeParts'
  BY <1>1, IInvParts, CodeIdle
<1>17. GoodInput(graph, sccs)'
  BY <1>1, <1>4
<1> QED
  BY <1>11, <1>12, <1>13, <1>14, <1>15, <1>16, <1>17 DEF IInv, CodeParts

\* With all components read generate_DAG starts from empty lists.
LEMMA ReadSccEndInv == IInv /\ ReadSccEnd => IInv'
<1> SUFFICES ASSUME IInv, ReadSccEnd PROVE IInv'
  OBVIOUS
<1>1. /\ pc = "scc" /\ pc' = "dag" /\ scc_num = Len(sccs)
      /\ UNCHANGED <<graph, sccs, indeg, sccVars, dagVars, root_arr, codeVars, out>>
  BY DEF ReadSccEnd
<1>2. UNCHANGED <<scc_num, scc_located, scc_num_located, i, member, k, DAG, visit_flag,
                  querycnt, outdeg, que, visited_arr, curID, idcount, newID>>
  BY <1>1 DEF sccVars, dagVars, codeVars
<1>3. SccTypes /\ DagTypes /\ CodeTypes
  BY DEF IInv, TypeOK
<1>4. GoodInput(graph, sccs) /\ Located(sccs, scc_num, scc_located, scc_num_located)
  BY DEF IInv
<1>5. /\ DAG = Empty /\ visit_flag = Zero /\ querycnt = 0 /\ i = 0 /\ member = 0 /\ k = 0
      /\ \A v \in Vertex :
            indeg[v] = IF scc_located[v] = 0 THEN InEdges(graph, v) ELSE 0
  BY <1>1 DEF IInv, Reading
<1>6. TypeOK'
  BY <1>1, <1>2 DEF IInv, TypeOK, SccTypes, DagTypes, CodeTypes
<1>7. InDegreesSuffice'
  BY <1>1, <1>2 DEF IInv, InDegreesSuffice
<1>8. /\ GoodInput(graph, sccs)'
      /\ Located(sccs, scc_num, scc_located, scc_num_located)'
  BY <1>1, <1>2, <1>4
<1>9. /\ Collapses(graph, StandMap) /\ Names(scc_located)
      /\ ListsMembers(StandMap, MemberMap)
  BY <1>1, <1>4, StandsCollapse, NamesFixed, MembersListed DEF StandMap, MemberMap
<1>10. Collapsed'
  BY <1>1, <1>2, <1>9 DEF Collapsed, StandMap, MemberMap
<1>11. ScannedNow = {}
  BY <1>3, <1>5, ScanNone DEF ScannedNow, DagTypes
<1>12. Condensed(graph, StandMap, ScannedNow, DAG)
  BY <1>5, <1>11, EmptySucc DEF Condensed
<1>13. Degrees(graph, scc_located, ScannedNow, DAG, indeg)
  BY <1>3, <1>5, <1>11, DegreesStart DEF DagTypes
<1>14. Flags(visit_flag, querycnt, member, DAG, i)
  BY <1>5 DEF Flags, Zero
<1>15. OutDegrees(DAG, outdeg, i)
  BY <1>5 DEF OutDegrees, Vertex
<1>16. i \in 0 .. maxID + 1 /\ ~ (member > 0)
  BY <1>5, MaxIDAssumption
<1>17. Condensing'
  BY <1>1, <1>2, <1>12, <1>13, <1>14, <1>15, <1>16
     DEF Condensing, ScannedNow, StandMap, MemberMap
<1>18. Reading' /\ CondensedAll'
  BY <1>1 DEF Reading, CondensedAll
<1>19. CodeParts'
  BY <1>1, IInvParts, CodeIdle
<1> QED
  BY <1>6, <1>7, <1>8, <1>10, <1>17, <1>18, <1>19 DEF IInv, CodeParts

---------------------------------------------------------------------------
(***************************************************************************)
(* generate_DAG.                                                           *)
(***************************************************************************)
\* What the invariant says during the pass.
LEMMA DagFacts ==
    ASSUME IInv, pc = "dag"
    PROVE  /\ SccTypes /\ DagTypes /\ CodeTypes
           /\ GoodInput(graph, sccs)
           /\ Located(sccs, scc_num, scc_located, scc_num_located)
           /\ StandMap \in [Vertex -> Vertex]
           /\ Collapses(graph, StandMap) /\ Names(scc_located)
           /\ ListsMembers(StandMap, MemberMap)
           /\ i \in 0 .. maxID + 1 /\ (member > 0 => i <= maxID /\ k > 0)
           /\ Flags(visit_flag, querycnt, member, DAG, i)
           /\ Condensed(graph, StandMap, ScannedNow, DAG)
           /\ Degrees(graph, scc_located, ScannedNow, DAG, indeg)
           /\ OutDegrees(DAG, outdeg, i)
BY DEF IInv, TypeOK, Collapsed, Condensing, Collapses

\* What a step of the pass has to keep.
LEMMA DagKept ==
    ASSUME IInv, pc = "dag", pc' = "dag", TypeOK',
           UNCHANGED <<graph, sccs, sccVars, root_arr, codeVars, out>>,
           i' \in 0 .. maxID + 1, member' > 0 => i' <= maxID /\ k' > 0,
           Flags(visit_flag', querycnt', member', DAG', i'),
           Condensed(graph, StandMap, Scanned(graph, MemberMap, i', member', k'), DAG'),
           Degrees(graph, scc_located, Scanned(graph, MemberMap, i', member', k'),
                   DAG', indeg'),
           OutDegrees(DAG', outdeg', i')
    PROVE  IInv'
<1>1. UNCHANGED <<scc_num, scc_located, scc_num_located>>
  BY DEF sccVars
<1>2. StandMap' = StandMap /\ MemberMap' = MemberMap
  BY <1>1 DEF StandMap, MemberMap
<1>3. ScannedNow' = Scanned(graph, MemberMap, i', member', k')
  BY <1>2 DEF ScannedNow
<1>4. Condensing'
  BY <1>1, <1>2, <1>3 DEF Condensing
<1>5. Collapsed'
  BY <1>1, <1>2, DagFacts DEF Collapsed
<1>6. GoodInput(graph, sccs)' /\ Located(sccs, scc_num, scc_located, scc_num_located)'
  BY <1>1, DagFacts
<1>7. graph \in [Vertex -> Seq(Vertex)] /\ DAG' \in [Vertex -> Seq(Vertex)]
      /\ indeg' \in [Vertex -> Nat]
  BY DagFacts DEF TypeOK, DagTypes
<1>8. InDegreesSuffice'
  <2>1. \A v \in Vertex : indeg'[v] >= InEdges(DAG', v)
    BY <1>7, DegreesSuffice
  <2> QED
    BY <2>1 DEF InDegreesSuffice
<1>9. Reading' /\ CondensedAll'
  BY DEF Reading, CondensedAll
<1>10. CodeParts'
  BY IInvParts, CodeIdle
<1> QED
  BY <1>4, <1>5, <1>6, <1>8, <1>9, <1>10 DEF IInv, CodeParts

\* Nothing has been entered for a vertex that is not begun.
LEMMA NotBegun ==
    ASSUME NEW g \in [Vertex -> Seq(Vertex)], NEW st, NEW mem, ListsMembers(st, mem),
           NEW n \in Vertex, NEW e, NEW D,
           Condensed(g, st, Scanned(g, mem, n, 0, e), D)
    PROVE  Succ(D, n) \cap Vertex = {}
<1> SUFFICES ASSUME NEW w \in Vertex, w \in Succ(D, n) PROVE FALSE
  OBVIOUS
<1>1. PICK s \in Scanned(g, mem, n, 0, e) : st[s[1]] = n
  BY DEF Condensed
<1>2. PICK u \in Vertex : \E p \in 1 .. Len(mem[u]) :
          /\ mem[u][p] = s[1]
          /\ u < n \/ (u = n /\ (p < 0 \/ (p = 0 /\ s[2] < e)))
  BY <1>1 DEF Scanned
<1>3. PICK p \in 1 .. Len(mem[u]) :
          /\ mem[u][p] = s[1]
          /\ u < n \/ (u = n /\ (p < 0 \/ (p = 0 /\ s[2] < e)))
  BY <1>2
<1>4. Len(mem[u]) \in Nat
  BY DEF ListsMembers
<1>5. u < n
  <2>1. p \in Nat \ {0}
    BY <1>4
  <2> QED
    BY <1>3, <2>1
<1>6. TurnOf(mem, s, u, p)
  BY <1>3 DEF TurnOf
<1>7. st[s[1]] = u
  BY <1>6, TurnStand
<1> QED
  BY <1>1, <1>5, <1>7 DEF Vertex

\* Beginning the next vertex keeps it.
LEMMA DagBeginInv == IInv /\ DagBegin => IInv'
<1> SUFFICES ASSUME IInv, DagBegin PROVE IInv'
  OBVIOUS
<1>1. /\ pc = "dag" /\ pc' = "dag" /\ i <= maxID /\ member = 0
      /\ querycnt' = querycnt + 1 /\ member' = 1 /\ k' = 1
      /\ UNCHANGED <<graph, sccs, indeg, sccVars, i, DAG, visit_flag, outdeg,
                     root_arr, codeVars, out>>
  BY DEF DagBegin
<1>2. UNCHANGED <<scc_num, scc_located, scc_num_located, que, visited_arr, curID, idcount,
                  newID>>
  BY <1>1 DEF sccVars, codeVars
<1>3. /\ SccTypes /\ DagTypes /\ CodeTypes
      /\ StandMap \in [Vertex -> Vertex] /\ ListsMembers(StandMap, MemberMap)
      /\ i \in 0 .. maxID + 1
      /\ Flags(visit_flag, querycnt, member, DAG, i)
      /\ Condensed(graph, StandMap, ScannedNow, DAG)
      /\ Degrees(graph, scc_located, ScannedNow, DAG, indeg)
      /\ OutDegrees(DAG, outdeg, i)
  BY <1>1, DagFacts
<1>4. i \in Vertex
  BY <1>1, <1>3 DEF Vertex
<1>5. graph \in [Vertex -> Seq(Vertex)] /\ DAG \in [Vertex -> Seq(Vertex)]
      /\ visit_flag \in [Vertex -> 0 .. maxID + 1]
  BY <1>3 DEF DagTypes
<1>6. querycnt = i
  BY <1>1, <1>3 DEF Flags
<1>7. querycnt' \in 0 .. maxID + 1
  BY <1>1, <1>3, <1>6, MaxIDAssumption
<1>8. TypeOK'
  <2>1. SccTypes' /\ CodeTypes'
    BY <1>1, <1>2, <1>3 DEF SccTypes, CodeTypes
  <2>2. DagTypes'
    BY <1>1, <1>2, <1>3, <1>7 DEF DagTypes
  <2> QED
    BY <1>1, <2>1, <2>2 DEF TypeOK
<1>9. ScannedNow = Scanned(graph, MemberMap, i, 0, k)
  BY <1>1 DEF ScannedNow
<1>10. Scanned(graph, MemberMap, i, 1, 1) = ScannedNow
  BY <1>3, <1>5, <1>9, ScanBegin
<1>11. Scanned(graph, MemberMap, i', member', k') = ScannedNow
  BY <1>1, <1>10
<1>12. Succ(DAG, i) \cap Vertex = {}
  BY <1>3, <1>4, <1>5, <1>9, NotBegun
<1>13. Flags(visit_flag', querycnt', member', DAG', i')
  <2>1. \A w \in Vertex : visit_flag[w] <= querycnt /\ visit_flag[w] \in Nat
    BY <1>3, <1>5, MaxIDAssumption DEF Flags
  <2>2. i \in Nat
    BY <1>3
  <2>3. \A w \in Vertex : visit_flag'[w] <= querycnt' /\ visit_flag'[w] # querycnt'
    BY <1>1, <1>6, <2>1, <2>2
  <2>4. \A w \in Vertex : w \notin Succ(DAG', i')
    BY <1>1, <1>12
  <2>5. querycnt' = i' + (IF member' > 0 THEN 1 ELSE 0)
    BY <1>1, <1>6
  <2> QED
    BY <2>3, <2>4, <2>5 DEF Flags
<1> QED
  BY <1>1, <1>3, <1>8, <1>11, <1>13, DagKept

\* The operators of the model read off the maps.
LEMMA StandIs == ASSUME NEW u \in Vertex PROVE Stand(u) = StandMap[u]
BY DEF Stand, StandMap, StandOf

\* Members reads the map of members.
LEMMA MembersIs == ASSUME NEW u \in Vertex PROVE Members(u) = MemberMap[u]
BY DEF Members, MemberMap, MembersOf

\* Going to the next member keeps it.
LEMMA DagMemberInv == IInv /\ DagMember => IInv'
<1> SUFFICES ASSUME IInv, DagMember PROVE IInv'
  OBVIOUS
<1>1. /\ pc = "dag" /\ pc' = "dag" /\ i <= maxID /\ member > 0
      /\ member <= Len(Members(i)) /\ k > Len(graph[Members(i)[member]])
      /\ member' = member + 1 /\ k' = 1
      /\ UNCHANGED <<graph, sccs, indeg, sccVars, i, DAG, visit_flag, querycnt,
                     outdeg, root_arr, codeVars, out>>
  BY DEF DagMember, Scanning
<1>2. UNCHANGED <<scc_num, scc_located, scc_num_located, que, visited_arr, curID, idcount,
                  newID>>
  BY <1>1 DEF sccVars, codeVars
<1>3. /\ SccTypes /\ DagTypes /\ CodeTypes
      /\ StandMap \in [Vertex -> Vertex] /\ ListsMembers(StandMap, MemberMap)
      /\ i \in 0 .. maxID + 1
      /\ Flags(visit_flag, querycnt, member, DAG, i)
      /\ Condensed(graph, StandMap, ScannedNow, DAG)
      /\ Degrees(graph, scc_located, ScannedNow, DAG, indeg)
      /\ OutDegrees(DAG, outdeg, i)
  BY <1>1, DagFacts
<1>4. i \in Vertex /\ member \in Nat /\ k \in Nat
  BY <1>1, <1>3 DEF Vertex, DagTypes
<1>5. graph \in [Vertex -> Seq(Vertex)]
  BY <1>3 DEF DagTypes
<1>6. Members(i) = MemberMap[i] /\ Len(MemberMap[i]) \in Nat
  BY <1>3, <1>4, MembersIs DEF ListsMembers
<1>7. member \in 1 .. Len(MemberMap[i])
  BY <1>1, <1>4, <1>6
<1>8. TypeOK'
  <2>1. SccTypes' /\ CodeTypes'
    BY <1>1, <1>2, <1>3 DEF SccTypes, CodeTypes
  <2>2. DagTypes'
    BY <1>1, <1>2, <1>3, <1>4 DEF DagTypes
  <2> QED
    BY <1>1, <2>1, <2>2 DEF TypeOK
<1>9. Scanned(graph, MemberMap, i, member + 1, 1) = ScannedNow
  BY <1>1, <1>3, <1>4, <1>5, <1>6, <1>7, ScanMember DEF ScannedNow
<1>10. Scanned(graph, MemberMap, i', member', k') = ScannedNow
  BY <1>1, <1>9
<1>11. member' > 0 /\ k' > 0
  BY <1>1, <1>4
<1>12. Flags(visit_flag', querycnt', member', DAG', i')
  BY <1>1, <1>3, <1>11 DEF Flags
<1> QED
  BY <1>1, <1>3, <1>8, <1>10, <1>11, <1>12, DagKept

\* Finishing a vertex keeps it.
LEMMA DagVertexInv == IInv /\ DagVertex => IInv'
<1> SUFFICES ASSUME IInv, DagVertex PROVE IInv'
  OBVIOUS
<1>1. /\ pc = "dag" /\ pc' = "dag" /\ i <= maxID /\ member > 0
      /\ member > Len(Members(i))
      /\ outdeg' = [outdeg EXCEPT ![i] = Len(DAG[i])]
      /\ i' = i + 1 /\ member' = 0 /\ k' = 0
      /\ UNCHANGED <<graph, sccs, indeg, sccVars, DAG, visit_flag, querycnt,
                     root_arr, codeVars, out>>
  BY DEF DagVertex, Scanning
<1>2. UNCHANGED <<scc_num, scc_located, scc_num_located, que, visited_arr, curID, idcount,
                  newID>>
  BY <1>1 DEF sccVars, codeVars
<1>3. /\ SccTypes /\ DagTypes /\ CodeTypes
      /\ StandMap \in [Vertex -> Vertex] /\ ListsMembers(StandMap, MemberMap)
      /\ i \in 0 .. maxID + 1
      /\ Flags(visit_flag, querycnt, member, DAG, i)
      /\ Condensed(graph, StandMap, ScannedNow, DAG)
      /\ Degrees(graph, scc_located, ScannedNow, DAG, indeg)
      /\ OutDegrees(DAG, outdeg, i)
  BY <1>1, DagFacts
<1>4. i \in Vertex /\ member \in Nat /\ i' \in 0 .. maxID + 1 /\ i' \in 0 .. maxID + 2
  BY <1>1, <1>3, MaxIDAssumption DEF Vertex, DagTypes
<1>5. /\ graph \in [Vertex -> Seq(Vertex)] /\ DAG \in [Vertex -> Seq(Vertex)]
      /\ outdeg \in [Vertex -> Nat]
  BY <1>3 DEF DagTypes
<1>6. Members(i) = MemberMap[i]
  BY <1>4, MembersIs
<1>7. Len(DAG[i]) \in Nat
  BY <1>4, <1>5
<1>8. outdeg' \in [Vertex -> Nat]
  BY <1>1, <1>5, <1>7
<1>9. TypeOK'
  <2>1. SccTypes' /\ CodeTypes'
    BY <1>1, <1>2, <1>3 DEF SccTypes, CodeTypes
  <2>2. DagTypes'
    BY <1>1, <1>2, <1>3, <1>4, <1>8 DEF DagTypes
  <2> QED
    BY <1>1, <2>1, <2>2 DEF TypeOK
<1>10. Scanned(graph, MemberMap, i + 1, 0, 0) = ScannedNow
  BY <1>1, <1>3, <1>4, <1>5, <1>6, ScanVertex DEF ScannedNow
<1>11. Scanned(graph, MemberMap, i', member', k') = ScannedNow
  BY <1>1, <1>10
<1>12. Flags(visit_flag', querycnt', member', DAG', i')
  BY <1>1, <1>3 DEF Flags
<1>13. OutDegrees(DAG', outdeg', i')
  <2> SUFFICES ASSUME NEW u \in Vertex, u < i + 1 PROVE outdeg'[u] = Len(DAG[u])
    BY <1>1 DEF OutDegrees
  <2>1. CASE u = i
    BY <1>1, <1>4, <1>5, <2>1
  <2>2. CASE u # i
    <3>1. u < i
      BY <1>4, <2>2 DEF Vertex
    <3> QED
      BY <1>1, <1>3, <1>5, <2>2, <3>1 DEF OutDegrees
  <2> QED
    BY <2>1, <2>2
<1> QED
  BY <1>1, <1>3, <1>4, <1>9, <1>11, <1>12, <1>13, DagKept

---------------------------------------------------------------------------
\* What Insert makes of the marks.
LEMMA FlagsNext ==
    ASSUME NEW flag \in [Vertex -> Nat], NEW q, NEW m, m > 0, NEW n \in Vertex,
           NEW D \in [Vertex -> Seq(Vertex)], Flags(flag, q, m, D, n),
           NEW w \in Vertex, NEW D2, D2 = [D EXCEPT ![n] = Append(D[n], w)],
           NEW flag2, flag2 = [flag EXCEPT ![w] = q]
    PROVE  Flags(flag2, q, m, D2, n)
<1>1. Grown(D, n, w, D2)
  BY GrownSucc
<1>2. q \in Nat /\ q = n + (IF m > 0 THEN 1 ELSE 0)
  BY DEF Flags, Vertex
<1>3. ASSUME NEW x \in Vertex
      PROVE  flag2[x] <= q /\ (flag2[x] = q <=> x \in Succ(D2, n))
  <2>1. x \in Succ(D2, n) <=> x \in Succ(D, n) \/ x = w
    BY <1>1 DEF Grown
  <2>2. flag[x] <= q /\ (flag[x] = q <=> x \in Succ(D, n))
    BY DEF Flags
  <2>3. flag2[x] = IF x = w THEN q ELSE flag[x]
    OBVIOUS
  <2> QED
    BY <1>2, <2>1, <2>2, <2>3
<1> QED
  BY <1>2, <1>3 DEF Flags

\* Scanning one edge keeps it: in-degree, list and mark change together.
LEMMA DagEdgeInv == IInv /\ DagEdge => IInv'
<1> SUFFICES ASSUME IInv, DagEdge PROVE IInv'
  OBVIOUS
<1> DEFINE v == graph[Members(i)[member]][k]
<1>1. /\ pc = "dag" /\ pc' = "dag" /\ i <= maxID /\ member > 0
      /\ member <= Len(Members(i)) /\ k <= Len(graph[Members(i)[member]])
      /\ indeg' = InDegreeAfter(v)
      /\ IF Inside(v) \/ Flagged(Stand(v))
         THEN UNCHANGED <<DAG, visit_flag>> ELSE Insert(Stand(v))
      /\ k' = k + 1
      /\ UNCHANGED <<graph, sccs, sccVars, i, member, querycnt, outdeg, root_arr,
                     codeVars, out>>
  BY DEF DagEdge, Scanning
<1>2. UNCHANGED <<scc_num, scc_located, scc_num_located, que, visited_arr, curID, idcount,
                  newID>>
  BY <1>1 DEF sccVars, codeVars
<1>3. /\ SccTypes /\ DagTypes /\ CodeTypes /\ GoodInput(graph, sccs)
      /\ StandMap \in [Vertex -> Vertex] /\ ListsMembers(StandMap, MemberMap)
      /\ Names(scc_located)
      /\ i \in 0 .. maxID + 1 /\ k > 0
      /\ Flags(visit_flag, querycnt, member, DAG, i)
      /\ Condensed(graph, StandMap, ScannedNow, DAG)
      /\ Degrees(graph, scc_located, ScannedNow, DAG, indeg)
      /\ OutDegrees(DAG, outdeg, i)
  BY <1>1, DagFacts
<1>4. i \in Vertex /\ member \in Nat /\ k \in Nat
  BY <1>1, <1>3 DEF Vertex, DagTypes
<1>5. /\ graph \in [Vertex -> Seq(Vertex)] /\ DAG \in [Vertex -> Seq(Vertex)]
      /\ indeg \in [Vertex -> Nat] /\ scc_located \in [Vertex -> Vertex]
      /\ visit_flag \in [Vertex -> 0 .. maxID + 1] /\ querycnt \in 0 .. maxID + 1
      /\ \A x \in Vertex : x \notin Succ(graph, x)
  BY <1>3 DEF DagTypes, SccTypes, GoodInput
<1>6. Members(i) = MemberMap[i] /\ Len(MemberMap[i]) \in Nat
  BY <1>3, <1>4, MembersIs DEF ListsMembers
<1>7. member \in 1 .. Len(MemberMap[i])
  BY <1>1, <1>4, <1>6
<1> DEFINE x == MemberMap[i][member]
           s0 == <<x, k>>
           w == StandMap[v]
           skip == Inside(v) \/ Flagged(w)
           H == ScannedNow
<1>8. x \in Vertex
  BY <1>3, <1>4, <1>7 DEF ListsMembers
<1>9. k \in 1 .. Len(graph[x])
  BY <1>1, <1>3, <1>4, <1>5, <1>6, <1>8
<1>10. /\ StandMap[x] = i /\ s0 \in Slot(graph) /\ s0 \notin H
       /\ Scanned(graph, MemberMap, i, member, k + 1) = H \cup {s0}
  <2> HIDE DEF v, w, skip
  <2>1. /\ x \in Vertex /\ StandMap[x] = i
        /\ s0 \in Slot(graph) /\ s0 \notin Scanned(graph, MemberMap, i, member, k)
        /\ Scanned(graph, MemberMap, i, member, k + 1)
              = Scanned(graph, MemberMap, i, member, k) \cup {s0}
    <3>1. /\ graph \in [Vertex -> Seq(Vertex)] /\ StandMap \in [Vertex -> Vertex]
          /\ ListsMembers(StandMap, MemberMap) /\ i \in Vertex
          /\ member \in 1 .. Len(MemberMap[i])
      BY <1>3, <1>4, <1>5, <1>7
    <3>2. k \in 1 .. Len(graph[MemberMap[i][member]])
      BY <1>9
    <3>3. s0 = <<MemberMap[i][member], k>>
      OBVIOUS
    <3> HIDE DEF H, s0, x
    <3>4. EdgePlace(graph, MemberMap, i, member, k, s0)
      BY <3>1, <3>2, <3>3 DEF EdgePlace
    <3>5. ScannedOne(graph, StandMap, MemberMap, i, member, k, s0)
      BY <3>1, <3>4, ScanEdge
    <3> QED
      BY <3>5 DEF x, ScannedOne
  <2> QED
    BY <2>1 DEF ScannedNow
<1>11. v \in Succ(graph, x) /\ Target(graph, s0) = v /\ v \in Vertex
  <2>1. v = graph[x][k]
    BY <1>6
  <2>2. Target(graph, <<x, k>>) = graph[x][k] /\ Target(graph, <<x, k>>) \in Succ(graph, x)
    <3> HIDE DEF x
    <3> QED
      BY <1>8, <1>9, SlotMade
  <2>3. Succ(graph, x) \subseteq Vertex
    <3> HIDE DEF x
    <3> QED
      BY <1>5, <1>8, SuccVertex
  <2> HIDE DEF x, v
  <2> QED
    BY <2>1, <2>2, <2>3
<1>12. w \in Vertex /\ Stand(v) = w
  BY <1>3, <1>11, StandIs
<1>13. Inside(v) <=> InsideOf(scc_located, i, v)
  BY DEF Inside, InsideOf
<1>14. InsideOf(scc_located, i, v) <=> w = i
  <2>1. StandOf(scc_located)[x] = i /\ w = StandOf(scc_located)[v]
    BY <1>10 DEF StandMap
  <2>2. InsideOf(scc_located, i, v) <=> StandOf(scc_located)[v] = i
    <3>1. /\ graph \in [Vertex -> Seq(Vertex)] /\ scc_located \in [Vertex -> Vertex]
          /\ Names(scc_located) /\ i \in Vertex
      BY <1>3, <1>4, <1>5
    <3>2. StandOf(scc_located)[x] = i
      BY <2>1
    <3>3. \A y \in Vertex : y \notin Succ(graph, y)
      BY <1>5
    <3> HIDE DEF x, v
    <3> QED
      BY <1>8, <1>11, <3>1, <3>2, <3>3, InsideIs
  <2> QED
    BY <2>1, <2>2
<1>15. Flagged(w) <=> w \in Succ(DAG, i)
  BY <1>1, <1>3, <1>12 DEF Flags, Flagged
<1>16. skip <=> w = i \/ w \in Succ(DAG, i)
  BY <1>13, <1>14, <1>15
<1> HIDE DEF v, x, s0, w
<1>29. PICK sk \in BOOLEAN : sk <=> skip
  <2>1. \E b \in BOOLEAN : b <=> skip
    OBVIOUS
  <2> QED
    BY <2>1
<1>17. Kept(DAG, i, w, sk, DAG')
  BY <1>1, <1>12, <1>29 DEF Kept, Insert, v
<1>18. DAG' \in [Vertex -> Seq(Vertex)] /\ Condensed(graph, StandMap, H \cup {s0}, DAG')
  <2>1. StandMap[s0[1]] = i
    BY <1>10 DEF s0
  <2>2. w = StandMap[Target(graph, s0)] /\ Target(graph, s0) \in Vertex
    BY <1>11 DEF w
  <2>3. sk <=> w = i \/ w \in Succ(DAG, i)
    BY <1>16, <1>29
  <2>4. Condensed(graph, StandMap, H, DAG)
    BY <1>3
  <2> HIDE DEF skip, H
  <2> QED
    BY <1>3, <1>4, <1>5, <1>17, <2>1, <2>2, <2>3, <2>4, CondensedNext
<1>19. EdgeStep(scc_located, DAG, indeg, i, v, w, DAG', indeg')
  <2>1. scc_located[v] = 0 => w = v
    BY <1>11 DEF StandMap, StandOf, w
  <2>2. indeg' = IF scc_located[v] # 0
         THEN IF scc_located[v] # scc_located[i] /\ ~ Flagged(w)
              THEN [indeg EXCEPT ![w] = @ + 1] ELSE indeg
         ELSE IF scc_located[i] # 0 /\ Flagged(v) THEN [indeg EXCEPT ![v] = @ - 1] ELSE indeg
    BY <1>1, <1>12 DEF InDegreeAfter, v
  <2>3. scc_located[v] = 0 => (Flagged(v) <=> w \in Succ(DAG, i))
    BY <1>15, <2>1
  <2>4. DAG' = IF InsideOf(scc_located, i, v) \/ w \in Succ(DAG, i)
               THEN DAG ELSE [DAG EXCEPT ![i] = Append(DAG[i], w)]
    BY <1>13, <1>15, <1>17, <1>29 DEF Kept
  <2> HIDE DEF H, skip
  <2>5. indeg' = IF scc_located[v] # 0
         THEN IF scc_located[v] # scc_located[i] /\ w \notin Succ(DAG, i)
              THEN [indeg EXCEPT ![w] = @ + 1] ELSE indeg
         ELSE IF scc_located[i] # 0 /\ w \in Succ(DAG, i)
              THEN [indeg EXCEPT ![v] = @ - 1] ELSE indeg
    BY <1>15, <2>2, <2>3
  <2> QED
    BY <2>4, <2>5 DEF EdgeStep
<1>20. indeg' \in [Vertex -> Nat] /\ Degrees(graph, scc_located, H \cup {s0}, DAG', indeg')
  <2>1. Degrees(graph, scc_located, H, DAG, indeg)
    BY <1>3
  <2>2. /\ graph \in [Vertex -> Seq(Vertex)] /\ DAG \in [Vertex -> Seq(Vertex)]
        /\ indeg \in [Vertex -> Nat] /\ scc_located \in [Vertex -> Vertex]
        /\ Names(scc_located) /\ i \in Vertex
    BY <1>3, <1>4, <1>5
  <2>3. s0 \in Slot(graph) /\ s0 \notin H /\ v \in Vertex
        /\ w \in Vertex /\ DAG' \in [Vertex -> Seq(Vertex)]
    BY <1>10, <1>11, <1>12, <1>18
  <2>4. EdgeHead(graph, scc_located, s0, v, w)
    BY <1>11 DEF EdgeHead, StandMap, w
  <2> HIDE DEF skip, H
  <2>5. CountsKept(graph, scc_located, H, s0, DAG', indeg')
    BY <1>19, <2>1, <2>2, <2>3, <2>4, DegreesNext
  <2> QED
    BY <2>5 DEF CountsKept
<1>21. Flags(visit_flag', querycnt, member, DAG', i) /\ visit_flag' \in [Vertex -> 0 .. maxID + 1]
  <2>1. CASE skip
    <3>1. UNCHANGED <<DAG, visit_flag>>
      BY <1>1, <1>12, <2>1 DEF v
    <3> QED
      BY <1>3, <1>5, <3>1
  <2>2. CASE ~ skip
    <3>1. /\ DAG' = [DAG EXCEPT ![i] = Append(DAG[i], w)]
          /\ visit_flag' = [visit_flag EXCEPT ![w] = querycnt]
      BY <1>1, <1>12, <2>2 DEF Insert, v
    <3>2. visit_flag \in [Vertex -> Nat]
      BY <1>5, MaxIDAssumption
    <3> QED
      BY <1>1, <1>3, <1>4, <1>5, <1>12, <3>1, <3>2, FlagsNext
  <2> QED
    BY <2>1, <2>2
<1>22. TypeOK'
  <2>1. SccTypes' /\ CodeTypes'
    BY <1>1, <1>2, <1>3 DEF SccTypes, CodeTypes
  <2>2. k' \in Nat
    BY <1>1, <1>4
  <2>3. DagTypes'
    BY <1>1, <1>2, <1>3, <1>18, <1>20, <1>21, <2>2 DEF DagTypes
  <2> QED
    BY <1>1, <2>1, <2>3 DEF TypeOK
<1>23. Scanned(graph, MemberMap, i', member', k') = H \cup {s0}
  BY <1>1, <1>10
<1>24. OutDegrees(DAG', outdeg', i')
  <2> SUFFICES ASSUME NEW u \in Vertex, u < i PROVE outdeg[u] = Len(DAG'[u])
    BY <1>1 DEF OutDegrees
  <2>1. u # i
    BY <1>4 DEF Vertex
  <2>2. DAG'[u] = DAG[u]
    BY <1>5, <1>17, <2>1 DEF Kept
  <2> QED
    BY <1>3, <2>2 DEF OutDegrees
<1>25. k' > 0
  BY <1>1, <1>4
<1>26. Flags(visit_flag', querycnt', member', DAG', i')
  BY <1>1, <1>21
<1> HIDE DEF skip, H
<1>27. /\ Condensed(graph, StandMap, Scanned(graph, MemberMap, i', member', k'), DAG')
       /\ Degrees(graph, scc_located, Scanned(graph, MemberMap, i', member', k'), DAG',
                  indeg')
  BY <1>18, <1>20, <1>23
<1>28. i' \in 0 .. maxID + 1 /\ i' <= maxID
  BY <1>1, <1>3
<1> QED
  BY <1>1, <1>22, <1>24, <1>25, <1>26, <1>27, <1>28, DagKept

\* The pass ends with every edge in, or with no edge to sort.
LEMMA DagEndInv == IInv /\ DagEnd => IInv'
<1> SUFFICES ASSUME IInv, DagEnd PROVE IInv'
  OBVIOUS
<1>1. /\ pc = "dag" /\ pc' = (IF Slot(DAG) = {} THEN "aborted" ELSE "roots") /\ i > maxID
      /\ UNCHANGED <<graph, sccs, indeg, sccVars, dagVars, root_arr, codeVars, out>>
  BY DEF DagEnd, SortEdges
<1>2. UNCHANGED <<scc_num, scc_located, scc_num_located, i, member, k, DAG, visit_flag,
                  querycnt, outdeg, que, visited_arr, curID, idcount, newID>>
  BY <1>1 DEF sccVars, dagVars, codeVars
<1>3. /\ SccTypes /\ DagTypes /\ CodeTypes /\ GoodInput(graph, sccs)
      /\ Located(sccs, scc_num, scc_located, scc_num_located)
      /\ Collapses(graph, StandMap)
      /\ StandMap \in [Vertex -> Vertex] /\ ListsMembers(StandMap, MemberMap)
      /\ Names(scc_located)
      /\ i \in 0 .. maxID + 1
      /\ Condensed(graph, StandMap, ScannedNow, DAG)
      /\ Degrees(graph, scc_located, ScannedNow, DAG, indeg)
      /\ OutDegrees(DAG, outdeg, i)
  BY <1>1, DagFacts
<1>4. i = maxID + 1
  BY <1>1, <1>3, MaxIDAssumption
<1>5. /\ graph \in [Vertex -> Seq(Vertex)] /\ DAG \in [Vertex -> Seq(Vertex)]
      /\ indeg \in [Vertex -> Nat] /\ scc_located \in [Vertex -> Vertex]
      /\ \A x \in Vertex : x \notin Succ(graph, x)
  BY <1>3 DEF DagTypes, SccTypes, GoodInput
<1>6. ScannedNow = Slot(graph)
  BY <1>3, <1>4, <1>5, ScanAll DEF ScannedNow
<1>7. \A v \in Vertex : InEdges(DAG, v) = 0 => indeg[v] = 0
  BY <1>3, <1>5, <1>6, DegreesEnd DEF StandMap
<1>8. TypeOK'
  <2>1. pc' \in {"roots", "aborted"}
    BY <1>1
  <2>2. SccTypes' /\ CodeTypes' /\ DagTypes'
    BY <1>1, <1>2, <1>3 DEF SccTypes, CodeTypes, DagTypes
  <2> QED
    BY <2>1, <2>2 DEF TypeOK
<1>9. InDegreesSuffice'
  BY <1>1, <1>2, <1>7 DEF IInv, InDegreesSuffice
<1>10. GoodInput(graph, sccs)' /\ Located(sccs, scc_num, scc_located, scc_num_located)'
  BY <1>1, <1>2, <1>3
<1>11. StandMap' = StandMap /\ MemberMap' = MemberMap
  BY <1>1, <1>2 DEF StandMap, MemberMap
<1>12. Collapsed'
  BY <1>1, <1>2, <1>3, <1>11 DEF Collapsed
<1>13. CondensedAll'
  <2>1. pc' = "roots" => Slot(DAG) # {}
    BY <1>1
  <2>2. OutDegrees(DAG, outdeg, maxID + 1)
    BY <1>3, <1>4
  <2>3. pc' \in {"roots", "aborted"}
    BY <1>1
  <2> QED
    BY <1>1, <1>2, <1>3, <1>6, <1>11, <2>1, <2>2, <2>3 DEF CondensedAll
<1>14. Reading' /\ Condensing'
  BY <1>1 DEF Reading, Condensing
<1>15. pc' \in {"roots", "aborted"}
  BY <1>1
<1>16. CodeParts'
  BY <1>1, <1>15, IInvParts, CodeIdle
<1> QED
  BY <1>8, <1>9, <1>10, <1>12, <1>13, <1>14, <1>16 DEF IInv, CodeParts

---------------------------------------------------------------------------
(***************************************************************************)
(* Lists without repetition, numberings and the roots of an acyclic graph. *)
(***************************************************************************)
\* What qsort and the sort of the edges return: S, each member once.
IsListing(s, S) == s \in [1 .. Cardinality(S) -> S] /\ ToSet(s) = S

Lists(s, S) ==
    /\ s \in Seq(S) /\ Len(s) = Cardinality(S) /\ IsInjective(s)
    /\ \A x : x \in S <=> \E a \in 1 .. Len(s) : s[a] = x

\* A listing of a finite set repeats no member.
LEMMA ListingLists ==
    ASSUME NEW S, IsFiniteSet(S), NEW s, IsListing(s, S)
    PROVE  Lists(s, S)
<1>1. Cardinality(S) \in Nat
  BY FS_CardinalityType
<1>2. PICK n \in Nat : n = Cardinality(S)
  BY <1>1
<1>3. s \in [1 .. n -> S] /\ ToSet(s) = S
  BY <1>2 DEF IsListing
<1>4. s \in Seq(S) /\ Len(s) = n
  BY <1>3
<1>5. DOMAIN s = 1 .. n
  BY <1>3
<1>6. \A x : x \in S <=> \E a \in 1 .. n : s[a] = x
  BY <1>3, <1>5 DEF ToSet
<1>7. s \in Surjection(1 .. n, S)
  BY <1>3, <1>6 DEF Surjection
<1>8. IsFiniteSet(1 .. n) /\ Cardinality(1 .. n) = n
  BY FS_Interval
<1>9. s \in Injection(1 .. n, S)
  BY <1>2, <1>7, <1>8, FS_SurjSameCardinalityImpliesInj
<1>10. IsInjective(s)
  BY <1>9 DEF Injection
<1> QED
  BY <1>2, <1>4, <1>6, <1>10 DEF Lists

\* A list without repetition is no longer than there are vertices.
LEMMA ListShort ==
    ASSUME NEW s \in Seq(Vertex), IsInjective(s)
    PROVE  Len(s) \in Nat /\ Len(s) <= maxID + 1
<1>1. PICK n \in Nat : n = Len(s)
  OBVIOUS
<1>2. s \in [1 .. n -> Vertex]
  BY <1>1
<1>3. s \in Injection(1 .. n, Vertex)
  BY <1>2 DEF Injection
<1>4. Cardinality(1 .. n) <= Cardinality(Vertex)
  BY <1>3, VertexFinite, FS_Injection
<1>5. Cardinality(1 .. n) = n
  BY FS_Interval
<1>6. Cardinality(Vertex) = maxID + 1
  BY FS_Interval, MaxIDAssumption DEF Vertex
<1> QED
  BY <1>1, <1>4, <1>5, <1>6

\* A set numbered from 0 to n - 1 has n members.
LEMMA NumbersCount ==
    ASSUME NEW new, NEW N, NEW n \in Nat, Numbers(new, N, n)
    PROVE  IsFiniteSet(N) /\ Cardinality(N) = n
<1> DEFINE f == [x \in N |-> new[x]]
           T == 0 .. n - 1
<1>1. f \in [N -> T]
  BY DEF Numbers
<1>2. \A x, y \in N : f[x] = f[y] => x = y
  BY DEF Numbers
<1>3. \A m \in T : \E x \in N : f[x] = m
  BY DEF Numbers
<1>4. DOMAIN f = N
  OBVIOUS
<1> HIDE DEF f
<1>5. IsInjective(f)
  BY <1>2, <1>4 DEF IsInjective
<1>6. IsFiniteSet(T) /\ Cardinality(T) = n
  <2>1. n - 1 \in Int /\ 0 \in Int
    OBVIOUS
  <2>2. IsFiniteSet(0 .. n - 1) /\ Cardinality(0 .. n - 1) = IF 0 > n - 1 THEN 0 ELSE n - 1 - 0 + 1
    BY <2>1, FS_Interval
  <2> QED
    BY <2>2
<1> HIDE DEF T
<1>7. f \in Injection(N, T) /\ f \in Surjection(N, T)
  BY <1>1, <1>3, <1>5 DEF Injection, Surjection
<1>8. IsFiniteSet(N) /\ Cardinality(N) = Cardinality(T)
  BY <1>6, <1>7, FS_Injection
<1> QED
  BY <1>6, <1>8

\* There are no more numbers than vertices.
LEMMA NumbersBound ==
    ASSUME NEW new, NEW N \in SUBSET Vertex, NEW n \in Nat, Numbers(new, N, n)
    PROVE  n <= maxID + 1
<1>1. Cardinality(N) = n
  BY NumbersCount
<1>2. Cardinality(N) <= Cardinality(Vertex)
  BY VertexFinite, FS_Subset
<1>3. Cardinality(Vertex) = maxID + 1
  BY FS_Interval, MaxIDAssumption DEF Vertex
<1> QED
  BY <1>1, <1>2, <1>3

\* While a vertex is missing there is a number left.
LEMMA NumbersRoom ==
    ASSUME NEW new, NEW N \in SUBSET Vertex, NEW n \in Nat, Numbers(new, N, n),
           NEW x \in Vertex, x \notin N
    PROVE  n <= maxID
<1>1. IsFiniteSet(N) /\ Cardinality(N) = n
  BY NumbersCount
<1>2. Cardinality(N \cup {x}) = n + 1
  BY <1>1, FS_AddElement
<1>3. N \cup {x} \in SUBSET Vertex
  OBVIOUS
<1>4. Cardinality(N \cup {x}) <= Cardinality(Vertex)
  BY <1>3, VertexFinite, FS_Subset
<1>5. Cardinality(Vertex) = maxID + 1
  BY FS_Interval, MaxIDAssumption DEF Vertex
<1> QED
  BY <1>2, <1>4, <1>5, MaxIDAssumption

\* A new member takes the next number.
LEMMA NumbersNext ==
    ASSUME NEW new \in [Vertex -> Nat], NEW N \in SUBSET Vertex, NEW n \in Nat,
           Numbers(new, N, n), NEW x \in Vertex, x \notin N,
           NEW new2, new2 = [new EXCEPT ![x] = n], NEW N2, N2 = N \cup {x}
    PROVE  Numbers(new2, N2, n + 1)
<1>1. \A y \in N : new2[y] = new[y]
  OBVIOUS
<1>2. new2[x] = n
  OBVIOUS
<1>3. \A y \in N : new[y] \in 0 .. n - 1
  BY DEF Numbers
<1>4. \A y \in N2 : new2[y] \in 0 .. n
  <2> SUFFICES ASSUME NEW y \in N2 PROVE new2[y] \in 0 .. n
    OBVIOUS
  <2>1. CASE y \in N
    BY <1>1, <1>3, <2>1
  <2>2. CASE y = x
    BY <1>2, <2>2
  <2> QED
    BY <2>1, <2>2
<1>5. \A y \in N : new2[y] # n
  BY <1>1, <1>3
<1>6. \A y, z \in N2 : new2[y] = new2[z] => y = z
  <2> SUFFICES ASSUME NEW y \in N2, NEW z \in N2, new2[y] = new2[z] PROVE y = z
    OBVIOUS
  <2>1. CASE y \in N /\ z \in N
    BY <1>1, <2>1 DEF Numbers
  <2>2. CASE y = x \/ z = x
    BY <1>2, <1>5, <2>2
  <2> QED
    BY <2>1, <2>2
<1>7. \A m \in 0 .. n : \E y \in N2 : new2[y] = m
  <2> SUFFICES ASSUME NEW m \in 0 .. n PROVE \E y \in N2 : new2[y] = m
    OBVIOUS
  <2>1. CASE m = n
    BY <1>2, <2>1
  <2>2. CASE m # n
    <3>1. m \in 0 .. n - 1
      BY <2>2
    <3>2. PICK y \in N : new[y] = m
      BY <3>1 DEF Numbers
    <3> QED
      BY <1>1, <3>2
  <2> QED
    BY <2>1, <2>2
<1>8. n + 1 - 1 = n
  OBVIOUS
<1> QED
  BY <1>4, <1>6, <1>7, <1>8 DEF Numbers

\* An acyclic graph with an edge has a source.
LEMMA HasSource ==
    ASSUME NEW D \in [Vertex -> Seq(Vertex)], Acyclic(D), Slot(D) # {}
    PROVE  Sources(D) # {}
<1> DEFINE S == {v \in Vertex : D[v] # <<>>}
<1>1. PICK s : s \in Slot(D)
  OBVIOUS
<1>2. s[1] \in Vertex /\ Len(D[s[1]]) \in Nat /\ s[2] \in 1 .. Len(D[s[1]])
  BY <1>1, SlotParts
<1>3. D[s[1]] # <<>>
  BY <1>2
<1>4. S \in (SUBSET Vertex) \ {{}}
  BY <1>2, <1>3
<1>5. PICK v \in S : \A u \in S : v \notin Succ(D, u)
  BY <1>4 DEF Acyclic
<1>6. ASSUME NEW u \in Vertex, v \in Succ(D, u) PROVE FALSE
  <2>1. D[u] # <<>>
    BY <1>6 DEF Succ
  <2> QED
    BY <1>5, <1>6, <2>1
<1>7. InEdges(D, v) = 0
  BY <1>6, NoInEdge
<1> QED
  BY <1>5, <1>7 DEF Sources

\* A set that has the sources and the successors of its members has every vertex
\* with an edge.
LEMMA AllFollowed ==
    ASSUME NEW D \in [Vertex -> Seq(Vertex)], Acyclic(D), NEW V \in SUBSET Vertex,
           Sources(D) \subseteq V, \A u \in V : Succ(D, u) \subseteq V
    PROVE  LiveIn(D) \subseteq V
<1> DEFINE S == LiveIn(D) \ V
<1> SUFFICES ASSUME S # {} PROVE FALSE
  OBVIOUS
<1>1. S \in (SUBSET Vertex) \ {{}}
  BY DEF LiveIn
<1>2. PICK v \in S : \A u \in S : v \notin Succ(D, u)
  BY <1>1 DEF Acyclic
<1>3. v \in Vertex /\ v \notin V /\ (D[v] # <<>> \/ InEdges(D, v) > 0)
  BY <1>2 DEF LiveIn
<1>4. InEdges(D, v) # 0
  <2> SUFFICES ASSUME InEdges(D, v) = 0 PROVE FALSE
    OBVIOUS
  <2>1. v \in Sources(D)
    BY <1>3 DEF Sources
  <2> QED
    BY <1>3, <2>1
<1>5. PICK u \in Vertex : v \in Succ(D, u)
  BY <1>4, NoInEdge
<1>6. D[u] # <<>>
  BY <1>5 DEF Succ
<1>7. u \in LiveIn(D)
  BY <1>6 DEF LiveIn
<1>8. u \notin V
  BY <1>3, <1>5
<1> QED
  BY <1>2, <1>5, <1>7, <1>8

\* The ends of an edge have one.
LEMMA EdgeLive ==
    ASSUME NEW D \in [Vertex -> Seq(Vertex)], NEW u \in Vertex, NEW w \in Succ(D, u)
    PROVE  u \in LiveIn(D) /\ w \in LiveIn(D)
<1>1. D[u] # <<>>
  BY DEF Succ
<1>2. w \in Vertex
  BY SuccVertex
<1>3. InEdges(D, w) # 0 /\ InEdges(D, w) \in Nat
  BY NoInEdge, InEdgesIs
<1> QED
  BY <1>1, <1>2, <1>3 DEF LiveIn

\* A graph with an edge has a vertex with one.
LEMMA SlotLive ==
    ASSUME NEW D \in [Vertex -> Seq(Vertex)], Slot(D) # {}
    PROVE  LiveIn(D) # {}
<1>1. PICK s : s \in Slot(D)
  OBVIOUS
<1>2. s[1] \in Vertex /\ Target(D, s) \in Succ(D, s[1])
  BY <1>1, SlotParts
<1> QED
  BY <1>2, EdgeLive

---------------------------------------------------------------------------
(***************************************************************************)
(* The roots, and recode.                                                  *)
(***************************************************************************)
Later == {"roots", "recode", "recode_edges", "adj_DAG", "done"}

\* After generate_DAG the condensed graph and its degrees stay.
LEMMA LaterKept ==
    ASSUME IInv, pc \in Later, pc' \in Later,
           UNCHANGED <<graph, sccs, indeg, sccVars, DAG, outdeg>>,
           TypeOK', CodeParts'
    PROVE  IInv'
<1>1. UNCHANGED <<scc_num, scc_located, scc_num_located>>
  BY DEF sccVars
<1>2. InDegreesSuffice'
  BY DEF IInv, InDegreesSuffice, Later
<1>3. GoodInput(graph, sccs)' /\ Located(sccs, scc_num, scc_located, scc_num_located)'
  BY <1>1 DEF IInv
<1>4. StandMap' = StandMap /\ MemberMap' = MemberMap
  BY <1>1 DEF StandMap, MemberMap
<1>5. Collapsed'
  BY <1>1, <1>4 DEF IInv, Collapsed, Later
<1>6. Condensing' /\ Reading'
  BY DEF Condensing, Reading, Later
<1>7. CondensedAll'
  BY <1>4 DEF IInv, CondensedAll, Later
<1> QED
  BY <1>2, <1>3, <1>5, <1>6, <1>7 DEF IInv, CodeParts

\* What the passes after generate_DAG find.
LEMMA LaterFacts ==
    ASSUME IInv, pc \in Later
    PROVE  /\ graph \in [Vertex -> Seq(Vertex)] /\ DAG \in [Vertex -> Seq(Vertex)]
           /\ Collapses(graph, StandMap)
           /\ Condensed(graph, StandMap, Slot(graph), DAG)
           /\ Acyclic(DAG) /\ Slot(DAG) # {}
           /\ \A u \in Vertex : IsInjective(DAG[u])
           /\ \A v \in Vertex : (indeg[v] = 0 <=> InEdges(DAG, v) = 0)
                                /\ (outdeg[v] > 0 <=> DAG[v] # <<>>)
<1>1. /\ graph \in [Vertex -> Seq(Vertex)] /\ DAG \in [Vertex -> Seq(Vertex)]
      /\ indeg \in [Vertex -> Nat]
  BY DEF IInv, TypeOK, DagTypes
<1>2. /\ Collapses(graph, StandMap) /\ Condensed(graph, StandMap, Slot(graph), DAG)
      /\ Slot(DAG) # {} /\ OutDegrees(DAG, outdeg, maxID + 1)
  BY DEF IInv, Collapsed, CondensedAll, Later
<1>3. Acyclic(DAG)
  BY <1>1, <1>2, CondensedAcyclic
<1>4. \A u \in Vertex : IsInjective(DAG[u])
  BY <1>2 DEF Condensed
<1>5. ASSUME NEW v \in Vertex PROVE indeg[v] = 0 <=> InEdges(DAG, v) = 0
  <2>1. PICK e \in Nat : e = InEdges(DAG, v)
    BY <1>1, InEdgesIs
  <2>2. indeg[v] >= e /\ (e = 0 => indeg[v] = 0)
    BY <2>1 DEF IInv, InDegreesSuffice, Later
  <2> QED
    BY <1>1, <2>1, <2>2
<1>6. ASSUME NEW v \in Vertex PROVE outdeg[v] > 0 <=> DAG[v] # <<>>
  <2>1. v < maxID + 1
    BY MaxIDAssumption DEF Vertex
  <2>2. outdeg[v] = Len(DAG[v])
    BY <1>2, <2>1 DEF OutDegrees
  <2>3. DAG[v] \in Seq(Vertex)
    BY <1>1
  <2> QED
    BY <2>2, <2>3, EmptySeq
<1> QED
  BY <1>1, <1>2, <1>3, <1>4, <1>5, <1>6

\* get_forward_root_vertices finds the sources.
LEMMA RootsAreSources ==
    ASSUME IInv, pc \in Later
    PROVE  ForwardRoots = Sources(DAG)
<1>1. {v \in Vertex : indeg[v] = 0 /\ outdeg[v] > 0} = Sources(DAG)
  BY LaterFacts DEF Sources
<1>2. Sources(DAG) # {}
  BY LaterFacts, HasSource
<1> QED
  BY <1>1, <1>2 DEF ForwardRoots

\* Choosing the roots keeps the invariant.
LEMMA RootsInv == IInv /\ Roots => IInv'
<1> SUFFICES ASSUME IInv, Roots PROVE IInv'
  OBVIOUS
<1>1. /\ pc = "roots" /\ pc' = "recode" /\ i' = 1
      /\ UNCHANGED <<graph, sccs, indeg, sccVars, member, k, DAG, visit_flag,
                     querycnt, outdeg, codeVars, out>>
  BY DEF Roots
<1>2. IsListing(root_arr', ForwardRoots)
  BY DEF Roots, Listings, IsListing
<1>3. UNCHANGED <<scc_num, scc_located, scc_num_located, que, visited_arr, curID, idcount,
                  newID>>
  BY <1>1 DEF sccVars, codeVars
<1>4. pc \in Later /\ pc' \in Later
  BY <1>1 DEF Later
<1>5. ForwardRoots = Sources(DAG)
  BY <1>4, RootsAreSources
<1>6. IsFiniteSet(Sources(DAG))
  BY VertexFinite, FS_Subset DEF Sources
<1>7. Lists(root_arr', Sources(DAG))
  BY <1>2, <1>5, <1>6, ListingLists
<1>8. Sources(DAG) \subseteq Vertex
  BY DEF Sources
<1>9. root_arr' \in Seq(Vertex) /\ IsInjective(root_arr') /\ Len(root_arr') \in Nat
  BY <1>7, <1>8, SeqMonotonic DEF Lists
<1>10. ToSet(root_arr') = Sources(DAG)
  <2>1. DOMAIN root_arr' = 1 .. Len(root_arr')
    BY <1>9
  <2> QED
    BY <1>7, <2>1 DEF Lists, ToSet
<1>11. TypeOK'
  <2>1. SccTypes' /\ CodeTypes'
    BY <1>1, <1>3, <1>9 DEF IInv, TypeOK, SccTypes, CodeTypes
  <2>2. i' \in 0 .. maxID + 2
    BY <1>1, MaxIDAssumption
  <2>3. DagTypes'
    BY <1>1, <1>3, <2>2 DEF IInv, TypeOK, DagTypes
  <2> QED
    BY <1>1, <2>1, <2>3 DEF TypeOK
<1>12. RootsListed'
  <2>1. i' \in 1 .. Len(root_arr') + 1
    BY <1>1, <1>9
  <2> QED
    BY <1>1, <1>9, <1>10, <2>1 DEF RootsListed
<1>13. que = <<>> /\ visited_arr = [v \in Vertex |-> FALSE] /\ idcount = 0
  BY <1>1 DEF IInv, Uncoded
<1>14. Visited' = {} /\ Numbered' = {}
  BY <1>3, <1>13 DEF Visited, Numbered
<1>15. ToSet(que') = {} /\ IsInjective(que')
  BY <1>3, <1>13 DEF ToSet, IsInjective
<1>16. Numbers(newID', Numbered', idcount')
  <2>1. 0 .. idcount' - 1 = {}
    BY <1>3, <1>13
  <2> QED
    BY <1>14, <2>1 DEF Numbers
<1>17. Coding'
  <2>1. \A n \in 1 .. i' - 1 : root_arr'[n] \in Visited'
    BY <1>1
  <2> QED
    BY <1>1, <1>14, <1>15, <1>16, <2>1 DEF Coding, Followed
<1>18. CodeParts'
  BY <1>1, <1>12, <1>17 DEF CodeParts, Uncoded, Coded, Writing
<1> QED
  BY <1>1, <1>4, <1>11, <1>18, LaterKept

\* What recode finds.
LEMMA CodingFacts ==
    ASSUME IInv, pc \in {"recode", "recode_edges"}
    PROVE  /\ SccTypes /\ DagTypes /\ CodeTypes /\ pc \in Later
           /\ IsInjective(root_arr) /\ ToSet(root_arr) = Sources(DAG)
           /\ i \in 1 .. Len(root_arr) + 1
           /\ IsInjective(que) /\ ToSet(que) \subseteq Visited
           /\ Numbers(newID, Numbered, idcount)
           /\ pc = "recode_edges" => curID \in Numbered /\ k > 0
           /\ Followed
           /\ \A v \in Visited :
                 \/ \E n \in 1 .. i - 1 : root_arr[n] = v
                 \/ \E u \in Vertex : v \in Succ(DAG, u)
           /\ \A n \in 1 .. i - 1 : root_arr[n] \in Visited
           /\ Visited \in SUBSET Vertex /\ Numbered \in SUBSET Vertex
           /\ root_arr \in Seq(Vertex) /\ Len(root_arr) \in Nat
           /\ Len(root_arr) <= maxID + 1
BY ListShort DEF IInv, TypeOK, CodeTypes, RootsListed, Coding, Later, Visited, Numbered

\* What a step of recode has to keep.
LEMMA CodingKept ==
    ASSUME IInv, pc \in {"recode", "recode_edges"}, pc' \in {"recode", "recode_edges"},
           UNCHANGED <<graph, sccs, indeg, sccVars, member, DAG, visit_flag, querycnt,
                       outdeg, root_arr, out>>,
           i' \in 1 .. Len(root_arr) + 1, k' \in Nat, CodeTypes', Coding'
    PROVE  IInv'
<1>1. UNCHANGED <<scc_num, scc_located, scc_num_located>>
  BY DEF sccVars
<1>2. /\ SccTypes /\ DagTypes /\ CodeTypes /\ pc \in Later
      /\ IsInjective(root_arr) /\ ToSet(root_arr) = Sources(DAG)
      /\ Len(root_arr) \in Nat /\ Len(root_arr) <= maxID + 1
  BY CodingFacts
<1>3. pc' \in Later
  BY DEF Later
<1>4. TypeOK'
  <2>1. i' \in 0 .. maxID + 2
    BY <1>2, MaxIDAssumption
  <2>2. SccTypes' /\ DagTypes'
    BY <1>1, <1>2, <2>1 DEF SccTypes, DagTypes
  <2> QED
    BY <2>2 DEF TypeOK
<1>5. RootsListed'
  BY <1>2 DEF RootsListed
<1>6. CodeParts'
  BY <1>5 DEF CodeParts, Uncoded, Coded, Writing
<1> QED
  BY <1>2, <1>3, <1>4, <1>6, LaterKept

\* A root is queued before anything that is below it has marked it.
LEMMA RecodeRootInv == IInv /\ RecodeRoot => IInv'
<1> SUFFICES ASSUME IInv, RecodeRoot PROVE IInv'
  OBVIOUS
<1> DEFINE r == root_arr[i]
<1>1. /\ pc = "recode" /\ pc' = "recode" /\ que = <<>> /\ i <= Len(root_arr)
      /\ que' = <<r>> /\ visited_arr' = [visited_arr EXCEPT ![r] = TRUE] /\ i' = i + 1
      /\ UNCHANGED <<graph, sccs, indeg, sccVars, member, k, DAG, visit_flag,
                     querycnt, outdeg, root_arr, curID, idcount, newID, out>>
  BY DEF RecodeRoot
<1>2. /\ DagTypes /\ CodeTypes /\ pc \in Later
      /\ IsInjective(root_arr) /\ ToSet(root_arr) = Sources(DAG)
      /\ i \in 1 .. Len(root_arr) + 1
      /\ Numbers(newID, Numbered, idcount) /\ Followed
      /\ \A v \in Visited :
            \/ \E n \in 1 .. i - 1 : root_arr[n] = v
            \/ \E u \in Vertex : v \in Succ(DAG, u)
      /\ \A n \in 1 .. i - 1 : root_arr[n] \in Visited
      /\ root_arr \in Seq(Vertex) /\ Len(root_arr) \in Nat
  BY <1>1, CodingFacts
<1>3. DAG \in [Vertex -> Seq(Vertex)] /\ visited_arr \in [Vertex -> BOOLEAN] /\ k \in Nat
  BY <1>2 DEF DagTypes, CodeTypes
<1>4. i \in 1 .. Len(root_arr) /\ DOMAIN root_arr = 1 .. Len(root_arr)
  BY <1>1, <1>2
<1>5. r \in Sources(DAG) /\ r \in Vertex
  BY <1>2, <1>4 DEF ToSet, Sources
<1>6. r \notin Visited
  <2> SUFFICES ASSUME r \in Visited PROVE FALSE
    OBVIOUS
  <2>1. \A n \in 1 .. i - 1 : root_arr[n] # r
    <3> SUFFICES ASSUME NEW n \in 1 .. i - 1, root_arr[n] = root_arr[i] PROVE FALSE
      OBVIOUS
    <3>1. n \in 1 .. Len(root_arr) /\ n # i
      BY <1>2, <1>4
    <3> QED
      BY <1>2, <1>4, <3>1 DEF IsInjective
  <2>2. InEdges(DAG, r) = 0
    BY <1>5 DEF Sources
  <2>3. \A u \in Vertex : r \notin Succ(DAG, u)
    BY <1>3, <2>2, NoInEdge
  <2> QED
    BY <1>2, <2>1, <2>3
<1> HIDE DEF r
<1>7. Visited' = Visited \cup {r}
  BY <1>1, <1>3, <1>5 DEF Visited
<1>8. ToSet(que) = {} /\ ToSet(que') = {r} /\ IsInjective(que')
  BY <1>1 DEF ToSet, IsInjective
<1>9. Numbered' = Numbered /\ Numbered = Visited
  BY <1>6, <1>7, <1>8 DEF Numbered
<1>10. CodeTypes'
  <2>1. que' \in Seq(Vertex)
    BY <1>1, <1>5
  <2>2. visited_arr' \in [Vertex -> BOOLEAN]
    BY <1>1, <1>3
  <2> QED
    BY <1>1, <1>2, <2>1, <2>2 DEF CodeTypes
<1>11. i' \in 1 .. Len(root_arr) + 1 /\ k' \in Nat
  BY <1>1, <1>3, <1>2, <1>4
<1>12. Followed'
  BY <1>1, <1>2, <1>7, <1>9 DEF Followed
<1>13. ASSUME NEW v \in Visited'
       PROVE  \/ \E n \in 1 .. i' - 1 : root_arr'[n] = v
              \/ \E u \in Vertex : v \in Succ(DAG', u)
  <2>1. CASE v = r
    <3>1. i \in 1 .. i' - 1
      BY <1>1, <1>4, <1>2
    <3> QED
      BY <1>1, <2>1, <3>1 DEF r
  <2>2. CASE v \in Visited
    <3>1. 1 .. i - 1 \subseteq 1 .. i' - 1
      BY <1>1, <1>2
    <3> QED
      BY <1>1, <1>2, <2>2, <3>1
  <2> QED
    BY <1>7, <2>1, <2>2
<1>14. ASSUME NEW n \in 1 .. i' - 1 PROVE root_arr'[n] \in Visited'
  <2>1. CASE n = i
    BY <1>1, <1>7, <2>1 DEF r
  <2>2. CASE n # i
    <3>1. n \in 1 .. i - 1
      BY <1>1, <1>2, <2>2
    <3> QED
      BY <1>1, <1>2, <1>7, <3>1
  <2> QED
    BY <2>1, <2>2
<1>15. Coding'
  <2>1. Numbers(newID', Numbered', idcount')
    BY <1>1, <1>2, <1>9
  <2> QED
    BY <1>1, <1>7, <1>8, <1>12, <1>13, <1>14, <2>1 DEF Coding
<1> QED
  BY <1>1, <1>10, <1>11, <1>15, CodingKept

---------------------------------------------------------------------------
\* The queue without its head.
HeadOff(s) ==
    /\ Head(s) \in ToSet(s) /\ Tail(s) \in Seq(Vertex) /\ IsInjective(Tail(s))
    /\ ToSet(Tail(s)) = ToSet(s) \ {Head(s)}

\* Taking the head leaves the other members, each once.
LEMMA QueueHead ==
    ASSUME NEW s \in Seq(Vertex), s # <<>>, IsInjective(s)
    PROVE  HeadOff(s)
<1>1. /\ Tail(s) \in Seq(Vertex) /\ Len(Tail(s)) = Len(s) - 1
      /\ \A a \in 1 .. Len(Tail(s)) : Tail(s)[a] = s[a + 1]
  BY HeadTailProperties
<1>2. PICK n \in Nat : n = Len(s)
  OBVIOUS
<1>3. n > 0 /\ Head(s) = s[1]
  BY <1>2, EmptySeq
<1>4. DOMAIN s = 1 .. n /\ DOMAIN Tail(s) = 1 .. n - 1 /\ Len(Tail(s)) = n - 1
  BY <1>1, <1>2
<1>5. \A a, b \in 1 .. n : s[a] = s[b] => a = b
  BY <1>4 DEF IsInjective
<1>6. \A a \in 1 .. n - 1 : Tail(s)[a] = s[a + 1] /\ a + 1 \in 1 .. n
  <2>1. \A a \in 1 .. n - 1 : a + 1 \in 1 .. n /\ a + 1 # 1
    OBVIOUS
  <2>2. \A a \in 1 .. n - 1 : Tail(s)[a] = s[a + 1]
    BY <1>1, <1>4
  <2> QED
    BY <2>1, <2>2
<1>7. IsInjective(Tail(s))
  <2> SUFFICES ASSUME NEW a \in 1 .. n - 1, NEW b \in 1 .. n - 1, Tail(s)[a] = Tail(s)[b]
               PROVE  a = b
    BY <1>4 DEF IsInjective
  <2>1. a + 1 = b + 1
    BY <1>5, <1>6
  <2> QED
    BY <2>1
<1>8. 1 \in 1 .. n
  BY <1>3
<1>9. Head(s) \in ToSet(s)
  BY <1>3, <1>4, <1>8 DEF ToSet
<1>10. ASSUME NEW x PROVE x \in ToSet(Tail(s)) <=> x \in ToSet(s) /\ x # Head(s)
  <2>1. ASSUME NEW a \in 1 .. n - 1, Tail(s)[a] = x
        PROVE  (\E b \in 1 .. n : s[b] = x) /\ x # Head(s)
    <3>1. s[a + 1] = x /\ a + 1 \in 1 .. n
      BY <1>6, <2>1
    <3>2. a + 1 # 1
      OBVIOUS
    <3> QED
      BY <1>3, <1>5, <1>8, <3>1, <3>2
  <2>2. ASSUME NEW b \in 1 .. n, s[b] = x, x # Head(s)
        PROVE  \E a \in 1 .. n - 1 : Tail(s)[a] = x
    <3>1. b # 1
      BY <1>3, <2>2
    <3>2. b - 1 \in 1 .. n - 1 /\ (b - 1) + 1 = b
      BY <3>1
    <3>3. Tail(s)[b - 1] = x
      BY <1>6, <2>2, <3>2
    <3> QED
      BY <3>2, <3>3
  <2>3. x \in ToSet(Tail(s)) <=> \E a \in 1 .. n - 1 : Tail(s)[a] = x
    BY <1>4 DEF ToSet
  <2>4. x \in ToSet(s) <=> \E b \in 1 .. n : s[b] = x
    BY <1>4 DEF ToSet
  <2> QED
    BY <2>1, <2>2, <2>3, <2>4
<1>11. ToSet(Tail(s)) = ToSet(s) \ {Head(s)}
  BY <1>10
<1> QED
  BY <1>1, <1>7, <1>9, <1>11 DEF HeadOff

\* The queue with a vertex that was not in it.
TailOn(s, v, s2) ==
    /\ s2 \in Seq(Vertex) /\ IsInjective(s2) /\ ToSet(s2) = ToSet(s) \cup {v}

\* Appending what is not in the list keeps each member once.
LEMMA QueueTail ==
    ASSUME NEW s \in Seq(Vertex), IsInjective(s), NEW v \in Vertex, v \notin ToSet(s),
           NEW s2, s2 = Append(s, v)
    PROVE  TailOn(s, v, s2)
<1>1. PICK n \in Nat : n = Len(s)
  OBVIOUS
<1>2. /\ s2 \in Seq(Vertex) /\ Len(s2) = n + 1 /\ s2[n + 1] = v
      /\ \A a \in 1 .. n : s2[a] = s[a]
  BY <1>1
<1>3. DOMAIN s = 1 .. n /\ DOMAIN s2 = 1 .. n + 1
  BY <1>1, <1>2
<1>4. \A a \in 1 .. n : s[a] # v
  BY <1>3 DEF ToSet
<1>5. ASSUME NEW a \in 1 .. n + 1, NEW b \in 1 .. n + 1, s2[a] = s2[b] PROVE a = b
  <2>1. CASE a \in 1 .. n /\ b \in 1 .. n
    BY <1>2, <1>3, <1>5, <2>1 DEF IsInjective
  <2>2. CASE a = n + 1 \/ b = n + 1
    <3>1. \A c \in 1 .. n : s2[c] # v
      BY <1>2, <1>4
    <3>2. ~ (a \in 1 .. n) \/ ~ (b \in 1 .. n)
      BY <2>2
    <3>3. a = n + 1 /\ b = n + 1
      BY <1>2, <1>5, <2>2, <3>1
    <3> QED
      BY <3>3
  <2> QED
    BY <2>1, <2>2
<1>6. IsInjective(s2)
  BY <1>3, <1>5 DEF IsInjective
<1>7. ASSUME NEW x PROVE x \in ToSet(s2) <=> x \in ToSet(s) \/ x = v
  <2>1. x \in ToSet(s2) <=> \E a \in 1 .. n + 1 : s2[a] = x
    BY <1>3 DEF ToSet
  <2>2. x \in ToSet(s) <=> \E a \in 1 .. n : s[a] = x
    BY <1>3 DEF ToSet
  <2>3. n + 1 \in 1 .. n + 1 /\ \A a \in 1 .. n : a \in 1 .. n + 1
    OBVIOUS
  <2>4. \A a \in 1 .. n + 1 : a \in 1 .. n \/ a = n + 1
    OBVIOUS
  <2> QED
    BY <1>2, <2>1, <2>2, <2>3, <2>4
<1>8. ToSet(s2) = ToSet(s) \cup {v}
  BY <1>7
<1> QED
  BY <1>2, <1>6, <1>8 DEF TailOn

\* Numbering the head of the queue keeps the invariant.
LEMMA RecodeVertexInv == IInv /\ RecodeVertex => IInv'
<1> SUFFICES ASSUME IInv, RecodeVertex PROVE IInv'
  OBVIOUS
<1> DEFINE x == Head(que)
<1>1. /\ pc = "recode" /\ pc' = "recode_edges" /\ que # <<>>
      /\ curID' = x /\ que' = Tail(que)
      /\ newID' = [newID EXCEPT ![x] = idcount] /\ idcount' = idcount + 1 /\ k' = 1
      /\ UNCHANGED <<graph, sccs, indeg, sccVars, i, member, DAG, visit_flag,
                     querycnt, outdeg, root_arr, visited_arr, out>>
  BY DEF RecodeVertex
<1>2. /\ DagTypes /\ CodeTypes /\ i \in 1 .. Len(root_arr) + 1
      /\ IsInjective(que) /\ ToSet(que) \subseteq Visited
      /\ Numbers(newID, Numbered, idcount) /\ Followed
      /\ \A v \in Visited :
            \/ \E n \in 1 .. i - 1 : root_arr[n] = v
            \/ \E u \in Vertex : v \in Succ(DAG, u)
      /\ \A n \in 1 .. i - 1 : root_arr[n] \in Visited
      /\ Visited \in SUBSET Vertex /\ Numbered \in SUBSET Vertex
  BY <1>1, CodingFacts
<1>3. /\ que \in Seq(Vertex) /\ idcount \in 0 .. maxID + 1 /\ newID \in [Vertex -> 0 .. maxID]
      /\ DAG \in [Vertex -> Seq(Vertex)]
  BY <1>2 DEF CodeTypes, DagTypes
<1>4. HeadOff(que)
  BY <1>1, <1>2, <1>3, QueueHead
<1>5. /\ x \in ToSet(que) /\ que' \in Seq(Vertex) /\ IsInjective(que')
      /\ ToSet(que') = ToSet(que) \ {x}
  BY <1>1, <1>4 DEF HeadOff
<1>6. x \in Visited /\ x \in Vertex /\ x \notin Numbered
  BY <1>2, <1>5 DEF Numbered
<1> HIDE DEF x
<1>7. Visited' = Visited
  BY <1>1 DEF Visited
<1>8. Numbered' = Numbered \cup {x}
  BY <1>5, <1>6, <1>7 DEF Numbered
<1>9. idcount \in Nat /\ newID \in [Vertex -> Nat]
  BY <1>3, MaxIDAssumption
<1>10. idcount <= maxID
  BY <1>2, <1>6, <1>9, NumbersRoom
<1>11. Numbers(newID', Numbered', idcount')
  BY <1>1, <1>2, <1>6, <1>8, <1>9, NumbersNext
<1>12. idcount \in 0 .. maxID /\ idcount' \in 0 .. maxID + 1
  BY <1>1, <1>9, <1>10, MaxIDAssumption
<1>13. CodeTypes'
  <2>1. newID' \in [Vertex -> 0 .. maxID]
    BY <1>1, <1>3, <1>12
  <2> QED
    BY <1>1, <1>2, <1>5, <1>6, <1>12, <2>1 DEF CodeTypes
<1>14. Followed'
  <2> SUFFICES ASSUME NEW y \in Numbered', NEW e \in 1 .. Len(DAG'[y])
               PROVE  DAG'[y][e] \in Visited' \/ (y = curID' /\ e >= k')
    BY <1>1 DEF Followed
  <2>1. CASE y = x
    <3>1. Len(DAG[x]) \in Nat
      BY <1>3, <1>6
    <3>2. e >= 1
      BY <1>1, <2>1, <3>1
    <3> QED
      BY <1>1, <2>1, <3>2
  <2>2. CASE y \in Numbered
    <3>1. DAG[y][e] \in Visited
      BY <1>1, <1>2, <2>2 DEF Followed
    <3> QED
      BY <1>1, <1>7, <3>1
  <2> QED
    BY <1>8, <2>1, <2>2
<1>15. Coding'
  <2>1. ToSet(que') \subseteq Visited'
    BY <1>2, <1>5, <1>7
  <2>2. curID' \in Numbered' /\ k' > 0
    BY <1>1, <1>8
  <2> QED
    BY <1>1, <1>2, <1>5, <1>7, <1>11, <1>14, <2>1, <2>2 DEF Coding
<1>16. i' \in 1 .. Len(root_arr) + 1 /\ k' \in Nat
  BY <1>1, <1>2
<1> QED
  BY <1>1, <1>13, <1>15, <1>16, CodingKept

\* Looking at one edge of the numbered vertex keeps it.
LEMMA RecodeEdgeInv == IInv /\ RecodeEdge => IInv'
<1> SUFFICES ASSUME IInv, RecodeEdge PROVE IInv'
  OBVIOUS
<1> DEFINE v == DAG[curID][k]
<1>1. /\ pc = "recode_edges" /\ pc' = "recode_edges" /\ k <= Len(DAG[curID])
      /\ que' = (IF visited_arr[v] THEN que ELSE Append(que, v))
      /\ visited_arr' = [visited_arr EXCEPT ![v] = TRUE] /\ k' = k + 1
      /\ UNCHANGED <<graph, sccs, indeg, sccVars, i, member, DAG, visit_flag,
                     querycnt, outdeg, root_arr, curID, idcount, newID, out>>
  BY DEF RecodeEdge
<1>2. /\ DagTypes /\ CodeTypes /\ i \in 1 .. Len(root_arr) + 1
      /\ IsInjective(que) /\ ToSet(que) \subseteq Visited
      /\ Numbers(newID, Numbered, idcount) /\ Followed
      /\ curID \in Numbered /\ k > 0
      /\ \A y \in Visited :
            \/ \E n \in 1 .. i - 1 : root_arr[n] = y
            \/ \E u \in Vertex : y \in Succ(DAG, u)
      /\ \A n \in 1 .. i - 1 : root_arr[n] \in Visited
      /\ Visited \in SUBSET Vertex /\ Numbered \in SUBSET Vertex
  BY <1>1, CodingFacts
<1>3. /\ que \in Seq(Vertex) /\ visited_arr \in [Vertex -> BOOLEAN]
      /\ DAG \in [Vertex -> Seq(Vertex)] /\ k \in Nat /\ curID \in Vertex
  BY <1>2 DEF CodeTypes, DagTypes
<1>4. k \in 1 .. Len(DAG[curID])
  BY <1>1, <1>2, <1>3
<1>5. v \in Vertex /\ v \in Succ(DAG, curID)
  BY <1>3, <1>4 DEF Succ
<1> HIDE DEF v
<1>6. Visited' = Visited \cup {v}
  BY <1>1, <1>3, <1>5 DEF Visited
<1>7. visited_arr[v] <=> v \in Visited
  BY <1>5 DEF Visited
<1>8. /\ que' \in Seq(Vertex) /\ IsInjective(que')
      /\ ToSet(que') \subseteq Visited' /\ Numbered' = Numbered
  <2>1. CASE v \in Visited
    <3>1. que' = que /\ Visited' = Visited
      BY <1>1, <1>6, <1>7, <2>1
    <3> QED
      BY <1>2, <1>3, <3>1 DEF Numbered
  <2>2. CASE v \notin Visited
    <3>1. que' = Append(que, v) /\ v \notin ToSet(que)
      BY <1>1, <1>2, <1>7, <2>2
    <3>2. TailOn(que, v, que')
      BY <1>2, <1>3, <1>5, <3>1, QueueTail
    <3>3. que' \in Seq(Vertex) /\ IsInjective(que') /\ ToSet(que') = ToSet(que) \cup {v}
      BY <3>2 DEF TailOn
    <3>4. Numbered' = Numbered
      BY <1>6, <2>2, <3>3 DEF Numbered
    <3> QED
      BY <1>2, <1>6, <3>3, <3>4
  <2> QED
    BY <2>1, <2>2
<1>9. CodeTypes'
  <2>1. visited_arr' \in [Vertex -> BOOLEAN]
    BY <1>1, <1>3
  <2> QED
    BY <1>1, <1>2, <1>8, <2>1 DEF CodeTypes
<1>10. Followed'
  <2> SUFFICES ASSUME NEW y \in Numbered', NEW e \in 1 .. Len(DAG'[y])
               PROVE  DAG'[y][e] \in Visited' \/ (y = curID' /\ e >= k')
    BY <1>1 DEF Followed
  <2>1. DAG[y][e] \in Visited \/ (y = curID /\ e >= k)
    BY <1>1, <1>2, <1>8 DEF Followed
  <2>2. CASE DAG[y][e] \in Visited
    BY <1>1, <1>6, <2>2
  <2>3. CASE y = curID /\ e = k
    <3>1. DAG'[y][e] = v
      BY <1>1, <2>3 DEF v
    <3> QED
      BY <1>6, <3>1
  <2>4. CASE y = curID /\ e >= k /\ e # k
    <3>1. e \in Int
      OBVIOUS
    <3>2. e >= k + 1
      BY <1>3, <2>4, <3>1
    <3> QED
      BY <1>1, <2>4, <3>2
  <2> QED
    BY <2>1, <2>2, <2>3, <2>4
<1>11. ASSUME NEW y \in Visited'
       PROVE  \/ \E n \in 1 .. i' - 1 : root_arr'[n] = y
              \/ \E u \in Vertex : y \in Succ(DAG', u)
  BY <1>1, <1>2, <1>3, <1>5, <1>6
<1>12. Coding'
  <2>1. curID' \in Numbered' /\ k' > 0
    BY <1>1, <1>2, <1>3, <1>8
  <2>2. Numbers(newID', Numbered', idcount')
    BY <1>1, <1>2, <1>8
  <2>3. \A n \in 1 .. i' - 1 : root_arr'[n] \in Visited'
    BY <1>1, <1>2, <1>6
  <2> QED
    BY <1>1, <1>8, <1>10, <1>11, <2>1, <2>2, <2>3 DEF Coding
<1>13. i' \in 1 .. Len(root_arr) + 1 /\ k' \in Nat
  BY <1>1, <1>2, <1>3
<1> QED
  BY <1>1, <1>9, <1>12, <1>13, CodingKept

\* Finishing a numbered vertex keeps it.
LEMMA RecodeVertexEndInv == IInv /\ RecodeVertexEnd => IInv'
<1> SUFFICES ASSUME IInv, RecodeVertexEnd PROVE IInv'
  OBVIOUS
<1>1. /\ pc = "recode_edges" /\ pc' = "recode" /\ k > Len(DAG[curID])
      /\ UNCHANGED <<graph, sccs, indeg, sccVars, dagVars, root_arr, codeVars, out>>
  BY DEF RecodeVertexEnd
<1>2. UNCHANGED <<i, member, k, DAG, visit_flag, querycnt, outdeg, que, visited_arr, curID,
                  idcount, newID>>
  BY <1>1 DEF dagVars, codeVars
<1>3. /\ DagTypes /\ CodeTypes /\ i \in 1 .. Len(root_arr) + 1
      /\ Followed /\ curID \in Numbered
  BY <1>1, CodingFacts
<1>4. DAG \in [Vertex -> Seq(Vertex)] /\ k \in Nat /\ curID \in Vertex
  BY <1>3 DEF CodeTypes, DagTypes
<1>5. Visited' = Visited /\ Numbered' = Numbered
  BY <1>2 DEF Visited, Numbered
<1>6. Followed'
  <2> SUFFICES ASSUME NEW y \in Numbered', NEW e \in 1 .. Len(DAG'[y])
               PROVE  DAG'[y][e] \in Visited'
    BY DEF Followed
  <2>1. DAG[y][e] \in Visited \/ (y = curID /\ e >= k)
    BY <1>2, <1>3, <1>5 DEF Followed
  <2>2. ~ (y = curID /\ e >= k)
    <3> SUFFICES ASSUME y = curID, e >= k PROVE FALSE
      OBVIOUS
    <3>1. Len(DAG[curID]) \in Nat
      BY <1>4
    <3>2. e \in 1 .. Len(DAG[curID])
      BY <1>2
    <3> QED
      BY <1>1, <1>4, <3>1, <3>2
  <2> QED
    BY <1>2, <1>5, <2>1, <2>2
<1>7. Coding'
  BY <1>1, <1>2, <1>5, <1>6 DEF IInv, Coding
<1>8. CodeTypes'
  BY <1>1, <1>2, <1>3 DEF CodeTypes
<1>9. i' \in 1 .. Len(root_arr) + 1 /\ k' \in Nat
  BY <1>2, <1>3, <1>4
<1> QED
  BY <1>1, <1>2, <1>7, <1>8, <1>9, CodingKept

\* When recode ends it has numbered exactly the vertices that have an edge.
LEMMA RecodeEndInv == IInv /\ RecodeEnd => IInv'
<1> SUFFICES ASSUME IInv, RecodeEnd PROVE IInv'
  OBVIOUS
<1>1. /\ pc = "recode" /\ pc' = "adj_DAG" /\ que = <<>> /\ i > Len(root_arr)
      /\ idcount' = idcount - 1 /\ i' = 0
      /\ UNCHANGED <<graph, sccs, indeg, sccVars, member, k, DAG, visit_flag,
                     querycnt, outdeg, root_arr, que, visited_arr, curID, newID, out>>
  BY DEF RecodeEnd
<1>2. UNCHANGED <<scc_num, scc_located, scc_num_located>>
  BY <1>1 DEF sccVars
<1>3. /\ SccTypes /\ DagTypes /\ CodeTypes /\ pc \in Later
      /\ ToSet(root_arr) = Sources(DAG) /\ i \in 1 .. Len(root_arr) + 1
      /\ Numbers(newID, Numbered, idcount) /\ Followed
      /\ \A v \in Visited :
            \/ \E n \in 1 .. i - 1 : root_arr[n] = v
            \/ \E u \in Vertex : v \in Succ(DAG, u)
      /\ \A n \in 1 .. i - 1 : root_arr[n] \in Visited
      /\ Visited \in SUBSET Vertex
      /\ root_arr \in Seq(Vertex) /\ Len(root_arr) \in Nat
  BY <1>1, CodingFacts
<1>4. DAG \in [Vertex -> Seq(Vertex)] /\ Acyclic(DAG) /\ Slot(DAG) # {}
      /\ idcount \in 0 .. maxID + 1
  BY <1>3, LaterFacts DEF CodeTypes
<1>5. ToSet(que) = {}
  BY <1>1 DEF ToSet
<1>6. Numbered = Visited
  BY <1>5 DEF Numbered
<1>7. i - 1 = Len(root_arr) /\ DOMAIN root_arr = 1 .. Len(root_arr)
  BY <1>1, <1>3
<1>8. \A v : v \in Sources(DAG) <=> \E n \in 1 .. i - 1 : root_arr[n] = v
  BY <1>3, <1>7 DEF ToSet
<1>9. Sources(DAG) \subseteq Visited
  BY <1>3, <1>8
<1>10. ASSUME NEW u \in Visited PROVE Succ(DAG, u) \subseteq Visited
  <2>1. \A e \in 1 .. Len(DAG[u]) : DAG[u][e] \in Visited
    BY <1>1, <1>3, <1>6 DEF Followed
  <2> QED
    BY <2>1 DEF Succ
<1>11. LiveIn(DAG) \subseteq Visited
  BY <1>3, <1>4, <1>9, <1>10, AllFollowed
<1>12. ASSUME NEW v \in Visited PROVE v \in LiveIn(DAG)
  <2>1. CASE v \in Sources(DAG)
    BY <2>1 DEF Sources, LiveIn
  <2>2. CASE \E u \in Vertex : v \in Succ(DAG, u)
    BY <1>4, <2>2, EdgeLive
  <2> QED
    BY <1>3, <1>8, <2>1, <2>2
<1>13. Numbered = LiveIn(DAG)
  BY <1>6, <1>11, <1>12
<1>14. idcount # 0
  <2> SUFFICES ASSUME idcount = 0 PROVE FALSE
    OBVIOUS
  <2>1. PICK x : x \in LiveIn(DAG)
    BY <1>4, SlotLive
  <2>2. newID[x] \in 0 .. idcount - 1
    BY <1>3, <1>13, <2>1 DEF Numbers
  <2> QED
    BY <2>2
<1>15. idcount' \in 0 .. maxID + 1 /\ idcount' + 1 = idcount
  BY <1>1, <1>4, <1>14, MaxIDAssumption
<1>16. TypeOK'
  <2>1. SccTypes' /\ CodeTypes'
    BY <1>1, <1>2, <1>3, <1>15 DEF SccTypes, CodeTypes
  <2>2. 0 \in 0 .. maxID + 2
    BY MaxIDAssumption
  <2>3. DagTypes'
    BY <1>1, <1>3, <2>2 DEF DagTypes
  <2> QED
    BY <1>1, <2>1, <2>3 DEF TypeOK
<1>17. Coded'
  <2>1. Numbers(newID', LiveIn(DAG'), idcount' + 1)
    BY <1>1, <1>3, <1>13, <1>15
  <2>2. i' \in 0 .. idcount' + 1
    BY <1>1, <1>15
  <2> QED
    BY <1>1, <2>1, <2>2 DEF Coded
<1>18. Writing'
  <2>1. \A n \in Vertex : ~ (n < i')
    BY <1>1 DEF Vertex
  <2> QED
    BY <2>1 DEF Writing
<1>19. CodeParts'
  BY <1>1, <1>17, <1>18 DEF CodeParts, Uncoded, RootsListed, Coding
<1>20. pc' \in Later
  BY <1>1 DEF Later
<1> QED
  BY <1>1, <1>3, <1>16, <1>19, <1>20, LaterKept

---------------------------------------------------------------------------
(***************************************************************************)
(* construct_adj_DAG.                                                      *)
(***************************************************************************)
\* What construct_adj_DAG finds.
LEMMA CodedFacts ==
    ASSUME IInv, pc \in {"adj_DAG", "done"}
    PROVE  /\ SccTypes /\ DagTypes /\ CodeTypes /\ pc \in Later
           /\ Numbers(newID, LiveIn(DAG), idcount + 1)
           /\ i \in 0 .. idcount + 1 /\ (pc = "done" => i = idcount + 1)
           /\ \A n \in Vertex : n < i => ListWritten(n)
           /\ idcount \in Nat /\ idcount <= maxID
<1>1. /\ SccTypes /\ DagTypes /\ CodeTypes /\ pc \in Later
      /\ Numbers(newID, LiveIn(DAG), idcount + 1)
      /\ i \in 0 .. idcount + 1 /\ (pc = "done" => i = idcount + 1)
      /\ \A n \in Vertex : n < i => ListWritten(n)
  BY DEF IInv, TypeOK, Coded, Writing, Later
<1>2. idcount \in Nat
  BY <1>1, MaxIDAssumption DEF CodeTypes
<1>3. LiveIn(DAG) \in SUBSET Vertex
  BY DEF LiveIn
<1>4. idcount + 1 \in Nat
  BY <1>2
<1>5. idcount + 1 <= maxID + 1
  BY <1>1, <1>3, <1>4, NumbersBound
<1> QED
  BY <1>1, <1>2, <1>5, MaxIDAssumption

\* The record of a vertex u from its edges s under the new ids.
Renamed(D, new, u, s, list) ==
    /\ list \in Seq(Vertex) /\ IsInjective(list)
    /\ ToSet(list) = {new[w] : w \in Succ(D, u)}

Renames(D, new, s, list) == list = [n \in 1 .. Len(s) |-> new[Target(D, s[n])]]

\* The sorted record of a vertex has the new ids of its successors, each once.
LEMMA RenamedList ==
    ASSUME NEW D \in [Vertex -> Seq(Vertex)], \A u \in Vertex : IsInjective(D[u]),
           NEW new \in [Vertex -> Vertex], NEW n, Numbers(new, LiveIn(D), n),
           NEW u \in Vertex, NEW S, S = {s \in Slot(D) : s[1] = u},
           NEW s, Lists(s, S), NEW list, Renames(D, new, s, list)
    PROVE  Renamed(D, new, u, s, list)
<1>0. s \in Seq(S) /\ IsInjective(s)
  BY DEF Lists
<1>1. PICK l \in Nat : l = Len(s)
  BY <1>0, LenProperties
<1>2. DOMAIN s = 1 .. l /\ list = [a \in 1 .. l |-> new[Target(D, s[a])]]
  BY <1>0, <1>1, LenProperties DEF Renames
<1>3. ASSUME NEW a \in 1 .. l
      PROVE  /\ s[a] \in Slot(D) /\ s[a][1] = u /\ s[a] = <<u, s[a][2]>>
             /\ s[a][2] \in 1 .. Len(D[u])
             /\ Target(D, s[a]) = D[u][s[a][2]]
             /\ Target(D, s[a]) \in Succ(D, u) /\ Target(D, s[a]) \in Vertex
             /\ Target(D, s[a]) \in LiveIn(D)
  <2>1. s[a] \in Slot(D) /\ s[a][1] = u
    BY <1>1 DEF Lists
  <2>2. /\ s[a] = <<s[a][1], s[a][2]>> /\ s[a][2] \in 1 .. Len(D[s[a][1]])
        /\ Target(D, s[a]) \in Succ(D, s[a][1]) /\ Target(D, s[a]) \in Vertex
    BY <2>1, SlotParts
  <2>3. Target(D, s[a]) = D[s[a][1]][s[a][2]]
    BY DEF Target
  <2>4. Target(D, s[a]) \in LiveIn(D)
    BY <2>1, <2>2, EdgeLive
  <2> QED
    BY <2>1, <2>2, <2>3, <2>4
<1>4. list \in Seq(Vertex) /\ Len(list) = l /\ DOMAIN list = 1 .. l
  <2>1. \A a \in 1 .. l : new[Target(D, s[a])] \in Vertex
    BY <1>3
  <2>2. list \in [1 .. l -> Vertex]
    BY <1>2, <2>1
  <2> QED
    BY <2>2
<1>5. ASSUME NEW a \in 1 .. l, NEW b \in 1 .. l, list[a] = list[b] PROVE a = b
  <2>1. new[Target(D, s[a])] = new[Target(D, s[b])]
    BY <1>2, <1>5
  <2>2. Target(D, s[a]) = Target(D, s[b])
    BY <1>3, <2>1 DEF Numbers
  <2>3. D[u][s[a][2]] = D[u][s[b][2]]
    BY <1>3, <2>2
  <2>4. DOMAIN D[u] = 1 .. Len(D[u])
    OBVIOUS
  <2>5. s[a][2] = s[b][2]
    BY <1>3, <2>3, <2>4 DEF IsInjective
  <2>6. s[a] = s[b]
    BY <1>3, <2>5
  <2> QED
    BY <1>0, <1>2, <2>6 DEF IsInjective
<1>6. IsInjective(list)
  BY <1>4, <1>5 DEF IsInjective
<1>7. ASSUME NEW y PROVE y \in ToSet(list) <=> \E w \in Succ(D, u) : y = new[w]
  <2>1. y \in ToSet(list) <=> \E a \in 1 .. l : y = new[Target(D, s[a])]
    BY <1>2, <1>4 DEF ToSet
  <2>2. ASSUME NEW w \in Succ(D, u), y = new[w]
        PROVE  \E a \in 1 .. l : y = new[Target(D, s[a])]
    <3>1. HasPlace(D, u, w)
      BY SuccPlace
    <3>2. PICK p \in Slot(D) : p[1] = u /\ Target(D, p) = w
      BY <3>1 DEF HasPlace
    <3>3. PICK a \in 1 .. l : s[a] = p
      BY <1>1, <3>2 DEF Lists
    <3> QED
      BY <2>2, <3>2, <3>3
  <2>3. ASSUME NEW a \in 1 .. l, y = new[Target(D, s[a])]
        PROVE  \E w \in Succ(D, u) : y = new[w]
    BY <1>3, <2>3
  <2> QED
    BY <2>1, <2>2, <2>3
<1>8. ToSet(list) = {new[w] : w \in Succ(D, u)}
  BY <1>7
<1> QED
  BY <1>4, <1>6, <1>8 DEF Renamed

\* Writing one record keeps the invariant.
LEMMA WriteListInv == IInv /\ WriteList => IInv'
<1> SUFFICES ASSUME IInv, WriteList PROVE IInv'
  OBVIOUS
<1>1. /\ pc = "adj_DAG" /\ pc' = "adj_DAG" /\ i <= idcount /\ i' = i + 1
      /\ UNCHANGED <<graph, sccs, indeg, sccVars, member, k, DAG, visit_flag,
                     querycnt, outdeg, root_arr, codeVars>>
  BY DEF WriteList
<1>2. UNCHANGED <<scc_num, scc_located, scc_num_located, que, visited_arr, curID, idcount,
                  newID>>
  BY <1>1 DEF sccVars, codeVars
<1>3. \E s : /\ IsListing(s, NewEdges(i))
            /\ out' = [out EXCEPT ![i] = [n \in 1 .. Len(s) |-> To(s[n])]]
  BY DEF WriteList, Listings, IsListing
<1>4. PICK s : /\ IsListing(s, NewEdges(i))
               /\ out' = [out EXCEPT ![i] = [n \in 1 .. Len(s) |-> To(s[n])]]
  BY <1>3
<1> DEFINE list == [n \in 1 .. Len(s) |-> To(s[n])]
<1>5. /\ SccTypes /\ DagTypes /\ CodeTypes /\ pc \in Later
      /\ Numbers(newID, LiveIn(DAG), idcount + 1)
      /\ i \in 0 .. idcount + 1
      /\ \A n \in Vertex : n < i => ListWritten(n)
      /\ idcount \in Nat /\ idcount <= maxID
  BY <1>1, CodedFacts
<1>6. /\ DAG \in [Vertex -> Seq(Vertex)] /\ \A u \in Vertex : IsInjective(DAG[u])
      /\ newID \in [Vertex -> Vertex] /\ out \in [Vertex -> Seq(Vertex)]
  BY <1>5, LaterFacts DEF CodeTypes, Vertex
<1>7. i \in 0 .. idcount /\ i \in Vertex /\ i \in Nat
  BY <1>1, <1>5, MaxIDAssumption DEF Vertex
<1>8. PICK u \in LiveIn(DAG) : newID[u] = i
  <2>1. idcount + 1 - 1 = idcount
    BY <1>5
  <2> QED
    BY <1>5, <1>7, <2>1 DEF Numbers
<1>9. u \in Vertex
  BY DEF LiveIn
<1>10. NewEdges(i) = {p \in Slot(DAG) : p[1] = u}
  <2> SUFFICES ASSUME NEW p \in Slot(DAG) PROVE newID[p[1]] = i <=> p[1] = u
    BY DEF NewEdges
  <2>1. p[1] \in Vertex /\ Target(DAG, p) \in Succ(DAG, p[1])
    BY <1>6, SlotParts
  <2>2. p[1] \in LiveIn(DAG)
    BY <1>6, <2>1, EdgeLive
  <2> QED
    BY <1>5, <1>8, <2>2 DEF Numbers
<1>11. IsFiniteSet(NewEdges(i))
  BY <1>6, SlotFinite, FS_Subset DEF NewEdges
<1>12. Lists(s, NewEdges(i))
  BY <1>4, <1>11, ListingLists
<1>13. Renames(DAG, newID, s, list)
  BY DEF Renames, To
<1>14. out' = [out EXCEPT ![i] = list]
  BY <1>4
<1> HIDE DEF list
<1>15. Renamed(DAG, newID, u, s, list)
  BY <1>5, <1>6, <1>9, <1>10, <1>12, <1>13, RenamedList
<1>16. list \in Seq(Vertex) /\ IsInjective(list)
       /\ ToSet(list) = {newID[w] : w \in Succ(DAG, u)}
  BY <1>15 DEF Renamed
<1>17. out'[i] = list /\ \A n \in Vertex : n # i => out'[n] = out[n]
  BY <1>6, <1>7, <1>14
<1>18. Succ(out', i) = ToSet(list)
  <2>1. DOMAIN list = 1 .. Len(list)
    BY <1>16
  <2> QED
    BY <1>17, <2>1 DEF Succ, ToSet
<1>19. TypeOK'
  <2>1. out' \in [Vertex -> Seq(Vertex)]
    BY <1>6, <1>7, <1>14, <1>16
  <2>2. SccTypes' /\ CodeTypes'
    BY <1>1, <1>2, <1>5, <2>1 DEF SccTypes, CodeTypes
  <2>3. i' \in 0 .. maxID + 2
    BY <1>1, <1>5, <1>7, MaxIDAssumption
  <2>4. DagTypes'
    BY <1>1, <1>5, <2>3 DEF DagTypes
  <2> QED
    BY <1>1, <2>2, <2>4 DEF TypeOK
<1>20. Coded'
  <2>1. i' \in 0 .. idcount' + 1
    BY <1>1, <1>2, <1>5, <1>7
  <2> QED
    BY <1>1, <1>2, <1>5, <2>1 DEF Coded
<1>21. ASSUME NEW n \in Vertex, n < i' PROVE ListWritten(n)'
  <2>1. CASE n = i
    <3>1. IsInjective(out'[n])
      BY <1>16, <1>17, <2>1
    <3>2. ASSUME NEW x \in LiveIn(DAG), newID[x] = n
          PROVE  Succ(out', n) = {newID[w] : w \in Succ(DAG, x)}
      <4>1. x = u
        BY <1>5, <1>8, <2>1, <3>2 DEF Numbers
      <4> QED
        BY <1>16, <1>18, <2>1, <4>1
    <3> QED
      BY <1>1, <1>2, <3>1, <3>2 DEF ListWritten
  <2>2. CASE n # i
    <3>1. n < i
      BY <1>1, <1>7, <1>21, <2>2 DEF Vertex
    <3>2. ListWritten(n)
      BY <1>5, <3>1
    <3>3. out'[n] = out[n]
      BY <1>17, <2>2
    <3>4. Succ(out', n) = Succ(out, n)
      BY <3>3 DEF Succ
    <3> QED
      BY <1>1, <1>2, <3>2, <3>3, <3>4 DEF ListWritten
  <2> QED
    BY <2>1, <2>2
<1>22. Writing'
  BY <1>21 DEF Writing
<1>23. CodeParts'
  BY <1>1, <1>20, <1>22 DEF CodeParts, Uncoded, RootsListed, Coding
<1>24. pc' \in Later
  BY <1>1 DEF Later
<1> QED
  BY <1>1, <1>5, <1>19, <1>23, <1>24, LaterKept

\* Finishing the file keeps the invariant.
LEMMA WriteEndInv == IInv /\ WriteEnd => IInv'
<1> SUFFICES ASSUME IInv, WriteEnd PROVE IInv'
  OBVIOUS
<1>1. /\ pc = "adj_DAG" /\ pc' = "done" /\ i > idcount
      /\ UNCHANGED <<graph, sccs, indeg, sccVars, dagVars, root_arr, codeVars, out>>
  BY DEF WriteEnd
<1>2. UNCHANGED <<scc_num, scc_located, scc_num_located, i, member, k, DAG, visit_flag,
                  querycnt, outdeg, que, visited_arr, curID, idcount, newID>>
  BY <1>1 DEF sccVars, dagVars, codeVars
<1>3. /\ SccTypes /\ DagTypes /\ CodeTypes /\ pc \in Later
      /\ Numbers(newID, LiveIn(DAG), idcount + 1)
      /\ i \in 0 .. idcount + 1
      /\ \A n \in Vertex : n < i => ListWritten(n)
      /\ idcount \in Nat
  BY <1>1, CodedFacts
<1>4. TypeOK'
  BY <1>1, <1>2, <1>3 DEF TypeOK, SccTypes, DagTypes, CodeTypes
<1>5. i = idcount + 1
  BY <1>1, <1>3
<1>6. Coded' /\ Writing'
  BY <1>1, <1>2, <1>3, <1>5 DEF Coded, Writing, ListWritten
<1>7. CodeParts'
  BY <1>1, <1>6 DEF CodeParts, Uncoded, RootsListed, Coding
<1>8. pc' \in Later
  BY <1>1 DEF Later
<1> QED
  BY <1>1, <1>2, <1>3, <1>4, <1>7, <1>8, LaterKept

\* A step that changes nothing.
LEMMA StutterInv == IInv /\ UNCHANGED vars => IInv'
<1> SUFFICES ASSUME IInv, UNCHANGED vars PROVE IInv'
  OBVIOUS
<1>1. UNCHANGED <<graph, sccs, pc, indeg, scc_num, scc_located, scc_num_located, i, member, k,
                  DAG, visit_flag, querycnt, outdeg, root_arr, que, visited_arr, curID,
                  idcount, newID, out>>
  BY DEF vars, sccVars, dagVars, codeVars
<1>2. TypeOK'
  BY <1>1 DEF IInv, TypeOK, SccTypes, DagTypes, CodeTypes
<1>3. InDegreesSuffice'
  BY <1>1 DEF IInv, InDegreesSuffice
<1>4. GoodInput(graph, sccs)' /\ Located(sccs, scc_num, scc_located, scc_num_located)'
  BY <1>1 DEF IInv
<1>5. StandMap' = StandMap /\ MemberMap' = MemberMap /\ ScannedNow' = ScannedNow
  BY <1>1 DEF StandMap, MemberMap, ScannedNow
<1>6. Reading'
  BY <1>1 DEF IInv, Reading
<1>7. Collapsed'
  BY <1>1, <1>5 DEF IInv, Collapsed
<1>8. Condensing'
  BY <1>1, <1>5 DEF IInv, Condensing
<1>9. CondensedAll'
  BY <1>1, <1>5 DEF IInv, CondensedAll
<1>10. Uncoded'
  BY <1>1 DEF IInv, Uncoded
<1>11. RootsListed'
  BY <1>1 DEF IInv, RootsListed
<1>12. Visited' = Visited /\ Numbered' = Numbered
  BY <1>1 DEF Visited, Numbered
<1>13. Followed <=> Followed'
  BY <1>1, <1>12 DEF Followed
<1>14. Coding'
  BY <1>1, <1>12, <1>13 DEF IInv, Coding
<1>15. Coded'
  BY <1>1 DEF IInv, Coded
<1>16. ASSUME NEW n, ListWritten(n) PROVE ListWritten(n)'
  BY <1>1, <1>16 DEF ListWritten
<1>17. Writing'
  BY <1>1, <1>16 DEF IInv, Writing
<1> QED
  BY <1>2, <1>3, <1>4, <1>6, <1>7, <1>8, <1>9, <1>10, <1>11, <1>14, <1>15, <1>17 DEF IInv

\* Every step keeps the inductive invariant.
LEMMA IInvNext == IInv /\ [Next]_vars => IInv'
BY ConstructAdjInv, ReadSccInv, ReadSccEndInv, DagBeginInv, DagEdgeInv, DagMemberInv,
   DagVertexInv, DagEndInv, RootsInv, RecodeRootInv, RecodeVertexInv, RecodeEdgeInv,
   RecodeVertexEndInv, RecodeEndInv, WriteListInv, WriteEndInv, StutterInv DEF Next

---------------------------------------------------------------------------
(***************************************************************************)
(* What holds when readGraph2 is done.                                     *)
(***************************************************************************)
\* The written lists are those of D under new.
Renumbers(D, new, top, o) ==
    /\ Numbers(new, LiveIn(D), top + 1)
    /\ \A u \in LiveIn(D) : Succ(o, new[u]) = {new[w] : w \in Succ(D, u)}

HasId(D, new, n) == \E u \in LiveIn(D) : new[u] = n

\* Every new id is that of a vertex with an edge.
LEMMA IdOf ==
    ASSUME NEW D, NEW new, NEW top \in Nat, NEW o, Renumbers(D, new, top, o),
           NEW n \in 0 .. top
    PROVE  HasId(D, new, n)
<1>1. top + 1 - 1 = top
  OBVIOUS
<1> QED
  BY <1>1 DEF Renumbers, Numbers, HasId

\* The id of a vertex with an edge is one of 0..top.
LEMMA IdIn ==
    ASSUME NEW D, NEW new, NEW top \in Nat, NEW o, Renumbers(D, new, top, o),
           NEW u \in LiveIn(D)
    PROVE  new[u] \in 0 .. top
<1>1. top + 1 - 1 = top
  OBVIOUS
<1> QED
  BY <1>1 DEF Renumbers, Numbers

\* No two vertices with an edge have one id.
LEMMA IdOnce ==
    ASSUME NEW D, NEW new, NEW top, NEW o, Renumbers(D, new, top, o),
           NEW u \in LiveIn(D), NEW w \in LiveIn(D), new[u] = new[w]
    PROVE  u = w
BY DEF Renumbers, Numbers

\* Renumbering keeps a graph acyclic.
LEMMA RenumberedAcyclic ==
    ASSUME NEW D \in [Vertex -> Seq(Vertex)], NEW new, NEW top \in Nat, NEW o,
           Renumbers(D, new, top, o), Acyclic(D),
           NEW S \in SUBSET (0 .. top), S # {}
    PROVE  \E n \in S : \A m \in S : n \notin Succ(o, m)
<1> DEFINE T == {u \in LiveIn(D) : new[u] \in S}
<1>1. PICK n0 : n0 \in S
  OBVIOUS
<1>2. PICK u0 \in LiveIn(D) : new[u0] = n0
  <2>1. n0 \in 0 .. top
    BY <1>1
  <2> HIDE DEF T
  <2>2. HasId(D, new, n0)
    BY <2>1, IdOf
  <2> QED
    BY <2>2 DEF HasId
<1>3. LiveIn(D) \subseteq Vertex
  BY DEF LiveIn
<1>4. T \in (SUBSET Vertex) \ {{}}
  BY <1>1, <1>2, <1>3
<1>5. PICK v \in T : \A u \in T : v \notin Succ(D, u)
  BY <1>4 DEF Acyclic
<1>6. ASSUME NEW m \in S, new[v] \in Succ(o, m) PROVE FALSE
  <2>1. PICK u \in LiveIn(D) : new[u] = m
    <3>1. HasId(D, new, m)
      BY IdOf
    <3> QED
      BY <3>1 DEF HasId
  <2>2. Succ(o, m) = {new[w] : w \in Succ(D, u)}
    BY <2>1 DEF Renumbers
  <2>3. PICK w \in Succ(D, u) : new[v] = new[w]
    BY <1>6, <2>2
  <2>4. w \in LiveIn(D)
    BY <1>3, <2>1, <2>3, EdgeLive
  <2>5. v = w
    BY <1>5, <2>3, <2>4, IdOnce
  <2> QED
    BY <1>5, <2>1, <2>3, <2>5
<1> QED
  BY <1>5, <1>6

\* S is closed under the written lists.
ClosedUnder(o, top, S) ==
    S \subseteq 0 .. top /\ \A n \in S : Succ(o, n) \cap (0 .. top) \subseteq S

\* Renumbering keeps what can be reached.
LEMMA RenumberedReach ==
    ASSUME NEW D \in [Vertex -> Seq(Vertex)], NEW new, NEW top \in Nat, NEW o,
           Renumbers(D, new, top, o), NEW u \in LiveIn(D), NEW w \in LiveIn(D)
    PROVE  Reachable(D, u, w) <=>
               \A S : ClosedUnder(o, top, S) /\ new[u] \in S => new[w] \in S
<1>1. LiveIn(D) \subseteq Vertex
  BY DEF LiveIn
<1>2. ASSUME Reachable(D, u, w), NEW S, ClosedUnder(o, top, S), new[u] \in S
      PROVE  new[w] \in S
  <2> DEFINE T == {a \in LiveIn(D) : new[a] \in S}
  <2>1. ASSUME NEW a \in T, NEW b \in Succ(D, a) PROVE b \in T
    <3>1. Succ(o, new[a]) \cap (0 .. top) \subseteq S
      BY <1>2 DEF ClosedUnder
    <3>2. new[b] \in Succ(o, new[a])
      BY DEF Renumbers
    <3>3. b \in LiveIn(D)
      BY <1>1, EdgeLive
    <3>4. new[b] \in 0 .. top
      BY <3>3, IdIn
    <3> QED
      BY <3>1, <3>2, <3>3, <3>4
  <2>2. IsClosed(D, T)
    BY <1>1, <2>1 DEF IsClosed
  <2>3. u \in T
    BY <1>2
  <2>4. w \in T
    <3> HIDE DEF T
    <3> QED
      BY <1>2, <2>2, <2>3, ReachableIs
  <2> QED
    BY <2>4
<1>3. ASSUME \A S : ClosedUnder(o, top, S) /\ new[u] \in S => new[w] \in S
      PROVE  Reachable(D, u, w)
  <2>1. ASSUME NEW S, IsClosed(D, S), u \in S PROVE w \in S
    <3> DEFINE T == {new[a] : a \in S \cap LiveIn(D)}
    <3>1. ASSUME NEW n \in T PROVE n \in 0 .. top /\ Succ(o, n) \subseteq T
      <4>1. PICK a \in S \cap LiveIn(D) : n = new[a]
        OBVIOUS
      <4>2. n \in 0 .. top
        BY <4>1, IdIn
      <4>3. Succ(o, n) = {new[b] : b \in Succ(D, a)}
        BY <4>1 DEF Renumbers
      <4>4. ASSUME NEW b \in Succ(D, a) PROVE new[b] \in T
        <5>1. b \in S
          BY <2>1, <4>1 DEF IsClosed
        <5>2. b \in LiveIn(D)
          BY <1>1, <4>1, EdgeLive
        <5> QED
          BY <5>1, <5>2
      <4> QED
        BY <4>2, <4>3, <4>4
    <3>2. ClosedUnder(o, top, T)
      BY <3>1 DEF ClosedUnder
    <3>3. new[u] \in T
      BY <2>1
    <3>4. new[w] \in T
      <4> HIDE DEF T
      <4> QED
        BY <1>3, <3>2, <3>3
    <3>5. PICK a \in S \cap LiveIn(D) : new[w] = new[a]
      BY <3>4
    <3>6. w = a
      BY <3>5, IdOnce
    <3> QED
      BY <3>5, <3>6
  <2> QED
    BY <2>1, ReachableIs
<1> QED
  BY <1>2, <1>3

\* A vertex without an edge reaches itself only, and nothing else reaches it.
LEMMA ReachLive ==
    ASSUME NEW D \in [Vertex -> Seq(Vertex)], NEW x \in Vertex, NEW y \in Vertex,
           Reachable(D, x, y), x # y
    PROVE  x \in LiveIn(D) /\ y \in LiveIn(D)
<1>1. ASSUME x \notin LiveIn(D) PROVE FALSE
  <2>1. D[x] = <<>>
    BY <1>1 DEF LiveIn
  <2>2. Succ(D, x) = {}
    BY <2>1 DEF Succ
  <2>3. IsClosed(D, {x})
    BY <2>2 DEF IsClosed
  <2>4. y \in {x}
    BY <2>3, ReachableIs
  <2> QED
    BY <2>4
<1>2. ASSUME y \notin LiveIn(D) PROVE FALSE
  <2>1. ~ (InEdges(D, y) > 0)
    BY <1>2 DEF LiveIn
  <2>2. InEdges(D, y) = 0
    <3>1. InEdges(D, y) \in Nat
      BY InEdgesIs
    <3> QED
      BY <2>1, <3>1
  <2>3. \A u \in Vertex : y \notin Succ(D, u)
    BY <2>2, NoInEdge
  <2>4. \A u \in Vertex : Succ(D, u) \subseteq Vertex
    BY SuccVertex
  <2> DEFINE S == Vertex \ {y}
  <2>5. IsClosed(D, S)
    BY <2>3, <2>4 DEF IsClosed
  <2>6. x \in S
    OBVIOUS
  <2>7. y \in S
    <3> HIDE DEF S
    <3> QED
      BY <2>5, <2>6, ReachableIs
  <2> QED
    BY <2>7
<1> QED
  BY <1>1, <1>2

\* The same, of the written graph's own operators.
LEMMA WrittenSucc == ASSUME NEW o, NEW n PROVE Written!Succ(o, n) = Succ(o, n)
BY DEF Written!Succ, Succ

\* Reachability in the written graph, over its own ids.
LEMMA WrittenReach ==
    ASSUME NEW n, NEW m
    PROVE  Written!Reachable(out, n, m) <=>
               \A S : ClosedUnder(out, idcount, S) /\ n \in S => m \in S
<1>1. Written!Vertex = 0 .. idcount
  BY DEF Written!Vertex
<1>2. ASSUME NEW S \in SUBSET (0 .. idcount)
      PROVE  Written!Closed(out, Written!Vertex, S) <=>
                 \A a \in S : Succ(out, a) \cap (0 .. idcount) \subseteq S
  BY <1>1, WrittenSucc DEF Written!Closed
<1>3. Written!Reachable(out, n, m) <=>
          \A S \in SUBSET (0 .. idcount) :
              n \in S /\ Written!Closed(out, Written!Vertex, S) => m \in S
  BY <1>1 DEF Written!Reachable, Written!ReachableIn
<1>4. ASSUME NEW S
      PROVE  ClosedUnder(out, idcount, S) <=>
                 S \in SUBSET (0 .. idcount) /\ Written!Closed(out, Written!Vertex, S)
  BY <1>2 DEF ClosedUnder
<1> QED
  BY <1>3, <1>4

---------------------------------------------------------------------------
\* The lists that construct_adj_DAG has written are the renumbered ones.
LEMMA DoneFacts ==
    ASSUME IInv, pc = "done"
    PROVE  /\ Renumbers(DAG, newID, idcount, out) /\ idcount \in Nat
           /\ graph \in [Vertex -> Seq(Vertex)] /\ DAG \in [Vertex -> Seq(Vertex)]
           /\ Acyclic(DAG) /\ Collapses(graph, StandMap)
           /\ Condensed(graph, StandMap, Slot(graph), DAG)
           /\ Live = LiveIn(DAG)
           /\ \A n \in 0 .. idcount : out[n] \in Seq(Vertex) /\ IsInjective(out[n])
<1>1. /\ Numbers(newID, LiveIn(DAG), idcount + 1)
      /\ i = idcount + 1 /\ \A n \in Vertex : n < i => ListWritten(n)
      /\ idcount \in Nat /\ idcount <= maxID /\ pc \in Later
  BY CodedFacts
<1>2. ASSUME NEW n \in 0 .. idcount PROVE ListWritten(n)
  <2>1. n \in Vertex /\ n < i
    BY <1>1, MaxIDAssumption DEF Vertex
  <2> QED
    BY <1>1, <2>1
<1>3. idcount + 1 - 1 = idcount
  BY <1>1
<1>4. ASSUME NEW u \in LiveIn(DAG)
      PROVE  Succ(out, newID[u]) = {newID[w] : w \in Succ(DAG, u)}
  <2>1. newID[u] \in 0 .. idcount
    BY <1>1, <1>3 DEF Numbers
  <2> QED
    BY <1>2, <2>1 DEF ListWritten
<1>5. Renumbers(DAG, newID, idcount, out)
  BY <1>1, <1>4 DEF Renumbers
<1>6. Live = LiveIn(DAG)
  BY DEF Live, LiveIn
<1>7. ASSUME NEW n \in 0 .. idcount
      PROVE  out[n] \in Seq(Vertex) /\ IsInjective(out[n])
  <2>1. n \in Vertex
    BY <1>1, MaxIDAssumption DEF Vertex
  <2>2. out[n] \in Seq(Vertex)
    BY <2>1 DEF IInv, TypeOK, CodeTypes
  <2> QED
    BY <1>2, <2>2 DEF ListWritten
<1> QED
  BY <1>1, <1>5, <1>6, <1>7, LaterFacts

\* The ids are exact when the invariant holds.
LEMMA IdsInv == IInv => IdsExact
<1> SUFFICES ASSUME IInv, pc = "done"
             PROVE  /\ {newID[v] : v \in Live} = 0 .. idcount
                    /\ Cardinality(Live) = idcount + 1
  BY DEF IdsExact
<1>1. Renumbers(DAG, newID, idcount, out) /\ idcount \in Nat /\ Live = LiveIn(DAG)
  BY DoneFacts
<1>2. Numbers(newID, Live, idcount + 1) /\ idcount + 1 \in Nat
  BY <1>1 DEF Renumbers
<1>3. Cardinality(Live) = idcount + 1
  BY <1>2, NumbersCount
<1>4. idcount + 1 - 1 = idcount
  BY <1>1
<1>5. /\ \A v \in Live : newID[v] \in 0 .. idcount
      /\ \A n \in 0 .. idcount : HasId(DAG, newID, n)
  BY <1>1, IdIn, IdOf
<1>6. {newID[v] : v \in Live} = 0 .. idcount
  BY <1>1, <1>5 DEF HasId
<1> QED
  BY <1>3, <1>6

\* The written graph is acyclic.
LEMMA WrittenAcyclic == IInv /\ pc = "done" => Written!Acyclic(out)
<1> SUFFICES ASSUME IInv, pc = "done" PROVE Written!Acyclic(out)
  OBVIOUS
<1>1. /\ Renumbers(DAG, newID, idcount, out) /\ idcount \in Nat
      /\ DAG \in [Vertex -> Seq(Vertex)] /\ Acyclic(DAG)
  BY DoneFacts
<1>2. ASSUME NEW S \in SUBSET (0 .. idcount), S # {}
      PROVE  \E n \in S : \A m \in S : n \notin Succ(out, m)
  BY <1>1, <1>2, RenumberedAcyclic
<1>3. \A n, m : n \in Written!Succ(out, m) <=> n \in Succ(out, m)
  BY WrittenSucc
<1>4. Written!Vertex = 0 .. idcount
  BY DEF Written!Vertex
<1> QED
  BY <1>2, <1>3, <1>4 DEF Written!Acyclic

\* y can be reached from x iff what the written graph says of their ids does.
LEMMA WrittenAnswers ==
    ASSUME IInv, pc = "done", NEW x \in Vertex, NEW y \in Vertex
    PROVE  Reachable(graph, x, y) <=>
               \/ Stand(x) = Stand(y)
               \/ /\ {Stand(x), Stand(y)} \subseteq Live
                  /\ Written!Reachable(out, newID[Stand(x)], newID[Stand(y)])
<1>1. /\ Renumbers(DAG, newID, idcount, out) /\ idcount \in Nat
      /\ graph \in [Vertex -> Seq(Vertex)] /\ DAG \in [Vertex -> Seq(Vertex)]
      /\ Collapses(graph, StandMap) /\ Condensed(graph, StandMap, Slot(graph), DAG)
      /\ Live = LiveIn(DAG)
  BY DoneFacts
<1> DEFINE a == StandMap[x]
           b == StandMap[y]
<1>2. Stand(x) = a /\ Stand(y) = b
  BY StandIs
<1>3. a \in Vertex /\ b \in Vertex
  BY <1>1 DEF Collapses
<1>4. Reachable(graph, x, y) <=> Reachable(DAG, a, b)
  BY <1>1, CondensedReach
<1> HIDE DEF a, b
<1>5. CASE a = b
  BY <1>1, <1>2, <1>4, <1>5, ReachSelf
<1>6. CASE a # b /\ ~ (a \in Live /\ b \in Live)
  <2>1. ~ Reachable(DAG, a, b)
    BY <1>1, <1>3, <1>6, ReachLive
  <2> QED
    BY <1>2, <1>4, <1>6, <2>1
<1>7. CASE a # b /\ a \in Live /\ b \in Live
  <2>1. Reachable(DAG, a, b) <=>
            \A S : ClosedUnder(out, idcount, S) /\ newID[a] \in S => newID[b] \in S
    BY <1>1, <1>7, RenumberedReach
  <2>2. Written!Reachable(out, newID[a], newID[b]) <=>
            \A S : ClosedUnder(out, idcount, S) /\ newID[a] \in S => newID[b] \in S
    BY WrittenReach
  <2> QED
    BY <1>2, <1>4, <1>7, <2>1, <2>2
<1> QED
  BY <1>5, <1>6, <1>7

\* A function on 1..m is a sequence.
LEMMA ListOf ==
    ASSUME NEW S, NEW m \in Nat, NEW f \in [1 .. m -> S]
    PROVE  f \in Seq(S)
  OBVIOUS

\* The lists that were written hold ids that were given.
LEMMA WrittenLists ==
    ASSUME IInv, pc = "done", NEW n \in 0 .. idcount
    PROVE  out[n] \in Seq(0 .. idcount)
<1>1. /\ Renumbers(DAG, newID, idcount, out) /\ idcount \in Nat
      /\ DAG \in [Vertex -> Seq(Vertex)]
      /\ out[n] \in Seq(Vertex)
  BY DoneFacts
<1>2. HasId(DAG, newID, n)
  BY <1>1, IdOf
<1>3. PICK u \in LiveIn(DAG) : newID[u] = n
  BY <1>2 DEF HasId
<1>4. Succ(out, n) = {newID[w] : w \in Succ(DAG, u)}
  BY <1>1, <1>3 DEF Renumbers
<1>5. u \in Vertex
  BY DEF LiveIn
<1>6. ASSUME NEW w \in Succ(DAG, u) PROVE newID[w] \in 0 .. idcount
  <2>1. w \in LiveIn(DAG)
    BY <1>1, <1>5, EdgeLive
  <2> QED
    BY <1>1, <2>1, IdIn
<1>7. Succ(out, n) \subseteq 0 .. idcount
  BY <1>4, <1>6
<1>8. Len(out[n]) \in Nat /\ DOMAIN out[n] = 1 .. Len(out[n])
  BY <1>1
<1>9. ASSUME NEW j \in 1 .. Len(out[n]) PROVE out[n][j] \in 0 .. idcount
  <2>1. out[n][j] \in Succ(out, n)
    BY <1>8 DEF Succ, ToSet
  <2> QED
    BY <1>7, <2>1
<1>10. out[n] = [j \in 1 .. Len(out[n]) |-> out[n][j]]
  BY <1>1
<1>11. PICK f : f = [j \in 1 .. Len(out[n]) |-> out[n][j]]
  OBVIOUS
<1>12. f \in [1 .. Len(out[n]) -> 0 .. idcount]
  BY <1>9, <1>11
<1>13. f \in Seq(0 .. idcount)
  BY <1>8, <1>12, ListOf
<1> QED
  BY <1>10, <1>11, <1>13

\* The written graph is exact when the invariant holds.
LEMMA ReachabilityInv == IInv => ReachabilityKept
<1> SUFFICES ASSUME IInv, pc = "done"
             PROVE  /\ Written!Acyclic(out)
                    /\ \A n \in Written!Vertex :
                          out[n] \in Seq(Written!Vertex) /\ IsInjective(out[n])
                    /\ \A x, y \in Vertex :
                          Reachable(graph, x, y) <=>
                              \/ Stand(x) = Stand(y)
                              \/ /\ {Stand(x), Stand(y)} \subseteq Live
                                 /\ Written!Reachable(out, newID[Stand(x)], newID[Stand(y)])
  BY DEF ReachabilityKept
<1>1. Written!Acyclic(out)
  BY WrittenAcyclic
<1>2. ASSUME NEW n \in Written!Vertex
      PROVE  out[n] \in Seq(Written!Vertex) /\ IsInjective(out[n])
  <2>1. n \in 0 .. idcount /\ Written!Vertex = 0 .. idcount
    BY DEF Written!Vertex
  <2> QED
    BY <2>1, DoneFacts, WrittenLists
<1> QED
  BY <1>1, <1>2, WrittenAnswers

(***************************************************************************)
(* The inductive invariant, and what follows from it.                      *)
(***************************************************************************)
\* Every state of readGraph2 satisfies the inductive invariant.
LEMMA IInvariance == Spec => []IInv
<1>1. Init => IInv
  BY IInvInit
<1>2. IInv /\ [Next]_vars => IInv'
  BY IInvNext
<1> QED
  BY <1>1, <1>2, PTL DEF Spec

(***************************************************************************)
(* For every graph and every listing of its components recode (Graph.cpp)  *)
(* gives the vertices that have an edge the ids 0..idcount, each once.     *)
(***************************************************************************)
THEOREM NewIdsExact == Spec => []IdsExact
<1>1. IInv => IdsExact
  BY IdsInv
<1> QED
  BY <1>1, IInvariance, PTL

(***************************************************************************)
(* For every graph the in-degrees of generate_DAG never wrap and end at    *)
(* zero exactly for the sources, and the lists construct_adj_DAG writes    *)
(* are acyclic, without parallel edges and answer as the graph that was    *)
(* read does.                                                              *)
(***************************************************************************)
THEOREM CondensationExact == Spec => []DagExact
<1>1. IInv => DagExact
  BY ReachabilityInv DEF IInv, DagExact
<1> QED
  BY <1>1, IInvariance, PTL
===========================================================================
