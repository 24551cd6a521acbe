------------------------- MODULE ReachQuery_proofs -------------------------
(***************************************************************************)
(* The index answers every query exactly, for every acyclic input graph of *)
(* any size.  cal_index turns the numbers of decode into intervals,        *)
(* cal_excp_and_cross_arr keeps for every vertex the parts of its region   *)
(* outside its interval and the entry points into later layers, and        *)
(* process needs no more than these.                                       *)
(***************************************************************************)
EXTENDS ReachCode_proofs

---------------------------------------------------------------------------
(***************************************************************************)
(* Reachability, within a region and across.                               *)
(***************************************************************************)
\* e names an entry point of u.
Entry(g, rt, new, u, e) ==
    \E x, y \in Vertex : /\ Within(g, rt, u, x) /\ y \in Succ(g, x) /\ rt[y] # rt[u]
                         /\ new[y] = e

LEMMA ReachInvariant ==
    ASSUME NEW g, NEW u, NEW v, Reachable(g, u, v), NEW S \in SUBSET Vertex, u \in S,
           \A x \in S : \A y \in Succ(g, x) : y \in Vertex => y \in S
    PROVE  v \in S
BY DEF Reachable, ReachableIn, Closed

\* Reachability is reflexive, transitive, and holds along edges.
LEMMA ReachSelf ==
    ASSUME NEW g, NEW u
    PROVE  Reachable(g, u, u)
BY DEF Reachable, ReachableIn

LEMMA ReachVertex ==
    ASSUME NEW g, NEW u \in Vertex, NEW v, Reachable(g, u, v)
    PROVE  v \in Vertex
BY ReachInvariant

LEMMA ReachStep ==
    ASSUME NEW g \in [Vertex -> Seq(Vertex)], NEW u \in Vertex, NEW v, NEW w,
           Reachable(g, u, v), w \in Succ(g, v)
    PROVE  Reachable(g, u, w)
<1>1. v \in Vertex
  BY ReachVertex
<1>2. w \in Vertex
  BY <1>1, SuccVertex
<1> QED
  BY <1>2 DEF Reachable, ReachableIn, Closed

LEMMA ReachTrans ==
    ASSUME NEW g, NEW u, NEW v, NEW w, Reachable(g, u, v), Reachable(g, v, w)
    PROVE  Reachable(g, u, w)
BY DEF Reachable, ReachableIn

\* What is reached inside a region is reached.
LEMMA WithinReach ==
    ASSUME NEW g \in [Vertex -> Seq(Vertex)], NEW rt, NEW u \in Vertex, NEW v, Within(g, rt, u, v)
    PROVE  Reachable(g, u, v)
<1>1. PICK S : S = {w \in Vertex : rt[w] = rt[u] /\ Reachable(g, u, w)}
  OBVIOUS
<1>2. u \in S
  BY <1>1, ReachSelf
<1>3. ASSUME NEW x \in S, NEW y \in Succ(g, x), y \in Vertex, rt[y] = rt[u] PROVE y \in S
  BY <1>1, <1>3, ReachStep
<1>4. S \in SUBSET Vertex /\ \A x \in S : rt[x] = rt[u]
  BY <1>1
<1>5. v \in S
  BY <1>2, <1>3, <1>4, WithinInvariant
<1> QED
  BY <1>1, <1>5

\* A path stays within the region or ends in a later layer.
LEMMA ReachWithin ==
    ASSUME NEW g, NEW topo, NEW ld, NEW rt, NEW lay, NEW tra,
           LaidOut(g, topo, ld, rt, lay, tra),
           NEW u \in Vertex, NEW v, Reachable(g, u, v)
    PROVE  v \in Vertex /\ (Within(g, rt, u, v) \/ lay[rt[u] - 1] < lay[rt[v] - 1])
<1>0. /\ g \in [Vertex -> Seq(Vertex)] /\ lay \in [Vertex -> Nat]
      /\ rt \in [Vertex -> 1 .. maxID + 1]
  BY LaidTypes
<1>1. PICK S : S = {w \in Vertex : Within(g, rt, u, w) \/ lay[rt[u] - 1] < lay[rt[w] - 1]}
  OBVIOUS
<1>2. u \in S
  BY <1>1, WithinSelf
<1>3. ASSUME NEW x \in S, NEW y \in Succ(g, x), y \in Vertex PROVE y \in S
  <2>1. x \in Vertex
    BY <1>1
  <2>2. \A w \in Vertex : lay[rt[w] - 1] \in Nat
    <3>1. SUFFICES ASSUME NEW w \in Vertex PROVE lay[rt[w] - 1] \in Nat
      OBVIOUS
    <3>2. rt[w] - 1 \in Vertex
      BY <1>0, RegionRoot
    <3> QED
      BY <1>0, <3>2
  <2>3. lay[rt[x] - 1] \in Nat /\ lay[rt[y] - 1] \in Nat /\ lay[rt[u] - 1] \in Nat
    BY <1>3, <2>1, <2>2
  <2>4. rt[y] = rt[x] \/ lay[rt[x] - 1] < lay[rt[y] - 1]
    BY <2>1 DEF LaidOut
  <2>5. CASE Within(g, rt, u, x)
    <3>1. rt[x] = rt[u]
      BY <2>5, WithinRegion
    <3>2. CASE rt[y] = rt[x]
      <4>1. Within(g, rt, u, y)
        BY <1>0, <2>5, <3>2, WithinStep
      <4> QED
        BY <1>1, <1>3, <4>1
    <3>3. CASE rt[y] # rt[x]
      BY <1>1, <1>3, <2>4, <3>1, <3>3
    <3> QED
      BY <3>2, <3>3
  <2>6. CASE lay[rt[u] - 1] < lay[rt[x] - 1]
    <3>1. lay[rt[u] - 1] < lay[rt[y] - 1]
      BY <2>3, <2>4, <2>6
    <3> QED
      BY <1>1, <1>3, <3>1
  <2> QED
    BY <1>1, <2>5, <2>6
<1>4. S \in SUBSET Vertex
  BY <1>1
<1>5. v \in S
  BY <1>2, <1>3, <1>4, ReachInvariant
<1> QED
  BY <1>1, <1>5

\* A path that leaves the region does so into an entry point.
LEMMA ReachLeaves ==
    ASSUME NEW g \in [Vertex -> Seq(Vertex)], NEW rt, NEW new \in [Vertex -> NewID],
           NEW u \in Vertex, NEW v, Reachable(g, u, v), rt[v] # rt[u]
    PROVE  \E y \in Vertex : Entry(g, rt, new, u, new[y]) /\ Reachable(g, y, v)
<1>1. PICK S : S = {w \in Vertex : \/ Within(g, rt, u, w)
                                   \/ \E y \in Vertex : Entry(g, rt, new, u, new[y]) /\ Reachable(g, y, w)}
  OBVIOUS
<1>2. u \in S
  BY <1>1, WithinSelf
<1>3. ASSUME NEW x \in S, NEW z \in Succ(g, x), z \in Vertex PROVE z \in S
  <2>1. CASE Within(g, rt, u, x)
    <3>1. rt[x] = rt[u] /\ x \in Vertex
      BY <2>1, WithinRegion
    <3>2. CASE rt[z] = rt[x]
      <4>1. Within(g, rt, u, z)
        BY <2>1, <3>2, WithinStep
      <4> QED
        BY <1>1, <1>3, <4>1
    <3>3. CASE rt[z] # rt[x]
      <4>1. Entry(g, rt, new, u, new[z])
        BY <1>3, <2>1, <3>1, <3>3 DEF Entry
      <4>2. Reachable(g, z, z)
        BY ReachSelf
      <4> QED
        BY <1>1, <1>3, <4>1, <4>2
    <3> QED
      BY <3>2, <3>3
  <2>2. CASE ~Within(g, rt, u, x)
    <3>1. PICK y \in Vertex : Entry(g, rt, new, u, new[y]) /\ Reachable(g, y, x)
      BY <1>1, <2>2
    <3>2. Reachable(g, y, z)
      BY <3>1, ReachStep
    <3> QED
      BY <1>1, <1>3, <3>1, <3>2
  <2> QED
    BY <2>1, <2>2
<1>4. S \in SUBSET Vertex
  BY <1>1
<1>5. v \in S
  BY <1>2, <1>3, <1>4, ReachInvariant
<1>6. ~Within(g, rt, u, v)
  BY WithinRegion
<1> QED
  BY <1>1, <1>5, <1>6

\* What grows along the edges grows along a path.
LEMMA ReachGrows ==
    ASSUME NEW g, NEW f \in [Vertex -> Nat], \A u \in Vertex : \A v \in Succ(g, u) : f[u] < f[v],
           NEW u \in Vertex, NEW v, Reachable(g, u, v)
    PROVE  v \in Vertex /\ (u = v \/ f[u] < f[v])
<1>1. PICK S : S = {w \in Vertex : u = w \/ f[u] < f[w]}
  OBVIOUS
<1>2. u \in S
  BY <1>1
<1>3. ASSUME NEW x \in S, NEW y \in Succ(g, x), y \in Vertex PROVE y \in S
  <2>1. f[x] < f[y] /\ f[x] \in Nat /\ f[y] \in Nat /\ f[u] \in Nat
    BY <1>1, <1>3
  <2> QED
    BY <1>1, <1>3, <2>1
<1>4. S \in SUBSET Vertex
  BY <1>1
<1>5. v \in S
  BY <1>2, <1>3, <1>4, ReachInvariant
<1> QED
  BY <1>1, <1>5

---------------------------------------------------------------------------
\* The new ids, as decode leaves them.
Renaming(g, new) ==
    /\ g \in [Vertex -> Seq(Vertex)] /\ new \in [Vertex -> NewID]
    /\ \A u, v \in Vertex : new[u] = new[v] => u = v
    /\ \A n \in NewID : \E v \in Vertex : new[v] = n
    /\ \A u \in Vertex : \A v \in Succ(g, u) : new[u] < new[v]

\* New ids are numbers.
LEMMA NewIDNat == NewID \subseteq Nat
BY MaxIDAssumption DEF NewID

\* Inside a region the numbers grow along a path.
LEMMA WithinNumber ==
    ASSUME NEW g, NEW rt, NEW new, Renaming(g, new), NEW u \in Vertex, NEW v, Within(g, rt, u, v)
    PROVE  /\ v \in Vertex /\ rt[v] = rt[u] /\ new[u] \in NewID /\ new[v] \in NewID
           /\ new[u] <= new[v] /\ (u # v => new[u] < new[v])
<1>1. g \in [Vertex -> Seq(Vertex)] /\ new \in [Vertex -> NewID]
  BY DEF Renaming
<1>2. new \in [Vertex -> Nat]
  BY <1>1, NewIDNat
<1>3. Reachable(g, u, v)
  BY <1>1, WithinReach
<1>4. v \in Vertex /\ (u = v \/ new[u] < new[v])
  <2>1. \A a \in Vertex : \A b \in Succ(g, a) : new[a] < new[b]
    BY DEF Renaming
  <2> QED
    BY <1>2, <1>3, <2>1, ReachGrows
<1>5. rt[v] = rt[u]
  BY WithinRegion
<1>6. new[u] \in Nat /\ new[v] \in Nat
  BY <1>2, <1>4
<1> QED
  BY <1>1, <1>4, <1>5, <1>6

---------------------------------------------------------------------------
(***************************************************************************)
(* cal_index walks against the topological order: what it leaves.          *)
(***************************************************************************)
After(topo, p) == {topo[a] : a \in p + 1 .. Len(topo)}

\* The interval of u.
SpanOf(g, rt, new, ex, iv, u) ==
    /\ iv[new[u]] \in new[u] .. maxID + 1
    /\ \A x \in Vertex : new[u] <= new[x] /\ new[x] <= iv[new[u]] =>
          Within(g, rt, u, x) /\ iv[new[x]] <= iv[new[u]]
    /\ \A v \in Succ(g, u) : rt[v] = rt[u] /\ v \notin Elems(ex[u]) => iv[new[v]] <= iv[new[u]]

Spans(g, rt, new, ex, iv, S) == \A u \in S : SpanOf(g, rt, new, ex, iv, u)

Heights(g, up, S, h) ==
    \A u \in S : up[u] \in 0 .. h /\ \A v \in Succ(g, u) : up[u] > up[v]

\* The order the walk follows: it lists every vertex once, after all of its
\* predecessors.
Sorted(g, topo) ==
    /\ g \in [Vertex -> Seq(Vertex)] /\ topo \in Seq(Vertex) /\ Distinct(topo) /\ Elems(topo) = Vertex
    /\ \A b \in 1 .. Len(topo) : \A u \in Vertex :
          topo[b] \in Succ(g, u) => \E a \in 1 .. b - 1 : topo[a] = u

\* The topological order of the layering is one.
LEMMA LaidSorted ==
    ASSUME NEW g, NEW topo, NEW ld, NEW rt, NEW lay, NEW tra,
           LaidOut(g, topo, ld, rt, lay, tra)
    PROVE  Sorted(g, topo)
BY DEF LaidOut, Sorted

\* A bounded nonempty set of numbers has a largest member.
LEMMA LargestOf ==
    ASSUME NEW S \in SUBSET Nat, S # {}, NEW n \in Nat, \A x \in S : x <= n
    PROVE  /\ Largest(S) \in S /\ Largest(S) \in Nat /\ Largest(S) <= n
           /\ \A y \in S : y <= Largest(S)
<1>1. PICK R : R = {n - x : x \in S}
  OBVIOUS
<1>2. R \in SUBSET Nat /\ R # {}
  <2>1. \A x \in S : n - x \in Nat
    OBVIOUS
  <2>2. PICK x \in S : TRUE
    OBVIOUS
  <2>3. n - x \in R
    BY <1>1
  <2>4. \A y \in R : y \in Nat
    BY <1>1, <2>1
  <2> QED
    BY <2>3, <2>4
<1>3. PICK r \in R : \A y \in R : r <= y
  BY <1>2, Smallest
<1>4. PICK m \in S : r = n - m
  BY <1>1, <1>3
<1>5. \A y \in S : m >= y
  <2>1. SUFFICES ASSUME NEW y \in S PROVE m >= y
    OBVIOUS
  <2>2. n - y \in R
    BY <1>1
  <2>3. n - m <= n - y
    BY <1>3, <1>4, <2>2
  <2> QED
    BY <2>3
<1>6. Largest(S) \in S /\ \A y \in S : Largest(S) >= y
  BY <1>5 DEF Largest
<1> QED
  BY <1>6

\* Where the vertices after position p stand.
LEMMA AfterIs ==
    ASSUME NEW g, NEW topo, Sorted(g, topo), NEW p \in 0 .. Len(topo)
    PROVE  \A b \in 1 .. Len(topo) : topo[b] \in Vertex /\ (topo[b] \in After(topo, p) <=> b > p)
<1>1. Len(topo) \in Nat /\ topo \in Seq(Vertex)
  BY DEF Sorted
<1>2. SUFFICES ASSUME NEW b \in 1 .. Len(topo)
               PROVE  topo[b] \in Vertex /\ (topo[b] \in After(topo, p) <=> b > p)
  OBVIOUS
<1>3. topo[b] \in Vertex
  BY <1>1
<1>4. ASSUME b > p PROVE topo[b] \in After(topo, p)
  <2>1. b \in p + 1 .. Len(topo)
    BY <1>1, <1>4
  <2> QED
    BY <2>1 DEF After
<1>5. ASSUME topo[b] \in After(topo, p) PROVE b > p
  <2>1. PICK a \in p + 1 .. Len(topo) : topo[b] = topo[a]
    BY <1>5 DEF After
  <2>2. a \in 1 .. Len(topo) /\ a > p
    BY <1>1, <2>1
  <2>3. a = b
    BY <2>1, <2>2 DEF Sorted, Distinct
  <2> QED
    BY <2>2, <2>3
<1> QED
  BY <1>3, <1>4, <1>5

\* Every vertex has its position.
LEMMA Position ==
    ASSUME NEW g, NEW topo, Sorted(g, topo), NEW v \in Vertex
    PROVE  \E b \in 1 .. Len(topo) : topo[b] = v
BY DEF Sorted, Elems

\* What comes after a position is closed under the edges.
LEMMA AfterClosed ==
    ASSUME NEW g, NEW topo, Sorted(g, topo), NEW p \in 0 .. Len(topo), NEW w \in After(topo, p)
    PROVE  w \in Vertex /\ \A v \in Succ(g, w) : v \in After(topo, p)
<1>1. Len(topo) \in Nat /\ topo \in Seq(Vertex) /\ g \in [Vertex -> Seq(Vertex)]
  BY DEF Sorted
<1>2. PICK c \in p + 1 .. Len(topo) : w = topo[c]
  BY DEF After
<1>3. c \in 1 .. Len(topo) /\ w \in Vertex
  BY <1>1, <1>2
<1>4. ASSUME NEW v \in Succ(g, w) PROVE v \in After(topo, p)
  <2>1. v \in Vertex
    BY <1>1, <1>3, SuccVertex
  <2>2. PICK b \in 1 .. Len(topo) : topo[b] = v
    BY <2>1, Position
  <2>3. PICK a \in 1 .. b - 1 : topo[a] = w
    BY <1>3, <2>2 DEF Sorted
  <2>4. a \in 1 .. Len(topo) /\ a < b
    BY <1>1, <2>2, <2>3
  <2>5. a > p
    BY <2>3, <2>4, AfterIs
  <2>6. b > p
    BY <2>4, <2>5
  <2> QED
    BY <2>2, <2>6, AfterIs
<1> QED
  BY <1>3, <1>4

\* The vertex the walk is at: what comes after it, and how the walk goes on.
AtVertex(g, topo, p, u) ==
    /\ u \in Vertex /\ u \notin After(topo, p)
    /\ \A w : w \in After(topo, p - 1) <=> w \in After(topo, p) \/ w = u
    /\ \A v \in Succ(g, u) : v \in After(topo, p)

\* What the walk knows of the vertex it is at.
LEMMA AfterNext ==
    ASSUME NEW g, NEW topo, Sorted(g, topo), NEW p \in 1 .. Len(topo)
    PROVE  AtVertex(g, topo, p, topo[p])
<1>1. Len(topo) \in Nat /\ topo \in Seq(Vertex) /\ g \in [Vertex -> Seq(Vertex)]
  BY DEF Sorted
<1>2. topo[p] \in Vertex /\ p \in 0 .. Len(topo) /\ p - 1 \in 0 .. Len(topo)
  BY <1>1
<1>3. topo[p] \notin After(topo, p)
  <2>1. ~(p > p)
    OBVIOUS
  <2> QED
    BY <1>2, <2>1, AfterIs
<1>4. ASSUME NEW w PROVE w \in After(topo, p - 1) <=> w \in After(topo, p) \/ w = topo[p]
  <2>1. p .. Len(topo) = (p + 1 .. Len(topo)) \cup {p} /\ (p - 1) + 1 = p
    BY <1>1
  <2> QED
    BY <2>1 DEF After
<1>5. ASSUME NEW v \in Succ(g, topo[p]) PROVE v \in After(topo, p)
  <2>1. topo[p] \in After(topo, p - 1)
    BY <1>4
  <2>2. v \in After(topo, p - 1)
    BY <1>2, <2>1, AfterClosed
  <2>3. v # topo[p]
    <3>1. ASSUME v = topo[p] PROVE FALSE
      <4>1. PICK a \in 1 .. p - 1 : topo[a] = topo[p]
        BY <1>2, <3>1 DEF Sorted
      <4>2. a \in 1 .. Len(topo) /\ a # p
        BY <1>1, <4>1
      <4> QED
        BY <4>1, <4>2 DEF Sorted, Distinct
    <3> QED
      BY <3>1
  <2> QED
    BY <1>4, <2>2, <2>3
<1> QED
  BY <1>2, <1>3, <1>4, <1>5 DEF AtVertex

\* The walk starts with nothing behind it and ends with all vertices.
LEMMA AfterEnds ==
    ASSUME NEW g, NEW topo, Sorted(g, topo)
    PROVE  After(topo, 0) = Vertex /\ After(topo, Len(topo)) = {}
<1>1. Len(topo) \in Nat /\ topo \in Seq(Vertex)
  BY DEF Sorted
<1>2. After(topo, Len(topo)) = {}
  <2>1. Len(topo) + 1 .. Len(topo) = {}
    BY <1>1
  <2> QED
    BY <2>1 DEF After
<1>3. After(topo, 0) = Vertex
  <2>1. 0 + 1 = 1
    OBVIOUS
  <2> QED
    BY <2>1 DEF After, Sorted, Elems
<1> QED
  BY <1>2, <1>3

\* A path from a vertex behind the walk stays behind it.
LEMMA AfterWithin ==
    ASSUME NEW g, NEW topo, Sorted(g, topo), NEW p \in 0 .. Len(topo), NEW w \in After(topo, p),
           NEW rt, NEW x, Within(g, rt, w, x)
    PROVE  x \in After(topo, p)
<1>1. w \in Vertex
  BY AfterClosed
<1>2. g \in [Vertex -> Seq(Vertex)]
  BY DEF Sorted
<1>3. Reachable(g, w, x)
  BY <1>1, <1>2, WithinReach
<1>4. After(topo, p) \in SUBSET Vertex
  BY AfterClosed
<1> QED
  BY <1>3, <1>4, AfterClosed, ReachInvariant

---------------------------------------------------------------------------
(***************************************************************************)
(* The steps of cal_index.                                                 *)
(***************************************************************************)
\* The successors decode descended into.
Trees(g, rt, new, ex) ==
    \A u \in Vertex : \A v \in Succ(g, u) :
        rt[v] = rt[u] /\ v \notin Elems(ex[u]) => Tree(g, rt, new, u, v)

Children(g, rt, ex, u) == {v \in Succ(g, u) : rt[v] = rt[u] /\ v \notin Elems(ex[u])}

\* m is the largest number of the intervals of the children of u.
FarEnd(g, rt, new, ex, iv, u, m) ==
    /\ m \in new[u] .. maxID + 1
    /\ \A v \in Children(g, rt, ex, u) : iv[new[v]] <= m
    /\ m = new[u] \/ \E v \in Children(g, rt, ex, u) : iv[new[v]] = m

Extended(new, iv, u, m, iv2) ==
    iv2[new[u]] = m /\ \A v \in Vertex : v # u => iv2[new[v]] = iv[new[v]]

IvType(iv) == iv \in [NewID -> 0 .. maxID + 1]

\* Intervals end at numbers.
LEMMA IvNat ==
    ASSUME NEW g, NEW new, Renaming(g, new), NEW iv, IvType(iv), NEW v \in Vertex
    PROVE  new[v] \in NewID /\ new[v] \in Nat /\ iv[new[v]] \in Nat /\ iv[new[v]] <= maxID + 1
<1>1. new[v] \in NewID
  BY DEF Renaming
<1>2. iv[new[v]] \in 0 .. maxID + 1
  BY <1>1 DEF IvType
<1>3. new[v] \in Nat
  BY <1>1, NewIDNat
<1> QED
  BY <1>1, <1>2, <1>3, MaxIDAssumption

\* The intervals of the vertices behind the walk do not change.
LEMMA SpanKept ==
    ASSUME NEW g, NEW new, Renaming(g, new), NEW rt, NEW topo, Sorted(g, topo),
           NEW p \in 1 .. Len(topo), NEW u, AtVertex(g, topo, p, u), NEW ex, NEW iv, NEW iv2, NEW m,
           Extended(new, iv, u, m, iv2), NEW w \in After(topo, p), SpanOf(g, rt, new, ex, iv, w)
    PROVE  SpanOf(g, rt, new, ex, iv2, w)
<1>1. Len(topo) \in Nat /\ p \in 0 .. Len(topo)
  BY DEF Sorted
<1>2. u \notin After(topo, p)
  BY DEF AtVertex
<1>3. w \in Vertex /\ w # u /\ iv2[new[w]] = iv[new[w]]
  BY <1>1, <1>2, AfterClosed DEF Extended
<1>4. ASSUME NEW x \in Vertex, new[w] <= new[x], new[x] <= iv2[new[w]]
      PROVE  Within(g, rt, w, x) /\ iv2[new[x]] <= iv2[new[w]]
  <2>1. Within(g, rt, w, x) /\ iv[new[x]] <= iv[new[w]]
    BY <1>3, <1>4 DEF SpanOf
  <2>2. x # u
    BY <1>1, <1>2, <2>1, AfterWithin
  <2> QED
    BY <1>3, <2>1, <2>2 DEF Extended
<1>5. ASSUME NEW v \in Succ(g, w), rt[v] = rt[w], v \notin Elems(ex[w])
      PROVE  iv2[new[v]] <= iv2[new[w]]
  <2>1. v \in After(topo, p)
    BY <1>1, AfterClosed
  <2>2. v \in Vertex /\ v # u
    BY <1>1, <1>2, <2>1, AfterClosed
  <2>3. iv[new[v]] <= iv[new[w]]
    BY <1>5 DEF SpanOf
  <2> QED
    BY <1>3, <2>2, <2>3 DEF Extended
<1> QED
  BY <1>3, <1>4, <1>5 DEF SpanOf

\* A number between u and the last child: its interval ends no later.
LEMMA SpanNested ==
    ASSUME NEW g, NEW new, Renaming(g, new), NEW rt, NEW ex, NEW iv, IvType(iv),
           NEW u \in Vertex, NEW v \in Vertex, Tree(g, rt, new, u, v),
           SpanOf(g, rt, new, ex, iv, v),
           NEW x \in Vertex, SpanOf(g, rt, new, ex, iv, x), new[u] < new[x], new[x] < new[v]
    PROVE  iv[new[x]] <= iv[new[v]]
<1>1. /\ new[u] \in Nat /\ new[v] \in Nat /\ new[x] \in Nat
      /\ iv[new[v]] \in Nat /\ iv[new[x]] \in Nat
  BY IvNat
<1>2. new[v] <= iv[new[v]]
  BY <1>1 DEF SpanOf
<1>3. SUFFICES ASSUME iv[new[x]] > iv[new[v]] PROVE FALSE
  BY <1>1
<1>4. new[x] <= new[v] /\ new[v] <= iv[new[x]]
  BY <1>1, <1>2, <1>3
<1>5. Within(g, rt, x, v)
  BY <1>4 DEF SpanOf
<1>6. x # v
  BY <1>1
<1>7. g \in [Vertex -> Seq(Vertex)]
  BY DEF Renaming
<1>8. PICK s \in Inner(g, rt, v) : Within(g, rt, x, s[1])
  BY <1>5, <1>6, <1>7, WithinLast
<1>9. new[s[1]] <= new[u]
  BY <1>8 DEF Tree, LastOf
<1>10. s[1] \in Vertex
  BY <1>7, <1>8, InnerPlace
<1>11. new[x] <= new[s[1]]
  BY <1>8, WithinNumber
<1>12. new[s[1]] \in Nat
  BY <1>10, IvNat
<1> QED
  BY <1>1, <1>9, <1>11, <1>12

\* The interval of the vertex at hand, from those of its children.
LEMMA SpanVertex ==
    ASSUME NEW g, NEW new, Renaming(g, new), NEW rt, NEW topo, Sorted(g, topo),
           NEW p \in 1 .. Len(topo), NEW u, AtVertex(g, topo, p, u), NEW ex, NEW iv, IvType(iv),
           NEW iv2, NEW m, Trees(g, rt, new, ex), FarEnd(g, rt, new, ex, iv, u, m),
           Extended(new, iv, u, m, iv2), Spans(g, rt, new, ex, iv, After(topo, p))
    PROVE  SpanOf(g, rt, new, ex, iv2, u)
<1>1. /\ Len(topo) \in Nat /\ p \in 0 .. Len(topo) /\ p - 1 \in 0 .. Len(topo)
      /\ g \in [Vertex -> Seq(Vertex)]
  BY DEF Sorted
<1>2. u \in Vertex /\ u \notin After(topo, p) /\ iv2[new[u]] = m
  BY DEF AtVertex, Extended
<1>3. m \in new[u] .. maxID + 1 /\ new[u] \in Nat /\ m \in Nat
  BY <1>2, IvNat, MaxIDAssumption DEF FarEnd
<1>4. ASSUME NEW v \in Children(g, rt, ex, u)
      PROVE  /\ v \in Vertex /\ v # u /\ Tree(g, rt, new, u, v) /\ Within(g, rt, u, v)
             /\ SpanOf(g, rt, new, ex, iv, v) /\ iv[new[v]] <= m /\ iv2[new[v]] = iv[new[v]]
  <2>1. v \in Succ(g, u) /\ rt[v] = rt[u] /\ v \notin Elems(ex[u])
    BY DEF Children
  <2>2. v \in After(topo, p)
    BY <2>1 DEF AtVertex
  <2>3. v \in Vertex /\ v # u
    BY <1>1, <1>2, <2>2, AfterClosed
  <2>4. Tree(g, rt, new, u, v)
    BY <1>2, <2>1 DEF Trees
  <2>5. Within(g, rt, u, v)
    BY <1>1, <1>2, <2>1, WithinEdge
  <2>6. SpanOf(g, rt, new, ex, iv, v)
    BY <2>2 DEF Spans
  <2>7. iv[new[v]] <= m
    BY DEF FarEnd
  <2> QED
    BY <2>3, <2>4, <2>5, <2>6, <2>7 DEF Extended
<1>5. ASSUME NEW x \in Vertex, new[u] <= new[x], new[x] <= m
      PROVE  Within(g, rt, u, x) /\ iv2[new[x]] <= m
  <2>1. CASE x = u
    BY <1>2, <1>3, <2>1, WithinSelf
  <2>2. CASE x # u
    <3>1. new[x] # new[u] /\ iv2[new[x]] = iv[new[x]]
      BY <1>2, <2>2 DEF Renaming, Extended
    <3>2. new[x] \in Nat /\ iv[new[x]] \in Nat
      BY IvNat
    <3>3. new[u] < new[x]
      BY <1>3, <1>5, <3>1, <3>2
    <3>4. m # new[u]
      BY <1>3, <1>5, <3>2, <3>3
    <3>5. PICK v \in Children(g, rt, ex, u) : iv[new[v]] = m
      BY <3>4 DEF FarEnd
    <3>6. v \in Vertex /\ new[v] \in Nat
      BY <1>4, IvNat
    <3>7. CASE new[v] <= new[x]
      <4>1. Within(g, rt, v, x) /\ iv[new[x]] <= iv[new[v]]
        BY <1>4, <1>5, <3>5, <3>7 DEF SpanOf
      <4>2. Within(g, rt, u, x)
        BY <1>1, <1>2, <1>4, <4>1, WithinTrans
      <4> QED
        BY <3>1, <3>5, <4>1, <4>2
    <3>8. CASE new[x] < new[v]
      <4>1. Within(g, rt, u, x)
        <5>1. new[x] <= new[v]
          BY <3>2, <3>6, <3>8
        <5> QED
          BY <1>4, <1>5, <5>1 DEF Tree
      <4>2. x \in After(topo, p)
        <5>1. u \in After(topo, p - 1)
          BY DEF AtVertex
        <5>2. x \in After(topo, p - 1)
          BY <1>1, <4>1, <5>1, AfterWithin
        <5> QED
          BY <2>2, <5>2 DEF AtVertex
      <4>3. SpanOf(g, rt, new, ex, iv, x)
        BY <4>2 DEF Spans
      <4>4. iv[new[x]] <= iv[new[v]]
        BY <1>2, <1>4, <3>3, <3>6, <3>8, <4>3, SpanNested
      <4> QED
        BY <3>1, <3>5, <4>1, <4>4
    <3> QED
      BY <3>2, <3>6, <3>7, <3>8
  <2> QED
    BY <2>1, <2>2
<1>6. ASSUME NEW v \in Succ(g, u), rt[v] = rt[u], v \notin Elems(ex[u])
      PROVE  iv2[new[v]] <= m
  <2>1. v \in Children(g, rt, ex, u)
    BY <1>6 DEF Children
  <2> QED
    BY <1>4, <2>1
<1> QED
  BY <1>2, <1>3, <1>5, <1>6 DEF SpanOf

\* One vertex more has its interval.
LEMMA SpansNext ==
    ASSUME NEW g, NEW new, Renaming(g, new), NEW rt, NEW topo, Sorted(g, topo),
           NEW p \in 1 .. Len(topo), NEW u, AtVertex(g, topo, p, u), NEW ex, NEW iv, IvType(iv),
           NEW iv2, NEW m, Trees(g, rt, new, ex), FarEnd(g, rt, new, ex, iv, u, m),
           Extended(new, iv, u, m, iv2), Spans(g, rt, new, ex, iv, After(topo, p))
    PROVE  Spans(g, rt, new, ex, iv2, After(topo, p - 1))
<1>1. SUFFICES ASSUME NEW w \in After(topo, p - 1) PROVE SpanOf(g, rt, new, ex, iv2, w)
  BY DEF Spans
<1>2. CASE w \in After(topo, p)
  <2>1. SpanOf(g, rt, new, ex, iv, w)
    BY <1>2 DEF Spans
  <2> QED
    BY <1>2, <2>1, SpanKept
<1>3. CASE w = u
  BY <1>3, SpanVertex
<1> QED
  BY <1>2, <1>3 DEF AtVertex

\* The upward levels.
LEMMA HeightsNext ==
    ASSUME NEW g, NEW topo, Sorted(g, topo), NEW p \in 1 .. Len(topo), NEW u, AtVertex(g, topo, p, u),
           NEW up \in [Vertex -> Nat], NEW h \in Nat, Heights(g, up, After(topo, p), h),
           NEW l \in Nat, l <= h, \A v \in Succ(g, u) : up[v] <= l, NEW up2,
           up2[u] = 1 + l, \A v \in Vertex : v # u => up2[v] = up[v]
    PROVE  Heights(g, up2, After(topo, p - 1), h + 1)
<1>1. Len(topo) \in Nat /\ p \in 0 .. Len(topo)
  BY DEF Sorted
<1>2. u \notin After(topo, p)
  BY DEF AtVertex
<1>3. SUFFICES ASSUME NEW w \in After(topo, p - 1)
               PROVE  up2[w] \in 0 .. h + 1 /\ \A v \in Succ(g, w) : up2[w] > up2[v]
  BY DEF Heights
<1>4. CASE w \in After(topo, p)
  <2>1. w \in Vertex /\ w # u /\ up2[w] = up[w]
    BY <1>1, <1>2, <1>4, AfterClosed
  <2>2. ASSUME NEW v \in Succ(g, w) PROVE up2[v] = up[v]
    <3>1. v \in After(topo, p)
      BY <1>1, <1>4, AfterClosed
    <3> QED
      BY <1>1, <1>2, <3>1, AfterClosed
  <2>3. up[w] \in 0 .. h /\ \A v \in Succ(g, w) : up[w] > up[v]
    BY <1>4 DEF Heights
  <2> QED
    BY <2>1, <2>2, <2>3
<1>5. CASE w = u
  <2>1. ASSUME NEW v \in Succ(g, u) PROVE up2[v] = up[v] /\ up[v] <= l /\ up[v] \in Nat
    <3>1. v \in After(topo, p)
      BY DEF AtVertex
    <3> QED
      BY <1>1, <1>2, <3>1, AfterClosed
  <2>2. ASSUME NEW v \in Succ(g, u) PROVE 1 + l > up2[v]
    BY <2>1
  <2> QED
    BY <1>5, <2>2
<1> QED
  BY <1>3, <1>4, <1>5 DEF AtVertex

AboveSucc(g, up, u, h, l) == l \in Nat /\ l <= h /\ \A v \in Succ(g, u) : up[v] <= l

\* The level of the vertex at hand is above those of its successors.
LEMMA LevelValue ==
    ASSUME NEW g, NEW topo, Sorted(g, topo), NEW p \in 1 .. Len(topo), NEW u, AtVertex(g, topo, p, u),
           NEW up, NEW h \in Nat, Heights(g, up, After(topo, p), h)
    PROVE  AboveSucc(g, up, u, h, Largest({0} \cup {up[v] : v \in Succ(g, u)}))
<1>1. PICK S : S = {0} \cup {up[v] : v \in Succ(g, u)}
  OBVIOUS
<1>2. \A v \in Succ(g, u) : up[v] \in 0 .. h
  BY DEF AtVertex, Heights
<1>3. S \in SUBSET Nat /\ S # {} /\ \A x \in S : x <= h
  BY <1>1, <1>2
<1>4. Largest(S) \in Nat /\ Largest(S) <= h /\ \A y \in S : y <= Largest(S)
  BY <1>3, LargestOf
<1>5. \A v \in Succ(g, u) : up[v] \in S
  BY <1>1
<1>6. AboveSucc(g, up, u, h, Largest(S))
  BY <1>4, <1>5 DEF AboveSucc
<1> QED
  BY <1>1, <1>6

\* The interval given is the largest number of the children's intervals.
LEMMA SpanValue ==
    ASSUME NEW g, NEW new, Renaming(g, new), NEW rt, NEW ex, NEW iv, IvType(iv), NEW u \in Vertex
    PROVE  FarEnd(g, rt, new, ex, iv, u,
                  Largest({new[u]} \cup {iv[new[v]] : v \in Children(g, rt, ex, u)}))
<1>0. g \in [Vertex -> Seq(Vertex)]
  BY DEF Renaming
<1>1. PICK S : S = {new[u]} \cup {iv[new[v]] : v \in Children(g, rt, ex, u)}
  OBVIOUS
<1>2. new[u] \in Nat /\ new[u] <= maxID + 1
  BY IvNat, MaxIDAssumption DEF NewID
<1>3. \A v \in Children(g, rt, ex, u) : v \in Vertex
  BY <1>0, SuccVertex DEF Children
<1>4. \A v \in Children(g, rt, ex, u) : iv[new[v]] \in Nat /\ iv[new[v]] <= maxID + 1
  BY <1>3, IvNat
<1>5. S \in SUBSET Nat /\ S # {} /\ \A x \in S : x <= maxID + 1
  BY <1>1, <1>2, <1>4
<1>6. PICK m : m = Largest(S)
  OBVIOUS
<1>7. m \in S /\ m \in Nat /\ m <= maxID + 1 /\ \A y \in S : y <= m
  BY <1>5, <1>6, LargestOf, MaxIDAssumption
<1>8. m \in new[u] .. maxID + 1
  BY <1>1, <1>2, <1>7, MaxIDAssumption
<1>9. FarEnd(g, rt, new, ex, iv, u, m)
  BY <1>1, <1>7, <1>8 DEF FarEnd
<1> QED
  BY <1>1, <1>6, <1>9

---------------------------------------------------------------------------
IndexInv ==
    /\ pc \in Indexing =>
          /\ i \in 0 .. Len(TopoOrder)
          /\ Spans(graph, root_located, oldID_mapto_newID, excpID_O, interval, After(TopoOrder, i))
          /\ Heights(graph, Lup, After(TopoOrder, i), Len(TopoOrder) - i)
    /\ pc \in Labelling \cup {"ready"} =>
          /\ Spans(graph, root_located, oldID_mapto_newID, excpID_O, interval, Vertex)
          /\ Heights(graph, Lup, Vertex, Len(TopoOrder))

LevelTypes == Lup \in [Vertex -> Nat] /\ IvType(interval)

Indexed == LevelTypes /\ IndexInv

\* What is known from cal_index on.
LEMMA SettledFacts ==
    ASSUME Decoded, pc \in DecodeDone
    PROVE  /\ Sorted(graph, TopoOrder) /\ Renaming(graph, oldID_mapto_newID)
           /\ Trees(graph, root_located, oldID_mapto_newID, excpID_O)
           /\ Laid /\ Coded /\ i \in 0 .. Len(TopoOrder) /\ Len(TopoOrder) \in Nat
           /\ graph \in [Vertex -> Seq(Vertex)]
<1>1. Laid /\ Coded /\ i \in 0 .. Len(TopoOrder)
  BY DEF Decoded, LaidPart, CodedInv, PlacePart, DecodeDone
<1>2. Sorted(graph, TopoOrder)
  BY <1>1, LaidSorted DEF Laid
<1>3. graph \in [Vertex -> Seq(Vertex)] /\ TopoOrder \in Seq(Vertex)
  BY <1>2 DEF Sorted
<1>4. Renaming(graph, oldID_mapto_newID)
  BY <1>1, <1>3 DEF Renaming, Coded, CodedAs
<1>5. Trees(graph, root_located, oldID_mapto_newID, excpID_O)
  BY <1>1 DEF Trees, Coded, CodedAs
<1> QED
  BY <1>1, <1>2, <1>3, <1>4, <1>5

\* Before cal_index nothing is claimed of the intervals.
LEMMA IndexedInit == QueryInit => Indexed
<1> SUFFICES ASSUME QueryInit PROVE Indexed
  OBVIOUS
<1>1. pc = "roots" /\ Lup = Zero /\ interval = Unset
  BY DEF QueryInit, CodeInit, Init
<1>2. LevelTypes
  BY <1>1, MaxIDAssumption DEF LevelTypes, IvType, Unset, Zero
<1>3. IndexInv
  BY <1>1 DEF IndexInv, Indexing, Labelling, LabelPhase
<1> QED
  BY <1>2, <1>3 DEF Indexed

\* The steps before cal_index leave it so.
LEMMA IndexedEarly ==
    ASSUME Indexed, UNCHANGED levelVars, pc' \in LayerPhase \cup Walking
    PROVE  Indexed'
<1>1. LevelTypes'
  BY DEF Indexed, LevelTypes, levelVars
<1>2. IndexInv'
  BY DEF IndexInv, LayerPhase, Walking, CountPhase, DecodePhase, Indexing, Labelling, LabelPhase
<1> QED
  BY <1>1, <1>2 DEF Indexed

\* decode hands over to cal_index.
LEMMA IndexedStart ==
    ASSUME Decoded, Decoded', Indexed, DecodeEnd
    PROVE  Indexed'
<1>1. pc' = "cal_index" /\ i' = Len(TopoOrder) /\ UNCHANGED levelVars /\ UNCHANGED layeringKept
  BY DEF DecodeEnd, codeVars
<1>2. TopoOrder' = TopoOrder
  BY <1>1, Kept
<1>3. LevelTypes'
  BY <1>1 DEF Indexed, LevelTypes, levelVars
<1>4. Sorted(graph, TopoOrder) /\ i' \in 0 .. Len(TopoOrder') /\ Len(TopoOrder) \in Nat
  <2>1. pc \in Walking
    BY DEF DecodeEnd, Walking, DecodePhase
  <2>2. Sorted(graph, TopoOrder)
    BY <2>1, WalkParts, LaidSorted DEF Laid
  <2>3. Len(TopoOrder) \in Nat
    BY <2>2 DEF Sorted
  <2> QED
    BY <1>1, <1>2, <2>2, <2>3
<1>5. After(TopoOrder', i') = {}
  BY <1>1, <1>2, <1>4, AfterEnds
<1>6. /\ Spans(graph', root_located', oldID_mapto_newID', excpID_O', interval', After(TopoOrder', i'))
      /\ Heights(graph', Lup', After(TopoOrder', i'), Len(TopoOrder') - i')
  BY <1>5 DEF Spans, Heights
<1>7. IndexInv'
  BY <1>1, <1>4, <1>6 DEF IndexInv, Indexing, Labelling, LabelPhase
<1> QED
  BY <1>3, <1>7 DEF Indexed

\* IndexVertex gives one vertex its level and its interval.
LEMMA IndexedVertex ==
    ASSUME Decoded, Decoded', Indexed, IndexVertex
    PROVE  Indexed'
<1> DEFINE u == TopoOrder[i]
           l == Largest({0} \cup {Lup[v] : v \in Succ(graph, u)})
           m == Largest({oldID_mapto_newID[u]} \cup
                        {interval[oldID_mapto_newID[v]] :
                            v \in Children(graph, root_located, excpID_O, u)})
<1>1. /\ pc = "cal_index" /\ pc' = "cal_index" /\ i >= 1 /\ i' = i - 1
      /\ UNCHANGED layeringKept /\ UNCHANGED numberVars
  BY DEF IndexVertex
<1>2. /\ graph' = graph /\ TopoOrder' = TopoOrder /\ root_located' = root_located
      /\ oldID_mapto_newID' = oldID_mapto_newID /\ excpID_O' = excpID_O
  BY <1>1, Kept DEF numberVars
<1>3. /\ Sorted(graph, TopoOrder) /\ Renaming(graph, oldID_mapto_newID)
      /\ Trees(graph, root_located, oldID_mapto_newID, excpID_O)
      /\ i \in 1 .. Len(TopoOrder) /\ Len(TopoOrder) \in Nat
  BY <1>1, SettledFacts DEF DecodeDone, Indexing
<1>4. /\ Spans(graph, root_located, oldID_mapto_newID, excpID_O, interval, After(TopoOrder, i))
      /\ Heights(graph, Lup, After(TopoOrder, i), Len(TopoOrder) - i)
      /\ Lup \in [Vertex -> Nat] /\ IvType(interval)
  BY <1>1 DEF Indexed, IndexInv, LevelTypes, Indexing
<1>5. AtVertex(graph, TopoOrder, i, u) /\ u \in Vertex
  BY <1>3, AfterNext DEF AtVertex
<1>6. Descended(u) = Children(graph, root_located, excpID_O, u)
  BY DEF Descended, InRegion, SameRegion, Children
<1>7. /\ Lup' = [Lup EXCEPT ![u] = 1 + l]
      /\ interval' = [interval EXCEPT ![oldID_mapto_newID[u]] = m]
  BY <1>6 DEF IndexVertex
<1>8. Len(TopoOrder) - i \in Nat
  BY <1>3
<1>9. l \in Nat /\ l <= Len(TopoOrder) - i /\ \A v \in Succ(graph, u) : Lup[v] <= l
  <2>1. AboveSucc(graph, Lup, u, Len(TopoOrder) - i, l)
    BY <1>3, <1>4, <1>5, <1>8, LevelValue
  <2> QED
    BY <2>1 DEF AboveSucc
<1>10. FarEnd(graph, root_located, oldID_mapto_newID, excpID_O, interval, u, m)
  BY <1>3, <1>4, <1>5, SpanValue
<1> HIDE DEF l, m, u
<1>11. oldID_mapto_newID[u] \in NewID /\ oldID_mapto_newID[u] \in Nat
       /\ m \in oldID_mapto_newID[u] .. maxID + 1
  BY <1>3, <1>4, <1>5, <1>10, IvNat DEF FarEnd
<1>12. Lup' \in [Vertex -> Nat] /\ IvType(interval')
  <2>1. m \in 0 .. maxID + 1
    BY <1>11, MaxIDAssumption
  <2>2. IvType(interval')
    BY <1>4, <1>7, <1>11, <2>1 DEF IvType
  <2>3. 1 + l \in Nat
    BY <1>9
  <2> QED
    BY <1>4, <1>5, <1>7, <2>2, <2>3
<1>13. Extended(oldID_mapto_newID, interval, u, m, interval')
  <2>1. \A v \in Vertex : v # u => oldID_mapto_newID[v] # oldID_mapto_newID[u]
    BY <1>3, <1>5 DEF Renaming
  <2>2. \A v \in Vertex : oldID_mapto_newID[v] \in NewID
    BY <1>3 DEF Renaming
  <2> QED
    BY <1>4, <1>7, <1>11, <2>1, <2>2 DEF Extended, IvType
<1>14. Spans(graph, root_located, oldID_mapto_newID, excpID_O, interval', After(TopoOrder, i - 1))
  BY <1>3, <1>4, <1>5, <1>10, <1>13, SpansNext
<1>15. Heights(graph, Lup', After(TopoOrder, i - 1), (Len(TopoOrder) - i) + 1)
  <2>1. Lup'[u] = 1 + l /\ \A v \in Vertex : v # u => Lup'[v] = Lup[v]
    BY <1>4, <1>5, <1>7
  <2> QED
    BY <1>3, <1>4, <1>5, <1>8, <1>9, <2>1, HeightsNext
<1>16. (Len(TopoOrder) - i) + 1 = Len(TopoOrder) - (i - 1) /\ i - 1 \in 0 .. Len(TopoOrder)
  BY <1>3
<1>17. IndexInv'
  BY <1>1, <1>2, <1>14, <1>15, <1>16 DEF IndexInv, Indexing, Labelling, LabelPhase
<1> QED
  BY <1>12, <1>17 DEF Indexed, LevelTypes

\* cal_index has come to the first vertex of the order.
LEMMA IndexedEnd ==
    ASSUME Decoded, Indexed, IndexEnd
    PROVE  Indexed'
<1>1. /\ pc = "cal_index" /\ i = 0 /\ pc' = "cal_excp_and_cross_arr" /\ UNCHANGED layeringKept
      /\ UNCHANGED numberVars /\ UNCHANGED levelVars
  BY DEF IndexEnd, codeVars
<1>2. /\ graph' = graph /\ TopoOrder' = TopoOrder /\ root_located' = root_located
      /\ oldID_mapto_newID' = oldID_mapto_newID /\ excpID_O' = excpID_O
      /\ Lup' = Lup /\ interval' = interval
  BY <1>1, Kept DEF numberVars, levelVars
<1>3. Sorted(graph, TopoOrder) /\ Len(TopoOrder) \in Nat
  BY <1>1, SettledFacts DEF DecodeDone, Indexing
<1>4. /\ Spans(graph, root_located, oldID_mapto_newID, excpID_O, interval, After(TopoOrder, 0))
      /\ Heights(graph, Lup, After(TopoOrder, 0), Len(TopoOrder) - 0)
      /\ LevelTypes
  BY <1>1 DEF Indexed, IndexInv, Indexing
<1>5. After(TopoOrder, 0) = Vertex /\ Len(TopoOrder) - 0 = Len(TopoOrder)
  BY <1>3, AfterEnds
<1>6. IndexInv'
  BY <1>1, <1>2, <1>4, <1>5 DEF IndexInv, Indexing, Labelling, LabelPhase
<1> QED
  BY <1>2, <1>4, <1>6 DEF Indexed, LevelTypes

\* The steps that only read the intervals.
LEMMA IndexedKept ==
    ASSUME Indexed, pc \in Labelling \cup {"ready"}, pc' \in Labelling \cup {"ready"},
           UNCHANGED layeringKept, UNCHANGED numberVars, UNCHANGED levelVars
    PROVE  Indexed'
<1>1. /\ graph' = graph /\ TopoOrder' = TopoOrder /\ root_located' = root_located
      /\ oldID_mapto_newID' = oldID_mapto_newID /\ excpID_O' = excpID_O
      /\ Lup' = Lup /\ interval' = interval
  BY Kept DEF numberVars, levelVars
<1>2. IndexInv'
  BY <1>1 DEF Indexed, IndexInv, Indexing, Labelling, LabelPhase
<1> QED
  BY <1>1, <1>2 DEF Indexed, LevelTypes

\* A query changes no interval.
LEMMA IndexedStill ==
    ASSUME Indexed, Still
    PROVE  Indexed'
<1>1. /\ graph' = graph /\ TopoOrder' = TopoOrder /\ root_located' = root_located
      /\ oldID_mapto_newID' = oldID_mapto_newID /\ excpID_O' = excpID_O
      /\ Lup' = Lup /\ interval' = interval /\ pc' = pc /\ i' = i
  BY DEF Still, vars, scanVars, rootVars, codeVars, numberVars, levelVars
<1> QED
  BY <1>1 DEF Indexed, IndexInv, LevelTypes

\* The steps together.
LEMMA IndexedNext == Decoded /\ Decoded' /\ Indexed /\ [QueryNext]_queryVars => Indexed'
<1> SUFFICES ASSUME Decoded, Decoded', Indexed, [QueryNext]_queryVars PROVE Indexed'
  OBVIOUS
<1>1. CASE Next /\ UNCHANGED codeVars
  <2>1. pc \in LayerPhase
    BY <1>1 DEF Next, ReadRoots, PreEdge, PreVertex, PreBatch, PreEnd, LayerStart,
         LayerRoot, CrossStart, CrossEdge, CrossVertex, CrossBatch, CrossEnd,
         LayersEnd, LayerPhase
  <2>2. TypeInv
    BY <2>1 DEF Decoded, LayerPart
  <2>3. TypeInv'
    BY <1>1, <2>2, TypeInvNext
  <2>4. pc' \in LayerPhase
    BY <2>3 DEF TypeInv, TypeOK, LoopTypes, LayerPhase
  <2> QED
    BY <1>1, <2>4, IndexedEarly DEF codeVars
<1>2. CASE \/ CodeStart \/ NextRoot \/ CountVertex \/ CountEdge \/ CountVertexEnd \/ CountEnd
           \/ DecodeVertex \/ DecodeEdge \/ DecodeVertexEnd
  <2>1. UNCHANGED levelVars /\ pc' \in Walking
    BY <1>2 DEF CodeStart, NextRoot, CountVertex, CountEdge, CountVertexEnd, CountEnd, DecodeVertex,
                DecodeEdge, DecodeVertexEnd, codeVars, Walking, CountPhase, DecodePhase
  <2> QED
    BY <2>1, IndexedEarly
<1>3. CASE \/ LabelVertex \/ LabelEdge \/ KnownCandidate \/ OfferCandidate \/ CandidatesEnd
           \/ Incomparable \/ CompareAbove \/ CompareBelow \/ AcceptCandidate
           \/ LabelVertexEnd \/ LabelEnd
  <2>1. /\ pc \in Labelling \cup {"ready"} /\ pc' \in Labelling \cup {"ready"}
        /\ UNCHANGED layeringKept /\ UNCHANGED numberVars /\ UNCHANGED levelVars
    BY <1>3 DEF LabelVertex, LabelEdge, KnownCandidate, OfferCandidate, CandidatesEnd, Incomparable,
                CompareAbove, CompareBelow, AcceptCandidate, LabelVertexEnd, LabelEnd, DropCandidate,
                codeVars, Labelling, LabelPhase
  <2> QED
    BY <2>1, IndexedKept
<1>4. CASE (\E x, y \in Vertex : Query(x, y)) \/ UNCHANGED queryVars
  <2>1. Still
    BY <1>4 DEF Query, queryVars, Still
  <2> QED
    BY <2>1, IndexedStill
<1> QED
  BY <1>1, <1>2, <1>3, <1>4, IndexedStart, IndexedVertex, IndexedEnd DEF QueryNext, CodeNext

---------------------------------------------------------------------------
(***************************************************************************)
(* cal_excp_and_cross_arr: the exceptions and the entry points of a vertex.*)
(***************************************************************************)
\* e names a vertex reached inside the region of u.
Inside(g, rt, new, u, e) == \E x \in Vertex : new[x] = e /\ Within(g, rt, u, x)

Covers(iv, exc, n, m) ==
    (n <= m /\ m <= iv[n]) \/ \E e \in exc[n] : e <= m /\ m <= iv[e]

ExceptionsSound(g, rt, new, iv, exc, u) ==
    \A e \in exc[new[u]] : Inside(g, rt, new, u, e) /\ iv[e] > iv[new[u]]

ExceptionsComplete(g, rt, new, iv, exc, u) ==
    \A x \in Vertex : Within(g, rt, u, x) => Covers(iv, exc, new[u], new[x])

EntriesSound(g, rt, new, cr, u) == \A e \in cr[new[u]] : Entry(g, rt, new, u, e)

\* d and e name two vertices of a region, the second reached from the first.
Way(g, rt, new, d, e) == \E x, y \in Vertex : new[x] = d /\ new[y] = e /\ Within(g, rt, x, y)

\* e is reached, inside its region, from a member of S.
Dominated(g, rt, new, S, e) == \E d \in S : Way(g, rt, new, d, e)

EntriesComplete(g, rt, new, cr, u) ==
    \A e \in NewID : Entry(g, rt, new, u, e) => Dominated(g, rt, new, cr[new[u]], e)

SameTreeAs(iv, exc, a, b) == iv[a] >= iv[b] \/ \E e \in exc[a] : e <= b /\ iv[e] >= iv[b]

Reduced(t, iv, exc, S, F) ==
    \A a, b \in S : a < b /\ t[a] = t[b] /\ SameTreeAs(iv, exc, a, b) => a \in F \/ b \in F

Labelled(g, rt, new, t, iv, exc, cr, S) ==
    \A u \in S : /\ ExceptionsSound(g, rt, new, iv, exc, u)
                 /\ ExceptionsComplete(g, rt, new, iv, exc, u)
                 /\ EntriesSound(g, rt, new, cr, u)
                 /\ EntriesComplete(g, rt, new, cr, u)
                 /\ Reduced(t, iv, exc, cr[new[u]], {})

\* What the edge to v offers.
Offers(rt, new, cr, u, v) == IF rt[v] = rt[u] THEN cr[new[v]] ELSE {new[v]}

\* The label of u while its out-edges before q have been read.
ExceptionsSoFar(g, rt, new, iv, exc, ex, u, q) ==
    /\ ExceptionsSound(g, rt, new, iv, exc, u)
    /\ \A v \in Elems(ex[u]) : new[v] \in exc[new[u]] \/ iv[new[v]] <= iv[new[u]]
    /\ \A a \in 1 .. Len(g[u]) : a < q /\ rt[g[u][a]] = rt[u] =>
          \A e \in exc[new[g[u][a]]] : e \in exc[new[u]] \/ iv[e] <= iv[new[u]]

OffersSoFar(g, rt, new, cr, u, q, S) ==
    \A a \in 1 .. Len(g[u]) : a < q => Offers(rt, new, cr, u, g[u][a]) \subseteq S

\* The stamped ids are below an accepted one, or below the candidate.
Stamped(g, rt, new, S, F) == \A r \in F : \E d \in S : d < r /\ Way(g, rt, new, d, r)

\* The candidate c and the accepted ids before position p.
ComparedTo(t, iv, exc, pro, p, c, F) ==
    \A a \in 1 .. Len(pro) : a < p /\ t[pro[a]] = t[c] =>
        /\ pro[a] > c => pro[a] \in F \/ ~SameTreeAs(iv, exc, c, pro[a])
        /\ pro[a] < c => pro[a] \in F \/ ~SameTreeAs(iv, exc, pro[a], c)

\* u at its edge q, with the exceptions of the edges before qe; S may account
\* for the stamps.
EdgeState(g, rt, new, t, iv, exc, ex, cr, u, qe, q, pro, F, S) ==
    /\ ExceptionsSoFar(g, rt, new, iv, exc, ex, u, qe)
    /\ OffersSoFar(g, rt, new, cr, u, q, Elems(pro) \cup F)
    /\ \A e \in Elems(pro) : Entry(g, rt, new, u, e)
    /\ Stamped(g, rt, new, S, F)
    /\ Reduced(t, iv, exc, Elems(pro), F)

\* The candidates left of what the edge q offers; the accepted ids from m + 1
\* on are its.
OfferState(g, rt, new, cr, u, q, pro, F, cand, m) ==
    /\ q \in 1 .. Len(g[u]) /\ m \in 0 .. Len(pro)
    /\ cand \subseteq Offers(rt, new, cr, u, g[u][q])
    /\ \A e \in Offers(rt, new, cr, u, g[u][q]) : e \in Elems(pro) \cup F \cup cand
    /\ \A a \in 1 .. Len(pro) : a > m => pro[a] \in Offers(rt, new, cr, u, g[u][q])

\* The candidate c before it meets the accepted id at p.
CompareState(t, iv, exc, pro, F, cand, m, p, c) ==
    /\ c \in cand /\ c \notin Elems(pro) /\ p \in 1 .. m + 1
    /\ ComparedTo(t, iv, exc, pro, p, c, F)

EdgeLabel(qe, S) ==
    EdgeState(graph, root_located, oldID_mapto_newID, rlt, interval, excpID, excpID_O, id_cross_arr,
              curID, qe, j, id_cross_arr_pro, reach_flag, S)

OfferLabel ==
    OfferState(graph, root_located, oldID_mapto_newID, id_cross_arr, curID, j, id_cross_arr_pro,
               reach_flag, candidates, len)

CompareLabel ==
    CompareState(rlt, interval, excpID, id_cross_arr_pro, reach_flag, candidates, len, pos, Candidate)

---------------------------------------------------------------------------
(***************************************************************************)
(* cal_excp_and_cross_arr: what it reads of the intervals.                 *)
(***************************************************************************)
Setting(g, topo, rt, new, ex, t, iv) ==
    /\ Renaming(g, new) /\ Sorted(g, topo) /\ IvType(iv)
    /\ Spans(g, rt, new, ex, iv, Vertex)
    /\ \A v \in Vertex : t[new[v]] = rt[v]
    /\ \A u \in Vertex : \A v \in Elems(ex[u]) : v \in Succ(g, u) /\ rt[v] = rt[u]

\* A list of new ids for every new id.
IDLists(f) == f \in [NewID -> SUBSET NewID]

\* What the walk that makes the labels finds, by name.
LEMMA SettingTypes ==
    ASSUME NEW g, NEW topo, NEW rt, NEW new, NEW ex, NEW t, NEW iv,
           Setting(g, topo, rt, new, ex, t, iv)
    PROVE  /\ Renaming(g, new) /\ Sorted(g, topo) /\ IvType(iv)
           /\ g \in [Vertex -> Seq(Vertex)] /\ Len(topo) \in Nat
<1>1. Renaming(g, new) /\ Sorted(g, topo) /\ IvType(iv)
  BY DEF Setting
<1> QED
  BY <1>1 DEF Sorted

\* Every new id names a vertex.
LEMMA Named ==
    ASSUME NEW g, NEW new, Renaming(g, new), NEW e \in NewID
    PROVE  \E v \in Vertex : new[v] = e
BY DEF Renaming

\* The interval of u holds what is below u, and intervals are nested.
LEMMA SpanIs ==
    ASSUME NEW g, NEW topo, NEW rt, NEW new, NEW ex, NEW t, NEW iv,
           Setting(g, topo, rt, new, ex, t, iv), NEW u \in Vertex
    PROVE  /\ new[u] \in NewID /\ new[u] \in Nat /\ iv[new[u]] \in Nat
           /\ new[u] <= iv[new[u]] /\ iv[new[u]] <= maxID + 1
           /\ \A x \in Vertex : new[u] <= new[x] /\ new[x] <= iv[new[u]] =>
                 Within(g, rt, u, x) /\ iv[new[x]] <= iv[new[u]]
           /\ \A v \in Succ(g, u) : rt[v] = rt[u] /\ v \notin Elems(ex[u]) => iv[new[v]] <= iv[new[u]]
<1>1. new[u] \in NewID /\ new[u] \in Nat /\ iv[new[u]] \in Nat
  BY SettingTypes, IvNat
<1>2. SpanOf(g, rt, new, ex, iv, u)
  BY DEF Setting, Spans
<1>3. iv[new[u]] \in new[u] .. maxID + 1
  BY <1>2 DEF SpanOf
<1>4. new[u] <= iv[new[u]] /\ iv[new[u]] <= maxID + 1
  BY <1>1, <1>3, MaxIDAssumption
<1> QED
  BY <1>1, <1>2, <1>4 DEF SpanOf

---------------------------------------------------------------------------
\* A way between two names is a way between their vertices ...
LEMMA WayIs ==
    ASSUME NEW g, NEW rt, NEW new, Renaming(g, new), NEW u \in Vertex, NEW v \in Vertex,
           Way(g, rt, new, new[u], new[v])
    PROVE  Within(g, rt, u, v)
BY DEF Way, Renaming

\* ... and back.
LEMMA WayWithin ==
    ASSUME NEW g, NEW rt, NEW new, NEW u \in Vertex, NEW v \in Vertex, Within(g, rt, u, v)
    PROVE  Way(g, rt, new, new[u], new[v])
BY DEF Way

\* Ways lead to larger names; they are reflexive and transitive.
LEMMA WayNumbers ==
    ASSUME NEW g, NEW rt, NEW new, Renaming(g, new), NEW d, NEW e, Way(g, rt, new, d, e)
    PROVE  d \in NewID /\ e \in NewID /\ d <= e
<1>1. PICK x, y \in Vertex : new[x] = d /\ new[y] = e /\ Within(g, rt, x, y)
  BY DEF Way
<1> QED
  BY <1>1, WithinNumber

LEMMA WaySelf ==
    ASSUME NEW g, NEW rt, NEW new, Renaming(g, new), NEW e \in NewID
    PROVE  Way(g, rt, new, e, e)
<1>1. PICK v \in Vertex : new[v] = e
  BY Named
<1> QED
  BY <1>1, WithinSelf DEF Way

LEMMA WayTrans ==
    ASSUME NEW g, NEW rt, NEW new, Renaming(g, new), NEW d, NEW e, NEW f,
           Way(g, rt, new, d, e), Way(g, rt, new, e, f)
    PROVE  Way(g, rt, new, d, f)
<1>1. PICK x, y \in Vertex : new[x] = d /\ new[y] = e /\ Within(g, rt, x, y)
  BY DEF Way
<1>2. PICK z, w \in Vertex : new[z] = e /\ new[w] = f /\ Within(g, rt, z, w)
  BY DEF Way
<1>3. y = z /\ g \in [Vertex -> Seq(Vertex)]
  BY <1>1, <1>2 DEF Renaming
<1>4. Within(g, rt, x, w)
  BY <1>1, <1>2, <1>3, WithinTrans
<1> QED
  BY <1>1, <1>2, <1>4 DEF Way

---------------------------------------------------------------------------
\* The search in the exceptions of u finds nothing but what is below u.
LEMMA SameTreeSound ==
    ASSUME NEW g, NEW topo, NEW rt, NEW new, NEW ex, NEW t, NEW iv,
           Setting(g, topo, rt, new, ex, t, iv), NEW exc, NEW u \in Vertex,
           ExceptionsSound(g, rt, new, iv, exc, u), NEW x \in Vertex, new[u] <= new[x],
           SameTreeAs(iv, exc, new[u], new[x])
    PROVE  Within(g, rt, u, x)
<1>1. /\ new[u] \in Nat /\ new[x] \in Nat /\ iv[new[u]] \in Nat /\ iv[new[x]] \in Nat
      /\ new[x] <= iv[new[x]]
  BY SpanIs
<1>2. CASE iv[new[u]] >= iv[new[x]]
  <2>1. new[x] <= iv[new[u]]
    BY <1>1, <1>2
  <2> QED
    BY <2>1, SpanIs
<1>3. CASE ~(iv[new[u]] >= iv[new[x]])
  <2>1. PICK e \in exc[new[u]] : e <= new[x] /\ iv[e] >= iv[new[x]]
    BY <1>3 DEF SameTreeAs
  <2>2. PICK z \in Vertex : new[z] = e /\ Within(g, rt, u, z)
    BY DEF ExceptionsSound, Inside
  <2>3. iv[new[z]] \in Nat
    BY SpanIs
  <2>4. new[z] <= new[x] /\ new[x] <= iv[new[z]]
    BY <1>1, <2>1, <2>2, <2>3
  <2>5. Within(g, rt, z, x)
    BY <2>4, SpanIs
  <2> QED
    BY <2>2, <2>5, WithinTrans, SettingTypes
<1> QED
  BY <1>2, <1>3

\* And it finds all of it.
LEMMA SameTreeComplete ==
    ASSUME NEW g, NEW topo, NEW rt, NEW new, NEW ex, NEW t, NEW iv,
           Setting(g, topo, rt, new, ex, t, iv), NEW exc, IDLists(exc), NEW u \in Vertex,
           ExceptionsComplete(g, rt, new, iv, exc, u), NEW x \in Vertex, Within(g, rt, u, x)
    PROVE  SameTreeAs(iv, exc, new[u], new[x])
<1>1. /\ new[u] \in NewID /\ new[u] \in Nat /\ new[x] \in Nat
      /\ iv[new[u]] \in Nat /\ iv[new[x]] \in Nat
  BY SpanIs
<1>2. Covers(iv, exc, new[u], new[x])
  BY DEF ExceptionsComplete
<1>3. CASE new[u] <= new[x] /\ new[x] <= iv[new[u]]
  <2>1. iv[new[x]] <= iv[new[u]]
    BY <1>3, SpanIs
  <2>2. iv[new[u]] >= iv[new[x]]
    BY <1>1, <2>1
  <2> QED
    BY <2>2 DEF SameTreeAs
<1>4. CASE ~(new[u] <= new[x] /\ new[x] <= iv[new[u]])
  <2>1. PICK e \in exc[new[u]] : e <= new[x] /\ new[x] <= iv[e]
    BY <1>2, <1>4 DEF Covers
  <2>2. e \in NewID
    BY <1>1 DEF IDLists
  <2>3. PICK z \in Vertex : new[z] = e
    BY <2>2, SettingTypes, Named
  <2>4. iv[new[x]] <= iv[new[z]]
    BY <2>1, <2>3, SpanIs
  <2>5. iv[new[z]] \in Nat
    BY SpanIs
  <2>6. iv[e] >= iv[new[x]]
    BY <1>1, <2>3, <2>4, <2>5
  <2> QED
    BY <2>1, <2>6 DEF SameTreeAs
<1> QED
  BY <1>3, <1>4

---------------------------------------------------------------------------
\* An entry point of u is a later vertex of another region.
LEMMA EntryVertex ==
    ASSUME NEW g, NEW rt, NEW new, Renaming(g, new), NEW u \in Vertex, NEW e, Entry(g, rt, new, u, e)
    PROVE  /\ e \in NewID /\ new[u] < e
           /\ \E y \in Vertex : new[y] = e /\ Reachable(g, u, y) /\ rt[y] # rt[u]
<1>1. PICK x, y \in Vertex : /\ Within(g, rt, u, x) /\ y \in Succ(g, x) /\ rt[y] # rt[u]
                             /\ new[y] = e
  BY DEF Entry
<1>2. g \in [Vertex -> Seq(Vertex)] /\ new[x] < new[y]
  BY <1>1 DEF Renaming
<1>3. new[u] <= new[x] /\ new[u] \in NewID /\ new[x] \in NewID
  BY <1>1, WithinNumber
<1>4. new[y] \in NewID
  BY DEF Renaming
<1>5. new[u] < new[y]
  <2>1. new[u] \in Nat /\ new[x] \in Nat /\ new[y] \in Nat
    BY <1>3, <1>4, NewIDNat
  <2> QED
    BY <1>2, <1>3, <2>1
<1>6. Reachable(g, u, x)
  BY <1>1, <1>2, WithinReach
<1>7. Reachable(g, u, y)
  BY <1>1, <1>2, <1>6, ReachStep
<1> QED
  BY <1>1, <1>4, <1>5, <1>7

\* The entry points of a vertex behind the walk are behind it.
LEMMA EntryAfter ==
    ASSUME NEW g, NEW topo, Sorted(g, topo), NEW p \in 0 .. Len(topo), NEW rt, NEW new,
           NEW w \in After(topo, p), NEW e, Entry(g, rt, new, w, e)
    PROVE  \E y \in After(topo, p) : new[y] = e
<1>1. PICK x, y \in Vertex : Within(g, rt, w, x) /\ y \in Succ(g, x) /\ new[y] = e
  BY DEF Entry
<1>2. x \in After(topo, p)
  BY <1>1, AfterWithin
<1>3. y \in After(topo, p)
  BY <1>1, <1>2, AfterClosed
<1> QED
  BY <1>1, <1>3

\* The entry points of a successor in the region of u are entry points of u.
LEMMA EntryFirst ==
    ASSUME NEW g \in [Vertex -> Seq(Vertex)], NEW rt, NEW new, NEW u \in Vertex, NEW v \in Succ(g, u),
           rt[v] = rt[u], NEW e, Entry(g, rt, new, v, e)
    PROVE  Entry(g, rt, new, u, e)
<1>1. PICK x, y \in Vertex : /\ Within(g, rt, v, x) /\ y \in Succ(g, x) /\ rt[y] # rt[v]
                             /\ new[y] = e
  BY DEF Entry
<1>2. Within(g, rt, u, v)
  BY WithinEdge
<1>3. Within(g, rt, u, x)
  BY <1>1, <1>2, WithinTrans
<1> QED
  BY <1>1, <1>3 DEF Entry

\* An entry point of u is a successor of u or an entry point of one.
LEMMA EntryVia ==
    ASSUME NEW g \in [Vertex -> Seq(Vertex)], NEW rt, NEW new, NEW u \in Vertex, NEW e,
           Entry(g, rt, new, u, e)
    PROVE  \E v \in Succ(g, u) : \/ rt[v] # rt[u] /\ new[v] = e
                                 \/ rt[v] = rt[u] /\ Entry(g, rt, new, v, e)
<1>1. PICK x, y \in Vertex : /\ Within(g, rt, u, x) /\ y \in Succ(g, x) /\ rt[y] # rt[u]
                             /\ new[y] = e
  BY DEF Entry
<1>2. CASE x = u
  BY <1>1, <1>2
<1>3. CASE x # u
  <2>1. PICK w \in Succ(g, u) : rt[w] = rt[u] /\ Within(g, rt, w, x)
    BY <1>1, <1>3, WithinFirst
  <2>2. Entry(g, rt, new, w, e)
    BY <1>1, <2>1 DEF Entry
  <2> QED
    BY <2>1, <2>2
<1> QED
  BY <1>2, <1>3

---------------------------------------------------------------------------
(***************************************************************************)
(* The labels of the vertices behind the one at hand do not change.        *)
(***************************************************************************)
\* f2 differs from f at the new id of u at most.
OnlyAt(new, u, f, f2) == \A v \in Vertex : v # u => f2[new[v]] = f[new[v]]

LEMMA SameTreeKept ==
    ASSUME NEW iv, NEW exc, NEW exc2, NEW a, NEW b, exc2[a] = exc[a],
           SameTreeAs(iv, exc2, a, b)
    PROVE  SameTreeAs(iv, exc, a, b)
BY DEF SameTreeAs

LabelledOne(g, rt, new, t, iv, exc, cr, u) ==
    /\ ExceptionsSound(g, rt, new, iv, exc, u)
    /\ ExceptionsComplete(g, rt, new, iv, exc, u)
    /\ EntriesSound(g, rt, new, cr, u)
    /\ EntriesComplete(g, rt, new, cr, u)
    /\ Reduced(t, iv, exc, cr[new[u]], {})

\* The labels vertex by vertex.
LEMMA LabelledEach ==
    ASSUME NEW g, NEW rt, NEW new, NEW t, NEW iv, NEW exc, NEW cr, NEW S
    PROVE  Labelled(g, rt, new, t, iv, exc, cr, S)
               <=> \A u \in S : LabelledOne(g, rt, new, t, iv, exc, cr, u)
BY DEF Labelled, LabelledOne

\* The label of a vertex behind the walk depends on nothing else.
LEMMA LabelKept ==
    ASSUME NEW g, NEW topo, Sorted(g, topo), NEW rt, NEW new, NEW t, NEW iv, NEW exc, NEW cr, NEW exc2, NEW cr2,
           NEW p \in 1 .. Len(topo), NEW u, AtVertex(g, topo, p, u),
           OnlyAt(new, u, exc, exc2), OnlyAt(new, u, cr, cr2), NEW w \in After(topo, p),
           LabelledOne(g, rt, new, t, iv, exc, cr, w)
    PROVE  LabelledOne(g, rt, new, t, iv, exc2, cr2, w)
<1>1. p \in 0 .. Len(topo)
  BY DEF Sorted
<1>2. u \notin After(topo, p)
  BY DEF AtVertex
<1>3. w \in Vertex /\ w # u
  BY <1>1, <1>2, AfterClosed
<1>4. exc2[new[w]] = exc[new[w]] /\ cr2[new[w]] = cr[new[w]]
  BY <1>3 DEF OnlyAt
<1>5. ExceptionsSound(g, rt, new, iv, exc2, w)
  BY <1>4 DEF ExceptionsSound, LabelledOne
<1>6. ExceptionsComplete(g, rt, new, iv, exc2, w)
  BY <1>4 DEF ExceptionsComplete, Covers, LabelledOne
<1>7. EntriesSound(g, rt, new, cr, w) /\ EntriesSound(g, rt, new, cr2, w)
  BY <1>4 DEF EntriesSound, LabelledOne
<1>8. EntriesComplete(g, rt, new, cr2, w)
  BY <1>4 DEF EntriesComplete, LabelledOne
<1>9. ASSUME NEW a \in cr[new[w]], NEW b \in cr[new[w]], a < b, t[a] = t[b],
             SameTreeAs(iv, exc2, a, b)
      PROVE  FALSE
  <2>1. Entry(g, rt, new, w, a)
    BY <1>7 DEF EntriesSound
  <2>2. PICK y \in After(topo, p) : new[y] = a
    BY <1>1, <2>1, EntryAfter
  <2>3. y \in Vertex /\ y # u
    BY <1>1, <1>2, <2>2, AfterClosed
  <2>4. exc2[a] = exc[a]
    BY <2>2, <2>3 DEF OnlyAt
  <2>5. SameTreeAs(iv, exc, a, b)
    BY <1>9, <2>4, SameTreeKept
  <2>6. Reduced(t, iv, exc, cr[new[w]], {})
    BY DEF LabelledOne
  <2> QED
    BY <1>9, <2>5, <2>6 DEF Reduced
<1>10. Reduced(t, iv, exc2, cr2[new[w]], {})
  BY <1>4, <1>9 DEF Reduced
<1> QED
  BY <1>5, <1>6, <1>7, <1>8, <1>10 DEF LabelledOne

LEMMA LabelsKept ==
    ASSUME NEW g, NEW topo, Sorted(g, topo), NEW rt, NEW new, NEW t, NEW iv, NEW exc, NEW cr, NEW exc2, NEW cr2,
           NEW p \in 1 .. Len(topo), NEW u, AtVertex(g, topo, p, u),
           OnlyAt(new, u, exc, exc2), OnlyAt(new, u, cr, cr2),
           Labelled(g, rt, new, t, iv, exc, cr, After(topo, p))
    PROVE  Labelled(g, rt, new, t, iv, exc2, cr2, After(topo, p))
<1>1. SUFFICES ASSUME NEW w \in After(topo, p)
               PROVE  LabelledOne(g, rt, new, t, iv, exc2, cr2, w)
  BY LabelledEach
<1>2. LabelledOne(g, rt, new, t, iv, exc, cr, w)
  BY LabelledEach
<1> QED
  BY <1>2, LabelKept

---------------------------------------------------------------------------
(***************************************************************************)
(* The exceptions of the vertex at hand.                                   *)
(***************************************************************************)
\* What LabelVertex takes over from decode.
FirstExceptions(new, iv, ex, u, exc) ==
    exc[new[u]] = {e \in {new[v] : v \in Elems(ex[u])} : iv[new[u]] < iv[e]}

\* The successors decode did not descend into are the first exceptions.
LEMMA ExceptionsFirst ==
    ASSUME NEW g, NEW topo, NEW rt, NEW new, NEW ex, NEW t, NEW iv,
           Setting(g, topo, rt, new, ex, t, iv), NEW u \in Vertex, NEW exc,
           FirstExceptions(new, iv, ex, u, exc)
    PROVE  ExceptionsSoFar(g, rt, new, iv, exc, ex, u, 1)
<1>1. g \in [Vertex -> Seq(Vertex)] /\ iv[new[u]] \in Nat
  BY SettingTypes, SpanIs
<1>2. ASSUME NEW v \in Elems(ex[u])
      PROVE  v \in Vertex /\ Within(g, rt, u, v) /\ iv[new[v]] \in Nat
  <2>1. v \in Succ(g, u) /\ rt[v] = rt[u]
    BY DEF Setting
  <2>2. v \in Vertex
    BY <1>1, <2>1, SuccVertex
  <2> QED
    BY <1>1, <2>1, <2>2, WithinEdge, SpanIs
<1>3. ASSUME NEW e \in exc[new[u]] PROVE Inside(g, rt, new, u, e) /\ iv[e] > iv[new[u]]
  <2>1. PICK v \in Elems(ex[u]) : e = new[v] /\ iv[new[u]] < iv[new[v]]
    BY DEF FirstExceptions
  <2> QED
    BY <1>1, <1>2, <2>1 DEF Inside
<1>4. \A v \in Elems(ex[u]) : new[v] \in exc[new[u]] \/ iv[new[v]] <= iv[new[u]]
  BY <1>1, <1>2 DEF FirstExceptions
<1>5. Len(g[u]) \in Nat
  BY <1>1
<1>6. \A a \in 1 .. Len(g[u]) : ~(a < 1)
  BY <1>5
<1> QED
  BY <1>3, <1>4, <1>6 DEF ExceptionsSoFar, ExceptionsSound

\* An edge inside the region hands on the exceptions of its target.
HandedOn(new, iv, u, v, exc, exc2) ==
    exc2[new[u]] = exc[new[u]] \cup {e \in exc[new[v]] : iv[new[u]] < iv[e]}

\* LabelEdge hands on what its target reaches outside the interval of u.
LEMMA ExceptionsEdge ==
    ASSUME NEW g, NEW topo, NEW rt, NEW new, NEW ex, NEW t, NEW iv,
           Setting(g, topo, rt, new, ex, t, iv), NEW p \in 1 .. Len(topo), NEW u,
           AtVertex(g, topo, p, u), NEW exc, IDLists(exc), NEW exc2, OnlyAt(new, u, exc, exc2),
           NEW cr, Labelled(g, rt, new, t, iv, exc, cr, After(topo, p)),
           NEW q \in Nat \ {0}, q <= Len(g[u]), rt[g[u][q]] = rt[u],
           ExceptionsSoFar(g, rt, new, iv, exc, ex, u, q), HandedOn(new, iv, u, g[u][q], exc, exc2)
    PROVE  ExceptionsSoFar(g, rt, new, iv, exc2, ex, u, q + 1)
<1>0. g \in [Vertex -> Seq(Vertex)] /\ u \in Vertex /\ p \in 0 .. Len(topo)
      /\ u \notin After(topo, p) /\ Sorted(g, topo) /\ Renaming(g, new)
  BY SettingTypes DEF AtVertex
<1>1. \A a \in 1 .. Len(g[u]) : g[u][a] \in Succ(g, u)
  BY DEF Succ, Elems
<1>2. \A a \in 1 .. Len(g[u]) : g[u][a] \in After(topo, p) /\ g[u][a] \in Vertex /\ g[u][a] # u
  <2>1. SUFFICES ASSUME NEW a \in 1 .. Len(g[u])
                 PROVE  g[u][a] \in After(topo, p) /\ g[u][a] \in Vertex /\ g[u][a] # u
    OBVIOUS
  <2>2. g[u][a] \in After(topo, p)
    BY <1>1 DEF AtVertex
  <2> QED
    BY <1>0, <2>2, AfterClosed
<1>3. PICK v : v = g[u][q]
  OBVIOUS
<1>4. q \in 1 .. Len(g[u])
  BY <1>0
<1>5. v \in Succ(g, u) /\ v \in After(topo, p) /\ v \in Vertex /\ v # u
  BY <1>1, <1>2, <1>3, <1>4
<1>6. ExceptionsSound(g, rt, new, iv, exc, v)
  BY <1>5 DEF Labelled
<1>7. new[u] \in NewID /\ new[v] \in NewID /\ iv[new[u]] \in Nat
  BY <1>0, <1>5, SpanIs
<1>8. \A e \in exc[new[u]] \cup exc[new[v]] : e \in NewID /\ iv[e] \in Nat
  <2>1. \A e \in NewID : iv[e] \in Nat
    BY SettingTypes, MaxIDAssumption DEF IvType
  <2>2. exc[new[u]] \in SUBSET NewID /\ exc[new[v]] \in SUBSET NewID
    BY <1>7 DEF IDLists
  <2> QED
    BY <2>1, <2>2
<1>9. ASSUME NEW e \in exc2[new[u]] PROVE Inside(g, rt, new, u, e) /\ iv[e] > iv[new[u]]
  <2>1. CASE e \in exc[new[u]]
    BY <2>1 DEF ExceptionsSoFar, ExceptionsSound
  <2>2. CASE e \in exc[new[v]] /\ iv[new[u]] < iv[e]
    <3>1. PICK x \in Vertex : new[x] = e /\ Within(g, rt, v, x)
      BY <1>6, <2>2 DEF ExceptionsSound, Inside
    <3>2. Within(g, rt, u, v)
      BY <1>0, <1>3, <1>5, WithinEdge
    <3>3. Within(g, rt, u, x)
      BY <1>0, <3>1, <3>2, WithinTrans
    <3> QED
      BY <1>7, <1>8, <2>2, <3>1, <3>3 DEF Inside
  <2> QED
    BY <1>3, <2>1, <2>2 DEF HandedOn
<1>10. \A w \in Elems(ex[u]) : new[w] \in exc2[new[u]] \/ iv[new[w]] <= iv[new[u]]
  BY DEF ExceptionsSoFar, HandedOn
<1>11. ASSUME NEW a \in 1 .. Len(g[u]), a < q + 1, rt[g[u][a]] = rt[u], NEW e \in exc2[new[g[u][a]]]
       PROVE  e \in exc2[new[u]] \/ iv[e] <= iv[new[u]]
  <2>1. e \in exc[new[g[u][a]]]
    BY <1>2, <1>11 DEF OnlyAt
  <2>2. CASE a = q
    BY <1>3, <1>7, <1>8, <2>1, <2>2 DEF HandedOn
  <2>3. CASE a < q
    <3>1. e \in exc[new[u]] \/ iv[e] <= iv[new[u]]
      BY <1>11, <2>1, <2>3 DEF ExceptionsSoFar
    <3> QED
      BY <3>1 DEF HandedOn
  <2> QED
    BY <1>11, <2>2, <2>3
<1> QED
  BY <1>9, <1>10, <1>11 DEF ExceptionsSoFar, ExceptionsSound

\* An edge out of the region has none.
LEMMA ExceptionsOther ==
    ASSUME NEW g, NEW rt, NEW new, NEW ex, NEW iv, NEW u, NEW exc, NEW q \in Nat,
           rt[g[u][q]] # rt[u], ExceptionsSoFar(g, rt, new, iv, exc, ex, u, q)
    PROVE  ExceptionsSoFar(g, rt, new, iv, exc, ex, u, q + 1)
<1>1. ASSUME NEW a \in 1 .. Len(g[u]), a < q + 1, rt[g[u][a]] = rt[u]
      PROVE  a < q
  BY <1>1
<1> QED
  BY <1>1 DEF ExceptionsSoFar

\* Once all edges are read the exceptions and the interval cover everything
\* below u in its region.
LEMMA ExceptionsEnd ==
    ASSUME NEW g, NEW topo, NEW rt, NEW new, NEW ex, NEW t, NEW iv,
           Setting(g, topo, rt, new, ex, t, iv), NEW p \in 1 .. Len(topo), NEW u,
           AtVertex(g, topo, p, u), NEW exc, IDLists(exc),
           NEW cr, Labelled(g, rt, new, t, iv, exc, cr, After(topo, p)),
           NEW q \in Nat, q > Len(g[u]), ExceptionsSoFar(g, rt, new, iv, exc, ex, u, q)
    PROVE  ExceptionsSound(g, rt, new, iv, exc, u) /\ ExceptionsComplete(g, rt, new, iv, exc, u)
<1>0. g \in [Vertex -> Seq(Vertex)] /\ u \in Vertex /\ Renaming(g, new)
  BY SettingTypes DEF AtVertex
<1>1. ASSUME NEW x \in Vertex, Within(g, rt, u, x) PROVE Covers(iv, exc, new[u], new[x])
  <2>1. new[u] <= new[x] /\ new[u] \in Nat /\ new[x] \in Nat /\ iv[new[u]] \in Nat
        /\ new[u] <= iv[new[u]] /\ new[u] \in NewID
    BY <1>0, <1>1, WithinNumber, SpanIs
  <2>2. CASE x = u
    BY <2>1, <2>2 DEF Covers
  <2>3. CASE x # u
    <3>1. PICK v \in Succ(g, u) : rt[v] = rt[u] /\ Within(g, rt, v, x)
      BY <1>0, <1>1, <2>3, WithinFirst
    <3>2. v \in Vertex /\ v \in After(topo, p)
      BY <1>0, <3>1, SuccVertex DEF AtVertex
    <3>3. Covers(iv, exc, new[v], new[x])
      BY <1>1, <3>1, <3>2 DEF Labelled, ExceptionsComplete
    <3>4. new[v] \in NewID /\ iv[new[v]] \in Nat
      BY <3>2, SpanIs
    <3>5. CASE new[v] <= new[x] /\ new[x] <= iv[new[v]]
      <4>1. CASE iv[new[v]] <= iv[new[u]]
        <5>1. new[x] <= iv[new[u]]
          BY <2>1, <3>4, <3>5, <4>1
        <5> QED
          BY <2>1, <5>1 DEF Covers
      <4>2. CASE ~(iv[new[v]] <= iv[new[u]])
        <5>1. v \in Elems(ex[u])
          BY <1>0, <3>1, <4>2, SpanIs
        <5>2. new[v] \in exc[new[u]]
          BY <4>2, <5>1 DEF ExceptionsSoFar
        <5> QED
          BY <3>5, <5>2 DEF Covers
      <4> QED
        BY <4>1, <4>2
    <3>6. CASE ~(new[v] <= new[x] /\ new[x] <= iv[new[v]])
      <4>1. PICK e \in exc[new[v]] : e <= new[x] /\ new[x] <= iv[e]
        BY <3>3, <3>6 DEF Covers
      <4>2. PICK a \in 1 .. Len(g[u]) : v = g[u][a]
        BY <3>1 DEF Succ, Elems
      <4>3. a < q
        BY <1>0, <4>2
      <4>4. e \in exc[new[u]] \/ iv[e] <= iv[new[u]]
        BY <3>1, <4>1, <4>2, <4>3 DEF ExceptionsSoFar
      <4>5. CASE e \in exc[new[u]]
        BY <4>1, <4>5 DEF Covers
      <4>6. CASE iv[e] <= iv[new[u]]
        <5>1. e \in NewID
          BY <3>4, <4>1 DEF IDLists
        <5>2. iv[e] \in Nat
          BY <5>1, SettingTypes, MaxIDAssumption DEF IvType
        <5>3. new[x] <= iv[new[u]]
          BY <2>1, <4>1, <4>6, <5>2
        <5> QED
          BY <2>1, <5>3 DEF Covers
      <4> QED
        BY <4>4, <4>5, <4>6
    <3> QED
      BY <3>5, <3>6
  <2> QED
    BY <2>2, <2>3
<1> QED
  BY <1>1 DEF ExceptionsComplete, ExceptionsSoFar

---------------------------------------------------------------------------
(***************************************************************************)
(* The entry points of the vertex at hand.                                 *)
(***************************************************************************)
LEMMA StampsMore ==
    ASSUME NEW g, NEW rt, NEW new, NEW S, NEW S2, NEW F, NEW F2, Stamped(g, rt, new, S, F), S \subseteq S2,
           NEW d \in S2, \A r \in F2 : r \in F \/ (d < r /\ Way(g, rt, new, d, r))
    PROVE  Stamped(g, rt, new, S2, F2)
BY DEF Stamped

\* A stamp that rests on c rests on d as well.
LEMMA StampsThrough ==
    ASSUME NEW g, NEW rt, NEW new, Renaming(g, new), NEW S, NEW F, NEW c \in NewID, NEW d \in S,
           d < c, Way(g, rt, new, d, c), Stamped(g, rt, new, S \cup {c}, F)
    PROVE  Stamped(g, rt, new, S, F)
<1>1. SUFFICES ASSUME NEW r \in F PROVE \E a \in S : a < r /\ Way(g, rt, new, a, r)
  BY DEF Stamped
<1>2. PICK a \in S \cup {c} : a < r /\ Way(g, rt, new, a, r)
  BY DEF Stamped
<1>3. CASE a \in S
  BY <1>2, <1>3
<1>4. CASE a = c
  <2>1. Way(g, rt, new, d, r)
    BY <1>2, <1>4, WayTrans
  <2>2. d \in NewID /\ r \in NewID
    BY <2>1, WayNumbers
  <2>3. d \in Nat /\ r \in Nat /\ c \in Nat
    BY <2>2, NewIDNat
  <2>4. d < r
    BY <1>2, <1>4, <2>3
  <2> QED
    BY <2>1, <2>4
<1> QED
  BY <1>2, <1>3, <1>4

\* More stamps leave less to be compared.
LEMMA ReducedMore ==
    ASSUME NEW t, NEW iv, NEW exc, NEW S, NEW F, NEW F2, Reduced(t, iv, exc, S, F), F \subseteq F2
    PROVE  Reduced(t, iv, exc, S, F2)
BY DEF Reduced

\* An exception of c is stamped when c is compared.
LEMMA ExceptionWay ==
    ASSUME NEW g, NEW topo, NEW rt, NEW new, NEW ex, NEW t, NEW iv,
           Setting(g, topo, rt, new, ex, t, iv), NEW exc, NEW x \in Vertex,
           ExceptionsSound(g, rt, new, iv, exc, x), NEW r \in exc[new[x]]
    PROVE  r \in NewID /\ new[x] < r /\ Way(g, rt, new, new[x], r)
<1>1. PICK z \in Vertex : new[z] = r /\ Within(g, rt, x, z)
  BY DEF ExceptionsSound, Inside
<1>2. iv[r] > iv[new[x]]
  BY DEF ExceptionsSound
<1>3. iv[new[x]] \in Nat /\ new[x] \in Nat /\ new[z] \in NewID /\ new[z] \in Nat
  BY SpanIs
<1>4. x # z
  BY <1>1, <1>2, <1>3
<1>5. new[x] < new[z]
  BY <1>1, <1>4, SettingTypes, WithinNumber
<1> QED
  BY <1>1, <1>3, <1>5, WayWithin

\* What same_tree_reach finds from x is below x.
LEMMA SameTreeWay ==
    ASSUME NEW g, NEW topo, NEW rt, NEW new, NEW ex, NEW t, NEW iv,
           Setting(g, topo, rt, new, ex, t, iv), NEW exc, NEW x \in Vertex,
           ExceptionsSound(g, rt, new, iv, exc, x), NEW b \in NewID, new[x] < b,
           SameTreeAs(iv, exc, new[x], b)
    PROVE  Way(g, rt, new, new[x], b)
<1>1. PICK z \in Vertex : new[z] = b
  BY SettingTypes, Named
<1>2. new[x] \in Nat /\ new[z] \in Nat
  BY SpanIs
<1>3. new[x] <= new[z]
  BY <1>1, <1>2
<1>4. Within(g, rt, x, z)
  BY <1>1, <1>3, SameTreeSound
<1> QED
  BY <1>1, <1>4, WayWithin

\* What an edge of u offers are entry points of u.
LEMMA OfferedEntry ==
    ASSUME NEW g \in [Vertex -> Seq(Vertex)], NEW rt, NEW new, NEW cr, NEW u \in Vertex, NEW v \in Succ(g, u),
           EntriesSound(g, rt, new, cr, v), NEW e \in Offers(rt, new, cr, u, v)
    PROVE  Entry(g, rt, new, u, e)
<1>1. CASE rt[v] = rt[u]
  <2>1. Entry(g, rt, new, v, e)
    BY <1>1 DEF Offers, EntriesSound
  <2> QED
    BY <1>1, <2>1, EntryFirst
<1>2. CASE rt[v] # rt[u]
  <2>1. e = new[v] /\ v \in Vertex
    BY <1>2, SuccVertex DEF Offers
  <2>2. Within(g, rt, u, u)
    BY WithinSelf
  <2> QED
    BY <1>2, <2>1, <2>2 DEF Entry
<1> QED
  BY <1>1, <1>2

\* No two of what an edge of u offers are below one another.
LEMMA OfferedReduced ==
    ASSUME NEW rt, NEW new, NEW cr, NEW u, NEW v, NEW t, NEW iv, NEW exc,
           Reduced(t, iv, exc, cr[new[v]], {}), Offers(rt, new, cr, u, v) \subseteq Nat,
           NEW a \in Offers(rt, new, cr, u, v), NEW b \in Offers(rt, new, cr, u, v),
           a < b, t[a] = t[b]
    PROVE  ~SameTreeAs(iv, exc, a, b)
<1>1. CASE rt[v] = rt[u]
  BY <1>1 DEF Offers, Reduced
<1>2. CASE rt[v] # rt[u]
  <2>1. a = b /\ a \in Nat
    BY <1>2 DEF Offers
  <2> QED
    BY <2>1
<1> QED
  BY <1>1, <1>2

---------------------------------------------------------------------------
\* One edge of u is at hand.
EdgeTarget(g, topo, p, u, q) ==
    /\ g[u][q] \in Succ(g, u) /\ g[u][q] \in Vertex /\ g[u][q] \in After(topo, p) /\ g[u][q] # u

\* The target of an edge is behind the walk.
LEMMA EdgeTargetIs ==
    ASSUME NEW g, NEW topo, Sorted(g, topo), NEW p \in 1 .. Len(topo), NEW u, AtVertex(g, topo, p, u),
           NEW q \in 1 .. Len(g[u])
    PROVE  EdgeTarget(g, topo, p, u, q)
<1>1. g \in [Vertex -> Seq(Vertex)] /\ u \in Vertex /\ u \notin After(topo, p) /\ p \in 0 .. Len(topo)
  BY DEF AtVertex, Sorted
<1>2. g[u][q] \in Succ(g, u)
  BY DEF Succ, Elems
<1>3. g[u][q] \in After(topo, p)
  BY <1>2 DEF AtVertex
<1>4. g[u][q] \in Vertex
  BY <1>1, <1>2, SuccVertex
<1> QED
  BY <1>1, <1>2, <1>3, <1>4 DEF EdgeTarget

\* No edge is read yet.
LEMMA EdgeFirst ==
    ASSUME NEW g, NEW topo, NEW rt, NEW new, NEW ex, NEW t, NEW iv,
           Setting(g, topo, rt, new, ex, t, iv), NEW u \in Vertex, NEW exc, NEW cr,
           FirstExceptions(new, iv, ex, u, exc)
    PROVE  EdgeState(g, rt, new, t, iv, exc, ex, cr, u, 1, 1, <<>>, {}, {})
<1>1. ExceptionsSoFar(g, rt, new, iv, exc, ex, u, 1)
  BY ExceptionsFirst
<1>2. Elems(<<>>) = {}
  BY NoElem
<1>3. \A a \in 1 .. Len(g[u]) : ~(a < 1)
  <2>1. Len(g[u]) \in Nat
    BY SettingTypes
  <2> QED
    BY <2>1
<1>4. OffersSoFar(g, rt, new, cr, u, 1, {})
  BY <1>3 DEF OffersSoFar
<1> QED
  BY <1>1, <1>2, <1>4 DEF EdgeState, Stamped, Reduced

\* LabelEdge leaves the accepted ids alone.
LEMMA EdgeRead ==
    ASSUME NEW g, NEW topo, NEW rt, NEW new, NEW ex, NEW t, NEW iv,
           Setting(g, topo, rt, new, ex, t, iv), NEW u \in Vertex, NEW exc, NEW exc2,
           OnlyAt(new, u, exc, exc2), NEW cr, NEW q, NEW qe, NEW pro, NEW F, NEW S,
           EdgeState(g, rt, new, t, iv, exc, ex, cr, u, q, q, pro, F, S),
           ExceptionsSoFar(g, rt, new, iv, exc2, ex, u, qe)
    PROVE  EdgeState(g, rt, new, t, iv, exc2, ex, cr, u, qe, q, pro, F, S)
<1>1. ASSUME NEW a \in Elems(pro), NEW b \in Elems(pro), a < b, t[a] = t[b],
             SameTreeAs(iv, exc2, a, b)
      PROVE  a \in F \/ b \in F
  <2>1. Entry(g, rt, new, u, a)
    BY DEF EdgeState
  <2>2. a \in NewID /\ new[u] < a /\ new[u] \in Nat
    BY <2>1, SettingTypes, EntryVertex, SpanIs
  <2>3. PICK y \in Vertex : new[y] = a
    BY <2>2, SettingTypes, Named
  <2>4. y # u
    BY <2>2, <2>3
  <2>5. exc2[a] = exc[a]
    BY <2>3, <2>4 DEF OnlyAt
  <2>6. SameTreeAs(iv, exc, a, b)
    BY <1>1, <2>5, SameTreeKept
  <2>7. Reduced(t, iv, exc, Elems(pro), F)
    BY DEF EdgeState
  <2> QED
    BY <1>1, <2>6, <2>7 DEF Reduced
<1>2. Reduced(t, iv, exc2, Elems(pro), F)
  BY <1>1 DEF Reduced
<1> QED
  BY <1>2 DEF EdgeState

\* LabelEdge starts with all that the edge offers.
LEMMA OfferFirst ==
    ASSUME NEW g, NEW rt, NEW new, NEW cr, NEW u, NEW q, q \in 1 .. Len(g[u]), NEW pro \in Seq(NewID), NEW F,
           NEW cand, cand = Offers(rt, new, cr, u, g[u][q])
    PROVE  OfferState(g, rt, new, cr, u, q, pro, F, cand, Len(pro))
<1>1. Len(pro) \in Nat /\ \A a \in 1 .. Len(pro) : ~(a > Len(pro))
  OBVIOUS
<1> QED
  BY <1>1 DEF OfferState

\* KnownCandidate drops a candidate that is accepted or stamped.
LEMMA OfferKnown ==
    ASSUME NEW g, NEW rt, NEW new, NEW cr, NEW u, NEW q, NEW pro, NEW F, NEW F2, F \subseteq F2, NEW cand, NEW m,
           OfferState(g, rt, new, cr, u, q, pro, F, cand, m), NEW c, c \in F2 \cup Elems(pro),
           NEW cand2, cand2 = cand \ {c}
    PROVE  OfferState(g, rt, new, cr, u, q, pro, F2, cand2, m)
BY DEF OfferState

\* More stamps leave the offer as it is.
LEMMA OfferMore ==
    ASSUME NEW g, NEW rt, NEW new, NEW cr, NEW u, NEW q, NEW pro, NEW F, NEW F2, F \subseteq F2, NEW cand, NEW m,
           OfferState(g, rt, new, cr, u, q, pro, F, cand, m)
    PROVE  OfferState(g, rt, new, cr, u, q, pro, F2, cand, m)
BY DEF OfferState

\* An edge is done when nothing of its offer is left.
LEMMA EdgeLast ==
    ASSUME NEW g, NEW rt, NEW new, NEW t, NEW iv, NEW exc, NEW ex, NEW cr, NEW u, NEW q \in Nat, NEW pro, NEW F, NEW S,
           EdgeState(g, rt, new, t, iv, exc, ex, cr, u, q + 1, q, pro, F, S), NEW m,
           OfferState(g, rt, new, cr, u, q, pro, F, {}, m)
    PROVE  EdgeState(g, rt, new, t, iv, exc, ex, cr, u, q + 1, q + 1, pro, F, S)
<1>1. ASSUME NEW a \in 1 .. Len(g[u]), a < q + 1
      PROVE  Offers(rt, new, cr, u, g[u][a]) \subseteq Elems(pro) \cup F
  <2>1. a < q \/ a = q
    BY <1>1
  <2>2. CASE a < q
    BY <2>2 DEF EdgeState, OffersSoFar
  <2>3. CASE a = q
    BY <2>3 DEF OfferState
  <2> QED
    BY <2>1, <2>2, <2>3
<1>2. OffersSoFar(g, rt, new, cr, u, q + 1, Elems(pro) \cup F)
  BY <1>1 DEF OffersSoFar
<1> QED
  BY <1>2 DEF EdgeState

\* A comparison that stamps ids whose way is known keeps the label.
LEMMA EdgeStamps ==
    ASSUME NEW g, NEW rt, NEW new, NEW t, NEW iv, NEW exc, NEW ex, NEW cr, NEW u, NEW qe, NEW q, NEW pro, NEW F, NEW S,
           EdgeState(g, rt, new, t, iv, exc, ex, cr, u, qe, q, pro, F, S),
           NEW F2, F \subseteq F2, NEW S2, Stamped(g, rt, new, S2, F2)
    PROVE  EdgeState(g, rt, new, t, iv, exc, ex, cr, u, qe, q, pro, F2, S2)
<1>1. Reduced(t, iv, exc, Elems(pro), F2)
  BY ReducedMore DEF EdgeState
<1>2. OffersSoFar(g, rt, new, cr, u, q, Elems(pro) \cup F2)
  BY DEF EdgeState, OffersSoFar
<1> QED
  BY <1>1, <1>2 DEF EdgeState

\* pro2 is pro with c at its end.
Accepted(pro, c, pro2) ==
    /\ pro2 \in Seq(NewID) /\ Elems(pro2) = Elems(pro) \cup {c}
    /\ Len(pro2) = Len(pro) + 1 /\ Len(pro) \in Nat
    /\ \A a \in 1 .. Len(pro) : pro2[a] = pro[a]
    /\ pro2[Len(pro) + 1] = c

\* Accepting a candidate adds it alone.
LEMMA AppendElems ==
    ASSUME NEW pro \in Seq(NewID), NEW c \in NewID, NEW pro2, pro2 = Append(pro, c)
    PROVE  Accepted(pro, c, pro2)
<1>1. /\ pro2 \in Seq(NewID) /\ Len(pro2) = Len(pro) + 1 /\ Len(pro) \in Nat
      /\ \A a \in 1 .. Len(pro) : pro2[a] = pro[a]
      /\ pro2[Len(pro) + 1] = c
  OBVIOUS
<1>2. 1 .. Len(pro2) = (1 .. Len(pro)) \cup {Len(pro) + 1}
  BY <1>1
<1>3. Elems(pro2) = Elems(pro) \cup {c}
  BY <1>1, <1>2 DEF Elems
<1> QED
  BY <1>1, <1>3 DEF Accepted

\* A candidate that met every id accepted before the edge is accepted.
LEMMA AcceptReduced ==
    ASSUME NEW t, NEW iv, NEW exc, NEW pro \in Seq(NewID), NEW F, NEW c \in NewID,
           NEW cand, NEW m, NEW p, CompareState(t, iv, exc, pro, F, cand, m, p, c), p > m,
           m \in 0 .. Len(pro), Reduced(t, iv, exc, Elems(pro), F),
           NEW rt, NEW new, NEW cr, NEW u, NEW v, c \in Offers(rt, new, cr, u, v),
           Offers(rt, new, cr, u, v) \subseteq Nat, Reduced(t, iv, exc, cr[new[v]], {}) \/ rt[v] # rt[u],
           \A a \in 1 .. Len(pro) : a > m => pro[a] \in Offers(rt, new, cr, u, v)
    PROVE  Reduced(t, iv, exc, Elems(pro) \cup {c}, F)
<1>1. SUFFICES ASSUME NEW a \in Elems(pro) \cup {c}, NEW b \in Elems(pro) \cup {c}, a < b, t[a] = t[b],
                      SameTreeAs(iv, exc, a, b)
               PROVE  a \in F \/ b \in F
  BY DEF Reduced
<1>2. \A x \in Elems(pro) : x \in Nat
  <2>1. \A x \in Elems(pro) : x \in NewID
    BY DEF Elems
  <2> QED
    BY <2>1, NewIDNat
<1>3. c \in Nat
  BY NewIDNat
<1>4. ASSUME NEW x \in Elems(pro), t[x] = t[c]
      PROVE  /\ x > c => x \in F \/ ~SameTreeAs(iv, exc, c, x)
             /\ x < c => x \in F \/ ~SameTreeAs(iv, exc, x, c)
  <2>1. PICK k \in 1 .. Len(pro) : x = pro[k]
    BY DEF Elems
  <2>2. CASE k < p
    BY <1>4, <2>1, <2>2 DEF CompareState, ComparedTo
  <2>3. CASE ~(k < p)
    <3>1. p \in 1 .. m + 1 /\ m \in Nat /\ k \in Nat
      BY <2>1 DEF CompareState
    <3>2. k > m
      BY <2>3, <3>1
    <3>3. x \in Offers(rt, new, cr, u, v)
      BY <2>1, <3>2
    <3>4. CASE rt[v] = rt[u]
      <4>1. Reduced(t, iv, exc, cr[new[v]], {})
        BY <3>4
      <4>2. /\ x > c => ~SameTreeAs(iv, exc, c, x)
            /\ x < c => ~SameTreeAs(iv, exc, x, c)
        BY <1>2, <1>3, <1>4, <3>3, <4>1, OfferedReduced
      <4> QED
        BY <4>2
    <3>5. CASE rt[v] # rt[u]
      <4>1. x = c
        BY <3>3, <3>5 DEF Offers
      <4> QED
        BY <1>2, <1>3, <4>1
    <3> QED
      BY <3>4, <3>5
  <2> QED
    BY <2>2, <2>3
<1>5. CASE a \in Elems(pro) /\ b \in Elems(pro)
  BY <1>1, <1>5 DEF Reduced
<1>6. CASE a \in Elems(pro) /\ b = c
  BY <1>1, <1>4, <1>6
<1>7. CASE a = c /\ b \in Elems(pro)
  <2>1. b > c
    BY <1>1, <1>2, <1>3, <1>7
  <2> QED
    BY <1>1, <1>4, <1>7, <2>1
<1>8. CASE a = c /\ b = c
  BY <1>1, <1>3, <1>8
<1> QED
  BY <1>1, <1>5, <1>6, <1>7, <1>8

\* The label once the candidate is accepted.
LEMMA AcceptEdge ==
    ASSUME NEW g, NEW rt, NEW new, NEW t, NEW iv, NEW exc, NEW ex, NEW cr, NEW u, NEW qe, NEW q, NEW F,
           NEW pro \in Seq(NewID), NEW c \in NewID, NEW pro2, pro2 = Append(pro, c),
           EdgeState(g, rt, new, t, iv, exc, ex, cr, u, qe, q, pro, F, Elems(pro) \cup {c}),
           Entry(g, rt, new, u, c), Reduced(t, iv, exc, Elems(pro) \cup {c}, F)
    PROVE  EdgeState(g, rt, new, t, iv, exc, ex, cr, u, qe, q, pro2, F, Elems(pro2))
<1>1. Elems(pro2) = Elems(pro) \cup {c}
  BY AppendElems DEF Accepted
<1>2. OffersSoFar(g, rt, new, cr, u, q, Elems(pro2) \cup F)
  BY <1>1 DEF EdgeState, OffersSoFar
<1> QED
  BY <1>1, <1>2 DEF EdgeState

\* The offer once the candidate is accepted.
LEMMA AcceptOffer ==
    ASSUME NEW g, NEW rt, NEW new, NEW cr, NEW u, NEW q, NEW pro \in Seq(NewID), NEW F, NEW cand, NEW m,
           OfferState(g, rt, new, cr, u, q, pro, F, cand, m), NEW c \in NewID, c \in cand,
           NEW pro2, pro2 = Append(pro, c), NEW cand2, cand2 = cand \ {c}
    PROVE  OfferState(g, rt, new, cr, u, q, pro2, F, cand2, m)
<1>1. /\ Elems(pro2) = Elems(pro) \cup {c} /\ Len(pro2) = Len(pro) + 1 /\ Len(pro) \in Nat
      /\ \A a \in 1 .. Len(pro) : pro2[a] = pro[a]
      /\ pro2[Len(pro) + 1] = c
  <2>1. Accepted(pro, c, pro2)
    BY AppendElems
  <2> QED
    BY <2>1 DEF Accepted
<1>2. m \in 0 .. Len(pro2)
  BY <1>1 DEF OfferState
<1>3. ASSUME NEW a \in 1 .. Len(pro2), a > m PROVE pro2[a] \in Offers(rt, new, cr, u, g[u][q])
  <2>1. a \in 1 .. Len(pro) \/ a = Len(pro) + 1
    BY <1>1
  <2>2. CASE a \in 1 .. Len(pro)
    BY <1>1, <1>3, <2>2 DEF OfferState
  <2>3. CASE a = Len(pro) + 1
    BY <1>1, <2>3 DEF OfferState
  <2> QED
    BY <2>1, <2>2, <2>3
<1> QED
  BY <1>1, <1>2, <1>3 DEF OfferState

---------------------------------------------------------------------------
\* Once all edges are read every entry point of u is below an accepted id.
LEMMA EntryAccepted ==
    ASSUME NEW g, NEW topo, NEW rt, NEW new, NEW ex, NEW t, NEW iv,
           Setting(g, topo, rt, new, ex, t, iv), NEW p \in 1 .. Len(topo), NEW u,
           AtVertex(g, topo, p, u), NEW exc,
           NEW cr, Labelled(g, rt, new, t, iv, exc, cr, After(topo, p)),
           NEW q \in Nat, q > Len(g[u]), NEW S, OffersSoFar(g, rt, new, cr, u, q, S),
           NEW e, Entry(g, rt, new, u, e)
    PROVE  Dominated(g, rt, new, S, e)
<1>0. g \in [Vertex -> Seq(Vertex)] /\ u \in Vertex /\ Renaming(g, new)
  BY SettingTypes DEF AtVertex
<1>1. PICK v \in Succ(g, u) : \/ rt[v] # rt[u] /\ new[v] = e
                              \/ rt[v] = rt[u] /\ Entry(g, rt, new, v, e)
  BY <1>0, EntryVia
<1>2. PICK a \in 1 .. Len(g[u]) : v = g[u][a]
  BY DEF Succ, Elems
<1>3. a < q
  BY <1>0, <1>2
<1>4. Offers(rt, new, cr, u, v) \subseteq S
  BY <1>2, <1>3 DEF OffersSoFar
<1>5. e \in NewID
  BY <1>0, EntryVertex
<1>6. CASE rt[v] # rt[u]
  <2>1. e \in S
    BY <1>1, <1>4, <1>6 DEF Offers
  <2> QED
    BY <1>0, <1>5, <2>1, WaySelf DEF Dominated
<1>7. CASE rt[v] = rt[u]
  <2>1. v \in After(topo, p)
    BY DEF AtVertex
  <2>2. EntriesComplete(g, rt, new, cr, v) /\ Entry(g, rt, new, v, e)
    BY <1>1, <1>7, <2>1 DEF Labelled
  <2>3. Dominated(g, rt, new, cr[new[v]], e)
    BY <1>5, <2>2 DEF EntriesComplete
  <2>4. cr[new[v]] \subseteq S
    BY <1>4, <1>7 DEF Offers
  <2> QED
    BY <2>3, <2>4 DEF Dominated
<1> QED
  BY <1>6, <1>7

\* The smallest accepted id above an entry point is not stamped.
LEMMA UnstampedAbove ==
    ASSUME NEW g, NEW rt, NEW new, Renaming(g, new), NEW S, NEW F, Stamped(g, rt, new, S, F),
           NEW e, Dominated(g, rt, new, S \cup F, e)
    PROVE  Dominated(g, rt, new, S \ F, e)
<1>1. PICK T : T = {d \in S : Way(g, rt, new, d, e)}
  OBVIOUS
<1>2. PICK d \in S \cup F : Way(g, rt, new, d, e)
  BY DEF Dominated
<1>3. T # {}
  <2>1. CASE d \in S
    BY <1>1, <1>2, <2>1
  <2>2. CASE d \in F
    <3>1. PICK c \in S : Way(g, rt, new, c, d)
      BY <2>2 DEF Stamped
    <3>2. Way(g, rt, new, c, e)
      BY <1>2, <3>1, WayTrans
    <3> QED
      BY <1>1, <3>2
  <2> QED
    BY <2>1, <2>2
<1>4. T \in SUBSET Nat
  <2>1. \A c \in T : c \in NewID
    BY <1>1, WayNumbers
  <2> QED
    BY <2>1, NewIDNat
<1>5. PICK c \in T : \A b \in T : c <= b
  BY <1>3, <1>4, Smallest
<1>6. c \in S /\ Way(g, rt, new, c, e)
  BY <1>1
<1>7. c \notin F
  <2>1. SUFFICES ASSUME c \in F PROVE FALSE
    OBVIOUS
  <2>2. PICK b \in S : b < c /\ Way(g, rt, new, b, c)
    BY <2>1 DEF Stamped
  <2>3. Way(g, rt, new, b, e)
    BY <1>6, <2>2, WayTrans
  <2>4. b \in T
    BY <1>1, <2>3
  <2>5. b \in Nat /\ c \in Nat /\ c <= b
    BY <1>4, <1>5, <2>4
  <2> QED
    BY <2>2, <2>5
<1> QED
  BY <1>6, <1>7 DEF Dominated

\* LabelVertexEnd keeps the accepted ids without stamp: the label of u.
LEMMA LabelledEnd ==
    ASSUME NEW g, NEW topo, NEW rt, NEW new, NEW ex, NEW t, NEW iv,
           Setting(g, topo, rt, new, ex, t, iv), NEW p \in 1 .. Len(topo), NEW u,
           AtVertex(g, topo, p, u), NEW exc, IDLists(exc),
           NEW cr, Labelled(g, rt, new, t, iv, exc, cr, After(topo, p)),
           NEW q \in Nat, q > Len(g[u]), NEW pro, NEW F,
           EdgeState(g, rt, new, t, iv, exc, ex, cr, u, q, q, pro, F, Elems(pro)),
           NEW cr2, OnlyAt(new, u, cr, cr2), cr2[new[u]] = Elems(pro) \ F
    PROVE  Labelled(g, rt, new, t, iv, exc, cr2, After(topo, p - 1))
<1>0. Sorted(g, topo) /\ Renaming(g, new) /\ u \in Vertex
  BY SettingTypes DEF AtVertex
<1>1. Labelled(g, rt, new, t, iv, exc, cr2, After(topo, p))
  <2>1. OnlyAt(new, u, exc, exc)
    BY DEF OnlyAt
  <2> QED
    BY <1>0, <2>1, LabelsKept
<1>2. ExceptionsSound(g, rt, new, iv, exc, u) /\ ExceptionsComplete(g, rt, new, iv, exc, u)
  <2>1. ExceptionsSoFar(g, rt, new, iv, exc, ex, u, q)
    BY DEF EdgeState
  <2> QED
    BY <2>1, ExceptionsEnd
<1>3. EntriesSound(g, rt, new, cr2, u)
  BY DEF EdgeState, EntriesSound
<1>4. EntriesComplete(g, rt, new, cr2, u)
  <2>1. SUFFICES ASSUME NEW e \in NewID, Entry(g, rt, new, u, e)
                 PROVE  Dominated(g, rt, new, Elems(pro) \ F, e)
    BY DEF EntriesComplete
  <2>2. OffersSoFar(g, rt, new, cr, u, q, Elems(pro) \cup F) /\ Stamped(g, rt, new, Elems(pro), F)
    BY DEF EdgeState
  <2>3. Dominated(g, rt, new, Elems(pro) \cup F, e)
    BY <2>1, <2>2, EntryAccepted
  <2> QED
    BY <1>0, <2>2, <2>3, UnstampedAbove
<1>5. Reduced(t, iv, exc, cr2[new[u]], {})
  BY DEF EdgeState, Reduced
<1>6. LabelledOne(g, rt, new, t, iv, exc, cr2, u)
  BY <1>2, <1>3, <1>4, <1>5 DEF LabelledOne
<1>7. ASSUME NEW w \in After(topo, p - 1) PROVE LabelledOne(g, rt, new, t, iv, exc, cr2, w)
  <2>1. CASE w = u
    BY <1>6, <2>1
  <2>2. CASE w \in After(topo, p)
    BY <1>1, <2>2, LabelledEach
  <2> QED
    BY <2>1, <2>2 DEF AtVertex
<1> QED
  BY <1>7, LabelledEach

---------------------------------------------------------------------------
(***************************************************************************)
(* The steps of cal_excp_and_cross_arr.                                    *)
(***************************************************************************)
LabelInv ==
    /\ pc \in Labelling \cup {"ready"} =>
          /\ i \in 0 .. Len(TopoOrder)
          /\ Labelled(graph, root_located, oldID_mapto_newID, rlt, interval, excpID, id_cross_arr,
                      After(TopoOrder, i))
    /\ pc = "label_edges" => EdgeLabel(j, Elems(id_cross_arr_pro))
    /\ pc = "candidates" => EdgeLabel(j + 1, Elems(id_cross_arr_pro)) /\ OfferLabel
    /\ pc = "is_reachable" =>
          EdgeLabel(j + 1, Elems(id_cross_arr_pro) \cup {Candidate}) /\ OfferLabel /\ CompareLabel

LabelTypes ==
    /\ IDLists(excpID) /\ IDLists(id_cross_arr)
    /\ id_cross_arr_pro \in Seq(NewID) /\ reach_flag \subseteq NewID /\ candidates \subseteq NewID
    /\ len \in Nat /\ pos \in Nat

Marked == LabelTypes /\ LabelInv

SetUp == Setting(graph, TopoOrder, root_located, oldID_mapto_newID, excpID_O, rlt, interval)

LabelsAfter(p) ==
    Labelled(graph, root_located, oldID_mapto_newID, rlt, interval, excpID, id_cross_arr,
             After(TopoOrder, p))

\* The walk that makes the labels finds what decode and cal_index left.
LEMMA SetUpHolds ==
    ASSUME Decoded, Indexed, pc \in Labelling \cup {"ready"}
    PROVE  SetUp /\ i \in 0 .. Len(TopoOrder) /\ Len(TopoOrder) \in Nat
           /\ graph \in [Vertex -> Seq(Vertex)] /\ Laid /\ Coded
<1>1. /\ Sorted(graph, TopoOrder) /\ Renaming(graph, oldID_mapto_newID) /\ Coded /\ Laid
      /\ i \in 0 .. Len(TopoOrder) /\ Len(TopoOrder) \in Nat /\ graph \in [Vertex -> Seq(Vertex)]
  BY SettledFacts DEF DecodeDone
<1>2. /\ \A v \in Vertex : rlt[oldID_mapto_newID[v]] = root_located[v]
      /\ \A u \in Vertex : \A v \in Elems(excpID_O[u]) :
            v \in Succ(graph, u) /\ root_located[v] = root_located[u]
  BY <1>1 DEF Coded, CodedAs
<1>3. /\ IvType(interval)
      /\ Spans(graph, root_located, oldID_mapto_newID, excpID_O, interval, Vertex)
  BY DEF Indexed, LevelTypes, IndexInv
<1> QED
  BY <1>1, <1>2, <1>3 DEF SetUp, Setting

\* The vertex at hand, and the labels behind it.
LEMMA LabelFacts ==
    ASSUME Decoded, Indexed, Marked, pc \in LabelPhase
    PROVE  /\ SetUp /\ i \in 1 .. Len(TopoOrder) /\ j \in Nat \ {0} /\ curID \in Vertex
           /\ AtVertex(graph, TopoOrder, i, curID) /\ LabelsAfter(i) /\ LabelTypes
           /\ graph \in [Vertex -> Seq(Vertex)] /\ Renaming(graph, oldID_mapto_newID)
           /\ Sorted(graph, TopoOrder)
<1>1. SetUp /\ i \in 0 .. Len(TopoOrder) /\ Len(TopoOrder) \in Nat /\ graph \in [Vertex -> Seq(Vertex)]
  BY SetUpHolds DEF Labelling
<1>2. i # 0 /\ curID = TopoOrder[i] /\ j \in Nat \ {0}
  BY DEF Decoded, PlacePart
<1>3. i \in 1 .. Len(TopoOrder)
  BY <1>1, <1>2
<1>4. Sorted(graph, TopoOrder) /\ Renaming(graph, oldID_mapto_newID)
  BY <1>1 DEF SetUp, Setting
<1>5. AtVertex(graph, TopoOrder, i, curID)
  BY <1>2, <1>3, <1>4, AfterNext
<1>6. LabelsAfter(i) /\ LabelTypes
  BY DEF Marked, LabelInv, Labelling, LabelsAfter
<1> QED
  BY <1>1, <1>2, <1>3, <1>4, <1>5, <1>6 DEF AtVertex

\* What a step within the label of one vertex keeps.
SameLabels ==
    /\ graph' = graph /\ TopoOrder' = TopoOrder /\ root_located' = root_located
    /\ oldID_mapto_newID' = oldID_mapto_newID /\ excpID_O' = excpID_O /\ rlt' = rlt
    /\ interval' = interval

\* The frame of such a step.
LEMMA SameLabelsHolds ==
    ASSUME UNCHANGED layeringKept, UNCHANGED numberVars, UNCHANGED levelVars
    PROVE  SameLabels
BY Kept DEF numberVars, levelVars, SameLabels

\* A step within the label of one vertex, once it is known what it does to it.
LEMMA MarkedWithin ==
    ASSUME SameLabels, LabelTypes', i \in 0 .. Len(TopoOrder), i' = i, pc' \in LabelPhase,
           LabelsAfter(i)',
           pc' = "label_edges" => EdgeLabel(j, Elems(id_cross_arr_pro))',
           pc' = "candidates" => EdgeLabel(j + 1, Elems(id_cross_arr_pro))' /\ OfferLabel',
           pc' = "is_reachable" =>
               /\ EdgeLabel(j + 1, Elems(id_cross_arr_pro) \cup {Candidate})'
               /\ OfferLabel' /\ CompareLabel'
    PROVE  Marked'
<1>1. i' \in 0 .. Len(TopoOrder')
  BY DEF SameLabels
<1> QED
  BY <1>1 DEF Marked, LabelInv, LabelsAfter, LabelPhase

\* The labels behind the walk stay.
LEMMA LabelsAfterSame ==
    ASSUME SameLabels, i' = i, excpID' = excpID, id_cross_arr' = id_cross_arr, LabelsAfter(i)
    PROVE  LabelsAfter(i)'
BY DEF SameLabels, LabelsAfter

---------------------------------------------------------------------------
\* LabelVertex starts the label of the next vertex with its exceptions.
LEMMA LabelVertexStep ==
    ASSUME Decoded, Decoded', Indexed, Marked, LabelVertex
    PROVE  Marked'
<1>1. /\ pc = "cal_excp_and_cross_arr" /\ pc' = "label_edges" /\ i >= 1 /\ i' = i /\ j' = 1
      /\ id_cross_arr_pro' = <<>> /\ reach_flag' = {} /\ curID' = TopoOrder[i]
      /\ id_cross_arr' = id_cross_arr /\ candidates' = candidates /\ len' = len /\ pos' = pos
      /\ excpID' = [excpID EXCEPT ![oldID_mapto_newID[TopoOrder[i]]] =
             {e \in {oldID_mapto_newID[v] : v \in Elems(excpID_O[TopoOrder[i]])} :
                 interval[oldID_mapto_newID[TopoOrder[i]]] < interval[e]}]
      /\ UNCHANGED layeringKept /\ UNCHANGED numberVars /\ UNCHANGED levelVars
  BY DEF LabelVertex
<1>2. SameLabels
  BY <1>1, SameLabelsHolds
<1>3. SetUp /\ i \in 0 .. Len(TopoOrder) /\ Len(TopoOrder) \in Nat /\ graph \in [Vertex -> Seq(Vertex)]
  BY <1>1, SetUpHolds DEF Labelling
<1>4. LabelsAfter(i) /\ LabelTypes
  BY <1>1 DEF Marked, LabelInv, Labelling, LabelsAfter
<1>5. PICK u : u = TopoOrder[i]
  OBVIOUS
<1>6. Sorted(graph, TopoOrder) /\ Renaming(graph, oldID_mapto_newID) /\ i \in 1 .. Len(TopoOrder)
  BY <1>1, <1>3 DEF SetUp, Setting
<1>7. AtVertex(graph, TopoOrder, i, u) /\ u \in Vertex
  BY <1>5, <1>6, AfterNext DEF AtVertex
<1>8. PICK A : A = {e \in {oldID_mapto_newID[v] : v \in Elems(excpID_O[u])} :
                       interval[oldID_mapto_newID[u]] < interval[e]}
  OBVIOUS
<1>9. A \in SUBSET NewID
  <2>1. ASSUME NEW v \in Elems(excpID_O[u]) PROVE oldID_mapto_newID[v] \in NewID
    <3>1. v \in Succ(graph, u)
      BY <1>3, <1>7 DEF SetUp, Setting
    <3>2. v \in Vertex
      BY <1>3, <1>7, <3>1, SuccVertex
    <3> QED
      BY <1>6, <3>2 DEF Renaming
  <2> QED
    BY <1>8, <2>1
<1>10. excpID' = [excpID EXCEPT ![oldID_mapto_newID[u]] = A]
  BY <1>1, <1>5, <1>8
<1>11. oldID_mapto_newID[u] \in NewID /\ excpID \in [NewID -> SUBSET NewID]
  BY <1>4, <1>6, <1>7 DEF Renaming, LabelTypes, IDLists
<1>12. excpID' \in [NewID -> SUBSET NewID] /\ excpID'[oldID_mapto_newID[u]] = A
  BY <1>9, <1>10, <1>11
<1>13. LabelTypes'
  <2>1. <<>> \in Seq(NewID)
    OBVIOUS
  <2> QED
    BY <1>1, <1>4, <1>12, <2>1 DEF LabelTypes, IDLists
<1>14. OnlyAt(oldID_mapto_newID, u, excpID, excpID')
  <2>1. ASSUME NEW v \in Vertex, v # u PROVE excpID'[oldID_mapto_newID[v]] = excpID[oldID_mapto_newID[v]]
    <3>1. oldID_mapto_newID[v] \in NewID /\ oldID_mapto_newID[v] # oldID_mapto_newID[u]
      BY <1>6, <1>7, <2>1 DEF Renaming
    <3> QED
      BY <1>10, <1>11, <3>1
  <2> QED
    BY <2>1 DEF OnlyAt
<1>15. LabelsAfter(i)'
  <2>1. OnlyAt(oldID_mapto_newID, u, id_cross_arr, id_cross_arr)
    BY DEF OnlyAt
  <2>2. Labelled(graph, root_located, oldID_mapto_newID, rlt, interval, excpID', id_cross_arr,
                 After(TopoOrder, i))
    BY <1>4, <1>6, <1>7, <1>14, <2>1, LabelsKept DEF LabelsAfter
  <2> QED
    BY <1>1, <1>2, <2>2 DEF LabelsAfter, SameLabels
<1>16. EdgeLabel(j, Elems(id_cross_arr_pro))'
  <2>1. FirstExceptions(oldID_mapto_newID, interval, excpID_O, u, excpID')
    BY <1>8, <1>12 DEF FirstExceptions
  <2>2. EdgeState(graph, root_located, oldID_mapto_newID, rlt, interval, excpID', excpID_O, id_cross_arr,
                  u, 1, 1, <<>>, {}, {})
    BY <1>3, <1>7, <2>1, EdgeFirst DEF SetUp
  <2>3. Elems(<<>>) = {}
    BY NoElem
  <2> QED
    BY <1>1, <1>2, <1>5, <2>2, <2>3 DEF EdgeLabel, SameLabels
<1> QED
  BY <1>1, <1>2, <1>3, <1>13, <1>15, <1>16, MarkedWithin DEF LabelPhase

\* LabelEdge opens one edge.
LEMMA LabelEdgeStep ==
    ASSUME Decoded, Indexed, Marked, LabelEdge
    PROVE  Marked'
<1> DEFINE v == graph[curID][j]
           n == oldID_mapto_newID[curID]
           m == oldID_mapto_newID[graph[curID][j]]
<1>1. /\ pc = "label_edges" /\ pc' = "candidates" /\ i' = i /\ j' = j /\ curID' = curID
      /\ id_cross_arr_pro' = id_cross_arr_pro /\ reach_flag' = reach_flag
      /\ id_cross_arr' = id_cross_arr /\ len' = Len(id_cross_arr_pro) /\ pos' = pos
      /\ j <= Len(graph[curID])
      /\ UNCHANGED layeringKept /\ UNCHANGED numberVars /\ UNCHANGED levelVars
  BY DEF LabelEdge, searchVars
<1>2. \/ /\ rlt[m] = rlt[n]
         /\ excpID' = [excpID EXCEPT ![n] = @ \cup {e \in excpID[m] : interval[n] < interval[e]}]
         /\ candidates' = id_cross_arr[m]
      \/ rlt[m] # rlt[n] /\ candidates' = {m} /\ excpID' = excpID
  BY DEF LabelEdge
<1>3. SameLabels
  BY <1>1, SameLabelsHolds
<1>4. /\ SetUp /\ i \in 1 .. Len(TopoOrder) /\ j \in Nat \ {0} /\ curID \in Vertex
      /\ AtVertex(graph, TopoOrder, i, curID) /\ LabelsAfter(i) /\ LabelTypes
      /\ graph \in [Vertex -> Seq(Vertex)] /\ Renaming(graph, oldID_mapto_newID)
      /\ Sorted(graph, TopoOrder)
  BY <1>1, LabelFacts DEF LabelPhase
<1>5. EdgeLabel(j, Elems(id_cross_arr_pro))
  BY <1>1 DEF Marked, LabelInv
<1>6. j \in 1 .. Len(graph[curID])
  BY <1>1, <1>4
<1>7. v \in Succ(graph, curID) /\ v \in Vertex /\ v \in After(TopoOrder, i) /\ v # curID
  BY <1>4, <1>6, EdgeTargetIs DEF EdgeTarget
<1>8. n \in NewID /\ m \in NewID /\ rlt[n] = root_located[curID] /\ rlt[m] = root_located[v]
  BY <1>4, <1>7 DEF Renaming, SetUp, Setting
<1>9. excpID \in [NewID -> SUBSET NewID] /\ id_cross_arr \in [NewID -> SUBSET NewID]
      /\ id_cross_arr_pro \in Seq(NewID)
  BY <1>4 DEF LabelTypes, IDLists
<1>10. PICK A : A = {e \in excpID[m] : interval[n] < interval[e]}
  OBVIOUS
<1>11. A \in SUBSET NewID
  BY <1>8, <1>9, <1>10
<1>12. IDLists(excpID') /\ candidates' \subseteq NewID
  <2>1. CASE rlt[m] = rlt[n]
    <3>1. excpID' = [excpID EXCEPT ![n] = @ \cup A] /\ candidates' = id_cross_arr[m]
      BY <1>2, <1>10, <2>1
    <3>2. excpID[n] \cup A \in SUBSET NewID
      BY <1>8, <1>9, <1>11
    <3>3. excpID' = [excpID EXCEPT ![n] = excpID[n] \cup A]
      BY <1>9, <3>1
    <3>4. excpID' \in [NewID -> SUBSET NewID]
      BY <1>8, <1>9, <3>2, <3>3
    <3> QED
      BY <1>8, <1>9, <3>1, <3>4 DEF IDLists
  <2>2. CASE rlt[m] # rlt[n]
    BY <1>2, <1>8, <1>9, <2>2 DEF IDLists
  <2> QED
    BY <2>1, <2>2
<1>13. LabelTypes'
  <2>1. Len(id_cross_arr_pro) \in Nat
    BY <1>9
  <2> QED
    BY <1>1, <1>4, <1>12, <2>1 DEF LabelTypes
<1>14. OnlyAt(oldID_mapto_newID, curID, excpID, excpID')
  <2>1. ASSUME NEW w \in Vertex, w # curID
        PROVE  excpID'[oldID_mapto_newID[w]] = excpID[oldID_mapto_newID[w]]
    <3>1. oldID_mapto_newID[w] \in NewID /\ oldID_mapto_newID[w] # n
      BY <1>4, <2>1 DEF Renaming
    <3> QED
      BY <1>2, <1>8, <1>9, <3>1
  <2> QED
    BY <2>1 DEF OnlyAt
<1>15. LabelsAfter(i)'
  <2>1. OnlyAt(oldID_mapto_newID, curID, id_cross_arr, id_cross_arr)
    BY DEF OnlyAt
  <2>2. Labelled(graph, root_located, oldID_mapto_newID, rlt, interval, excpID', id_cross_arr,
                 After(TopoOrder, i))
    BY <1>4, <1>14, <2>1, LabelsKept DEF LabelsAfter
  <2> QED
    BY <1>1, <1>3, <2>2 DEF LabelsAfter, SameLabels
<1>16. ExceptionsSoFar(graph, root_located, oldID_mapto_newID, interval, excpID', excpID_O, curID, j + 1)
  <2>1. ExceptionsSoFar(graph, root_located, oldID_mapto_newID, interval, excpID, excpID_O, curID, j)
    BY <1>5 DEF EdgeLabel, EdgeState
  <2>2. CASE rlt[m] = rlt[n]
    <3>1. root_located[graph[curID][j]] = root_located[curID]
      BY <1>8, <2>2
    <3>2. excpID' = [excpID EXCEPT ![n] = @ \cup A]
      BY <1>2, <1>10, <2>2
    <3>3. excpID'[n] = excpID[n] \cup A
      BY <1>8, <1>9, <3>2
    <3>4. HandedOn(oldID_mapto_newID, interval, curID, graph[curID][j], excpID, excpID')
      BY <1>10, <3>3 DEF HandedOn
    <3>5. IDLists(excpID) /\ j <= Len(graph[curID])
      BY <1>1, <1>4 DEF LabelTypes
    <3> QED
      BY <1>4, <1>14, <2>1, <3>1, <3>4, <3>5, ExceptionsEdge DEF SetUp, LabelsAfter
  <2>3. CASE rlt[m] # rlt[n]
    <3>1. root_located[graph[curID][j]] # root_located[curID] /\ excpID' = excpID
      BY <1>2, <1>8, <2>3
    <3>2. j \in Nat
      BY <1>4
    <3>3. ExceptionsSoFar(graph, root_located, oldID_mapto_newID, interval, excpID, excpID_O, curID, j + 1)
      BY <2>1, <3>1, <3>2, ExceptionsOther
    <3> QED
      BY <3>1, <3>3
  <2> QED
    BY <2>2, <2>3
<1>17. EdgeState(graph, root_located, oldID_mapto_newID, rlt, interval, excpID', excpID_O, id_cross_arr,
                 curID, j + 1, j, id_cross_arr_pro, reach_flag, Elems(id_cross_arr_pro))
  BY <1>4, <1>5, <1>14, <1>16, EdgeRead DEF EdgeLabel, SetUp
<1>18. candidates' = Offers(root_located, oldID_mapto_newID, id_cross_arr, curID, graph[curID][j])
  BY <1>2, <1>8 DEF Offers
<1>19. OfferState(graph, root_located, oldID_mapto_newID, id_cross_arr, curID, j, id_cross_arr_pro,
                  reach_flag, candidates', Len(id_cross_arr_pro))
  BY <1>6, <1>9, <1>18, OfferFirst
<1>20. EdgeLabel(j + 1, Elems(id_cross_arr_pro))' /\ OfferLabel'
  BY <1>1, <1>3, <1>17, <1>19 DEF EdgeLabel, OfferLabel, SameLabels
<1>21. i \in 0 .. Len(TopoOrder)
  BY <1>4
<1> QED
  BY <1>1, <1>3, <1>13, <1>15, <1>20, <1>21, MarkedWithin DEF LabelPhase

\* The candidate is one of the candidates.
LEMMA CandidateIs ==
    ASSUME candidates \subseteq NewID, candidates # {}
    PROVE  Candidate \in candidates
<1>1. candidates \in SUBSET Nat
  BY NewIDNat
<1>2. \E c \in candidates : \A d \in candidates : c <= d
  BY <1>1, Smallest
<1> QED
  BY <1>2 DEF Candidate

\* A step that leaves the labels, the vertex and its edge alone.
OfferFrame ==
    /\ SameLabels /\ i' = i /\ curID' = curID /\ j' = j
    /\ excpID' = excpID /\ id_cross_arr' = id_cross_arr
    /\ i \in 0 .. Len(TopoOrder) /\ LabelsAfter(i)' /\ LabelTypes

\* Its frame.
LEMMA OfferFrameHolds ==
    ASSUME Decoded, Indexed, Marked, pc \in LabelPhase,
           UNCHANGED layeringKept, UNCHANGED searchVars, UNCHANGED numberVars, UNCHANGED levelVars,
           i' = i, j' = j, excpID' = excpID, id_cross_arr' = id_cross_arr
    PROVE  OfferFrame
<1>1. SameLabels
  BY SameLabelsHolds
<1>2. i \in 1 .. Len(TopoOrder) /\ LabelsAfter(i) /\ LabelTypes
  BY LabelFacts
<1>3. LabelsAfter(i)'
  BY <1>1, <1>2, LabelsAfterSame
<1> QED
  BY <1>1, <1>2, <1>3 DEF OfferFrame, searchVars

\* KnownCandidate passes over a candidate.
LEMMA KnownCandidateStep ==
    ASSUME Decoded, Indexed, Marked, KnownCandidate
    PROVE  Marked'
<1>1. /\ pc = "candidates" /\ pc' = "candidates" /\ candidates # {}
      /\ Candidate \in reach_flag \cup Elems(id_cross_arr_pro)
      /\ candidates' = candidates \ {Candidate}
      /\ id_cross_arr_pro' = id_cross_arr_pro /\ reach_flag' = reach_flag /\ len' = len /\ pos' = pos
  BY DEF KnownCandidate, DropCandidate
<1>2. OfferFrame
  BY <1>1, OfferFrameHolds DEF KnownCandidate, LabelPhase
<1>3. LabelTypes'
  BY <1>1, <1>2 DEF OfferFrame, LabelTypes
<1>4. EdgeLabel(j + 1, Elems(id_cross_arr_pro))' /\ OfferLabel
  BY <1>1, <1>2 DEF Marked, LabelInv, EdgeLabel, OfferFrame, SameLabels
<1>5. OfferState(graph, root_located, oldID_mapto_newID, id_cross_arr, curID, j, id_cross_arr_pro,
                 reach_flag, candidates', len)
  BY <1>1, <1>4, OfferKnown DEF OfferLabel
<1>6. OfferLabel'
  BY <1>1, <1>2, <1>5 DEF OfferLabel, OfferFrame, SameLabels
<1> QED
  BY <1>1, <1>2, <1>3, <1>4, <1>6, MarkedWithin DEF LabelPhase, OfferFrame

\* OfferCandidate takes one up.
LEMMA OfferCandidateStep ==
    ASSUME Decoded, Indexed, Marked, OfferCandidate
    PROVE  Marked'
<1>1. /\ pc = "candidates" /\ pc' = "is_reachable" /\ candidates # {}
      /\ Candidate \notin reach_flag \cup Elems(id_cross_arr_pro)
      /\ candidates' = candidates /\ pos' = 1
      /\ id_cross_arr_pro' = id_cross_arr_pro /\ reach_flag' = reach_flag /\ len' = len
  BY DEF OfferCandidate
<1>2. OfferFrame
  BY <1>1, OfferFrameHolds DEF OfferCandidate, LabelPhase
<1>3. LabelTypes'
  BY <1>1, <1>2 DEF OfferFrame, LabelTypes
<1>4. EdgeLabel(j + 1, Elems(id_cross_arr_pro)) /\ OfferLabel
  BY <1>1 DEF Marked, LabelInv
<1>5. Candidate \in candidates /\ Candidate' = Candidate
  BY <1>1, <1>2, CandidateIs DEF OfferFrame, LabelTypes, Candidate
<1>6. EdgeLabel(j + 1, Elems(id_cross_arr_pro) \cup {Candidate})'
  <2>1. EdgeLabel(j + 1, Elems(id_cross_arr_pro) \cup {Candidate})
    BY <1>4 DEF EdgeLabel, EdgeState, Stamped
  <2> QED
    BY <1>1, <1>2, <1>5, <2>1 DEF EdgeLabel, OfferFrame, SameLabels
<1>7. OfferLabel'
  BY <1>1, <1>2, <1>4 DEF OfferLabel, OfferFrame, SameLabels
<1>8. CompareState(rlt, interval, excpID, id_cross_arr_pro, reach_flag, candidates, len, 1, Candidate)
  <2>1. len \in Nat /\ id_cross_arr_pro \in Seq(NewID)
    BY <1>2 DEF OfferFrame, LabelTypes
  <2>2. 1 \in 1 .. len + 1
    BY <2>1
  <2>3. Len(id_cross_arr_pro) \in Nat
    BY <2>1
  <2>4. \A a \in 1 .. Len(id_cross_arr_pro) : ~(a < 1)
    BY <2>3
  <2> QED
    BY <1>1, <1>5, <2>2, <2>4 DEF CompareState, ComparedTo
<1>9. CompareLabel'
  BY <1>1, <1>2, <1>5, <1>8 DEF CompareLabel, OfferFrame, SameLabels
<1> QED
  BY <1>1, <1>2, <1>3, <1>6, <1>7, <1>9, MarkedWithin DEF LabelPhase, OfferFrame

\* CandidatesEnd: the edge is done.
LEMMA CandidatesEndStep ==
    ASSUME Decoded, Indexed, Marked, CandidatesEnd
    PROVE  Marked'
<1>1. /\ pc = "candidates" /\ pc' = "label_edges" /\ candidates = {} /\ j' = j + 1 /\ i' = i
      /\ excpID' = excpID /\ id_cross_arr' = id_cross_arr /\ curID' = curID
      /\ candidates' = candidates /\ pos' = pos
      /\ id_cross_arr_pro' = id_cross_arr_pro /\ reach_flag' = reach_flag /\ len' = len
      /\ UNCHANGED layeringKept /\ UNCHANGED numberVars /\ UNCHANGED levelVars
  BY DEF CandidatesEnd, codeVars, searchVars, labelVars, offerVars
<1>2. SameLabels
  BY <1>1, SameLabelsHolds
<1>3. i \in 1 .. Len(TopoOrder) /\ LabelsAfter(i) /\ LabelTypes /\ j \in Nat
  BY <1>1, LabelFacts DEF LabelPhase
<1>4. LabelsAfter(i)'
  BY <1>1, <1>2, <1>3, LabelsAfterSame
<1>5. LabelTypes'
  BY <1>1, <1>3 DEF LabelTypes
<1>6. EdgeLabel(j + 1, Elems(id_cross_arr_pro)) /\ OfferLabel
  BY <1>1 DEF Marked, LabelInv
<1>7. OfferState(graph, root_located, oldID_mapto_newID, id_cross_arr, curID, j, id_cross_arr_pro,
                 reach_flag, {}, len)
  BY <1>1, <1>6 DEF OfferLabel
<1>8. EdgeState(graph, root_located, oldID_mapto_newID, rlt, interval, excpID, excpID_O, id_cross_arr,
                curID, j + 1, j + 1, id_cross_arr_pro, reach_flag, Elems(id_cross_arr_pro))
  BY <1>3, <1>6, <1>7, EdgeLast DEF EdgeLabel
<1>9. EdgeLabel(j, Elems(id_cross_arr_pro))'
  BY <1>1, <1>2, <1>8 DEF EdgeLabel, SameLabels
<1>10. i \in 0 .. Len(TopoOrder)
  BY <1>3
<1> QED
  BY <1>1, <1>2, <1>4, <1>5, <1>9, <1>10, MarkedWithin DEF LabelPhase

---------------------------------------------------------------------------
\* The turn of is_reachable: what it starts from.
ComparedFacts ==
    /\ EdgeLabel(j + 1, Elems(id_cross_arr_pro) \cup {Candidate}) /\ OfferLabel /\ CompareLabel
    /\ Candidate \in candidates /\ Candidate \in NewID
    /\ LabelTypes

\* The turn is that of the candidate with the accepted id at pos.
LEMMA ComparedFactsHold ==
    ASSUME Marked, pc = "is_reachable"
    PROVE  ComparedFacts
<1>1. /\ EdgeLabel(j + 1, Elems(id_cross_arr_pro) \cup {Candidate}) /\ OfferLabel /\ CompareLabel
      /\ LabelTypes
  BY DEF Marked, LabelInv
<1>2. Candidate \in candidates /\ candidates \subseteq NewID
  BY <1>1 DEF CompareLabel, CompareState, LabelTypes
<1> QED
  BY <1>1, <1>2 DEF ComparedFacts

\* One more accepted id is compared; F2 are the stamps after it.
MetNext(t, iv, exc, pro, p, c, F2) ==
    t[pro[p]] = t[c] =>
        /\ pro[p] > c => pro[p] \in F2 \/ ~SameTreeAs(iv, exc, c, pro[p])
        /\ pro[p] < c => pro[p] \in F2 \/ ~SameTreeAs(iv, exc, pro[p], c)

\* The candidate has met one id more.
LEMMA MetOne ==
    ASSUME NEW t, NEW iv, NEW exc, NEW pro \in Seq(NewID), NEW F, NEW cand, NEW m \in Nat, NEW p, NEW c,
           CompareState(t, iv, exc, pro, F, cand, m, p, c), p <= m, NEW F2, F \subseteq F2,
           MetNext(t, iv, exc, pro, p, c, F2)
    PROVE  CompareState(t, iv, exc, pro, F2, cand, m, p + 1, c)
<1>1. p \in 1 .. m + 1 /\ p + 1 \in 1 .. m + 1
  BY DEF CompareState
<1>2. ASSUME NEW a \in 1 .. Len(pro), a < p + 1, t[pro[a]] = t[c]
      PROVE  /\ pro[a] > c => pro[a] \in F2 \/ ~SameTreeAs(iv, exc, c, pro[a])
             /\ pro[a] < c => pro[a] \in F2 \/ ~SameTreeAs(iv, exc, pro[a], c)
  <2>1. a < p \/ a = p
    BY <1>1, <1>2
  <2>2. CASE a < p
    BY <1>2, <2>2 DEF CompareState, ComparedTo
  <2>3. CASE a = p
    BY <1>2, <2>3 DEF MetNext
  <2> QED
    BY <2>1, <2>2, <2>3
<1>3. ComparedTo(t, iv, exc, pro, p + 1, c, F2)
  BY <1>2 DEF ComparedTo
<1> QED
  BY <1>1, <1>3 DEF CompareState

\* A turn after which the candidate is still at hand.
LEMMA TurnNext ==
    ASSUME OfferFrame, ComparedFacts, pc = "is_reachable", pc' = "is_reachable", pos <= len, pos' = pos + 1,
           candidates' = candidates, len' = len, id_cross_arr_pro' = id_cross_arr_pro,
           NEW F2, reach_flag' = F2, reach_flag \subseteq F2, F2 \subseteq NewID,
           MetNext(rlt, interval, excpID, id_cross_arr_pro, pos, Candidate, F2),
           Stamped(graph, root_located, oldID_mapto_newID, Elems(id_cross_arr_pro) \cup {Candidate}, F2)
    PROVE  Marked'
<1>1. Candidate' = Candidate
  BY DEF Candidate
<1>2. LabelTypes'
  BY DEF OfferFrame, LabelTypes
<1>3. EdgeState(graph, root_located, oldID_mapto_newID, rlt, interval, excpID, excpID_O, id_cross_arr,
                curID, j + 1, j, id_cross_arr_pro, F2, Elems(id_cross_arr_pro) \cup {Candidate})
  BY EdgeStamps DEF ComparedFacts, EdgeLabel
<1>4. EdgeLabel(j + 1, Elems(id_cross_arr_pro) \cup {Candidate})'
  BY <1>1, <1>3 DEF EdgeLabel, OfferFrame, SameLabels
<1>5. OfferState(graph, root_located, oldID_mapto_newID, id_cross_arr, curID, j, id_cross_arr_pro,
                 F2, candidates, len)
  BY OfferMore DEF ComparedFacts, OfferLabel
<1>6. OfferLabel'
  BY <1>5 DEF OfferLabel, OfferFrame, SameLabels
<1>7. CompareState(rlt, interval, excpID, id_cross_arr_pro, F2, candidates, len, pos + 1, Candidate)
  BY MetOne DEF ComparedFacts, CompareLabel, LabelTypes
<1>8. CompareLabel'
  BY <1>1, <1>7 DEF CompareLabel, OfferFrame, SameLabels
<1> QED
  BY <1>2, <1>4, <1>6, <1>8, MarkedWithin DEF LabelPhase, OfferFrame

\* A stamped id, or one of another region, is passed over.
LEMMA IncomparableStep ==
    ASSUME Decoded, Indexed, Marked, Incomparable
    PROVE  Marked'
<1>1. /\ pc = "is_reachable" /\ pc' = "is_reachable" /\ pos <= len /\ pos' = pos + 1
      /\ candidates' = candidates /\ reach_flag' = reach_flag
      /\ id_cross_arr_pro' = id_cross_arr_pro /\ len' = len
      /\ id_cross_arr_pro[pos] \in reach_flag \/ rlt[id_cross_arr_pro[pos]] # rlt[Candidate]
  BY DEF Incomparable
<1>2. OfferFrame
  BY <1>1, OfferFrameHolds DEF Incomparable, LabelPhase
<1>3. ComparedFacts
  BY <1>1, ComparedFactsHold
<1>4. MetNext(rlt, interval, excpID, id_cross_arr_pro, pos, Candidate, reach_flag)
  BY <1>1 DEF MetNext
<1>5. Stamped(graph, root_located, oldID_mapto_newID, Elems(id_cross_arr_pro) \cup {Candidate}, reach_flag)
  BY <1>3 DEF ComparedFacts, EdgeLabel, EdgeState
<1>6. reach_flag \subseteq NewID
  BY <1>3 DEF ComparedFacts, LabelTypes
<1> QED
  BY <1>1, <1>2, <1>3, <1>4, <1>5, <1>6, TurnNext

\* An accepted id or the candidate as a vertex with a sound label.
LEMMA ListedVertex ==
    ASSUME Decoded, Indexed, Marked, pc \in LabelPhase, NEW e,
           Entry(graph, root_located, oldID_mapto_newID, curID, e)
    PROVE  \E x \in Vertex : /\ oldID_mapto_newID[x] = e
                             /\ ExceptionsSound(graph, root_located, oldID_mapto_newID, interval, excpID, x)
<1>1. /\ i \in 1 .. Len(TopoOrder) /\ curID \in Vertex /\ Sorted(graph, TopoOrder)
      /\ AtVertex(graph, TopoOrder, i, curID) /\ LabelsAfter(i)
      /\ graph \in [Vertex -> Seq(Vertex)]
  BY LabelFacts
<1>2. PICK v \in Succ(graph, curID) :
          \/ root_located[v] # root_located[curID] /\ oldID_mapto_newID[v] = e
          \/ root_located[v] = root_located[curID] /\ Entry(graph, root_located, oldID_mapto_newID, v, e)
  BY <1>1, EntryVia
<1>3. v \in After(TopoOrder, i) /\ Len(TopoOrder) \in Nat
  BY <1>1 DEF AtVertex, Sorted
<1>4. i \in 0 .. Len(TopoOrder)
  BY <1>1, <1>3
<1>5. PICK y \in After(TopoOrder, i) : oldID_mapto_newID[y] = e
  BY <1>1, <1>2, <1>3, <1>4, EntryAfter
<1>6. y \in Vertex
  BY <1>1, <1>4, AfterClosed
<1>7. ExceptionsSound(graph, root_located, oldID_mapto_newID, interval, excpID, y)
  BY <1>1 DEF LabelsAfter, Labelled
<1> QED
  BY <1>5, <1>6, <1>7

\* Every candidate is an entry point of the vertex at hand.
LEMMA CandidateEntry ==
    ASSUME Decoded, Indexed, Marked, pc \in LabelPhase, OfferLabel, NEW c \in candidates
    PROVE  Entry(graph, root_located, oldID_mapto_newID, curID, c)
<1>1. /\ i \in 1 .. Len(TopoOrder) /\ curID \in Vertex /\ Sorted(graph, TopoOrder)
      /\ AtVertex(graph, TopoOrder, i, curID) /\ LabelsAfter(i)
      /\ graph \in [Vertex -> Seq(Vertex)]
  BY LabelFacts
<1>2. j \in 1 .. Len(graph[curID])
      /\ c \in Offers(root_located, oldID_mapto_newID, id_cross_arr, curID, graph[curID][j])
  BY DEF OfferLabel, OfferState
<1>3. graph[curID][j] \in Succ(graph, curID) /\ graph[curID][j] \in After(TopoOrder, i)
  BY <1>1, <1>2, EdgeTargetIs DEF EdgeTarget
<1>4. EntriesSound(graph, root_located, oldID_mapto_newID, id_cross_arr, graph[curID][j])
  BY <1>1, <1>3 DEF LabelsAfter, Labelled
<1> QED
  BY <1>1, <1>2, <1>3, <1>4, OfferedEntry

\* What a comparison of a < b stamps is below a.
LEMMA ComparisonStamps ==
    ASSUME Decoded, Indexed, Marked, pc \in LabelPhase, NEW a,
           Entry(graph, root_located, oldID_mapto_newID, curID, a), NEW b \in NewID, a < b
    PROVE  /\ \A r \in Consulted(a, b) : r \in NewID /\ a < r /\ Way(graph, root_located, oldID_mapto_newID, a, r)
           /\ SameTree(a, b) => Way(graph, root_located, oldID_mapto_newID, a, b)
<1>1. SetUp
  BY LabelFacts
<1>2. PICK x \in Vertex : /\ oldID_mapto_newID[x] = a
                          /\ ExceptionsSound(graph, root_located, oldID_mapto_newID, interval, excpID, x)
  BY ListedVertex
<1>3. ASSUME NEW r \in Consulted(a, b)
      PROVE  r \in NewID /\ a < r /\ Way(graph, root_located, oldID_mapto_newID, a, r)
  <2>1. r \in excpID[oldID_mapto_newID[x]]
    BY <1>2 DEF Consulted
  <2>2. /\ r \in NewID /\ oldID_mapto_newID[x] < r
        /\ Way(graph, root_located, oldID_mapto_newID, oldID_mapto_newID[x], r)
    BY <1>1, <1>2, <2>1, ExceptionWay DEF SetUp
  <2> QED
    BY <1>2, <2>2
<1>4. ASSUME SameTree(a, b) PROVE Way(graph, root_located, oldID_mapto_newID, a, b)
  <2>1. SameTreeAs(interval, excpID, oldID_mapto_newID[x], b)
    BY <1>2, <1>4 DEF SameTree, SameTreeAs
  <2>2. Way(graph, root_located, oldID_mapto_newID, oldID_mapto_newID[x], b)
    BY <1>1, <1>2, <2>1, SameTreeWay DEF SetUp
  <2> QED
    BY <1>2, <2>2
<1> QED
  BY <1>3, <1>4

\* So is every accepted id, and no candidate is one of them.
LEMMA AcceptedEntry ==
    ASSUME ComparedFacts, pos <= len
    PROVE  /\ id_cross_arr_pro[pos] \in Elems(id_cross_arr_pro) /\ id_cross_arr_pro[pos] \in NewID
           /\ Entry(graph, root_located, oldID_mapto_newID, curID, id_cross_arr_pro[pos])
           /\ id_cross_arr_pro[pos] # Candidate
<1>1. /\ len \in 0 .. Len(id_cross_arr_pro) /\ pos \in 1 .. len + 1 /\ id_cross_arr_pro \in Seq(NewID)
      /\ Candidate \notin Elems(id_cross_arr_pro)
  BY DEF ComparedFacts, OfferLabel, OfferState, CompareLabel, CompareState, LabelTypes
<1>2. pos \in 1 .. Len(id_cross_arr_pro)
  BY <1>1
<1>3. id_cross_arr_pro[pos] \in Elems(id_cross_arr_pro) /\ id_cross_arr_pro[pos] \in NewID
  BY <1>1, <1>2 DEF Elems
<1> QED
  BY <1>1, <1>3 DEF ComparedFacts, EdgeLabel, EdgeState

\* CompareAbove stamps the larger accepted id when the candidate leads to it.
LEMMA CompareAboveStep ==
    ASSUME Decoded, Indexed, Marked, CompareAbove
    PROVE  Marked'
<1>1. PICK d : d = id_cross_arr_pro[pos]
  OBVIOUS
<1>2. PICK c : c = Candidate
  OBVIOUS
<1>3. PICK F2 : F2 = reach_flag \cup Consulted(c, d) \cup {x \in {d} : SameTree(c, d)}
  OBVIOUS
<1>4. /\ pc = "is_reachable" /\ pc' = "is_reachable" /\ pos <= len /\ pos' = pos + 1
      /\ candidates' = candidates /\ id_cross_arr_pro' = id_cross_arr_pro /\ len' = len
      /\ d > c /\ reach_flag' = F2
  BY <1>1, <1>2, <1>3 DEF CompareAbove
<1>5. OfferFrame
  BY <1>4, OfferFrameHolds DEF CompareAbove, LabelPhase
<1>6. ComparedFacts
  BY <1>4, ComparedFactsHold
<1>7. d \in Elems(id_cross_arr_pro) /\ d \in NewID
  BY <1>1, <1>4, <1>6, AcceptedEntry
<1>8. c \in candidates /\ c \in NewID /\ OfferLabel /\ reach_flag \subseteq NewID
  BY <1>2, <1>6 DEF ComparedFacts, LabelTypes
<1>9. pc \in LabelPhase
  BY <1>4 DEF LabelPhase
<1>10. Entry(graph, root_located, oldID_mapto_newID, curID, c)
  BY <1>8, <1>9, CandidateEntry
<1>11. c < d /\ d \in Nat /\ c \in Nat
  BY <1>4, <1>7, <1>8, NewIDNat
<1>12. /\ \A r \in Consulted(c, d) : r \in NewID /\ c < r /\ Way(graph, root_located, oldID_mapto_newID, c, r)
       /\ SameTree(c, d) => Way(graph, root_located, oldID_mapto_newID, c, d)
  BY <1>7, <1>9, <1>10, <1>11, ComparisonStamps
<1>13. \A r \in F2 : r \in reach_flag \/ (c < r /\ Way(graph, root_located, oldID_mapto_newID, c, r))
  BY <1>3, <1>11, <1>12
<1>14. Stamped(graph, root_located, oldID_mapto_newID, Elems(id_cross_arr_pro) \cup {c}, F2)
  <2>1. Stamped(graph, root_located, oldID_mapto_newID, Elems(id_cross_arr_pro) \cup {c}, reach_flag)
    BY <1>2, <1>6 DEF ComparedFacts, EdgeLabel, EdgeState
  <2> QED
    BY <1>13, <2>1, StampsMore
<1>15. MetNext(rlt, interval, excpID, id_cross_arr_pro, pos, c, F2)
  <2>1. SameTreeAs(interval, excpID, c, d) => d \in F2
    BY <1>3 DEF SameTree, SameTreeAs
  <2>2. ~(d < c)
    BY <1>11
  <2> QED
    BY <1>1, <2>1, <2>2 DEF MetNext
<1>16. reach_flag \subseteq F2 /\ F2 \subseteq NewID
  BY <1>3, <1>7, <1>8, <1>12
<1> QED
  BY <1>2, <1>4, <1>5, <1>6, <1>14, <1>15, <1>16, TurnNext

\* CompareBelow stamps the candidate when the smaller accepted id leads to it.
LEMMA CompareBelowStep ==
    ASSUME Decoded, Indexed, Marked, CompareBelow
    PROVE  Marked'
<1>1. PICK d : d = id_cross_arr_pro[pos]
  OBVIOUS
<1>2. PICK c : c = Candidate
  OBVIOUS
<1>3. PICK F2 : F2 = reach_flag \cup Consulted(d, c) \cup {x \in {c} : SameTree(d, c)}
  OBVIOUS
<1>4. /\ pc = "is_reachable" /\ pos <= len
      /\ id_cross_arr_pro' = id_cross_arr_pro /\ len' = len
      /\ d <= c /\ reach_flag' = F2
      /\ \/ /\ SameTree(d, c) /\ candidates' = candidates \ {c} /\ pc' = "candidates" /\ pos' = pos
         \/ /\ ~SameTree(d, c) /\ pos' = pos + 1 /\ pc' = pc /\ candidates' = candidates
  BY <1>1, <1>2, <1>3 DEF CompareBelow, DropCandidate
<1>5. OfferFrame
  BY <1>4, OfferFrameHolds DEF CompareBelow, LabelPhase
<1>6. ComparedFacts
  BY <1>4, ComparedFactsHold
<1>7. /\ d \in Elems(id_cross_arr_pro) /\ d \in NewID /\ d # c
      /\ Entry(graph, root_located, oldID_mapto_newID, curID, d)
  BY <1>1, <1>2, <1>4, <1>6, AcceptedEntry
<1>8. c \in candidates /\ c \in NewID /\ OfferLabel /\ reach_flag \subseteq NewID
      /\ candidates \subseteq NewID /\ len \in Nat /\ pos \in Nat
  BY <1>2, <1>6 DEF ComparedFacts, LabelTypes
<1>9. pc \in LabelPhase
  BY <1>4 DEF LabelPhase
<1>10. d < c /\ d \in Nat /\ c \in Nat
  <2>1. d \in Nat /\ c \in Nat
    BY <1>7, <1>8, NewIDNat
  <2> QED
    BY <1>4, <1>7, <2>1
<1>11. /\ \A r \in Consulted(d, c) : r \in NewID /\ d < r /\ Way(graph, root_located, oldID_mapto_newID, d, r)
       /\ SameTree(d, c) => Way(graph, root_located, oldID_mapto_newID, d, c)
  BY <1>7, <1>8, <1>9, <1>10, ComparisonStamps
<1>12. \A r \in F2 : r \in reach_flag \/ (d < r /\ Way(graph, root_located, oldID_mapto_newID, d, r))
  BY <1>3, <1>10, <1>11
<1>13. Stamped(graph, root_located, oldID_mapto_newID, Elems(id_cross_arr_pro) \cup {c}, reach_flag)
  BY <1>2, <1>6 DEF ComparedFacts, EdgeLabel, EdgeState
<1>14. reach_flag \subseteq F2 /\ F2 \subseteq NewID
  BY <1>3, <1>8, <1>11
<1>15. CASE SameTree(d, c)
  <2>1. candidates' = candidates \ {c} /\ pc' = "candidates" /\ pos' = pos
    BY <1>4, <1>15
  <2>2. Way(graph, root_located, oldID_mapto_newID, d, c) /\ Renaming(graph, oldID_mapto_newID)
    BY <1>9, <1>11, <1>15, LabelFacts
  <2>3. Stamped(graph, root_located, oldID_mapto_newID, Elems(id_cross_arr_pro), reach_flag)
    BY <1>7, <1>8, <1>10, <1>13, <2>2, StampsThrough
  <2>4. Stamped(graph, root_located, oldID_mapto_newID, Elems(id_cross_arr_pro), F2)
    BY <1>7, <1>12, <2>3, StampsMore
  <2>5. LabelTypes'
    BY <1>4, <1>5, <1>8, <1>14, <2>1 DEF OfferFrame, LabelTypes
  <2>6. EdgeState(graph, root_located, oldID_mapto_newID, rlt, interval, excpID, excpID_O, id_cross_arr,
                  curID, j + 1, j, id_cross_arr_pro, F2, Elems(id_cross_arr_pro))
    BY <1>6, <1>14, <2>4, EdgeStamps DEF ComparedFacts, EdgeLabel
  <2>7. EdgeLabel(j + 1, Elems(id_cross_arr_pro))'
    BY <1>4, <1>5, <2>6 DEF EdgeLabel, OfferFrame, SameLabels
  <2>8. c \in F2 \cup Elems(id_cross_arr_pro)
    BY <1>3, <1>15
  <2>9. OfferState(graph, root_located, oldID_mapto_newID, id_cross_arr, curID, j, id_cross_arr_pro,
                   F2, candidates', len)
    BY <1>8, <1>14, <2>1, <2>8, OfferKnown DEF OfferLabel
  <2>10. OfferLabel'
    BY <1>4, <1>5, <2>9 DEF OfferLabel, OfferFrame, SameLabels
  <2> QED
    BY <1>5, <2>1, <2>5, <2>7, <2>10, MarkedWithin DEF LabelPhase, OfferFrame
<1>16. CASE ~SameTree(d, c)
  <2>1. pos' = pos + 1 /\ pc' = "is_reachable" /\ candidates' = candidates
    BY <1>4, <1>16
  <2>2. Stamped(graph, root_located, oldID_mapto_newID, Elems(id_cross_arr_pro) \cup {c}, F2)
    BY <1>7, <1>12, <1>13, StampsMore
  <2>3. MetNext(rlt, interval, excpID, id_cross_arr_pro, pos, c, F2)
    <3>1. ~SameTreeAs(interval, excpID, d, c)
      BY <1>16 DEF SameTree, SameTreeAs
    <3>2. ~(d > c)
      BY <1>10
    <3> QED
      BY <1>1, <3>1, <3>2 DEF MetNext
  <2> QED
    BY <1>2, <1>4, <1>5, <1>6, <1>14, <2>1, <2>2, <2>3, TurnNext
<1> QED
  BY <1>15, <1>16

\* AcceptCandidate appends a candidate that met all of them.
LEMMA AcceptCandidateStep ==
    ASSUME Decoded, Indexed, Marked, AcceptCandidate
    PROVE  Marked'
<1>1. PICK c : c = Candidate
  OBVIOUS
<1>2. /\ pc = "is_reachable" /\ pc' = "candidates" /\ pos > len
      /\ id_cross_arr_pro' = Append(id_cross_arr_pro, c) /\ candidates' = candidates \ {c}
      /\ reach_flag' = reach_flag /\ len' = len /\ pos' = pos
  BY <1>1 DEF AcceptCandidate, DropCandidate
<1>3. OfferFrame
  BY <1>2, OfferFrameHolds DEF AcceptCandidate, LabelPhase
<1>4. ComparedFacts
  BY <1>2, ComparedFactsHold
<1>5. /\ c \in candidates /\ c \in NewID /\ OfferLabel /\ id_cross_arr_pro \in Seq(NewID)
      /\ len \in 0 .. Len(id_cross_arr_pro)
  BY <1>1, <1>4 DEF ComparedFacts, LabelTypes, OfferLabel, OfferState
<1>6. pc \in LabelPhase
  BY <1>2 DEF LabelPhase
<1>7. Entry(graph, root_located, oldID_mapto_newID, curID, c)
  BY <1>5, <1>6, CandidateEntry
<1>8. /\ i \in 1 .. Len(TopoOrder) /\ curID \in Vertex /\ Sorted(graph, TopoOrder)
      /\ AtVertex(graph, TopoOrder, i, curID) /\ LabelsAfter(i)
      /\ graph \in [Vertex -> Seq(Vertex)] /\ Renaming(graph, oldID_mapto_newID)
  BY <1>6, LabelFacts
<1>9. PICK v : v = graph[curID][j]
  OBVIOUS
<1>10. /\ j \in 1 .. Len(graph[curID])
       /\ c \in Offers(root_located, oldID_mapto_newID, id_cross_arr, curID, v)
       /\ \A a \in 1 .. Len(id_cross_arr_pro) :
             a > len => id_cross_arr_pro[a] \in Offers(root_located, oldID_mapto_newID, id_cross_arr, curID, v)
  BY <1>5, <1>9 DEF OfferLabel, OfferState
<1>11. v \in Vertex /\ v \in After(TopoOrder, i)
  BY <1>8, <1>9, <1>10, EdgeTargetIs DEF EdgeTarget
<1>12. Reduced(rlt, interval, excpID, id_cross_arr[oldID_mapto_newID[v]], {})
  BY <1>8, <1>11 DEF LabelsAfter, Labelled
<1>13. Offers(root_located, oldID_mapto_newID, id_cross_arr, curID, v) \subseteq Nat
  <2>1. oldID_mapto_newID[v] \in NewID
    BY <1>8, <1>11 DEF Renaming
  <2>2. id_cross_arr[oldID_mapto_newID[v]] \in SUBSET NewID
    BY <1>4, <2>1 DEF ComparedFacts, LabelTypes, IDLists
  <2> QED
    BY <2>1, <2>2, NewIDNat DEF Offers
<1>14. /\ CompareState(rlt, interval, excpID, id_cross_arr_pro, reach_flag, candidates, len, pos, c)
       /\ EdgeState(graph, root_located, oldID_mapto_newID, rlt, interval, excpID, excpID_O, id_cross_arr,
                    curID, j + 1, j, id_cross_arr_pro, reach_flag, Elems(id_cross_arr_pro) \cup {c})
       /\ Reduced(rlt, interval, excpID, Elems(id_cross_arr_pro), reach_flag)
  BY <1>1, <1>4 DEF ComparedFacts, CompareLabel, EdgeLabel, EdgeState
<1>15. Reduced(rlt, interval, excpID, Elems(id_cross_arr_pro) \cup {c}, reach_flag)
  BY <1>2, <1>5, <1>10, <1>12, <1>13, <1>14, AcceptReduced
<1>16. LabelTypes'
  <2>1. id_cross_arr_pro' \in Seq(NewID)
    BY <1>2, <1>5
  <2>2. candidates' \subseteq NewID
    BY <1>2, <1>4 DEF ComparedFacts, LabelTypes
  <2> QED
    BY <1>2, <1>3, <2>1, <2>2 DEF OfferFrame, LabelTypes
<1>17. EdgeState(graph, root_located, oldID_mapto_newID, rlt, interval, excpID, excpID_O, id_cross_arr,
                 curID, j + 1, j, id_cross_arr_pro', reach_flag, Elems(id_cross_arr_pro'))
  BY <1>2, <1>5, <1>7, <1>14, <1>15, AcceptEdge
<1>18. EdgeLabel(j + 1, Elems(id_cross_arr_pro))'
  BY <1>2, <1>3, <1>17 DEF EdgeLabel, OfferFrame, SameLabels
<1>19. OfferState(graph, root_located, oldID_mapto_newID, id_cross_arr, curID, j, id_cross_arr_pro',
                  reach_flag, candidates', len)
  BY <1>2, <1>5, AcceptOffer DEF OfferLabel
<1>20. OfferLabel'
  BY <1>2, <1>3, <1>19 DEF OfferLabel, OfferFrame, SameLabels
<1> QED
  BY <1>2, <1>3, <1>16, <1>18, <1>20, MarkedWithin DEF LabelPhase, OfferFrame

\* LabelVertexEnd stores the entry points of the vertex.
LEMMA LabelVertexEndStep ==
    ASSUME Decoded, Indexed, Marked, LabelVertexEnd
    PROVE  Marked'
<1>1. /\ pc = "label_edges" /\ pc' = "cal_excp_and_cross_arr" /\ i' = i - 1
      /\ j > Len(graph[curID])
      /\ id_cross_arr' = [id_cross_arr EXCEPT ![oldID_mapto_newID[curID]] =
                              Elems(id_cross_arr_pro) \ reach_flag]
      /\ excpID' = excpID /\ id_cross_arr_pro' = id_cross_arr_pro /\ reach_flag' = reach_flag
      /\ candidates' = candidates /\ len' = len /\ pos' = pos
      /\ UNCHANGED layeringKept /\ UNCHANGED numberVars /\ UNCHANGED levelVars
  BY DEF LabelVertexEnd, offerVars
<1>2. SameLabels
  BY <1>1, SameLabelsHolds
<1>3. /\ SetUp /\ i \in 1 .. Len(TopoOrder) /\ j \in Nat /\ curID \in Vertex
      /\ AtVertex(graph, TopoOrder, i, curID) /\ LabelsAfter(i) /\ LabelTypes
      /\ Renaming(graph, oldID_mapto_newID)
  BY <1>1, LabelFacts DEF LabelPhase
<1>4. EdgeLabel(j, Elems(id_cross_arr_pro))
  BY <1>1 DEF Marked, LabelInv
<1>5. /\ id_cross_arr \in [NewID -> SUBSET NewID] /\ oldID_mapto_newID[curID] \in NewID
      /\ id_cross_arr_pro \in Seq(NewID) /\ IDLists(excpID)
  BY <1>3 DEF LabelTypes, IDLists, Renaming
<1>6. PICK A : A = Elems(id_cross_arr_pro) \ reach_flag
  OBVIOUS
<1>7. A \in SUBSET NewID
  BY <1>5, <1>6 DEF Elems
<1>8. id_cross_arr' = [id_cross_arr EXCEPT ![oldID_mapto_newID[curID]] = A]
  BY <1>1, <1>6
<1>9. id_cross_arr' \in [NewID -> SUBSET NewID] /\ id_cross_arr'[oldID_mapto_newID[curID]] = A
  BY <1>5, <1>7, <1>8
<1>10. LabelTypes'
  BY <1>1, <1>3, <1>9 DEF LabelTypes, IDLists
<1>11. OnlyAt(oldID_mapto_newID, curID, id_cross_arr, id_cross_arr')
  <2>1. ASSUME NEW w \in Vertex, w # curID
        PROVE  id_cross_arr'[oldID_mapto_newID[w]] = id_cross_arr[oldID_mapto_newID[w]]
    <3>1. oldID_mapto_newID[w] \in NewID /\ oldID_mapto_newID[w] # oldID_mapto_newID[curID]
      BY <1>3, <2>1 DEF Renaming
    <3> QED
      BY <1>5, <1>8, <3>1
  <2> QED
    BY <2>1 DEF OnlyAt
<1>12. id_cross_arr'[oldID_mapto_newID[curID]] = Elems(id_cross_arr_pro) \ reach_flag
  BY <1>6, <1>9
<1>13. Labelled(graph, root_located, oldID_mapto_newID, rlt, interval, excpID, id_cross_arr',
                After(TopoOrder, i - 1))
  BY <1>1, <1>3, <1>4, <1>5, <1>11, <1>12, LabelledEnd DEF SetUp, LabelsAfter, EdgeLabel
<1>14. i' \in 0 .. Len(TopoOrder')
  BY <1>1, <1>2, <1>3 DEF SameLabels
<1>15. LabelInv'
  BY <1>1, <1>2, <1>13, <1>14 DEF LabelInv, SameLabels
<1> QED
  BY <1>10, <1>15 DEF Marked

\* The label of the last vertex is the last.
LEMMA LabelEndStep ==
    ASSUME Marked, LabelEnd
    PROVE  Marked'
<1>1. /\ pc = "cal_excp_and_cross_arr" /\ pc' = "ready" /\ i' = i
      /\ UNCHANGED layeringKept /\ UNCHANGED numberVars /\ UNCHANGED levelVars /\ UNCHANGED labelVars
  BY DEF LabelEnd, codeVars
<1>2. SameLabels
  BY <1>1, SameLabelsHolds
<1>3. LabelTypes'
  BY <1>1 DEF Marked, LabelTypes, labelVars, offerVars
<1>4. LabelInv'
  BY <1>1, <1>2 DEF Marked, LabelInv, Labelling, SameLabels, labelVars, offerVars
<1> QED
  BY <1>3, <1>4 DEF Marked

\* cal_index hands over to the labels.
LEMMA MarkedStart ==
    ASSUME Decoded, Marked, IndexEnd
    PROVE  Marked'
<1>1. /\ pc = "cal_index" /\ pc' = "cal_excp_and_cross_arr" /\ i' = Len(TopoOrder)
      /\ UNCHANGED layeringKept /\ UNCHANGED labelVars
  BY DEF IndexEnd, codeVars
<1>2. TopoOrder' = TopoOrder
  BY <1>1, Kept
<1>3. Sorted(graph, TopoOrder) /\ Len(TopoOrder) \in Nat
  BY <1>1, SettledFacts DEF DecodeDone, Indexing
<1>4. LabelTypes'
  BY <1>1 DEF Marked, LabelTypes, labelVars, offerVars
<1>5. After(TopoOrder', i') = {} /\ i' \in 0 .. Len(TopoOrder')
  BY <1>1, <1>2, <1>3, AfterEnds
<1>6. LabelInv'
  BY <1>1, <1>5 DEF LabelInv, Labelled
<1> QED
  BY <1>4, <1>6 DEF Marked

\* The steps before the labels are made.
LEMMA MarkedEarly ==
    ASSUME Marked, UNCHANGED labelVars, pc' \in LayerPhase \cup Walking \cup Indexing
    PROVE  Marked'
<1>1. LabelTypes'
  BY DEF Marked, LabelTypes, labelVars, offerVars
<1>2. LabelInv'
  BY DEF LabelInv, LayerPhase, Walking, CountPhase, DecodePhase, Indexing, Labelling, LabelPhase
<1> QED
  BY <1>1, <1>2 DEF Marked

\* A query changes no label.
LEMMA MarkedStill ==
    ASSUME Marked, Still
    PROVE  Marked'
<1>1. /\ graph' = graph /\ TopoOrder' = TopoOrder /\ root_located' = root_located
      /\ oldID_mapto_newID' = oldID_mapto_newID /\ excpID_O' = excpID_O /\ rlt' = rlt
      /\ interval' = interval /\ pc' = pc /\ i' = i /\ j' = j /\ curID' = curID
      /\ excpID' = excpID /\ id_cross_arr' = id_cross_arr /\ id_cross_arr_pro' = id_cross_arr_pro
      /\ reach_flag' = reach_flag /\ candidates' = candidates /\ len' = len /\ pos' = pos
  BY DEF Still, vars, scanVars, rootVars, codeVars, searchVars, numberVars, levelVars, labelVars,
         offerVars
<1>2. LabelTypes'
  BY <1>1 DEF Marked, LabelTypes
<1>3. LabelInv'
  BY <1>1 DEF Marked, LabelInv, EdgeLabel, OfferLabel, CompareLabel, Candidate
<1> QED
  BY <1>2, <1>3 DEF Marked

\* Before the labels nothing is claimed of them.
LEMMA MarkedInit == QueryInit => Marked
<1> SUFFICES ASSUME QueryInit PROVE Marked
  OBVIOUS
<1>1. /\ pc = "roots" /\ excpID = [n \in NewID |-> {}] /\ id_cross_arr = [n \in NewID |-> {}]
      /\ id_cross_arr_pro = <<>> /\ reach_flag = {} /\ candidates = {}
      /\ len = 0 /\ pos = 0
  BY DEF QueryInit, CodeInit, Init
<1>2. LabelTypes
  <2>1. <<>> \in Seq(NewID)
    OBVIOUS
  <2> QED
    BY <1>1, <2>1 DEF LabelTypes, IDLists
<1>3. LabelInv
  BY <1>1 DEF LabelInv, Labelling, LabelPhase
<1> QED
  BY <1>2, <1>3 DEF Marked

\* The steps together.
LEMMA MarkedNext == Decoded /\ Decoded' /\ Indexed /\ Marked /\ [QueryNext]_queryVars => Marked'
<1> SUFFICES ASSUME Decoded, Decoded', Indexed, Marked, [QueryNext]_queryVars PROVE Marked'
  OBVIOUS
<1>1. CASE Next /\ UNCHANGED codeVars
  <2>1. pc \in LayerPhase
    BY <1>1 DEF Next, ReadRoots, PreEdge, PreVertex, PreBatch, PreEnd, LayerStart,
         LayerRoot, CrossStart, CrossEdge, CrossVertex, CrossBatch, CrossEnd,
         LayersEnd, LayerPhase
  <2>2. TypeInv
    BY <2>1 DEF Decoded, LayerPart
  <2>3. TypeInv'
    BY <1>1, <2>2, TypeInvNext
  <2>4. pc' \in LayerPhase
    BY <2>3 DEF TypeInv, TypeOK, LoopTypes, LayerPhase
  <2> QED
    BY <1>1, <2>4, MarkedEarly DEF codeVars
<1>2. CASE \/ CodeStart \/ NextRoot \/ CountVertex \/ CountEdge \/ CountVertexEnd \/ CountEnd
           \/ DecodeVertex \/ DecodeEdge \/ DecodeVertexEnd \/ DecodeEnd \/ IndexVertex
  <2>1. UNCHANGED labelVars /\ pc' \in Walking \cup Indexing
    BY <1>2 DEF CodeStart, NextRoot, CountVertex, CountEdge, CountVertexEnd, CountEnd, DecodeVertex,
                DecodeEdge, DecodeVertexEnd, DecodeEnd, IndexVertex, codeVars, Walking, CountPhase,
                DecodePhase, Indexing
  <2> QED
    BY <2>1, MarkedEarly
<1>3. CASE (\E x, y \in Vertex : Query(x, y)) \/ UNCHANGED queryVars
  <2>1. Still
    BY <1>3 DEF Query, queryVars, Still
  <2> QED
    BY <2>1, MarkedStill
<1> QED
  BY <1>1, <1>2, <1>3, MarkedStart, LabelVertexStep, LabelEdgeStep, KnownCandidateStep,
     OfferCandidateStep, CandidatesEndStep, IncomparableStep, CompareAboveStep, CompareBelowStep,
     AcceptCandidateStep, LabelVertexEndStep, LabelEndStep DEF QueryNext, CodeNext

---------------------------------------------------------------------------
\* What construct_index has established so far, at every step.
Constructed == Decoded /\ Indexed /\ Marked

\* The three parts are kept together.
LEMMA ConstructedInvariance == QuerySpec => []Constructed
<1>1. QueryInit => Constructed
  BY DecodedInit, IndexedInit, MarkedInit DEF Constructed
<1>2. Constructed /\ [QueryNext]_queryVars => Constructed'
  <2> SUFFICES ASSUME Constructed, [QueryNext]_queryVars PROVE Constructed'
    OBVIOUS
  <2>1. Decoded /\ Indexed /\ Marked
    BY DEF Constructed
  <2>2. Decoded'
    BY <2>1, DecodedNext
  <2>3. Indexed'
    BY <2>1, <2>2, IndexedNext
  <2>4. Marked'
    BY <2>1, <2>2, MarkedNext
  <2> QED
    BY <2>2, <2>3, <2>4 DEF Constructed
<1> QED
  BY <1>1, <1>2, PTL DEF QuerySpec

---------------------------------------------------------------------------
(***************************************************************************)
(* Queries.                                                                *)
(***************************************************************************)
\* What process finds.
Ready ==
    /\ SetUp /\ Laid /\ Coded /\ LabelTypes
    /\ Labelled(graph, root_located, oldID_mapto_newID, rlt, interval, excpID, id_cross_arr, Vertex)
    /\ Heights(graph, Lup, Vertex, Len(TopoOrder))
    /\ graph \in [Vertex -> Seq(Vertex)] /\ Renaming(graph, oldID_mapto_newID)
    /\ Len(TopoOrder) \in Nat

\* When the index is ready process finds all of it.
LEMMA ReadyHolds ==
    ASSUME Constructed, pc = "ready"
    PROVE  Ready
<1>1. Decoded /\ Indexed /\ Marked
  BY DEF Constructed
<1>2. SetUp /\ Len(TopoOrder) \in Nat /\ graph \in [Vertex -> Seq(Vertex)] /\ Laid /\ Coded
  BY <1>1, SetUpHolds
<1>3. Sorted(graph, TopoOrder) /\ Renaming(graph, oldID_mapto_newID)
  BY <1>2 DEF SetUp, Setting
<1>4. i = 0 /\ LabelTypes
  BY <1>1 DEF Decoded, PlacePart, Marked
<1>5. Labelled(graph, root_located, oldID_mapto_newID, rlt, interval, excpID, id_cross_arr,
               After(TopoOrder, i))
  BY <1>1 DEF Marked, LabelInv
<1>6. After(TopoOrder, 0) = Vertex
  BY <1>3, AfterEnds
<1>7. Heights(graph, Lup, Vertex, Len(TopoOrder))
  BY <1>1 DEF Indexed, IndexInv
<1> QED
  BY <1>2, <1>3, <1>4, <1>5, <1>6, <1>7 DEF Ready

\* Within a region, what is reached is reached without leaving it.
LEMMA WithinExact ==
    ASSUME Ready, NEW u \in Vertex, NEW v \in Vertex
    PROVE  Within(graph, root_located, u, v)
               <=> root_located[v] = root_located[u] /\ Reachable(graph, u, v)
<1>0. graph \in [Vertex -> Seq(Vertex)]
  BY DEF Ready
<1>1. ASSUME Within(graph, root_located, u, v)
      PROVE  root_located[v] = root_located[u] /\ Reachable(graph, u, v)
  BY <1>0, <1>1, WithinRegion, WithinReach
<1>2. ASSUME root_located[v] = root_located[u], Reachable(graph, u, v)
      PROVE  Within(graph, root_located, u, v)
  <2>1. \/ Within(graph, root_located, u, v)
        \/ root_layer[root_located[u] - 1] < root_layer[root_located[v] - 1]
    BY <1>2, ReachWithin DEF Ready, Laid
  <2>2. root_layer[root_located[u] - 1] \in Nat
    <3>1. root_located[u] - 1 \in Vertex
      BY RegionRoot, LaidTypes DEF Ready, Laid
    <3> QED
      BY <3>1, LaidTypes DEF Ready, Laid
  <2>3. ~(root_layer[root_located[u] - 1] < root_layer[root_located[v] - 1])
    BY <1>2, <2>2
  <2> QED
    BY <2>1, <2>3
<1> QED
  BY <1>1, <1>2

\* The interval and the exceptions of u hold what u reaches in its region.
LEMMA CoveredExact ==
    ASSUME Ready, NEW u \in Vertex
    PROVE  Covered(oldID_mapto_newID[u]) =
               {oldID_mapto_newID[v] : v \in
                   {v \in Vertex : root_located[v] = root_located[u] /\ Reachable(graph, u, v)}}
<1> DEFINE n == oldID_mapto_newID[u]
<1>1. /\ SetUp /\ Renaming(graph, oldID_mapto_newID) /\ graph \in [Vertex -> Seq(Vertex)]
      /\ ExceptionsSound(graph, root_located, oldID_mapto_newID, interval, excpID, u)
      /\ ExceptionsComplete(graph, root_located, oldID_mapto_newID, interval, excpID, u)
  BY DEF Ready, Labelled
<1>2. ASSUME NEW k, k \in Covered(n)
      PROVE  \E v \in Vertex : oldID_mapto_newID[v] = k /\ Within(graph, root_located, u, v)
  <2>1. PICK e \in excpID[n] \cup {n} : k \in e .. interval[e]
    BY <1>2 DEF Covered
  <2>2. PICK z \in Vertex : oldID_mapto_newID[z] = e /\ Within(graph, root_located, u, z)
    <3>1. CASE e \in excpID[n]
      BY <1>1, <3>1 DEF ExceptionsSound, Inside
    <3>2. CASE e = n
      BY <3>2, WithinSelf
    <3> QED
      BY <2>1, <3>1, <3>2
  <2>3. e \in NewID /\ e \in Nat /\ interval[e] \in Nat /\ interval[e] <= maxID + 1
    BY <1>1, <2>2, SpanIs DEF SetUp
  <2>4. e >= 1 /\ maxID + 1 \in Nat
    BY <2>3, MaxIDAssumption DEF NewID
  <2>5. k \in Nat /\ e <= k /\ k <= interval[e]
    BY <2>1, <2>3
  <2>6. k \in NewID
    BY <2>3, <2>4, <2>5 DEF NewID
  <2>7. PICK v \in Vertex : oldID_mapto_newID[v] = k
    BY <1>1, <2>6, Named
  <2>8. Within(graph, root_located, z, v)
    BY <1>1, <2>2, <2>5, <2>7, SpanIs DEF SetUp
  <2>9. Within(graph, root_located, u, v)
    BY <1>1, <2>2, <2>8, WithinTrans
  <2> QED
    BY <2>7, <2>9
<1>3. ASSUME NEW v \in Vertex, Within(graph, root_located, u, v)
      PROVE  oldID_mapto_newID[v] \in Covered(n)
  <2>1. Covers(interval, excpID, n, oldID_mapto_newID[v])
    BY <1>1, <1>3 DEF ExceptionsComplete
  <2>2. PICK e \in excpID[n] \cup {n} : e <= oldID_mapto_newID[v] /\ oldID_mapto_newID[v] <= interval[e]
    BY <2>1 DEF Covers
  <2>3. e \in NewID /\ interval[e] \in 0 .. maxID + 1 /\ oldID_mapto_newID[v] \in Nat
    <3>1. n \in NewID /\ oldID_mapto_newID[v] \in Nat
      BY <1>1, SpanIs DEF SetUp
    <3>2. e \in NewID
      BY <2>2, <3>1 DEF Ready, LabelTypes, IDLists
    <3> QED
      BY <1>1, <3>1, <3>2 DEF SetUp, Setting, IvType
  <2>4. e \in Nat /\ interval[e] \in Nat
    BY <2>3, NewIDNat, MaxIDAssumption
  <2>5. oldID_mapto_newID[v] \in e .. interval[e]
    BY <2>2, <2>3, <2>4
  <2> QED
    BY <2>2, <2>5 DEF Covered
<1>4. \A v \in Vertex : Within(graph, root_located, u, v)
          <=> root_located[v] = root_located[u] /\ Reachable(graph, u, v)
  BY WithinExact
<1> QED
  BY <1>2, <1>3, <1>4

\* What the runs check of the intervals and of the entry points follows.
LEMMA IntervalsHold ==
    ASSUME Constructed
    PROVE  IntervalsExact /\ LabelsReduced
<1>1. SUFFICES ASSUME Built PROVE IntervalsExact /\ LabelsReduced
  BY DEF IntervalsExact, LabelsReduced
<1>2. Ready
  BY <1>1, ReadyHolds DEF Built
<1>3. IntervalsExact
  <2>1. SUFFICES ASSUME NEW u \in Vertex
        PROVE  /\ Covered(oldID_mapto_newID[u]) = {oldID_mapto_newID[v] : v \in
                      {v \in Vertex : /\ root_located[v] = root_located[u]
                                      /\ Reachable(graph, u, v)}}
               /\ \A e \in excpID[oldID_mapto_newID[u]] :
                     interval[e] > interval[oldID_mapto_newID[u]]
    BY DEF IntervalsExact
  <2>2. ExceptionsSound(graph, root_located, oldID_mapto_newID, interval, excpID, u)
    BY <1>2 DEF Ready, Labelled
  <2> QED
    BY <1>2, <2>2, CoveredExact DEF ExceptionsSound
<1>4. LabelsReduced
  <2>1. SUFFICES ASSUME NEW n \in NewID, NEW a \in id_cross_arr[n], NEW b \in id_cross_arr[n],
                        a < b, rlt[a] = rlt[b]
                 PROVE  ~SameTree(a, b)
    BY DEF LabelsReduced
  <2>2. PICK u \in Vertex : oldID_mapto_newID[u] = n
    BY <1>2, Named DEF Ready
  <2>3. Reduced(rlt, interval, excpID, id_cross_arr[n], {})
    BY <1>2, <2>2 DEF Ready, Labelled
  <2> QED
    BY <2>1, <2>3 DEF Reduced, SameTree, SameTreeAs
<1> QED
  BY <1>3, <1>4

---------------------------------------------------------------------------
\* The new id of a vertex has the layer of its region.
LEMMA NumberedLayer ==
    ASSUME Ready, NEW v \in Vertex
    PROVE  /\ rl[oldID_mapto_newID[v]] = LayerOf(v) /\ LayerOf(v) \in Nat
           /\ rlt[oldID_mapto_newID[v]] = root_located[v]
<1>1. rl[oldID_mapto_newID[v]] = LayerOf(v) /\ rlt[oldID_mapto_newID[v]] = root_located[v]
  BY DEF Ready, Coded, CodedAs, LayerOf
<1>2. root_located[v] - 1 \in Vertex
  BY RegionRoot, LaidTypes DEF Ready, Laid
<1>3. LayerOf(v) \in Nat
  BY <1>2, LaidTypes DEF Ready, Laid, LayerOf
<1> QED
  BY <1>1, <1>3

\* A path raises the number, and passes the two level tests of process.
LEMMA PathFacts ==
    ASSUME Ready, NEW x \in Vertex, NEW y \in Vertex, Reachable(graph, x, y)
    PROVE  /\ oldID_mapto_newID[x] <= oldID_mapto_newID[y]
           /\ x # y => Ldown[x] < Ldown[y] /\ Lup[x] > Lup[y]
           /\ Within(graph, root_located, x, y) \/ LayerOf(x) < LayerOf(y)
<1>1. oldID_mapto_newID \in [Vertex -> Nat]
  <2>1. oldID_mapto_newID \in [Vertex -> NewID]
    BY DEF Ready, Renaming
  <2> QED
    BY <2>1, NewIDNat
<1>2. x = y \/ oldID_mapto_newID[x] < oldID_mapto_newID[y]
  <2>1. \A u \in Vertex : \A v \in Succ(graph, u) : oldID_mapto_newID[u] < oldID_mapto_newID[v]
    BY DEF Ready, Renaming
  <2> QED
    BY <1>1, <2>1, ReachGrows
<1>3. oldID_mapto_newID[x] <= oldID_mapto_newID[y]
  BY <1>1, <1>2
<1>4. x = y \/ Ldown[x] < Ldown[y]
  <2>1. Ldown \in [Vertex -> Nat] /\ \A u \in Vertex : \A v \in Succ(graph, u) : Ldown[u] < Ldown[v]
    BY DEF Ready, Laid, LaidOut
  <2> QED
    BY <2>1, ReachGrows
<1>5. x = y \/ Lup[x] > Lup[y]
  <2>1. PICK f : f = [v \in Vertex |-> Len(TopoOrder) - Lup[v]]
    OBVIOUS
  <2>2. /\ Len(TopoOrder) \in Nat
        /\ \A u \in Vertex : Lup[u] \in 0 .. Len(TopoOrder) /\ \A v \in Succ(graph, u) : Lup[u] > Lup[v]
    BY DEF Ready, Heights
  <2>3. \A u \in Vertex : Lup[u] \in Nat /\ f[u] = Len(TopoOrder) - Lup[u] /\ f[u] \in Nat
    BY <2>1, <2>2
  <2>4. f \in [Vertex -> Nat]
    BY <2>1, <2>3
  <2>5. ASSUME NEW u \in Vertex, NEW v \in Succ(graph, u) PROVE f[u] < f[v]
    <3>1. v \in Vertex
      BY SuccVertex DEF Ready
    <3> QED
      BY <2>2, <2>3, <3>1
  <2>6. x = y \/ f[x] < f[y]
    BY <2>4, <2>5, ReachGrows
  <2> QED
    BY <2>2, <2>3, <2>6
<1>6. Within(graph, root_located, x, y) \/ LayerOf(x) < LayerOf(y)
  BY ReachWithin DEF Ready, Laid, LayerOf
<1> QED
  BY <1>3, <1>4, <1>5, <1>6

\* same_layer_tree_reach
LEMMA SameLayerExact ==
    ASSUME Ready, NEW x \in Vertex, NEW y \in Vertex, ~(LayerOf(x) < LayerOf(y)),
           oldID_mapto_newID[x] <= oldID_mapto_newID[y]
    PROVE  SameLayerTreeReach(oldID_mapto_newID[x], oldID_mapto_newID[y]) <=> Reachable(graph, x, y)
<1>1. /\ SetUp /\ IDLists(excpID) /\ graph \in [Vertex -> Seq(Vertex)]
      /\ ExceptionsSound(graph, root_located, oldID_mapto_newID, interval, excpID, x)
      /\ ExceptionsComplete(graph, root_located, oldID_mapto_newID, interval, excpID, x)
  BY DEF Ready, Labelled, LabelTypes
<1>2. ASSUME SameLayerTreeReach(oldID_mapto_newID[x], oldID_mapto_newID[y])
      PROVE  Reachable(graph, x, y)
  <2>1. SameTreeAs(interval, excpID, oldID_mapto_newID[x], oldID_mapto_newID[y])
    BY <1>2 DEF SameLayerTreeReach, SameTree, SameTreeAs
  <2>2. Within(graph, root_located, x, y)
    BY <1>1, <2>1, SameTreeSound DEF SetUp
  <2> QED
    BY <1>1, <2>2, WithinReach
<1>3. ASSUME Reachable(graph, x, y)
      PROVE  SameLayerTreeReach(oldID_mapto_newID[x], oldID_mapto_newID[y])
  <2>1. Within(graph, root_located, x, y)
    BY <1>3, PathFacts
  <2>2. SameTreeAs(interval, excpID, oldID_mapto_newID[x], oldID_mapto_newID[y])
    BY <1>1, <2>1, SameTreeComplete DEF SetUp
  <2>3. rlt[oldID_mapto_newID[x]] = rlt[oldID_mapto_newID[y]]
    BY <2>1, WithinRegion, NumberedLayer
  <2> QED
    BY <2>2, <2>3 DEF SameLayerTreeReach, SameTree, SameTreeAs
<1> QED
  BY <1>2, <1>3

---------------------------------------------------------------------------
(***************************************************************************)
(* down_layer_to_up_layer_without_cross_located.                           *)
(***************************************************************************)
\* The search for b, as a map from the vertex it has come to.
IsDown(b, f) ==
    f = [a \in NewID |->
            \E e \in id_cross_arr[a] :
                /\ e <= b
                /\ IF rl[e] < rl[b] THEN f[e] ELSE SameLayerTreeReach(e, b)]

\* down_layer_to_up_layer_without_cross_located is that map.
LEMMA DownIs ==
    ASSUME NEW a, NEW b
    PROVE  DownLayer(a, b) = (CHOOSE f : IsDown(b, f))[a]
BY DEF DownLayer, IsDown

\* e and b name vertices, the second reached from the first.
Leads(e, b) == \E z, y \in Vertex : oldID_mapto_newID[z] = e /\ oldID_mapto_newID[y] = b
                                    /\ Reachable(graph, z, y)

\* For names of vertices this is reachability.
LEMMA LeadsIs ==
    ASSUME Ready, NEW x \in Vertex, NEW y \in Vertex
    PROVE  Leads(oldID_mapto_newID[x], oldID_mapto_newID[y]) <=> Reachable(graph, x, y)
<1>1. \A u, v \in Vertex : oldID_mapto_newID[u] = oldID_mapto_newID[v] => u = v
  BY DEF Ready, Renaming
<1> QED
  BY <1>1 DEF Leads

\* One entry point of the search.
Through(e, b) == e <= b /\ IF rl[e] < rl[b] THEN Leads(e, b) ELSE SameLayerTreeReach(e, b)

\* An entry point leads to b exactly when its vertex reaches that of b.
LEMMA ThroughReach ==
    ASSUME Ready, NEW z \in Vertex, NEW y \in Vertex
    PROVE  Through(oldID_mapto_newID[z], oldID_mapto_newID[y]) <=> Reachable(graph, z, y)
<1>1. /\ rl[oldID_mapto_newID[z]] = LayerOf(z) /\ rl[oldID_mapto_newID[y]] = LayerOf(y)
  BY NumberedLayer
<1>2. Leads(oldID_mapto_newID[z], oldID_mapto_newID[y]) <=> Reachable(graph, z, y)
  BY LeadsIs
<1>3. Reachable(graph, z, y) => oldID_mapto_newID[z] <= oldID_mapto_newID[y]
  BY PathFacts
<1>4. CASE LayerOf(z) < LayerOf(y)
  BY <1>1, <1>2, <1>3, <1>4 DEF Through
<1>5. CASE ~(LayerOf(z) < LayerOf(y))
  <2>1. oldID_mapto_newID[z] <= oldID_mapto_newID[y] =>
           (SameLayerTreeReach(oldID_mapto_newID[z], oldID_mapto_newID[y]) <=> Reachable(graph, z, y))
    BY <1>5, SameLayerExact
  <2> QED
    BY <1>1, <1>3, <1>5, <2>1 DEF Through
<1> QED
  BY <1>4, <1>5

\* From a lower layer, y is reached through an entry point kept.
LEMMA EntryExact ==
    ASSUME Ready, NEW x \in Vertex, NEW y \in Vertex, LayerOf(x) < LayerOf(y)
    PROVE  (\E e \in id_cross_arr[oldID_mapto_newID[x]] : Through(e, oldID_mapto_newID[y]))
               <=> Reachable(graph, x, y)
<1>0. /\ graph \in [Vertex -> Seq(Vertex)] /\ Renaming(graph, oldID_mapto_newID)
      /\ oldID_mapto_newID \in [Vertex -> NewID]
      /\ EntriesSound(graph, root_located, oldID_mapto_newID, id_cross_arr, x)
      /\ EntriesComplete(graph, root_located, oldID_mapto_newID, id_cross_arr, x)
  BY DEF Ready, Labelled, Renaming
<1>1. ASSUME NEW e \in id_cross_arr[oldID_mapto_newID[x]], Through(e, oldID_mapto_newID[y])
      PROVE  Reachable(graph, x, y)
  <2>1. Entry(graph, root_located, oldID_mapto_newID, x, e)
    BY <1>0 DEF EntriesSound
  <2>2. PICK u, z \in Vertex : /\ Within(graph, root_located, x, u) /\ z \in Succ(graph, u)
                               /\ oldID_mapto_newID[z] = e
    BY <2>1 DEF Entry
  <2>20. Reachable(graph, x, z)
    BY <1>0, <2>2, WithinReach, ReachStep
  <2>3. Reachable(graph, z, y)
    BY <1>1, <2>2, ThroughReach
  <2> QED
    BY <2>20, <2>3, ReachTrans
<1>2. ASSUME Reachable(graph, x, y)
      PROVE  \E e \in id_cross_arr[oldID_mapto_newID[x]] : Through(e, oldID_mapto_newID[y])
  <2>1. root_located[y] # root_located[x]
    <3>1. LayerOf(x) \in Nat
      BY NumberedLayer
    <3> QED
      BY <3>1 DEF LayerOf
  <2>2. PICK z \in Vertex : /\ Entry(graph, root_located, oldID_mapto_newID, x, oldID_mapto_newID[z])
                            /\ Reachable(graph, z, y)
    BY <1>0, <1>2, <2>1, ReachLeaves
  <2>3. oldID_mapto_newID[z] \in NewID
    BY <1>0
  <2>4. Dominated(graph, root_located, oldID_mapto_newID, id_cross_arr[oldID_mapto_newID[x]],
                  oldID_mapto_newID[z])
    BY <1>0, <2>2, <2>3 DEF EntriesComplete
  <2>5. PICK d \in id_cross_arr[oldID_mapto_newID[x]] :
            Way(graph, root_located, oldID_mapto_newID, d, oldID_mapto_newID[z])
    BY <2>4 DEF Dominated
  <2>6. PICK w, v \in Vertex : /\ oldID_mapto_newID[w] = d /\ oldID_mapto_newID[v] = oldID_mapto_newID[z]
                               /\ Within(graph, root_located, w, v)
    BY <2>5 DEF Way
  <2>7. v = z
    BY <1>0, <2>6 DEF Renaming
  <2>8. Reachable(graph, w, z)
    BY <1>0, <2>6, <2>7, WithinReach
  <2>9. Reachable(graph, w, y)
    BY <2>2, <2>8, ReachTrans
  <2>10. Through(oldID_mapto_newID[w], oldID_mapto_newID[y])
    BY <2>9, ThroughReach
  <2> QED
    BY <2>6, <2>10
<1> QED
  BY <1>1, <1>2

\* The entry points kept for a vertex are larger than it.
LEMMA EntryLarger ==
    ASSUME Ready, NEW a \in NewID, NEW e \in id_cross_arr[a]
    PROVE  e \in NewID /\ a < e
<1>1. Renaming(graph, oldID_mapto_newID)
  BY DEF Ready
<1>2. PICK u \in Vertex : oldID_mapto_newID[u] = a
  BY <1>1, Named
<1>3. Entry(graph, root_located, oldID_mapto_newID, u, e)
  BY <1>2 DEF Ready, Labelled, EntriesSound
<1> QED
  BY <1>1, <1>2, <1>3, EntryVertex

\* The search is defined: its map exists ...
LEMMA DownExists ==
    ASSUME Ready, NEW y \in Vertex
    PROVE  \E f : IsDown(oldID_mapto_newID[y], f)
<1>1. PICK b : b = oldID_mapto_newID[y]
  OBVIOUS
<1>2. PICK f : f = [a \in NewID |-> \E e \in id_cross_arr[a] : Through(e, b)]
  OBVIOUS
<1>3. \A a \in NewID : f[a] = (\E e \in id_cross_arr[a] : Through(e, b))
  BY <1>2
<1>4. ASSUME NEW e \in NewID, rl[e] < rl[b] PROVE f[e] <=> Leads(e, b)
  <2>1. PICK z \in Vertex : oldID_mapto_newID[z] = e
    BY Named DEF Ready
  <2>2. LayerOf(z) < LayerOf(y)
    BY <1>1, <1>4, <2>1, NumberedLayer
  <2>3. (\E d \in id_cross_arr[e] : Through(d, b)) <=> Reachable(graph, z, y)
    BY <1>1, <2>1, <2>2, EntryExact
  <2>4. Leads(e, b) <=> Reachable(graph, z, y)
    BY <1>1, <2>1, LeadsIs
  <2> QED
    BY <1>3, <2>3, <2>4
<1>5. ASSUME NEW a \in NewID
      PROVE  (\E e \in id_cross_arr[a] : Through(e, b)) <=>
             \E e \in id_cross_arr[a] :
                 e <= b /\ IF rl[e] < rl[b] THEN f[e] ELSE SameLayerTreeReach(e, b)
  <2>1. ASSUME NEW e \in id_cross_arr[a]
        PROVE  Through(e, b) <=>
                   e <= b /\ IF rl[e] < rl[b] THEN f[e] ELSE SameLayerTreeReach(e, b)
    <3>1. e \in NewID
      BY EntryLarger
    <3>2. CASE rl[e] < rl[b]
      BY <1>4, <3>1, <3>2 DEF Through
    <3>3. CASE ~(rl[e] < rl[b])
      BY <3>3 DEF Through
    <3> QED
      BY <3>2, <3>3
  <2> QED
    BY <2>1
<1>6. IsDown(b, f)
  BY <1>2, <1>5 DEF IsDown
<1> QED
  BY <1>1, <1>6

\* ... and says what is reached.
LEMMA DownSound ==
    ASSUME Ready, NEW y \in Vertex, NEW f, IsDown(oldID_mapto_newID[y], f), NEW x \in Vertex,
           LayerOf(x) < LayerOf(y)
    PROVE  f[oldID_mapto_newID[x]] <=> Reachable(graph, x, y)
<1>1. PICK b : b = oldID_mapto_newID[y]
  OBVIOUS
<1>2. Renaming(graph, oldID_mapto_newID) /\ oldID_mapto_newID \in [Vertex -> Nat]
      /\ oldID_mapto_newID \in [Vertex -> NewID]
  BY NewIDNat DEF Ready, Renaming
<1>3. PICK T : T = {v \in Vertex : LayerOf(v) < LayerOf(y) /\
                       ~(f[oldID_mapto_newID[v]] <=> Reachable(graph, v, y))}
  OBVIOUS
<1>4. SUFFICES ASSUME T # {} PROVE FALSE
  BY <1>3
<1>5. T \in SUBSET Vertex /\ \A v \in T : oldID_mapto_newID[v] <= maxID + 1
  BY <1>2, <1>3, MaxIDAssumption DEF NewID
<1>6. PICK u \in T : \A v \in T : oldID_mapto_newID[v] <= oldID_mapto_newID[u]
  <2>1. maxID + 1 \in Nat
    BY MaxIDAssumption
  <2> QED
    BY <1>2, <1>4, <1>5, <2>1, Most
<1>7. u \in Vertex /\ LayerOf(u) < LayerOf(y) /\ ~(f[oldID_mapto_newID[u]] <=> Reachable(graph, u, y))
  BY <1>3
<1>8. PICK a : a = oldID_mapto_newID[u]
  OBVIOUS
<1>9. a \in NewID /\ a \in Nat
  BY <1>2, <1>7, <1>8
<1>10. f[a] = \E e \in id_cross_arr[a] :
                  e <= b /\ IF rl[e] < rl[b] THEN f[e] ELSE SameLayerTreeReach(e, b)
  BY <1>1, <1>9 DEF IsDown
<1>11. ASSUME NEW e \in id_cross_arr[a]
       PROVE  Through(e, b) <=>
                  e <= b /\ IF rl[e] < rl[b] THEN f[e] ELSE SameLayerTreeReach(e, b)
  <2>1. e \in NewID /\ a < e /\ e \in Nat
    BY <1>9, EntryLarger, NewIDNat
  <2>2. PICK z \in Vertex : oldID_mapto_newID[z] = e
    BY <1>2, <2>1, Named
  <2>3. z \notin T
    BY <1>6, <1>8, <1>9, <2>1, <2>2
  <2>4. CASE rl[e] < rl[b]
    <3>1. LayerOf(z) < LayerOf(y)
      BY <1>1, <2>2, <2>4, NumberedLayer
    <3>2. f[e] <=> Reachable(graph, z, y)
      BY <1>3, <2>2, <2>3, <3>1
    <3>3. Leads(e, b) <=> Reachable(graph, z, y)
      BY <1>1, <2>2, LeadsIs
    <3> QED
      BY <2>4, <3>2, <3>3 DEF Through
  <2>5. CASE ~(rl[e] < rl[b])
    BY <2>5 DEF Through
  <2> QED
    BY <2>4, <2>5
<1>12. f[a] <=> \E e \in id_cross_arr[a] : Through(e, b)
  BY <1>10, <1>11
<1>13. (\E e \in id_cross_arr[a] : Through(e, b)) <=> Reachable(graph, u, y)
  BY <1>1, <1>7, <1>8, EntryExact
<1> QED
  BY <1>7, <1>8, <1>12, <1>13

\* So the search from a lower layer is exact.
LEMMA DownLayerExact ==
    ASSUME Ready, NEW x \in Vertex, NEW y \in Vertex, LayerOf(x) < LayerOf(y)
    PROVE  DownLayer(oldID_mapto_newID[x], oldID_mapto_newID[y]) <=> Reachable(graph, x, y)
<1>1. PICK f : f = CHOOSE h : IsDown(oldID_mapto_newID[y], h)
  OBVIOUS
<1>2. IsDown(oldID_mapto_newID[y], f)
  BY <1>1, DownExists
<1>3. f[oldID_mapto_newID[x]] <=> Reachable(graph, x, y)
  BY <1>2, DownSound
<1> QED
  BY <1>1, <1>3, DownIs

\* process answers every pair of vertices exactly.
LEMMA AnswerExact ==
    ASSUME Ready, NEW x \in Vertex, NEW y \in Vertex
    PROVE  Answer(x, y) <=> Reachable(graph, x, y)
<1>1. rl[oldID_mapto_newID[x]] = LayerOf(x) /\ rl[oldID_mapto_newID[y]] = LayerOf(y)
  BY NumberedLayer
<1>2. oldID_mapto_newID[x] <= oldID_mapto_newID[y] =>
          (Lookup(oldID_mapto_newID[x], oldID_mapto_newID[y]) <=> Reachable(graph, x, y))
  <2>1. CASE LayerOf(x) < LayerOf(y)
    BY <1>1, <2>1, DownLayerExact DEF Lookup
  <2>2. CASE ~(LayerOf(x) < LayerOf(y))
    BY <1>1, <2>2, SameLayerExact DEF Lookup
  <2> QED
    BY <2>1, <2>2
<1>3. Reachable(graph, x, y) =>
          /\ oldID_mapto_newID[x] <= oldID_mapto_newID[y]
          /\ x # y => Ldown[x] < Ldown[y] /\ Lup[x] > Lup[y]
  BY PathFacts
<1>4. CASE x = y
  BY <1>4, ReachSelf DEF Answer
<1>5. CASE x # y
  BY <1>2, <1>3, <1>5 DEF Answer
<1> QED
  BY <1>4, <1>5

---------------------------------------------------------------------------
\* A query is asked when the index is ready, and nothing happens after it.
Answered ==
    /\ answer \in {<<>>} \cup (Vertex \X Vertex \X BOOLEAN)
    /\ answer # <<>> =>
          pc = "ready" /\ (answer[3] <=> Reachable(graph, answer[1], answer[2]))

\* Every query is answered so.
LEMMA AnsweredNext == Constructed /\ Answered /\ [QueryNext]_queryVars => Answered'
<1> SUFFICES ASSUME Constructed, Answered, [QueryNext]_queryVars PROVE Answered'
  OBVIOUS
<1>1. CASE CodeNext /\ UNCHANGED answer
  <2>1. pc # "ready"
    BY <1>1 DEF CodeNext, Next, ReadRoots, PreEdge, PreVertex, PreBatch, PreEnd, LayerStart,
         LayerRoot, CrossStart, CrossEdge, CrossVertex, CrossBatch, CrossEnd,
         LayersEnd, CodeStart, NextRoot, CountVertex, CountEdge, CountVertexEnd, CountEnd,
         DecodeVertex, DecodeEdge, DecodeVertexEnd, DecodeEnd, IndexVertex, IndexEnd, LabelVertex,
         LabelEdge, KnownCandidate, OfferCandidate, CandidatesEnd, Incomparable, CompareAbove,
         CompareBelow, AcceptCandidate, LabelVertexEnd, LabelEnd
  <2> QED
    BY <1>1, <2>1 DEF Answered
<1>2. ASSUME NEW x \in Vertex, NEW y \in Vertex, Query(x, y) PROVE Answered'
  <2>1. /\ pc = "ready" /\ pc' = pc /\ graph' = graph /\ answer' = <<x, y, Answer(x, y)>>
    BY <1>2 DEF Query, vars, scanVars
  <2>2. Answer(x, y) <=> Reachable(graph, x, y)
    BY <2>1, ReadyHolds, AnswerExact
  <2>3. Answer(x, y) \in BOOLEAN
    BY DEF Answer
  <2>4. answer' \in Vertex \X Vertex \X BOOLEAN /\ answer' # <<>>
        /\ answer'[1] = x /\ answer'[2] = y /\ answer'[3] = Answer(x, y)
    BY <2>1, <2>3
  <2> QED
    BY <2>1, <2>2, <2>4 DEF Answered
<1>3. CASE UNCHANGED queryVars
  <2>1. pc' = pc /\ graph' = graph /\ answer' = answer
    BY <1>3 DEF queryVars, vars, scanVars
  <2> QED
    BY <2>1 DEF Answered
<1> QED
  BY <1>1, <1>2, <1>3 DEF QueryNext

\* The answers together with the index they come from.
LEMMA AnsweredInvariance == QuerySpec => [](Constructed /\ Answered)
<1>1. QueryInit => Answered
  BY DEF QueryInit, Answered
<1> QED
  BY <1>1, AnsweredNext, ConstructedInvariance, PTL DEF QuerySpec

\* The types of the arrays of the second half.
LEMMA TypesHold == Constructed /\ Answered => CodeTypeOK
BY DEF Constructed, Answered, Decoded, SearchTypes, NumberTypes, Indexed, LevelTypes, IvType, Marked,
       LabelTypes, IDLists, CodeTypeOK

\* Once construct_index is done its arrays are exact, in every acyclic graph
\* of any size: the new ids number the vertices so that every edge goes up, the
\* interval and the exceptions of a vertex hold what it reaches within its
\* region, and no entry point kept for it lies below another one kept.
THEOREM IndexExactTheorem == QuerySpec => []IndexExact
<1>1. Constructed /\ Answered => IndexExact
  BY TypesHold, RenumberedHolds, IntervalsHold DEF Constructed, IndexExact
<1> QED
  BY <1>1, AnsweredInvariance, PTL

\* process answers a query with true exactly when the second vertex can be
\* reached from the first, for every pair of vertices of every acyclic graph of
\* any size.
THEOREM QueryCorrectTheorem == QuerySpec => []QueryCorrect
<1>1. Answered => QueryCorrect
  BY DEF Answered, QueryCorrect
<1> QED
  BY <1>1, AnsweredInvariance, PTL
=============================================================================
