-------------------------- MODULE GraphApps_proofs --------------------------
(***************************************************************************)
(* Proofs about the searches of GraphApps (forest and wcc) for any graph,  *)
(* any set of roots and any number of workers.  The inductive invariant    *)
(* comes in layers, each proved on top of the ones before it:              *)
(*   Typed     the cells and the locals of the workers, by their step      *)
(*   Linked    whatever is used as a label of v is connected with v        *)
(*   Seen      only what a root reaches is queued, scanned or visited      *)
(*   Pending   what is visited is expanded already, or a worker will       *)
(***************************************************************************)
EXTENDS GraphApps, TLAPS

Steps == {"idle", "enter", "begin", "scan", "mark", "label", "follow", "relink", "chain"}

Local == [step : Steps, root : Nat, que : Seq(Vertex), p : Seq(Vertex),
          dst : Nat, val : Nat, tmp : Nat, to : {"component", "root", "label"}]

\* The worker is at the head of its list, or has no list and no queue.
Holding(k) == \/ k.step \in {"mark", "label", "follow"}
              \/ k.step \in {"relink", "chain"} /\ k.to = "component"

Outside(k) == \/ k.step \in {"idle", "enter", "begin"}
              \/ k.step \in {"relink", "chain"} /\ k.to # "component"

WellFormed(rts, k) ==
    /\ k.step # "idle" => k.root \in rts
    /\ k.step \in {"relink", "chain"} => k.dst \in Vertex /\ k.val \in Vertex
    /\ k.step \in {"relink", "chain", "follow"} => k.tmp \in Vertex
    /\ Holding(k) => k.p # <<>>
    /\ Outside(k) => k.que = <<>> /\ k.p = <<>>

Typed ==
    /\ pc \in {"input", input.app, "apply", "labelled"}
    /\ roots \subseteq input.roots
    /\ isVisited \in [Vertex -> BOOLEAN]
    /\ idValue \in [Vertex -> Vertex]
    /\ changes \in [Vertex -> Vertex]
    /\ worker \in [input.workers -> Local]
    /\ \A w \in input.workers : WellFormed(input.roots, worker[w])

---------------------------------------------------------------------------
\* u and v have the same colour in every colouring that is constant along edges.
Colours(lists) ==
    {c \in [Vertex -> BOOLEAN] :
        \A x \in Vertex : \A k \in DOMAIN lists[x] : c[lists[x][k]] = c[x]}

Joint(lists, u, v) == \A c \in Colours(lists) : c[u] = c[v]

\* Everything a worker holds is connected with its root.
OneTree(lists, k) ==
    k.step # "idle" =>
        /\ \A y \in Range(k.que) \cup Range(k.p) : Joint(lists, k.root, y)
        /\ k.step \in {"relink", "chain"} =>
              Joint(lists, k.root, k.dst) /\ Joint(lists, k.root, k.val)
        /\ k.step \in {"relink", "chain", "follow"} => Joint(lists, k.root, k.tmp)

Linked ==
    /\ \A v \in Vertex : Joint(input.lists, v, idValue[v])
    /\ \A v \in Vertex : Joint(input.lists, v, changes[v])
    /\ \A w \in input.workers : OneTree(input.lists, worker[w])

---------------------------------------------------------------------------
\* u is in every closed set that holds the roots.
IsClosed(lists, C) == \A u \in C : \A k \in DOMAIN lists[u] : lists[u][k] \in C

Met(lists, rts, u) ==
    \A C \in SUBSET Vertex : rts \subseteq C /\ IsClosed(lists, C) => u \in C

Seen ==
    /\ \A v \in Vertex : isVisited[v] => Met(input.lists, input.roots, v)
    /\ \A w \in input.workers : \A y \in Range(worker[w].que) \cup Range(worker[w].p) :
          Met(input.lists, input.roots, y)

\* A worker that leaves the head of its list has found it visited or made it so.
HeadVisited(k) ==
    k.step \in {"label", "follow"} \/ (k.step \in {"relink", "chain"} /\ k.to = "component")
        => isVisited[Head(k.p)]

Reaches(y) == isVisited[y] \/ \E w \in input.workers : y \in Range(worker[w].p)

Expanded(u) == \A y \in Range(input.lists[u]) : Reaches(y)

Pending ==
    /\ \A w \in input.workers : HeadVisited(worker[w])
    /\ pc # "input" => \A r \in input.roots :
          \/ r \in roots \/ isVisited[r]
          \/ \E w \in input.workers :
                worker[w].step \in {"enter", "begin"} /\ worker[w].root = r
    /\ \A u \in Vertex : isVisited[u] =>
          Expanded(u) \/ \E w \in input.workers : u \in Range(worker[w].que)

IInv ==
    /\ input \in Inputs
    /\ pc \in {"forest", "wcc"} => Searching(input)
    /\ Searching(input) => Typed /\ Linked /\ Seen /\ Pending

---------------------------------------------------------------------------
(***************************************************************************)
(* Facts about lists, connection and reachability.                         *)
(***************************************************************************)
\* The elements of a list, of its tail, and of a list with one more.
LEMMA RangeTail ==
    ASSUME NEW S, NEW s \in Seq(S), s # <<>>
    PROVE  /\ Tail(s) \in Seq(S)
           /\ Head(s) \in Range(s) /\ Head(s) \in S
           /\ Range(Tail(s)) \subseteq Range(s)
           /\ \A y \in Range(s) : y = Head(s) \/ y \in Range(Tail(s))
<1>1. Head(s) = s[1] /\ 1 \in DOMAIN s /\ Tail(s) \in Seq(S) /\ Len(s) \in Nat
  OBVIOUS
<1>2. \A n \in DOMAIN Tail(s) : n + 1 \in DOMAIN s /\ Tail(s)[n] = s[n + 1]
  OBVIOUS
<1>3. \A n \in DOMAIN s : n = 1 \/ (n - 1 \in DOMAIN Tail(s) /\ Tail(s)[n - 1] = s[n])
  OBVIOUS
<1>4. Head(s) \in Range(s) /\ Head(s) \in S
  BY <1>1 DEF Range
<1>5. Range(Tail(s)) \subseteq Range(s)
  BY <1>2, Zenon DEF Range
<1>6. ASSUME NEW y \in Range(s)
      PROVE  y = Head(s) \/ y \in Range(Tail(s))
  <2>1. PICK n \in DOMAIN s : y = s[n]
    BY DEF Range
  <2>2. CASE n = 1
    BY <2>1, <2>2, <1>1
  <2>3. CASE n - 1 \in DOMAIN Tail(s) /\ Tail(s)[n - 1] = s[n]
    BY <2>1, <2>3, Zenon DEF Range
  <2> QED
    BY <2>2, <2>3, <1>3
<1> QED
  BY <1>1, <1>4, <1>5, <1>6

LEMMA RangeAppend ==
    ASSUME NEW S, NEW s \in Seq(S), NEW e \in S
    PROVE  /\ Append(s, e) \in Seq(S)
           /\ \A y : y \in Range(Append(s, e)) <=> y \in Range(s) \/ y = e
<1>1. DOMAIN Append(s, e) = 1 .. Len(s) + 1 /\ DOMAIN s = 1 .. Len(s) /\ Len(s) \in Nat
  OBVIOUS
<1>2. \A n \in DOMAIN s : Append(s, e)[n] = s[n]
  OBVIOUS
<1>3. Append(s, e)[Len(s) + 1] = e
  OBVIOUS
<1> QED
  BY <1>1, <1>2, <1>3 DEF Range

LEMMA RangeShort ==
    ASSUME NEW e
    PROVE  Range(<<>>) = {} /\ Range(<<e>>) = {e}
  BY DEF Range

LEMMA RangeTyped ==
    ASSUME NEW S, NEW s \in Seq(S)
    PROVE  Range(s) \subseteq S
  BY DEF Range

\* Connection is an equivalence that every edge respects.
LEMMA JointEquivalence ==
    ASSUME NEW lists, NEW u, NEW v, NEW z
    PROVE  /\ Joint(lists, u, u)
           /\ Joint(lists, u, v) => Joint(lists, v, u)
           /\ Joint(lists, u, v) /\ Joint(lists, v, z) => Joint(lists, u, z)
  BY Zenon DEF Joint

LEMMA JointEdge ==
    ASSUME NEW lists, NEW u \in Vertex, NEW y \in Range(lists[u])
    PROVE  Joint(lists, u, y)
  BY Zenon DEF Joint, Colours, Range

\* Roots are reached, and so is what a reached vertex has an edge to.
LEMMA MetStep ==
    ASSUME NEW lists, NEW rts
    PROVE  /\ \A r \in rts : Met(lists, rts, r)
           /\ \A u, y : Met(lists, rts, u) /\ y \in Range(lists[u]) => Met(lists, rts, y)
  BY Zenon DEF Met, IsClosed, Range

\* What the assumption on the inputs gives the searches.
LEMMA InputTypes ==
    ASSUME NEW i \in Inputs, Searching(i)
    PROVE  /\ i.lists \in [Vertex -> Seq(Vertex)]
           /\ i.roots \subseteq Vertex
           /\ i.app \in {"forest", "wcc"}
           /\ maxID \in Nat
           /\ Vertex \subseteq Nat
  BY InputAssumption DEF Searching, Vertex

LEMMA IdleTyped ==
    /\ Idle \in Local
    /\ Idle.step = "idle" /\ Idle.que = <<>> /\ Idle.p = <<>>
  BY DEF Idle, Local, Steps

---------------------------------------------------------------------------
(***************************************************************************)
(* The types.                                                              *)
(***************************************************************************)
\* Every step of a search keeps the types and what a worker's step says of its
\* locals; the entries of a chain are always vertices.
LEMMA SearchKeepsTypes ==
    ASSUME input \in Inputs, Searching(input), Typed,
           NEW w \in input.workers, SearchStep(w)
    PROVE  Typed' /\ input' = input /\ pc' = pc /\ worker' = [worker EXCEPT ![w] = worker'[w]]
<1> DEFINE k == worker[w]
<1>1. /\ input.lists \in [Vertex -> Seq(Vertex)] /\ input.roots \subseteq Vertex
      /\ Vertex \subseteq Nat
  BY InputTypes
<1>2. /\ worker \in [input.workers -> Local]
      /\ k \in Local
      /\ WellFormed(input.roots, k)
      /\ idValue \in [Vertex -> Vertex] /\ changes \in [Vertex -> Vertex]
      /\ isVisited \in [Vertex -> BOOLEAN]
      /\ roots \subseteq input.roots
  BY DEF Typed
<1>3. k.p # <<>> => Head(k.p) \in Vertex /\ Tail(k.p) \in Seq(Vertex)
  BY <1>2, RangeTail DEF Local
<1>4. k.que # <<>> => Head(k.que) \in Vertex /\ Tail(k.que) \in Seq(Vertex)
  BY <1>2, RangeTail DEF Local
<1>5. \A y \in Vertex : Append(k.que, y) \in Seq(Vertex) /\ <<y>> \in Seq(Vertex)
  BY <1>2 DEF Local
<1>6. k.step # "idle" => k.root \in Vertex /\ k.root \in input.roots
  BY <1>1, <1>2 DEF WellFormed
<1>7. SUFFICES
         /\ input' = input /\ pc' = pc
         /\ roots' \subseteq input.roots
         /\ isVisited' \in [Vertex -> BOOLEAN]
         /\ idValue' \in [Vertex -> Vertex] /\ changes' \in [Vertex -> Vertex]
         /\ worker' = [worker EXCEPT ![w] = worker'[w]]
         /\ worker'[w] \in Local
         /\ WellFormed(input.roots, worker'[w])
  BY <1>2, <1>7 DEF Typed
<1>a. CASE \E r \in roots : TakeRoot(w, r)
  <2>1. PICK r \in roots : TakeRoot(w, r)
    BY <1>a
  <2>2. r \in input.roots /\ r \in Nat
    BY <1>1, <1>2
  <2>3. worker'[w] = [Idle EXCEPT !.step = "enter", !.root = r]
    BY <2>1, <1>2 DEF TakeRoot
  <2>4. worker'[w] \in Local /\ WellFormed(input.roots, worker'[w])
    BY <2>2, <2>3, IdleTyped DEF Local, Steps, WellFormed, Holding, Outside
  <2> QED
    BY <2>1, <2>4, <1>2 DEF TakeRoot, stored, sweep
<1>b. CASE EnterNew(w)
  BY <1>b, <1>1, <1>2, <1>6 DEF EnterNew, At, Goto, Local, Steps, WellFormed, Holding, Outside, stored, sweep
<1>c. CASE Begin(w)
  BY <1>c, <1>1, <1>2, <1>5, <1>6 DEF Begin, At, Local, Steps, WellFormed, Holding, Outside, stored, sweep
<1>d. CASE EnterVisited(w)
  <2>1. k.step = "enter" /\ k.root \in Vertex
    BY <1>d, <1>6 DEF EnterVisited, At
  <2>2. /\ idValue[k.root] \in Vertex /\ changes[k.root] \in Vertex
        /\ changes[idValue[k.root]] \in Vertex
    BY <2>1, <1>2
  <2>3. UNCHANGED <<stored, pc, sweep, roots, isVisited, idValue, changes>>
    BY <1>d DEF EnterVisited
  <2>4. CASE pc = "forest"
    <3>1. worker' = [worker EXCEPT ![w] = Idle]
      BY <2>4, <1>d DEF EnterVisited
    <3>2. worker'[w] = Idle
      BY <3>1, <1>2
    <3> QED
      BY <3>1, <3>2, <1>d, <1>2, IdleTyped DEF EnterVisited, WellFormed, Holding, Outside, stored, sweep
  <2>5. CASE pc # "forest"
    <3> DEFINE below == changes[k.root] < changes[idValue[k.root]]
               d == IF below THEN idValue[k.root] ELSE k.root
               x == IF below THEN changes[k.root] ELSE changes[idValue[k.root]]
               t == IF below THEN changes[idValue[k.root]] ELSE changes[k.root]
               g == IF below THEN "root" ELSE "label"
    <3>1. worker' = [worker EXCEPT ![w].step = "relink", ![w].dst = d, ![w].val = x,
                                   ![w].tmp = t, ![w].to = g]
      BY <2>5, <1>d DEF EnterVisited
    <3>2. d \in Vertex /\ x \in Vertex /\ t \in Vertex /\ g \in {"root", "label"}
      BY <2>1, <2>2
    <3> HIDE DEF d, x, t, g
    <3>3. worker'[w] = [k EXCEPT !.step = "relink", !.dst = d, !.val = x, !.tmp = t, !.to = g]
      BY <3>1, <1>2
    <3>4. worker'[w] \in Local /\ WellFormed(input.roots, worker'[w])
      BY <3>2, <3>3, <2>1, <1>1, <1>2 DEF Local, Steps, WellFormed, Holding, Outside
    <3>5. worker' = [worker EXCEPT ![w] = worker'[w]]
      BY <3>1, <1>2
    <3> QED
      BY <3>4, <3>5, <2>3, <1>2 DEF stored, sweep
  <2> QED
    BY <2>4, <2>5
<1>e. CASE Pop(w)
  BY <1>e, <1>1, <1>2, <1>4, <1>6 DEF Pop, At, Local, Steps, WellFormed, Holding, Outside, stored, sweep
<1>f. CASE Finish(w)
  BY <1>f, <1>1, <1>2 DEF Finish, At, Idle, Local, Steps, WellFormed, Holding, Outside, stored, sweep
<1>g. CASE SeeNew(w)
  BY <1>g, <1>1, <1>2, <1>6 DEF SeeNew, At, Goto, Local, Steps, WellFormed, Holding, Outside, stored, sweep
<1>h. CASE Mark(w)
  BY <1>h, <1>1, <1>2, <1>3, <1>5, <1>6 DEF Mark, At, Local, Steps, WellFormed, Holding, Outside, stored, sweep
<1>i. CASE Label(w)
  BY <1>i, <1>1, <1>2, <1>3, <1>6 DEF Label, At, Local, Steps, WellFormed, Holding, Outside, stored, sweep
<1>j. CASE SeeVisited(w)
  <2>1. k.step = "scan" /\ k.root \in Vertex /\ k.p # <<>>
    BY <1>j, <1>6 DEF SeeVisited, At
  <2>2. /\ idValue[Head(k.p)] \in Vertex /\ changes[idValue[Head(k.p)]] \in Vertex
    BY <2>1, <1>2, <1>3
  <2>3. UNCHANGED <<stored, pc, sweep, roots, isVisited, idValue, changes>>
    BY <1>j DEF SeeVisited
  <2>4. CASE pc = "forest"
    <3>1. worker' = [worker EXCEPT ![w].p = Tail(@)]
      BY <2>4, <1>j DEF SeeVisited
    <3> QED
      BY <2>1, <3>1, <1>j, <1>1, <1>2, <1>3 DEF SeeVisited, Local, Steps, WellFormed, Holding, Outside, stored, sweep
  <2>5. CASE pc # "forest"
    <3> DEFINE d == idValue[Head(k.p)]
               t == changes[d]
               st == IF k.root < t THEN "relink" ELSE "follow"
    <3>1. worker' = [worker EXCEPT ![w].step = st, ![w].dst = d, ![w].val = k.root,
                                   ![w].tmp = t, ![w].to = "component"]
      BY <2>5, <1>j DEF SeeVisited
    <3>2. d \in Vertex /\ t \in Vertex /\ st \in {"relink", "follow"}
      BY <2>1, <2>2
    <3> HIDE DEF d, t, st
    <3>3. worker'[w] = [k EXCEPT !.step = st, !.dst = d, !.val = k.root, !.tmp = t,
                                 !.to = "component"]
      BY <3>1, <1>2
    <3>4. worker'[w] \in Local /\ WellFormed(input.roots, worker'[w])
      BY <3>2, <3>3, <2>1, <1>1, <1>2, <1>6 DEF Local, Steps, WellFormed, Holding, Outside
    <3>5. worker' = [worker EXCEPT ![w] = worker'[w]]
      BY <3>1, <1>2
    <3> QED
      BY <3>4, <3>5, <2>3, <1>2 DEF stored, sweep
  <2> QED
    BY <2>4, <2>5
<1>k. CASE Follow(w)
  BY <1>k, <1>1, <1>2, <1>3, <1>6 DEF Follow, At, Local, Steps, WellFormed, Holding, Outside, stored, sweep
<1>l. CASE Relink(w)
  BY <1>l, <1>1, <1>2, <1>6 DEF Relink, At, Goto, Local, Steps, WellFormed, Holding, Outside, stored, sweep
<1>m. CASE Chain(w)
  BY <1>m, <1>1, <1>2, <1>6 DEF Chain, Target, At, Local, Steps, WellFormed, Holding, Outside, stored, sweep
<1>n. CASE ChainEnd(w)
  BY <1>n, <1>1, <1>2, <1>3, <1>6 DEF ChainEnd, At, Idle, Local, Steps, WellFormed, Holding, Outside, stored, sweep
<1> QED
  BY <1>a, <1>b, <1>c, <1>d, <1>e, <1>f, <1>g, <1>h, <1>i, <1>j, <1>k, <1>l, <1>m, <1>n DEF SearchStep

---------------------------------------------------------------------------
(***************************************************************************)
(* The labels.                                                             *)
(***************************************************************************)
\* Whatever a step writes into idValue or changes, and whatever it puts into
\* the locals of its worker, is connected with what was there.
LEMMA SearchKeepsLinks ==
    ASSUME input \in Inputs, Searching(input), Typed, Linked,
           NEW w \in input.workers, SearchStep(w)
    PROVE  Linked'
<1> DEFINE k == worker[w]
           J(u, v) == Joint(input.lists, u, v)
<1>1. /\ input.lists \in [Vertex -> Seq(Vertex)] /\ input.roots \subseteq Vertex
      /\ Vertex \subseteq Nat
  BY InputTypes
<1>2. /\ Typed' /\ input' = input /\ pc' = pc
      /\ worker' = [worker EXCEPT ![w] = worker'[w]]
  BY SearchKeepsTypes
<1>3. /\ worker \in [input.workers -> Local]
      /\ k \in Local
      /\ WellFormed(input.roots, k)
      /\ idValue \in [Vertex -> Vertex] /\ changes \in [Vertex -> Vertex]
  BY DEF Typed
<1>4. /\ \A u : J(u, u)
      /\ \A u, v : J(u, v) => J(v, u)
      /\ \A u, v, z : J(u, v) /\ J(v, z) => J(u, z)
  BY JointEquivalence, Zenon
<1>5. /\ \A v \in Vertex : J(v, idValue[v])
      /\ \A v \in Vertex : J(v, changes[v])
      /\ \A x \in input.workers : OneTree(input.lists, worker[x])
  BY DEF Linked
<1>6. OneTree(input.lists, k)
  BY <1>5
<1>7. k.step # "idle" => k.root \in Vertex
  BY <1>1, <1>3 DEF WellFormed
<1>8. SUFFICES
         /\ \A v \in Vertex : J(v, idValue'[v])
         /\ \A v \in Vertex : J(v, changes'[v])
         /\ OneTree(input.lists, worker'[w])
  BY <1>2, <1>3, <1>5, <1>8 DEF Linked
<1>9. /\ k.p # <<>> => /\ Head(k.p) \in Range(k.p) /\ Head(k.p) \in Vertex
                       /\ Range(Tail(k.p)) \subseteq Range(k.p)
      /\ k.que # <<>> => /\ Head(k.que) \in Range(k.que) /\ Head(k.que) \in Vertex
                         /\ Range(Tail(k.que)) \subseteq Range(k.que)
      /\ \A e \in Vertex : \A y \in Range(Append(k.que, e)) : y \in Range(k.que) \/ y = e
      /\ Range(<<>>) = {} /\ \A e : Range(<<e>>) = {e}
  <2>1. k.p \in Seq(Vertex) /\ k.que \in Seq(Vertex)
    BY <1>3 DEF Local
  <2>2. \A e \in Vertex : \A y \in Range(Append(k.que, e)) : y \in Range(k.que) \/ y = e
    BY <2>1, RangeAppend
  <2> QED
    BY <2>1, <2>2, RangeTail, RangeShort
<1> HIDE DEF J
<1>a. CASE \E r \in roots : TakeRoot(w, r)
  BY <1>a, <1>3, <1>5, <1>9 DEF TakeRoot, Idle, OneTree
<1>b. CASE EnterNew(w)
  BY <1>b, <1>3, <1>5, <1>6 DEF EnterNew, At, Goto, OneTree, Local
<1>c. CASE Begin(w)
  BY <1>c, <1>3, <1>4, <1>5, <1>6, <1>7, <1>9 DEF Begin, At, OneTree, Local, J
<1>d. CASE EnterVisited(w)
  <2>1. k.step = "enter" /\ k.root \in Vertex /\ UNCHANGED <<idValue, changes>>
    BY <1>d, <1>7 DEF EnterVisited, At
  <2>2. CASE pc = "forest"
    <3>1. worker'[w] = Idle
      BY <2>2, <1>d, <1>3 DEF EnterVisited
    <3> QED
      BY <3>1, <2>1, <1>5, IdleTyped DEF OneTree
  <2>3. CASE pc # "forest"
    <3> DEFINE below == changes[k.root] < changes[idValue[k.root]]
               d == IF below THEN idValue[k.root] ELSE k.root
               x == IF below THEN changes[k.root] ELSE changes[idValue[k.root]]
               t == IF below THEN changes[idValue[k.root]] ELSE changes[k.root]
               g == IF below THEN "root" ELSE "label"
    <3>1. worker' = [worker EXCEPT ![w].step = "relink", ![w].dst = d, ![w].val = x,
                                   ![w].tmp = t, ![w].to = g]
      BY <2>3, <1>d DEF EnterVisited
    <3>2. J(k.root, d) /\ J(k.root, x) /\ J(k.root, t)
      BY <2>1, <1>3, <1>4, <1>5
    <3> HIDE DEF d, x, t, g
    <3>3. worker'[w] = [k EXCEPT !.step = "relink", !.dst = d, !.val = x, !.tmp = t, !.to = g]
      BY <3>1, <1>3
    <3> QED
      BY <3>2, <3>3, <2>1, <1>3, <1>5, <1>6 DEF OneTree, Local, J
  <2> QED
    BY <2>2, <2>3
<1>e. CASE Pop(w)
  <2> DEFINE u == Head(k.que)
  <2>1. k.step = "scan" /\ k.que # <<>> /\ UNCHANGED <<idValue, changes>>
    BY <1>e DEF Pop, At
  <2>2. worker'[w] = [k EXCEPT !.p = input.lists[u], !.que = Tail(k.que)]
    BY <1>e, <1>3 DEF Pop
  <2>3. \A y \in Range(input.lists[u]) : J(k.root, y)
    <3>1. J(k.root, u)
      BY <2>1, <1>6, <1>9 DEF OneTree, J
    <3>2. \A y \in Range(input.lists[u]) : J(u, y)
      BY <2>1, <1>9, JointEdge DEF J
    <3> QED
      BY <3>1, <3>2, <1>4
  <2> QED
    BY <2>1, <2>2, <2>3, <1>3, <1>5, <1>6, <1>9 DEF OneTree, Local, J
<1>f. CASE Finish(w)
  BY <1>f, <1>3, <1>5, IdleTyped DEF Finish, OneTree
<1>g. CASE SeeNew(w)
  BY <1>g, <1>3, <1>5, <1>6 DEF SeeNew, At, Goto, OneTree, Local
<1>h. CASE Mark(w)
  BY <1>h, <1>3, <1>5, <1>6, <1>7, <1>9 DEF Mark, At, OneTree, Local, WellFormed, Holding
<1>i. CASE Label(w)
  BY <1>i, <1>3, <1>4, <1>5, <1>6, <1>7, <1>9 DEF Label, At, OneTree, Local, WellFormed, Holding, J
<1>j. CASE SeeVisited(w)
  <2>1. /\ k.step = "scan" /\ k.root \in Vertex /\ k.p # <<>>
        /\ UNCHANGED <<idValue, changes>>
    BY <1>j, <1>7 DEF SeeVisited, At
  <2>2. CASE pc = "forest"
    <3>1. worker'[w] = [k EXCEPT !.p = Tail(k.p)]
      BY <2>2, <1>j, <1>3 DEF SeeVisited
    <3> QED
      BY <3>1, <2>1, <1>3, <1>5, <1>6, <1>9 DEF OneTree, Local
  <2>3. CASE pc # "forest"
    <3> DEFINE d == idValue[Head(k.p)]
               t == changes[d]
               st == IF k.root < t THEN "relink" ELSE "follow"
    <3>1. worker' = [worker EXCEPT ![w].step = st, ![w].dst = d, ![w].val = k.root,
                                   ![w].tmp = t, ![w].to = "component"]
      BY <2>3, <1>j DEF SeeVisited
    <3>2. J(k.root, Head(k.p))
      BY <2>1, <1>6, <1>9 DEF OneTree, J
    <3>3. J(k.root, d) /\ J(k.root, t)
      BY <2>1, <3>2, <1>3, <1>4, <1>5, <1>9
    <3>4. st \in {"relink", "follow"} /\ J(k.root, k.root)
      BY <1>4
    <3> HIDE DEF d, t, st
    <3>5. worker'[w] = [k EXCEPT !.step = st, !.dst = d, !.val = k.root, !.tmp = t,
                                 !.to = "component"]
      BY <3>1, <1>3
    <3> QED
      BY <3>3, <3>4, <3>5, <2>1, <1>3, <1>5, <1>6 DEF OneTree, Local, J
  <2> QED
    BY <2>2, <2>3
<1>k. CASE Follow(w)
  BY <1>k, <1>3, <1>4, <1>5, <1>6, <1>7, <1>9 DEF Follow, At, OneTree, Local, WellFormed, Holding, J
<1>l. CASE Relink(w)
  BY <1>l, <1>3, <1>4, <1>5, <1>6, <1>7, <1>9 DEF Relink, At, Goto, OneTree, Local, J
<1>m. CASE Chain(w)
  <2>1. k.step = "chain" /\ k.root \in Vertex /\ k.tmp \in Vertex /\ UNCHANGED <<idValue, changes>>
    BY <1>m, <1>3, <1>7 DEF Chain, At, WellFormed
  <2>2. J(k.root, k.tmp) /\ J(k.root, changes[k.tmp]) /\ J(k.root, Target(w))
    <3>1. J(k.root, k.tmp)
      BY <2>1, <1>6 DEF OneTree, J
    <3>2. J(k.tmp, changes[k.tmp])
      BY <2>1, <1>5
    <3>3. /\ J(k.root, changes[k.root]) /\ J(k.root, idValue[k.root])
          /\ J(idValue[k.root], changes[idValue[k.root]])
      BY <2>1, <1>3, <1>5
    <3>4. Target(w) \in {k.root, changes[k.root], changes[idValue[k.root]]}
      BY DEF Target
    <3> QED
      BY <3>1, <3>2, <3>3, <3>4, <1>4
  <2>3. worker'[w] = [k EXCEPT !.step = "relink", !.dst = k.tmp, !.val = Target(w),
                               !.tmp = changes[k.tmp]]
    BY <1>m, <1>3 DEF Chain
  <2> QED
    BY <2>1, <2>2, <2>3, <1>3, <1>5, <1>6 DEF OneTree, Local, J
<1>n. CASE ChainEnd(w)
  BY <1>n, <1>3, <1>5, <1>6, <1>9, IdleTyped DEF ChainEnd, At, OneTree, Local, WellFormed, Holding
<1> QED
  BY <1>a, <1>b, <1>c, <1>d, <1>e, <1>f, <1>g, <1>h, <1>i, <1>j, <1>k, <1>l, <1>m, <1>n DEF SearchStep

---------------------------------------------------------------------------
(***************************************************************************)
(* The visited vertices.                                                   *)
(***************************************************************************)
\* What one step does to the lists of its worker and to isVisited, whatever
\* else it does: the cases the layers Seen and Pending tell apart.
Grows(w, y) ==
    /\ y \in Vertex
    /\ isVisited' = [isVisited EXCEPT ![y] = TRUE]

Rests(w) ==       \* leaves the lists alone
    /\ worker'[w].que = worker[w].que /\ worker'[w].p = worker[w].p
    /\ UNCHANGED isVisited

Opens(w) ==       \* a root becomes the queue
    /\ worker[w].que = <<>> /\ worker[w].p = <<>>
    /\ worker'[w].que = <<worker[w].root>> /\ worker'[w].p = <<>>
    /\ worker[w].root \in input.roots
    /\ Grows(w, worker[w].root)

Pops(w) ==
    /\ worker[w].p = <<>> /\ worker[w].que # <<>>
    /\ worker'[w].p = input.lists[Head(worker[w].que)]
    /\ worker'[w].que = Tail(worker[w].que)
    /\ UNCHANGED isVisited

Drops(w) ==       \* the head of the list is done with
    /\ worker[w].p # <<>>
    /\ isVisited[Head(worker[w].p)]
    /\ worker'[w].p = Tail(worker[w].p) /\ worker'[w].que = worker[w].que
    /\ UNCHANGED isVisited

Takes(w) ==       \* the head of the list is visited and queued
    /\ worker[w].p # <<>>
    /\ worker'[w].p \in {worker[w].p, Tail(worker[w].p)}
    /\ worker'[w].que = Append(worker[w].que, Head(worker[w].p))
    /\ Grows(w, Head(worker[w].p))

Rooted(w, r) ==
    worker[w].step \in {"enter", "begin"} /\ worker[w].root = r

\* Every step does one of these; it leaves the heads of the lists visited
\* where its next step needs that, and loses no root.
LEMMA SearchMoves ==
    ASSUME input \in Inputs, Searching(input), Typed, Pending,
           NEW w \in input.workers, SearchStep(w)
    PROVE  /\ Rests(w) \/ Opens(w) \/ Pops(w) \/ Drops(w) \/ Takes(w)
           /\ Holding(worker'[w]) /\ worker'[w].step # "mark" =>
                  isVisited'[Head(worker'[w].p)]
           /\ \A r \in roots : r \in roots' \/ Rooted(w, r)'
           /\ \A r \in input.roots : Rooted(w, r) => Rooted(w, r)' \/ isVisited'[r]
<1> DEFINE k == worker[w]
<1>1. /\ input.lists \in [Vertex -> Seq(Vertex)] /\ input.roots \subseteq Vertex
      /\ Vertex \subseteq Nat
  BY InputTypes
<1>2. /\ worker \in [input.workers -> Local]
      /\ k \in Local
      /\ WellFormed(input.roots, k)
      /\ isVisited \in [Vertex -> BOOLEAN]
      /\ k.p \in Seq(Vertex)
      /\ k.p # <<>> => Head(k.p) \in Vertex
  BY RangeTail DEF Typed, Local
<1>3. Holding(k) /\ k.step # "mark" => isVisited[Head(k.p)]
  BY DEF Pending, HeadVisited, Holding
<1>4. k.step # "idle" => k.root \in Vertex /\ k.root \in input.roots
  BY <1>1, <1>2 DEF WellFormed
<1>a. CASE \E r \in roots : TakeRoot(w, r)
  <2>1. PICK r \in roots : TakeRoot(w, r)
    BY <1>a
  <2>2. worker'[w] = [Idle EXCEPT !.step = "enter", !.root = r]
    BY <2>1, <1>2 DEF TakeRoot
  <2>3. k.step = "idle" /\ k.que = <<>> /\ k.p = <<>> /\ roots' = roots \ {r} /\ UNCHANGED isVisited
    BY <2>1, <1>2 DEF TakeRoot, At, WellFormed, Outside
  <2> QED
    BY <2>2, <2>3, IdleTyped DEF Rests, Holding, Rooted, Local
<1>b. CASE EnterNew(w)
  BY <1>b, <1>2 DEF EnterNew, At, Goto, Local, Rests, Holding, Rooted
<1>c. CASE Begin(w)
  BY <1>c, <1>2, <1>4 DEF Begin, At, Local, WellFormed, Outside, Opens, Grows, Holding, Rooted
<1>d. CASE EnterVisited(w)
  <2>1. k.step = "enter" /\ isVisited[k.root] /\ UNCHANGED <<isVisited, roots>>
    BY <1>d DEF EnterVisited, At
  <2>2. CASE pc = "forest"
    <3>1. worker'[w] = Idle
      BY <2>2, <1>d, <1>2 DEF EnterVisited
    <3> QED
      BY <3>1, <2>1, <1>2, IdleTyped DEF Rests, Holding, Rooted, WellFormed, Outside
  <2>3. CASE pc # "forest"
    <3> DEFINE below == changes[k.root] < changes[idValue[k.root]]
               d == IF below THEN idValue[k.root] ELSE k.root
               x == IF below THEN changes[k.root] ELSE changes[idValue[k.root]]
               t == IF below THEN changes[idValue[k.root]] ELSE changes[k.root]
               g == IF below THEN "root" ELSE "label"
    <3>1. worker' = [worker EXCEPT ![w].step = "relink", ![w].dst = d, ![w].val = x,
                                   ![w].tmp = t, ![w].to = g]
      BY <2>3, <1>d DEF EnterVisited
    <3>2. g # "component"
      OBVIOUS
    <3> HIDE DEF d, x, t, g
    <3>3. worker'[w] = [k EXCEPT !.step = "relink", !.dst = d, !.val = x, !.tmp = t, !.to = g]
      BY <3>1, <1>2
    <3> QED
      BY <3>2, <3>3, <2>1, <1>2 DEF Rests, Holding, Rooted, Local
  <2> QED
    BY <2>2, <2>3
<1>e. CASE Pop(w)
  BY <1>e, <1>2 DEF Pop, At, Local, Pops, Holding, Rooted
<1>f. CASE Finish(w)
  BY <1>f, <1>2, IdleTyped DEF Finish, At, Rests, Holding, Rooted
<1>g. CASE SeeNew(w)
  BY <1>g, <1>2 DEF SeeNew, At, Goto, Local, Rests, Holding, Rooted
<1>h. CASE Mark(w)
  BY <1>h, <1>2 DEF Mark, At, Local, WellFormed, Holding, Takes, Grows, Rooted
<1>i. CASE Label(w)
  BY <1>i, <1>2, <1>3 DEF Label, At, Local, WellFormed, Holding, Drops, Rooted
<1>j. CASE SeeVisited(w)
  <2>1. k.step = "scan" /\ k.p # <<>> /\ isVisited[Head(k.p)] /\ UNCHANGED <<isVisited, roots>>
    BY <1>j DEF SeeVisited, At
  <2>2. CASE pc = "forest"
    <3>1. worker'[w] = [k EXCEPT !.p = Tail(k.p)]
      BY <2>2, <1>j, <1>2 DEF SeeVisited
    <3> QED
      BY <3>1, <2>1, <1>2 DEF Local, Drops, Holding, Rooted
  <2>3. CASE pc # "forest"
    <3> DEFINE d == idValue[Head(k.p)]
               t == changes[d]
               st == IF k.root < t THEN "relink" ELSE "follow"
    <3>1. worker' = [worker EXCEPT ![w].step = st, ![w].dst = d, ![w].val = k.root,
                                   ![w].tmp = t, ![w].to = "component"]
      BY <2>3, <1>j DEF SeeVisited
    <3>2. st \in {"relink", "follow"}
      OBVIOUS
    <3> HIDE DEF d, t, st
    <3>3. worker'[w] = [k EXCEPT !.step = st, !.dst = d, !.val = k.root, !.tmp = t,
                                 !.to = "component"]
      BY <3>1, <1>2
    <3> QED
      BY <3>2, <3>3, <2>1, <1>2 DEF Local, Rests, Holding, Rooted
  <2> QED
    BY <2>2, <2>3
<1>k. CASE Follow(w)
  BY <1>k, <1>2, <1>3 DEF Follow, At, Local, WellFormed, Holding, Drops, Rooted
<1>l. CASE Relink(w)
  BY <1>l, <1>2, <1>3 DEF Relink, At, Goto, Local, Holding, Rests, Rooted
<1>m. CASE Chain(w)
  BY <1>m, <1>2, <1>3 DEF Chain, At, Local, Holding, Rests, Rooted
<1>n. CASE ChainEnd(w)
  <2>1. k.step = "chain" /\ UNCHANGED <<isVisited, roots>>
    BY <1>n DEF ChainEnd, At
  <2>2. CASE k.to = "component"
    <3>1. worker'[w] = [k EXCEPT !.step = "scan", !.p = Tail(k.p)]
      BY <2>2, <1>n, <1>2 DEF ChainEnd
    <3> QED
      BY <2>1, <2>2, <3>1, <1>2, <1>3 DEF Local, WellFormed, Holding, Drops, Rooted
  <2>3. CASE k.to # "component"
    <3>1. worker'[w] = Idle
      BY <2>3, <1>n, <1>2 DEF ChainEnd
    <3> QED
      BY <2>1, <2>3, <3>1, <1>2, IdleTyped DEF WellFormed, Outside, Holding, Rests, Rooted
  <2> QED
    BY <2>2, <2>3
<1> QED
  BY <1>a, <1>b, <1>c, <1>d, <1>e, <1>f, <1>g, <1>h, <1>i, <1>j, <1>k, <1>l, <1>m, <1>n DEF SearchStep

\* What is new in a list, or visited, is a root or the target of an edge from
\* something seen.
LEMMA SearchKeepsSeen ==
    ASSUME input \in Inputs, Searching(input), Typed, Seen, Pending,
           NEW w \in input.workers, SearchStep(w)
    PROVE  Seen'
<1> DEFINE k == worker[w]
           Here(y) == Met(input.lists, input.roots, y)
<1>1. /\ input.lists \in [Vertex -> Seq(Vertex)] /\ input.roots \subseteq Vertex
  BY InputTypes
<1>2. /\ Typed' /\ input' = input
      /\ worker' = [worker EXCEPT ![w] = worker'[w]]
  BY SearchKeepsTypes
<1>3. /\ worker \in [input.workers -> Local]
      /\ isVisited \in [Vertex -> BOOLEAN]
      /\ k.p \in Seq(Vertex) /\ k.que \in Seq(Vertex)
  BY DEF Typed, Local
<1>4. /\ \A v \in Vertex : isVisited[v] => Here(v)
      /\ \A x \in input.workers : \A y \in Range(worker[x].que) \cup Range(worker[x].p) : Here(y)
  BY DEF Seen
<1>5. /\ \A r \in input.roots : Here(r)
      /\ \A u, y : Here(u) /\ y \in Range(input.lists[u]) => Here(y)
  BY MetStep
<1> HIDE DEF Here
<1>6. SUFFICES
         /\ \A v \in Vertex : isVisited'[v] => Here(v)
         /\ \A y \in Range(worker'[w].que) \cup Range(worker'[w].p) : Here(y)
  BY <1>2, <1>3, <1>4, <1>6 DEF Seen, Here
<1>7. /\ k.p # <<>> => Head(k.p) \in Range(k.p) /\ Range(Tail(k.p)) \subseteq Range(k.p)
      /\ k.que # <<>> => Head(k.que) \in Range(k.que) /\ Range(Tail(k.que)) \subseteq Range(k.que)
  BY <1>3, RangeTail
<1>8. \A e \in Vertex : \A y \in Range(Append(k.que, e)) : y \in Range(k.que) \/ y = e
  BY <1>3, RangeAppend
<1>9. \A u : Grows(w, u) /\ Here(u) => \A v \in Vertex : isVisited'[v] => Here(v)
  BY <1>3, <1>4 DEF Grows
<1>a. CASE Rests(w)
  BY <1>a, <1>4 DEF Rests
<1>b. CASE Opens(w)
  BY <1>b, <1>5, <1>9, RangeShort DEF Opens
<1>c. CASE Pops(w)
  BY <1>c, <1>4, <1>5, <1>7 DEF Pops
<1>d. CASE Drops(w)
  BY <1>d, <1>4, <1>7 DEF Drops
<1>e. CASE Takes(w)
  <2>1. Head(k.p) \in Vertex /\ Here(Head(k.p))
    BY <1>e, <1>4, <1>7 DEF Takes, Grows
  <2> QED
    BY <1>e, <2>1, <1>4, <1>7, <1>8, <1>9 DEF Takes
<1> QED
  BY <1>a, <1>b, <1>c, <1>d, <1>e, SearchMoves

\* A vertex leaves a queue when its list is taken, and a list when it is visited.
LEMMA SearchKeepsPending ==
    ASSUME input \in Inputs, Searching(input), Typed, Pending,
           NEW w \in input.workers, SearchStep(w)
    PROVE  Pending'
<1> DEFINE k == worker[w]
<1>1. /\ input.lists \in [Vertex -> Seq(Vertex)] /\ input.roots \subseteq Vertex
  BY InputTypes
<1>2. /\ Typed' /\ input' = input /\ pc' = pc /\ pc # "input"
      /\ worker' = [worker EXCEPT ![w] = worker'[w]]
  <2>1. pc # "input"
    BY DEF SearchStep, TakeRoot, EnterNew, Begin, EnterVisited, Pop, Finish, SeeNew, Mark,
           Label, SeeVisited, Follow, Relink, Chain, ChainEnd, At
  <2> QED
    BY <2>1, SearchKeepsTypes
<1>3. /\ worker \in [input.workers -> Local] /\ worker' \in [input.workers -> Local]
      /\ isVisited \in [Vertex -> BOOLEAN] /\ isVisited' \in [Vertex -> BOOLEAN]
      /\ k.p \in Seq(Vertex) /\ k.que \in Seq(Vertex)
      /\ \A x \in input.workers : x # w => worker'[x] = worker[x]
      /\ \A x \in input.workers : WellFormed(input.roots, worker[x])
  BY <1>2 DEF Typed, Local
<1>4. \A v \in Vertex : isVisited[v] => isVisited'[v]
  BY <1>3, SearchMoves DEF Rests, Opens, Pops, Drops, Takes, Grows
<1>5. /\ k.p # <<>> => /\ Head(k.p) \in Vertex
                       /\ \A y \in Range(k.p) : y = Head(k.p) \/ y \in Range(Tail(k.p))
      /\ k.que # <<>> => /\ Head(k.que) \in Vertex
                         /\ \A y \in Range(k.que) : y = Head(k.que) \/ y \in Range(Tail(k.que))
      /\ \A e \in Vertex : \A y : y \in Range(Append(k.que, e)) <=> y \in Range(k.que) \/ y = e
      /\ Range(<<>>) = {} /\ \A e : Range(<<e>>) = {e}
  <2>1. \A e \in Vertex : \A y : y \in Range(Append(k.que, e)) <=> y \in Range(k.que) \/ y = e
    BY <1>3, RangeAppend
  <2> QED
    BY <2>1, <1>3, RangeTail, RangeShort
<1>6. \A x \in input.workers : HeadVisited(worker[x])'
  <2> SUFFICES ASSUME NEW x \in input.workers PROVE HeadVisited(worker[x])'
    OBVIOUS
  <2>1. CASE x = w
    BY <2>1, SearchMoves DEF HeadVisited, Holding
  <2>2. CASE x # w
    <3>1. HeadVisited(worker[x]) /\ worker'[x] = worker[x]
      BY <2>2, <1>3 DEF Pending
    <3>2. Holding(worker[x]) => Head(worker[x].p) \in Vertex
      BY <1>3, RangeTail DEF WellFormed, Local
    <3> QED
      BY <3>1, <3>2, <1>4 DEF HeadVisited, Holding
  <2> QED
    BY <2>1, <2>2
<1>7. \A r \in input.roots :
          \/ r \in roots' \/ isVisited'[r]
          \/ \E x \in input.workers : worker'[x].step \in {"enter", "begin"} /\ worker'[x].root = r
  <2> SUFFICES ASSUME NEW r \in input.roots, ~ (r \in roots'), ~ isVisited'[r]
               PROVE  \E x \in input.workers :
                         worker'[x].step \in {"enter", "begin"} /\ worker'[x].root = r
    OBVIOUS
  <2>1. r \in roots \/ \E x \in input.workers : Rooted(x, r)
    BY <1>1, <1>2, <1>4 DEF Pending, Rooted
  <2>2. CASE Rooted(w, r)'
    BY <2>2 DEF Rooted
  <2>3. CASE \E x \in input.workers : x # w /\ Rooted(x, r)
    BY <2>3, <1>3 DEF Rooted
  <2> QED
    BY <2>1, <2>2, <2>3, SearchMoves
<1>8. /\ \A y \in Range(k.p) : isVisited'[y] \/ y \in Range(worker'[w].p)
      /\ \A u \in Range(k.que) :
            \/ u \in Range(worker'[w].que)
            \/ \A y \in Range(input.lists[u]) : y \in Range(worker'[w].p)
      /\ \A u \in Vertex : isVisited'[u] => isVisited[u] \/ u \in Range(worker'[w].que)
  <2>a. CASE Rests(w)
    BY <2>a DEF Rests
  <2>b. CASE Opens(w)
    BY <2>b, <1>3, <1>5 DEF Opens, Grows
  <2>c. CASE Pops(w)
    BY <2>c, <1>3, <1>5 DEF Pops
  <2>d. CASE Drops(w)
    BY <2>d, <1>3, <1>5 DEF Drops
  <2>e. CASE Takes(w)
    BY <2>e, <1>3, <1>5 DEF Takes, Grows
  <2> QED
    BY <2>a, <2>b, <2>c, <2>d, <2>e, SearchMoves
<1>9. \A y \in Vertex : Reaches(y) => Reaches(y)'
  BY <1>2, <1>3, <1>4, <1>8 DEF Reaches
<1>10. \A u \in Vertex : isVisited'[u] =>
           Expanded(u)' \/ \E x \in input.workers : u \in Range(worker'[x].que)
  <2> SUFFICES ASSUME NEW u \in Vertex, isVisited'[u]
               PROVE  Expanded(u)' \/ \E x \in input.workers : u \in Range(worker'[x].que)
    OBVIOUS
  <2>1. Range(input.lists[u]) \subseteq Vertex
    BY <1>1, RangeTyped
  <2>2. CASE Expanded(u)
    BY <2>1, <2>2, <1>2, <1>9 DEF Expanded
  <2>3. CASE \E x \in input.workers : x # w /\ u \in Range(worker[x].que)
    BY <2>3, <1>3
  <2>4. CASE u \in Range(k.que)
    <3>1. CASE \A y \in Range(input.lists[u]) : y \in Range(worker'[w].p)
      BY <3>1, <1>2 DEF Expanded, Reaches
    <3> QED
      BY <2>4, <3>1, <1>8
  <2>5. CASE ~ isVisited[u]
    BY <2>5, <1>8
  <2> QED
    BY <2>2, <2>3, <2>4, <2>5 DEF Pending
<1> QED
  BY <1>2, <1>6, <1>7, <1>10 DEF Pending

---------------------------------------------------------------------------
(***************************************************************************)
(* The steps outside the searches, and the invariant.                      *)
(***************************************************************************)
LEMMA InitIInv == ASSUME Init PROVE IInv
<1> SUFFICES ASSUME Searching(input)
             PROVE  Typed /\ Linked /\ Seen /\ Pending
  BY DEF Init, IInv
<1>1. input \in Inputs
  BY DEF Init
<1>2. \A w \in input.workers : worker[w] = Idle
  BY DEF Init
<1>3. Typed
  BY <1>1, <1>2, InputTypes, IdleTyped DEF Init, Typed, WellFormed, Holding, Outside
<1>4. Linked
  BY <1>2, IdleTyped, JointEquivalence DEF Init, Linked, OneTree
<1>5. \A v \in Vertex : ~ isVisited[v]
  BY DEF Init
<1>6. Seen
  BY <1>2, <1>5, IdleTyped, RangeShort DEF Seen
<1>7. Pending
  BY <1>2, <1>5, IdleTyped DEF Init, Pending, HeadVisited
<1> QED
  BY <1>3, <1>4, <1>6, <1>7

\* Build starts the searches with every root left to be taken.
LEMMA BuildKeeps ==
    ASSUME input \in Inputs, Searching(input), Typed, Linked, Seen, Pending, Build
    PROVE  Typed' /\ Linked' /\ Seen' /\ Pending'
<1>1. /\ input' = input /\ pc' = input.app /\ roots' = input.roots
      /\ UNCHANGED <<isVisited, idValue, changes, worker>>
  BY DEF Build
<1>2. Typed'
  BY <1>1 DEF Typed
<1>3. Linked' /\ Seen'
  BY <1>1 DEF Linked, Seen
<1>4. Pending'
  BY <1>1 DEF Pending, HeadVisited, Expanded, Reaches
<1> QED
  BY <1>2, <1>3, <1>4

\* wcc_apply_changes rewrites idValue only, along the links.
LEMMA ApplyKeeps ==
    ASSUME input \in Inputs, Searching(input), Typed, Linked, Seen, Pending,
           \/ wcc_apply_changes \/ Applied
           \/ \E v \in Vertex : wcc_apply_changes_task(v)
    PROVE  Typed' /\ Linked' /\ Seen' /\ Pending'
<1>1. /\ input' = input /\ UNCHANGED <<roots, isVisited, changes, worker>>
      /\ pc # "input" /\ pc' \in {pc, "apply", "labelled"} /\ pc' # "input"
  BY DEF wcc_apply_changes, Applied, wcc_apply_changes_task, stored, search
<1>2. \/ idValue' = idValue
      \/ \E v \in Vertex : idValue' = [idValue EXCEPT ![v] = changes[idValue[v]]]
  BY DEF wcc_apply_changes, Applied, wcc_apply_changes_task, search
<1>3. idValue \in [Vertex -> Vertex] /\ changes \in [Vertex -> Vertex]
  BY DEF Typed
<1>4. Typed'
  BY <1>1, <1>2, <1>3 DEF Typed
<1>5. Linked'
  <2>1. /\ \A v \in Vertex : Joint(input.lists, v, idValue[v])
        /\ \A v \in Vertex : Joint(input.lists, v, changes[v])
    BY DEF Linked
  <2>2. \A u, v, z : Joint(input.lists, u, v) /\ Joint(input.lists, v, z) => Joint(input.lists, u, z)
    BY JointEquivalence
  <2>3. \A v \in Vertex : Joint(input.lists, v, idValue'[v])
    BY <2>1, <2>2, <1>2, <1>3
  <2> QED
    BY <2>1, <2>3, <1>1 DEF Linked
<1>6. Seen'
  BY <1>1 DEF Seen
<1>7. Pending'
  BY <1>1 DEF Pending, HeadVisited, Expanded, Reaches
<1> QED
  BY <1>4, <1>5, <1>6, <1>7

LEMMA NextIInv == ASSUME IInv, [Next]_vars PROVE IInv'
<1>1. input' = input
  BY DEF Next, vars, Build, SweepBucket, RunTask, SearchStep, TakeRoot, EnterNew, Begin,
         EnterVisited, Pop, Finish, SeeNew, Mark, Label, SeeVisited, Follow, Relink, Chain,
         ChainEnd, wcc_apply_changes, wcc_apply_changes_task, Applied, wcc_in_serial, AloneStep, Multiply,
         NextPower, bfs, bfs_forest, visit_count, getMaxValue, Report, stored
<1>0. pc' \in {"forest", "wcc"} => Searching(input)
  <2>1. pc \in {"forest", "wcc"} => Searching(input)
    BY DEF IInv
  <2>2. pc' \in {pc, input.app, "apply", "labelled", "reported"}
    BY DEF Next, vars, Build, SweepBucket, RunTask, SearchStep, TakeRoot, EnterNew, Begin,
           EnterVisited, Pop, Finish, SeeNew, Mark, Label, SeeVisited, Follow, Relink, Chain,
           ChainEnd, wcc_apply_changes, wcc_apply_changes_task, Applied, wcc_in_serial, AloneStep, Multiply,
           NextPower, bfs, bfs_forest, visit_count, getMaxValue, Report
  <2> QED
    BY <2>1, <2>2 DEF Searching
<1> SUFFICES ASSUME Searching(input)
             PROVE  Typed' /\ Linked' /\ Seen' /\ Pending'
  BY <1>0, <1>1 DEF IInv, Searching
<1>2. input \in Inputs /\ Typed /\ Linked /\ Seen /\ Pending
  BY DEF IInv
<1>3. DOMAIN worker = input.workers /\ pc \in {"input", "forest", "wcc", "apply", "labelled"}
  BY <1>2 DEF Typed, Searching
<1>4. CASE Build
  BY <1>2, <1>4, BuildKeeps
<1>5. CASE \E t \in todo : SweepBucket(t) \/ RunTask(t)
  BY <1>3, <1>5 DEF SweepBucket, RunTask
<1>6. CASE \E w \in DOMAIN worker : SearchStep(w)
  BY <1>2, <1>3, <1>6, SearchKeepsTypes, SearchKeepsLinks, SearchKeepsSeen, SearchKeepsPending
<1>7. CASE wcc_apply_changes \/ (\E v \in Vertex : wcc_apply_changes_task(v)) \/ Applied
  BY <1>2, <1>7, ApplyKeeps
<1>8. CASE wcc_in_serial
  BY <1>3, <1>8 DEF wcc_in_serial
<1>10. CASE AloneStep
  BY <1>3, <1>10 DEF AloneStep, Multiply, NextPower, bfs, bfs_forest, visit_count, getMaxValue
<1>9. CASE UNCHANGED vars
  <2>1. UNCHANGED <<pc, input, roots, isVisited, idValue, changes, worker>>
    BY <1>9 DEF vars
  <2> QED
    BY <2>1, <1>2 DEF Typed, Linked, Seen, Pending, HeadVisited, Expanded, Reaches
<1> QED
  BY <1>4, <1>5, <1>6, <1>7, <1>8, <1>9, <1>10 DEF Next

THEOREM Invariant == Spec => []IInv
<1> QED
  BY InitIInv, NextIInv, PTL DEF Spec

---------------------------------------------------------------------------
\* No interleaving of the workers gives a vertex the label of a vertex that
\* it is not weakly connected with, in any graph and for any roots
\* (AppExample.cpp wcc, wcc_task, wcc_apply_changes).
THEOREM SoundLabels == Spec => []LabelsSound
<1>1. ASSUME IInv PROVE LabelsSound
  <2> SUFFICES ASSUME input.app = "wcc", NEW v \in Vertex
               PROVE  Connected(v, idValue[v])
    BY DEF LabelsSound
  <2>1. Joint(input.lists, v, idValue[v])
    BY <1>1 DEF IInv, Searching, Linked
  <2> QED
    BY <2>1, Zenon DEF Connected, Joint, Colours
<1> QED
  BY <1>1, Invariant, PTL

\* When the searches have ended exactly the vertices that a root reaches are
\* visited, in any graph, for any roots and any number of workers that test
\* and set isVisited without a lock (AppExample.cpp bfs_forest, wcc).
THEOREM CompleteForest == Spec => []ForestComplete
<1>1. ASSUME IInv PROVE ForestComplete
  <2> DEFINE visited == {v \in Vertex : isVisited[v]}
  <2> SUFFICES ASSUME pc \in {"forest", "wcc"}, Joined
               PROVE  /\ input.roots \subseteq visited
                      /\ Closed(visited)
                      /\ \A C \in SUBSET Vertex : input.roots \subseteq C /\ Closed(C) => visited \subseteq C
    BY Zenon DEF ForestComplete
  <2>1. input \in Inputs /\ Searching(input) /\ Typed /\ Seen /\ Pending
    BY <1>1 DEF IInv
  <2>2. /\ input.lists \in [Vertex -> Seq(Vertex)] /\ input.roots \subseteq Vertex
        /\ pc # "input"
    BY <2>1, InputTypes
  <2>3. \A w \in input.workers : /\ worker[w].step = "idle"
                                 /\ Range(worker[w].que) = {} /\ Range(worker[w].p) = {}
    BY <2>1, RangeShort DEF Joined, Typed, WellFormed, Outside
  <2>4. input.roots \subseteq visited
    BY <2>1, <2>2, <2>3 DEF Pending, Joined
  <2>5. Closed(visited)
    <3>1. \A u \in visited : \A y \in Range(input.lists[u]) : isVisited[y]
      BY <2>1, <2>3 DEF Pending, Expanded, Reaches
    <3>2. \A u \in visited : Range(input.lists[u]) \subseteq Vertex
      BY <2>2, RangeTyped
    <3> QED
      BY <3>1, <3>2 DEF Closed, Range
  <2>6. ASSUME NEW C \in SUBSET Vertex, input.roots \subseteq C, Closed(C)
        PROVE  visited \subseteq C
    BY <2>1, <2>6 DEF Seen, Met, IsClosed, Closed
  <2> QED
    BY <2>4, <2>5, <2>6
<1> QED
  BY <1>1, Invariant, PTL
=============================================================================
