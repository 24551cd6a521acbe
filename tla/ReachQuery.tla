---------------------------- MODULE ReachQuery ----------------------------
(***************************************************************************)
(* reach::process: build the index, then answer reachability queries from  *)
(* it.  A query changes nothing the next one reads, so the bound of one    *)
(* query per behaviour loses nothing.                                      *)
(***************************************************************************)
EXTENDS ReachCode

VARIABLE answer     \* the last query and its result; <<>> before the first

queryVars == <<vars, codeVars, answer>>

\* same_layer_tree_reach
SameLayerTreeReach(a, b) == rlt[a] = rlt[b] /\ SameTree(a, b)

\* Mutant: gives up at an entry point equal to the target.
DownLayerStrict(a0, b) ==
    LET down[a \in NewID] ==
            \E e \in id_cross_arr[a] :
                /\ e < b
                /\ IF rl[e] < rl[b] THEN down[e] ELSE SameLayerTreeReach(e, b)
    IN  down[a0]

(***************************************************************************)
(* down_layer_to_up_layer_without_cross_located: id_cross_arr is ascending *)
(* and the search gives up at the first entry point beyond b.              *)
(***************************************************************************)
DownLayer(a0, b) ==
    LET down[a \in NewID] ==
            \E e \in id_cross_arr[a] :
                /\ e <= b
                /\ IF rl[e] < rl[b] THEN down[e] ELSE SameLayerTreeReach(e, b)
    IN  down[a0]

\* query, called with new ids
Lookup(a, b) ==
    IF rl[a] < rl[b] THEN DownLayer(a, b) ELSE SameLayerTreeReach(a, b)

\* The two levels decide first, then the numbering, then the labels.
Answer(x, y) ==
    \/ x = y
    \/ /\ Ldown[x] < Ldown[y] /\ Lup[x] > Lup[y]
       /\ oldID_mapto_newID[x] <= oldID_mapto_newID[y]
       /\ Lookup(oldID_mapto_newID[x], oldID_mapto_newID[y])

QueryInit == CodeInit /\ answer = <<>>

Query(x, y) ==
    /\ pc = "ready"
    /\ answer = <<>>
    /\ answer' = <<x, y, Answer(x, y)>>
    /\ UNCHANGED <<vars, codeVars>>

QueryNext ==
    \/ CodeNext /\ UNCHANGED answer
    \/ \E x, y \in Vertex : Query(x, y)

QuerySpec == QueryInit /\ [][QueryNext]_queryVars

---------------------------------------------------------------------------
CodeTypeOK ==
    /\ que \in Seq(Vertex) /\ curID \in Vertex /\ visited \subseteq Vertex
    /\ idcount \in 0 .. maxID + 1
    /\ oldID_mapto_newID \in [Vertex -> 0 .. maxID + 1]
    /\ rl \in [NewID -> Nat] /\ rlt \in [NewID -> 0 .. maxID + 1]
    /\ excpID_O \in [Vertex -> Seq(Vertex)]
    /\ Lup \in [Vertex -> Nat] /\ interval \in [NewID -> 0 .. maxID + 1]
    /\ excpID \in [NewID -> SUBSET NewID]
    /\ id_cross_arr \in [NewID -> SUBSET NewID]
    /\ id_cross_arr_pro \in Seq(NewID)
    /\ reach_flag \subseteq NewID /\ candidates \subseteq NewID
    /\ len \in Nat /\ pos \in Nat
    /\ answer \in {<<>>} \cup (Vertex \X Vertex \X BOOLEAN)

(***************************************************************************)
(* The index answers exactly what the breadth-first search of              *)
(* reach::tranverse would: no reachable pair is denied by a filter or a    *)
(* pruned label, and no unreachable pair is affirmed.                      *)
(***************************************************************************)
QueryCorrect ==
    answer # <<>> =>
        (answer[3] <=> Reachable(graph, answer[1], answer[2]))

(***************************************************************************)
(* decode numbers every vertex once, and numbers grow along every edge,    *)
(* also across regions and layers: process answers "no" whenever           *)
(* oldID_mapto_newID[x] > oldID_mapto_newID[y].  Its counters, raised by   *)
(* cal_cross_degree, are used up.                                          *)
(***************************************************************************)
Renumbered ==
    pc = "cal_index" =>
        /\ \A u \in Vertex : \A v \in Vertex \ {u} :
              oldID_mapto_newID[u] # oldID_mapto_newID[v]
        /\ \A u \in Vertex : \A v \in Succ(graph, u) :
              oldID_mapto_newID[u] < oldID_mapto_newID[v]
        /\ curInDegree = Zero

\* The index is complete and no query has been asked yet.
Built == pc = "ready" /\ answer = <<>>

Covered(n) == UNION {e .. interval[e] : e \in excpID[n] \cup {n}}

(***************************************************************************)
(* Within a region a label is the exact set of its targets: the interval   *)
(* and the exceptions' intervals of n cover the numbers reachable from n   *)
(* and no other, and no exception lies inside the interval.                *)
(***************************************************************************)
IntervalsExact ==
    Built =>
        \A u \in Vertex :
            LET n == oldID_mapto_newID[u]
            IN  /\ Covered(n) = {oldID_mapto_newID[v] : v \in
                       {v \in Vertex : /\ root_located[v] = root_located[u]
                                       /\ Reachable(graph, u, v)}}
                /\ \A e \in excpID[n] : interval[e] > interval[n]

(***************************************************************************)
(* The entry points kept for a vertex are reduced: none is reachable,      *)
(* inside its region, from another one kept, although they are compared    *)
(* only with those accepted before the current out-edge.                   *)
(***************************************************************************)
LabelsReduced ==
    Built =>
        \A n \in NewID : \A a, b \in id_cross_arr[n] :
            a < b /\ rlt[a] = rlt[b] => ~SameTree(a, b)

\* The index that decode, cal_index and the cross codes have built says of
\* every vertex exactly what its queries need (reach.cpp process).
IndexExact == CodeTypeOK /\ Renumbered /\ IntervalsExact /\ LabelsReduced
===========================================================================
