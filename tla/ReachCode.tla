----------------------------- MODULE ReachCode -----------------------------
(***************************************************************************)
(* The second half of reach::construct_index: once the regions are known,  *)
(* vertices are renumbered in preorder (decode), get an interval and an    *)
(* upward level (cal_index), and the lists of exceptions and of entry      *)
(* points into other regions (cal_excp_and_cross_arr).  One step is one    *)
(* out-edge, or in cal_index one vertex, or one comparison of two entry    *)
(* points; curID and j are the vertex and the out-edge at hand.            *)
(*                                                                         *)
(* A list the code sorts before it is ever read is the set of its members. *)
(***************************************************************************)
EXTENDS ReachLayers

VARIABLES
    que,                \* the deque of cal_cross_degree and of decode
    curID,              \* the vertex whose out-edges are being read
    visited,            \* visited_arr
    idcount,            \* how many vertices are renumbered
    oldID_mapto_newID,  \* 0 until decode reaches the vertex
    rl, rlt,            \* by new id: layer, and region
    excpID_O,           \* in-region successors decode did not descend into
    Lup,                \* longest distance to a sink, counted from 1
    interval,           \* by new id: the largest new id of its subtree
    excpID,             \* by new id: in-region targets outside the interval
    id_cross_arr,       \* by new id: entry points into other regions
    id_cross_arr_pro,   \* the entry points accepted so far, of curID
    reach_flag,         \* the new ids stamped reachable, for curID
    candidates,         \* the entry points the out-edge still offers
    len, pos            \* is_reachable: its last argument and its loop

searchVars == <<que, curID, visited>>
numberVars == <<idcount, oldID_mapto_newID, rl, rlt, excpID_O>>
levelVars  == <<Lup, interval>>
offerVars  == <<id_cross_arr_pro, reach_flag, candidates, len, pos>>
labelVars  == <<excpID, id_cross_arr, offerVars>>
codeVars   == <<searchVars, numberVars, levelVars, labelVars>>

NewID == 1 .. maxID + 1

Unset == [n \in NewID |-> 0]

CodeInit ==
    /\ Init
    /\ que = <<>> /\ curID = 0 /\ visited = {} /\ idcount = 0
    /\ oldID_mapto_newID = Zero /\ rl = Unset /\ rlt = Unset
    /\ excpID_O = [v \in Vertex |-> <<>>]
    /\ Lup = Zero /\ interval = Unset
    /\ excpID = [n \in NewID |-> {}] /\ id_cross_arr = [n \in NewID |-> {}]
    /\ id_cross_arr_pro = <<>> /\ reach_flag = {} /\ candidates = {}
    /\ len = 0 /\ pos = 0

\* Everything the layering owns, but pc, i, j and curInDegree.
layeringKept == <<graph, indeg, nextInDegree, scanVars, rootVars, TopoOrder,
                  Ldown, layer, TopoOrder_cross, vectorsize>>

SameRegion(u, v) == root_located[v] = root_located[u]

InRegion(u) == {v \in Succ(graph, u) : SameRegion(u, v)}

CodeStart ==
    /\ pc = "layered"
    /\ pc' = "cal_cross_degree" /\ i' = 1
    /\ UNCHANGED <<layeringKept, j, curInDegree, codeVars>>

---------------------------------------------------------------------------
(***************************************************************************)
(* cal_cross_degree and decode search from every root in turn.             *)
(***************************************************************************)
NextRoot ==
    /\ pc \in {"cal_cross_degree", "decode"}
    /\ que = <<>> /\ i <= Len(temp_root_arr)
    /\ que' = <<temp_root_arr[i]>>
    /\ i' = i + 1
    /\ UNCHANGED <<layeringKept, pc, j, curInDegree, curID, visited,
                   numberVars, levelVars, labelVars>>

\* Its first vertex leaves the deque.
Take ==
    /\ que # <<>>
    /\ curID' = Head(que)
    /\ que' = Tail(que)
    /\ j' = 1

\* cal_cross_degree counts, per vertex, the in-edges inside its region.
CountVertex ==
    /\ pc = "cal_cross_degree"
    /\ Take
    /\ pc' = "cal_cross_degree_edges"
    /\ UNCHANGED <<layeringKept, i, curInDegree, visited, numberVars,
                   levelVars, labelVars>>

CountEdge ==
    /\ pc = "cal_cross_degree_edges" /\ j <= Len(graph[curID])
    /\ LET v == graph[curID][j]
       IN  \/ /\ SameRegion(curID, v)
              /\ curInDegree' = [curInDegree EXCEPT ![v] = @ + 1]
              /\ visited' = visited \cup {v}
              /\ que' = IF v \in visited THEN que ELSE Append(que, v)
           \/ /\ ~SameRegion(curID, v)
              /\ UNCHANGED <<curInDegree, visited, que>>
    /\ j' = j + 1
    /\ UNCHANGED <<layeringKept, pc, i, curID, numberVars, levelVars,
                   labelVars>>

CountVertexEnd ==
    /\ pc = "cal_cross_degree_edges" /\ j > Len(graph[curID])
    /\ pc' = "cal_cross_degree"
    /\ UNCHANGED <<layeringKept, i, j, curInDegree, codeVars>>

CountEnd ==
    /\ pc = "cal_cross_degree" /\ que = <<>> /\ i > Len(temp_root_arr)
    /\ pc' = "decode" /\ i' = 1
    /\ UNCHANGED <<layeringKept, j, curInDegree, codeVars>>

---------------------------------------------------------------------------
(***************************************************************************)
(* decode: preorder numbers.  A vertex is descended into from the last of  *)
(* its in-region predecessors; for the others it is an exception.          *)
(***************************************************************************)
DecodeVertex ==
    /\ pc = "decode"
    /\ Take
    /\ LET n == idcount + 1
       IN  /\ idcount' = n
           /\ oldID_mapto_newID' = [oldID_mapto_newID EXCEPT ![curID'] = n]
           /\ rl' = [rl EXCEPT ![n] = root_layer[temp_root_arr[i - 1]]]
           /\ rlt' = [rlt EXCEPT ![n] = root_located[curID']]
    /\ pc' = "decode_edges"
    /\ UNCHANGED <<layeringKept, i, curInDegree, visited, excpID_O, levelVars,
                   labelVars>>

DecodeEdge ==
    /\ pc = "decode_edges" /\ j <= Len(graph[curID])
    /\ LET v    == graph[curID][j]
           left == IF curInDegree[v] > 0 THEN curInDegree[v] - 1 ELSE 0
       IN  \/ /\ SameRegion(curID, v)
              /\ curInDegree' = [curInDegree EXCEPT ![v] = left]
              /\ \/ /\ left > 0
                    /\ excpID_O' = [excpID_O EXCEPT ![curID] = Append(@, v)]
                    /\ UNCHANGED que
                 \/ /\ left = 0
                    /\ que' = <<v>> \o que
                    /\ UNCHANGED excpID_O
           \/ /\ ~SameRegion(curID, v)
              /\ UNCHANGED <<curInDegree, excpID_O, que>>
    /\ j' = j + 1
    /\ UNCHANGED <<layeringKept, pc, i, curID, visited, idcount,
                   oldID_mapto_newID, rl, rlt, levelVars, labelVars>>

DecodeVertexEnd ==
    /\ pc = "decode_edges" /\ j > Len(graph[curID])
    /\ pc' = "decode"
    /\ UNCHANGED <<layeringKept, i, j, curInDegree, codeVars>>

DecodeEnd ==
    /\ pc = "decode" /\ que = <<>> /\ i > Len(temp_root_arr)
    /\ pc' = "cal_index" /\ i' = Len(TopoOrder)
    /\ UNCHANGED <<layeringKept, j, curInDegree, codeVars>>

---------------------------------------------------------------------------
(***************************************************************************)
(* cal_index, against the topological order.  is_excp is a binary search   *)
(* in excpID_O[u], which keeps the ascending order of the adjacency list.  *)
(***************************************************************************)
Largest(S) == CHOOSE x \in S : \A y \in S : x >= y

\* Mutant: cal_index does not ask is_excp.
DescendedAny(u) == InRegion(u)

Descended(u) == InRegion(u) \ Elems(excpID_O[u])

IndexVertex ==
    /\ pc = "cal_index" /\ i >= 1
    /\ LET u == TopoOrder[i]
           n == oldID_mapto_newID[u]
       IN  /\ Lup' = [Lup EXCEPT ![u] =
                 1 + Largest({0} \cup {Lup[v] : v \in Succ(graph, u)})]
           /\ interval' = [interval EXCEPT ![n] =
                 Largest({n} \cup {interval[oldID_mapto_newID[v]] :
                                       v \in Descended(u)})]
    /\ i' = i - 1
    /\ UNCHANGED <<layeringKept, pc, j, curInDegree, searchVars, numberVars,
                   labelVars>>

IndexEnd ==
    /\ pc = "cal_index" /\ i = 0
    /\ pc' = "cal_excp_and_cross_arr" /\ i' = Len(TopoOrder)
    /\ UNCHANGED <<layeringKept, j, curInDegree, codeVars>>

---------------------------------------------------------------------------
(***************************************************************************)
(* cal_excp_and_cross_arr.  reach_flag and exit_flag are compared with a   *)
(* stamp that is new for every vertex: reach_flag is the set of ids that   *)
(* carry the stamp, and the ids stamped in exit_flag are those already in  *)
(* excpID or id_cross_arr_pro of the vertex.                               *)
(***************************************************************************)
LabelVertex ==
    /\ pc = "cal_excp_and_cross_arr" /\ i >= 1
    /\ LET u == TopoOrder[i]
           n == oldID_mapto_newID[u]
       IN  /\ curID' = u
           /\ excpID' = [excpID EXCEPT ![n] =
                 {e \in {oldID_mapto_newID[v] : v \in Elems(excpID_O[u])} :
                     interval[n] < interval[e]}]
    /\ j' = 1 /\ id_cross_arr_pro' = <<>> /\ reach_flag' = {}
    /\ pc' = "label_edges"
    /\ UNCHANGED <<layeringKept, i, curInDegree, que, visited, numberVars,
                   levelVars, id_cross_arr, candidates, len, pos>>

\* An in-region successor hands on its exceptions and its entry points; any
\* other successor is an entry point.
LabelEdge ==
    /\ pc = "label_edges" /\ j <= Len(graph[curID])
    /\ LET n == oldID_mapto_newID[curID]
           m == oldID_mapto_newID[graph[curID][j]]
       IN  \/ /\ rlt[m] = rlt[n]
              /\ excpID' = [excpID EXCEPT ![n] =
                    @ \cup {e \in excpID[m] : interval[n] < interval[e]}]
              /\ candidates' = id_cross_arr[m]
           \/ /\ rlt[m] # rlt[n]
              /\ candidates' = {m}
              /\ UNCHANGED excpID
    /\ len' = Len(id_cross_arr_pro)
    /\ pc' = "candidates"
    /\ UNCHANGED <<layeringKept, i, j, curInDegree, searchVars, numberVars,
                   levelVars, id_cross_arr, id_cross_arr_pro, reach_flag, pos>>

\* same_tree_reach(a, b) for a < b in one region: the exceptions it reads ...
Consulted(a, b) ==
    IF interval[a] >= interval[b] THEN {}
    ELSE {e \in excpID[a] :
             \A d \in excpID[a] : d < e => d <= b /\ interval[d] < interval[b]}

\* ... and its answer.
SameTree(a, b) ==
    \/ interval[a] >= interval[b]
    \/ \E e \in excpID[a] : e <= b /\ interval[e] >= interval[b]

\* The lists are ascending: the next candidate is the smallest left.
Candidate == CHOOSE c \in candidates : \A d \in candidates : c <= d

DropCandidate ==
    /\ candidates' = candidates \ {Candidate}
    /\ pc' = "candidates"

KnownCandidate ==
    /\ pc = "candidates" /\ candidates # {}
    /\ Candidate \in reach_flag \cup Elems(id_cross_arr_pro)
    /\ DropCandidate
    /\ UNCHANGED <<layeringKept, i, j, curInDegree, searchVars, numberVars,
                   levelVars, excpID, id_cross_arr, id_cross_arr_pro,
                   reach_flag, len, pos>>

OfferCandidate ==
    /\ pc = "candidates" /\ candidates # {}
    /\ Candidate \notin reach_flag \cup Elems(id_cross_arr_pro)
    /\ pos' = 1
    /\ pc' = "is_reachable"
    /\ UNCHANGED <<layeringKept, i, j, curInDegree, searchVars, numberVars,
                   levelVars, excpID, id_cross_arr, id_cross_arr_pro,
                   reach_flag, candidates, len>>

CandidatesEnd ==
    /\ pc = "candidates" /\ candidates = {}
    /\ j' = j + 1
    /\ pc' = "label_edges"
    /\ UNCHANGED <<layeringKept, i, curInDegree, codeVars>>

\* One turn of is_reachable: the candidate against an accepted entry point,
\* which it may make superfluous or which may make it so.
Incomparable ==
    /\ pc = "is_reachable" /\ pos <= len
    /\ LET id == id_cross_arr_pro[pos]
       IN  id \in reach_flag \/ rlt[id] # rlt[Candidate]
    /\ pos' = pos + 1
    /\ UNCHANGED <<layeringKept, pc, i, j, curInDegree, searchVars, numberVars,
                   levelVars, excpID, id_cross_arr, id_cross_arr_pro,
                   reach_flag, candidates, len>>

CompareAbove ==
    /\ pc = "is_reachable" /\ pos <= len
    /\ LET c  == Candidate
           id == id_cross_arr_pro[pos]
       IN  /\ id \notin reach_flag /\ rlt[id] = rlt[c] /\ id > c
           /\ reach_flag' = reach_flag \cup Consulted(c, id) \cup
                               {x \in {id} : SameTree(c, id)}
    /\ pos' = pos + 1
    /\ UNCHANGED <<layeringKept, pc, i, j, curInDegree, searchVars, numberVars,
                   levelVars, excpID, id_cross_arr, id_cross_arr_pro,
                   candidates, len>>

CompareBelow ==
    /\ pc = "is_reachable" /\ pos <= len
    /\ LET c  == Candidate
           id == id_cross_arr_pro[pos]
       IN  /\ id \notin reach_flag /\ rlt[id] = rlt[c] /\ id <= c
           /\ reach_flag' = reach_flag \cup Consulted(id, c) \cup
                               {x \in {c} : SameTree(id, c)}
           /\ \/ SameTree(id, c) /\ DropCandidate /\ UNCHANGED pos
              \/ ~SameTree(id, c) /\ pos' = pos + 1 /\ UNCHANGED <<pc, candidates>>
    /\ UNCHANGED <<layeringKept, i, j, curInDegree, searchVars, numberVars,
                   levelVars, excpID, id_cross_arr, id_cross_arr_pro, len>>

AcceptCandidate ==
    /\ pc = "is_reachable" /\ pos > len
    /\ id_cross_arr_pro' = Append(id_cross_arr_pro, Candidate)
    /\ DropCandidate
    /\ UNCHANGED <<layeringKept, i, j, curInDegree, searchVars, numberVars,
                   levelVars, excpID, id_cross_arr, reach_flag, len, pos>>

LabelVertexEnd ==
    /\ pc = "label_edges" /\ j > Len(graph[curID])
    /\ id_cross_arr' = [id_cross_arr EXCEPT ![oldID_mapto_newID[curID]] =
                           Elems(id_cross_arr_pro) \ reach_flag]
    /\ i' = i - 1
    /\ pc' = "cal_excp_and_cross_arr"
    /\ UNCHANGED <<layeringKept, j, curInDegree, searchVars, numberVars,
                   levelVars, excpID, offerVars>>

LabelEnd ==
    /\ pc = "cal_excp_and_cross_arr" /\ i = 0
    /\ pc' = "ready"
    /\ UNCHANGED <<layeringKept, i, j, curInDegree, codeVars>>

---------------------------------------------------------------------------
CodeNext ==
    \/ Next /\ UNCHANGED codeVars
    \/ CodeStart \/ NextRoot
    \/ CountVertex \/ CountEdge \/ CountVertexEnd \/ CountEnd
    \/ DecodeVertex \/ DecodeEdge \/ DecodeVertexEnd \/ DecodeEnd
    \/ IndexVertex \/ IndexEnd
    \/ LabelVertex \/ LabelEdge
    \/ KnownCandidate \/ OfferCandidate \/ CandidatesEnd
    \/ Incomparable \/ CompareAbove \/ CompareBelow \/ AcceptCandidate
    \/ LabelVertexEnd \/ LabelEnd

CodeSpec == CodeInit /\ [][CodeNext]_<<vars, codeVars>>
===========================================================================
