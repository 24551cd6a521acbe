----------------------------- MODULE Condense -----------------------------
(***************************************************************************)
(* Graph::readGraph2 (Matrix/Graph.cpp): from the adjacency lists of any   *)
(* directed graph and a file that lists its strongly connected components  *)
(* to the renumbered acyclic graph that reach builds its index over.  One  *)
(* step is one component read, one edge of generate_DAG or of recode, one  *)
(* vertex of theirs, one record written, or one pass boundary.             *)
(*                                                                         *)
(* The component file is written by another program; only the components   *)
(* of two or more vertices are read, in any order and with their members   *)
(* in any order.  scc_located uses 0 for "in no component", so a component *)
(* is never named after vertex 0.                                          *)
(***************************************************************************)
EXTENDS AdjGraph, SequencesExt

CONSTANT Inputs     \* records of adjacency lists (adj) and components (scc)

Mutual(g, x, y) == Reachable(g, x, y) /\ Reachable(g, y, x)

ASSUME MaxIDAssumption == maxID \in Nat

ASSUME InputsAssumption ==
    \A in \in Inputs :
        /\ in.adj \in [Vertex -> Seq(Vertex)]
        /\ \A v \in Vertex : v \notin Succ(in.adj, v)
        /\ in.scc \in Seq(Seq(Vertex))
        /\ \A c \in DOMAIN in.scc : IsInjective(in.scc[c]) /\ Len(in.scc[c]) >= 2
        /\ \A c, d \in DOMAIN in.scc :
              ToSet(in.scc[c]) \cap ToSet(in.scc[d]) # {} => c = d
        /\ \A x \in Vertex : \A y \in Vertex \ {x} :
              Mutual(in.adj, x, y)
                <=> \E c \in DOMAIN in.scc : {x, y} \subseteq ToSet(in.scc[c])

VARIABLES
    graph,              \* the adjacency lists construct_adj wrote
    sccs,               \* the component lists, in the file's order
    pc,                 \* the pass readGraph2 is in
    indeg, outdeg,      \* degree[], globalDegree[]
    scc_num,            \* components read so far
    scc_located,        \* the vertex that stands for one's component, or 0
    scc_num_located,    \* the component's number in the file, or 0
    i,                  \* the vertex, root or record a pass is at
    member, k,          \* the list that is read for it, 0: none yet, and the edge
    DAG,                \* the condensed adjacency lists
    visit_flag,         \* querycnt of the vertex that last reached this one
    querycnt,           \* the number of vertices begun
    root_arr,           \* the roots, in the order of qsort
    que, visited_arr,   \* recode's queue and marks
    curID,              \* the vertex recode has taken from its queue
    idcount,            \* the next new id, at the end the largest
    newID,              \* oldID_mapto_newID, 0 for a vertex without edges
    out                 \* the adjacency lists construct_adj_DAG writes

sccVars == <<scc_num, scc_located, scc_num_located>>
dagVars == <<i, member, k, DAG, visit_flag, querycnt, outdeg>>
codeVars == <<que, visited_arr, curID, idcount, newID>>
vars == <<graph, sccs, pc, indeg, sccVars, dagVars, root_arr, codeVars, out>>

Zero == [v \in Vertex |-> 0]
Empty == [v \in Vertex |-> <<>>]

InEdges(g, v) == Cardinality({s \in Slot(g) : Target(g, s) = v})

Init ==
    /\ \E in \in Inputs : graph = in.adj /\ sccs = in.scc
    /\ pc = "adj"
    /\ indeg = [v \in Vertex |-> InEdges(graph, v)]
    /\ outdeg = [v \in Vertex |-> Len(graph[v])]
    /\ scc_num = 0 /\ scc_located = Zero /\ scc_num_located = Zero
    /\ i = 0 /\ member = 0 /\ k = 0 /\ DAG = Empty /\ visit_flag = Zero /\ querycnt = 0
    /\ root_arr = <<>> /\ que = <<>> /\ visited_arr = [v \in Vertex |-> FALSE]
    /\ curID = 0 /\ idcount = 0 /\ newID = Zero /\ out = Empty

---------------------------------------------------------------------------
(***************************************************************************)
(* Sorter::sort maps the file of edges into memory and asserts that this   *)
(* succeeds.  A file without an edge has no bytes and cannot be mapped.    *)
(***************************************************************************)
SortEdges(from, g, to) ==
    /\ pc = from
    /\ pc' = IF Slot(g) = {} THEN "aborted" ELSE to
    /\ UNCHANGED <<graph, sccs, indeg, sccVars, dagVars, root_arr, codeVars, out>>

ConstructAdj == SortEdges("adj", graph, "scc")

\* Mutant: 0 is taken as a name like any other.
FirstSccIDPlain(c) == c[1]

---------------------------------------------------------------------------
(***************************************************************************)
(* readScc: one component.                                                 *)
(***************************************************************************)
\* The first member of the component, or the second if that is vertex 0.
FirstSccID(c) == IF c[1] = 0 THEN c[2] ELSE c[1]

ReadScc ==
    /\ pc = "scc" /\ scc_num < Len(sccs)
    /\ LET c == sccs[scc_num + 1]
           In(v) == v \in ToSet(c)
       IN  /\ scc_located' = [v \in Vertex |->
                  IF In(v) THEN FirstSccID(c) ELSE scc_located[v]]
           /\ scc_num_located' = [v \in Vertex |->
                  IF In(v) THEN scc_num + 1 ELSE scc_num_located[v]]
           /\ indeg' = [v \in Vertex |-> IF In(v) THEN 0 ELSE indeg[v]]
    /\ scc_num' = scc_num + 1
    /\ UNCHANGED <<graph, sccs, pc, dagVars, root_arr, codeVars, out>>

ReadSccEnd ==
    /\ pc = "scc" /\ scc_num = Len(sccs)
    /\ pc' = "dag"
    /\ UNCHANGED <<graph, sccs, indeg, sccVars, dagVars, root_arr, codeVars, out>>

---------------------------------------------------------------------------
(***************************************************************************)
(* generate_DAG and deal_with_scc.  The vertex that names a component      *)
(* scans the lists of all members, the other members scan nothing.         *)
(***************************************************************************)
\* The vertex u becomes in the condensed graph.
Stand(u) == IF scc_located[u] = 0 THEN u ELSE scc_located[u]

\* The vertices whose successors u goes through, in order.
Members(u) ==
    IF scc_located[u] = 0 THEN <<u>>
    ELSE IF scc_located[u] = u THEN sccs[scc_num_located[u]] ELSE <<>>

\* Already in the list of the vertex being scanned.
Flagged(v) == visit_flag[v] = querycnt

DagBegin ==
    /\ pc = "dag" /\ i <= maxID /\ member = 0
    /\ querycnt' = querycnt + 1
    /\ member' = 1 /\ k' = 1
    /\ UNCHANGED <<graph, sccs, pc, indeg, sccVars, i, DAG, visit_flag, outdeg,
                   root_arr, codeVars, out>>

\* tempEnt->insertID(w): w is flagged and becomes a successor of i.
Insert(w) ==
    /\ DAG' = [DAG EXCEPT ![i] = Append(@, w)]
    /\ visit_flag' = [visit_flag EXCEPT ![w] = querycnt]

(***************************************************************************)
(* The in-degree of a component is counted here, edge by edge.  That of a  *)
(* vertex in no component is what construct_adj counted, less the edges a  *)
(* component has to it beyond the first.                                   *)
(***************************************************************************)
InDegreeAfter(v) ==
    IF scc_located[v] # 0
    THEN IF scc_located[v] # scc_located[i] /\ ~Flagged(Stand(v))
         THEN [indeg EXCEPT ![Stand(v)] = @ + 1] ELSE indeg
    ELSE IF scc_located[i] # 0 /\ Flagged(v)
         THEN [indeg EXCEPT ![v] = @ - 1] ELSE indeg

\* v lies in the component that is being scanned.
Inside(v) == scc_located[v] # 0 /\ scc_located[v] = scc_located[i]

Scanning == pc = "dag" /\ i <= maxID /\ member > 0

DagEdge ==
    /\ Scanning /\ member <= Len(Members(i)) /\ k <= Len(graph[Members(i)[member]])
    /\ LET v == graph[Members(i)[member]][k]
       IN  /\ indeg' = InDegreeAfter(v)
           /\ IF Inside(v) \/ Flagged(Stand(v))
              THEN UNCHANGED <<DAG, visit_flag>>
              ELSE Insert(Stand(v))
    /\ k' = k + 1
    /\ UNCHANGED <<graph, sccs, pc, sccVars, i, member, querycnt, outdeg, root_arr,
                   codeVars, out>>

DagMember ==
    /\ Scanning /\ member <= Len(Members(i)) /\ k > Len(graph[Members(i)[member]])
    /\ member' = member + 1 /\ k' = 1
    /\ UNCHANGED <<graph, sccs, pc, indeg, sccVars, i, DAG, visit_flag, querycnt,
                   outdeg, root_arr, codeVars, out>>

DagVertex ==
    /\ Scanning /\ member > Len(Members(i))
    /\ outdeg' = [outdeg EXCEPT ![i] = Len(DAG[i])]
    /\ i' = i + 1 /\ member' = 0 /\ k' = 0
    /\ UNCHANGED <<graph, sccs, pc, indeg, sccVars, DAG, visit_flag, querycnt,
                   root_arr, codeVars, out>>

\* generate_DAG_reverse_adj sorts the edges that were kept.
DagEnd == i > maxID /\ SortEdges("dag", DAG, "roots")

---------------------------------------------------------------------------
(***************************************************************************)
(* get_forward_root_vertices and recode.                                   *)
(***************************************************************************)
\* Mutant: a vertex without any edge is a root.
ForwardRootsAll == {v \in Vertex : indeg[v] = 0}

ForwardRoots ==
    LET R == {v \in Vertex : indeg[v] = 0 /\ outdeg[v] > 0}
    IN  IF R = {} THEN {0} ELSE R

\* The ways to list S that keep Before, equal members in any order.
Listings(S, Before(_, _)) ==
    {s \in [1 .. Cardinality(S) -> S] :
        ToSet(s) = S /\ \A a, b \in DOMAIN s : a < b => Before(s[a], s[b])}

\* qsort by descending out-degree leaves equal vertices in any order.
Roots ==
    /\ pc = "roots"
    /\ root_arr' \in Listings(ForwardRoots, LAMBDA u, v : outdeg[u] >= outdeg[v])
    /\ pc' = "recode" /\ i' = 1
    /\ UNCHANGED <<graph, sccs, indeg, sccVars, member, k, DAG, visit_flag,
                   querycnt, outdeg, codeVars, out>>

RecodeRoot ==
    /\ pc = "recode" /\ que = <<>> /\ i <= Len(root_arr)
    /\ que' = <<root_arr[i]>>
    /\ visited_arr' = [visited_arr EXCEPT ![root_arr[i]] = TRUE]
    /\ i' = i + 1
    /\ UNCHANGED <<graph, sccs, pc, indeg, sccVars, member, k, DAG, visit_flag,
                   querycnt, outdeg, root_arr, curID, idcount, newID, out>>

RecodeVertex ==
    /\ pc = "recode" /\ que # <<>>
    /\ curID' = Head(que) /\ que' = Tail(que)
    /\ newID' = [newID EXCEPT ![Head(que)] = idcount]
    /\ idcount' = idcount + 1
    /\ k' = 1
    /\ pc' = "recode_edges"
    /\ UNCHANGED <<graph, sccs, indeg, sccVars, i, member, DAG, visit_flag,
                   querycnt, outdeg, root_arr, visited_arr, out>>

RecodeEdge ==
    /\ pc = "recode_edges" /\ k <= Len(DAG[curID])
    /\ LET v == DAG[curID][k]
       IN  /\ que' = IF visited_arr[v] THEN que ELSE Append(que, v)
           /\ visited_arr' = [visited_arr EXCEPT ![v] = TRUE]
    /\ k' = k + 1
    /\ UNCHANGED <<graph, sccs, pc, indeg, sccVars, i, member, DAG, visit_flag,
                   querycnt, outdeg, root_arr, curID, idcount, newID, out>>

RecodeVertexEnd ==
    /\ pc = "recode_edges" /\ k > Len(DAG[curID])
    /\ pc' = "recode"
    /\ UNCHANGED <<graph, sccs, indeg, sccVars, dagVars, root_arr, codeVars, out>>

RecodeEnd ==
    /\ pc = "recode" /\ que = <<>> /\ i > Len(root_arr)
    /\ idcount' = idcount - 1
    /\ i' = 0
    /\ pc' = "adj_DAG"
    /\ UNCHANGED <<graph, sccs, indeg, sccVars, member, k, DAG, visit_flag,
                   querycnt, outdeg, root_arr, que, visited_arr, curID, newID, out>>

---------------------------------------------------------------------------
(***************************************************************************)
(* construct_adj_DAG: the edges under their new ids, sorted, written as    *)
(* the list of one id after the other up to idcount.                       *)
(***************************************************************************)
To(s) == newID[Target(DAG, s)]

NewEdges(n) == {s \in Slot(DAG) : newID[s[1]] = n}

WriteList ==
    /\ pc = "adj_DAG" /\ i <= idcount
    /\ \E s \in Listings(NewEdges(i), LAMBDA a, b : To(a) <= To(b)) :
           out' = [out EXCEPT ![i] = [n \in 1 .. Len(s) |-> To(s[n])]]
    /\ i' = i + 1
    /\ UNCHANGED <<graph, sccs, pc, indeg, sccVars, member, k, DAG, visit_flag,
                   querycnt, outdeg, root_arr, codeVars>>

WriteEnd ==
    /\ pc = "adj_DAG" /\ i > idcount
    /\ pc' = "done"
    /\ UNCHANGED <<graph, sccs, indeg, sccVars, dagVars, root_arr, codeVars, out>>

Next ==
    \/ ConstructAdj \/ ReadScc \/ ReadSccEnd
    \/ DagBegin \/ DagEdge \/ DagMember \/ DagVertex \/ DagEnd
    \/ Roots \/ RecodeRoot \/ RecodeVertex \/ RecodeEdge \/ RecodeVertexEnd
    \/ RecodeEnd \/ WriteList \/ WriteEnd

Spec == Init /\ [][Next]_vars

---------------------------------------------------------------------------
SccTypes ==
    /\ scc_num \in 0 .. Len(sccs)
    /\ scc_located \in [Vertex -> Vertex]
    /\ scc_num_located \in [Vertex -> 0 .. Len(sccs)]

DagTypes ==
    /\ graph \in [Vertex -> Seq(Vertex)] /\ DAG \in [Vertex -> Seq(Vertex)]
    /\ indeg \in [Vertex -> Nat] /\ outdeg \in [Vertex -> Nat]
    /\ i \in 0 .. maxID + 2 /\ member \in Nat /\ k \in Nat
    /\ querycnt \in 0 .. maxID + 1
    /\ visit_flag \in [Vertex -> 0 .. maxID + 1]

CodeTypes ==
    /\ root_arr \in Seq(Vertex) /\ que \in Seq(Vertex)
    /\ visited_arr \in [Vertex -> BOOLEAN] /\ curID \in Vertex
    /\ idcount \in 0 .. maxID + 1 /\ newID \in [Vertex -> 0 .. maxID]
    /\ out \in [Vertex -> Seq(Vertex)]

TypeOK ==
    /\ pc \in {"adj", "scc", "dag", "roots", "recode", "recode_edges", "adj_DAG",
               "done", "aborted"}
    /\ SccTypes /\ DagTypes /\ CodeTypes

(***************************************************************************)
(* generate_DAG keeps the unsigned in-degree of a vertex at or above the   *)
(* number of edges it has kept to it, so a subtraction never wraps, and    *)
(* when it ends a vertex has in-degree zero exactly if it has no in-edge:  *)
(* the roots are the sources, although parallel edges leave other counts   *)
(* too high.                                                               *)
(***************************************************************************)
InDegreesSuffice ==
    /\ \A v \in Vertex : indeg[v] >= InEdges(DAG, v)
    /\ pc \in {"roots", "recode", "recode_edges", "adj_DAG", "done"} =>
           \A v \in Vertex : InEdges(DAG, v) = 0 => indeg[v] = 0

\* The vertices that get a new id: those with an edge in the condensed graph.
Live == {v \in Vertex : DAG[v] # <<>> \/ InEdges(DAG, v) > 0}

(***************************************************************************)
(* recode gives the vertices that have an edge the ids 0..idcount, each    *)
(* once, and leaves no id unused: every one of them is below a root, no    *)
(* vertex is queued twice, and no root is below another.                   *)
(***************************************************************************)
IdsExact ==
    pc = "done" =>
        /\ {newID[v] : v \in Live} = 0 .. idcount
        /\ Cardinality(Live) = idcount + 1

Written == INSTANCE AdjGraph WITH maxID <- idcount

(***************************************************************************)
(* What is written is what reach expects, an acyclic graph without         *)
(* parallel edges, and it answers for the graph that was read: y can be    *)
(* reached from x iff the two stand for one component or the component of  *)
(* y can be reached from that of x under the new ids.                      *)
(***************************************************************************)
ReachabilityKept ==
    pc = "done" =>
        /\ Written!Acyclic(out)
        /\ \A n \in Written!Vertex : out[n] \in Seq(Written!Vertex) /\ IsInjective(out[n])
        /\ \A x, y \in Vertex :
              Reachable(graph, x, y) <=>
                  \/ Stand(x) = Stand(y)
                  \/ /\ {Stand(x), Stand(y)} \subseteq Live
                     /\ Written!Reachable(out, newID[Stand(x)], newID[Stand(y)])

\* The condensed graph is written from degrees that never wrapped, and stands
\* for the graph that was read (Graph.cpp generate_DAG, construct_adj_DAG).
DagExact == TypeOK /\ InDegreesSuffice /\ ReachabilityKept
===========================================================================
