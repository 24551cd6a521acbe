------------------------------ MODULE HashID ------------------------------
(***************************************************************************)
(* HashID (Matrix/HashID.cpp) as the programs in Algorithm/ drive it: a    *)
(* text file is converted to adjacency files; then either encode or DFS    *)
(* renumbers the vertices and the renumbered edges are cut into buckets,   *)
(* or, with the reverse files, pre_code condenses the graph and numbers it *)
(* tree by tree to answer reachability.  Sorted intervals take a path of   *)
(* their own.  Each action is one public operation; done holds what it     *)
(* leaves.                                                                 *)
(***************************************************************************)
EXTENDS HashDag, HashRange

CONSTANT Inputs     \* records [kind, lines]

VARIABLES input, pc, g, e, raw, d, c, r

vars == <<input, pc, g, e, raw, d, c, r>>

None == <<>>

Init == /\ input \in Inputs
        /\ pc = IF input.kind = "ranges" THEN "ranges" ELSE "text"
        /\ g = None /\ e = None /\ raw = None /\ d = None /\ c = None /\ r = None

---------------------------------------------------------------------------
Degrees(pairs, maxID) ==
    [indeg |-> [v \in 0 .. maxID |-> InDegree(pairs, v)],
     outdeg |-> [v \in 0 .. maxID |-> OutDegree(pairs, v)]]

Graph(store, pairs, maxID, maxFromID) ==
    [store |-> store, reverse |-> None, maxID |-> maxID, maxFromID |-> maxFromID]
      @@ Degrees(pairs, maxID)

Convert == /\ pc = "text" /\ input.kind = "edges"
           /\ LET pairs == FromSources(input.lines)
                  n == Largest(Ids(pairs))
              IN  g' = Graph(convert_edge(input.lines, n), pairs, n, n)
           /\ pc' = "graph"
           /\ UNCHANGED <<input, e, raw, d, c, r>>

\* from num to ...: the count is dropped for the degrees.
ConvertAdj == /\ pc = "text" /\ input.kind = "adj"
              /\ LET plain == [n \in DOMAIN input.lines |->
                                  <<input.lines[n][1]>> \o SubSeq(input.lines[n], 3, Len(input.lines[n]))]
                     n == Largest(NonumIds(plain))
                 IN  g' = Graph(convert_adj(input.lines, n), NonumEdges(plain), n,
                                Largest({plain[k][1] : k \in DOMAIN plain}))
              /\ pc' = "stored"
              /\ UNCHANGED <<input, e, raw, d, c, r>>

ConvertNonum == /\ pc = "text" /\ input.kind = "nonum"
                /\ LET n == Largest(NonumIds(input.lines))
                   IN  g' = Graph(convert_adj_nonum(input.lines, n), NonumEdges(input.lines), n,
                                  Largest({input.lines[k][1] : k \in DOMAIN input.lines}))
                /\ pc' = "graph"
                /\ UNCHANGED <<input, e, raw, d, c, r>>

\* The reverse converter counts maxFromID again: over the targets.
ConvertReverse ==
    /\ pc = "graph"
    /\ g' = IF input.kind = "edges"
            THEN [g EXCEPT !.reverse = convert_edge_to_reverse_adj(input.lines, g.maxID)]
            ELSE [g EXCEPT !.reverse = convert_adj_to_reverse_adj(input.lines, g.maxID),
                           !.maxFromID = Largest({p[1] : p \in ToSet(FromTargets(NonumEdges(input.lines)))})]
    /\ pc' = "both"
    /\ UNCHANGED <<input, e, raw, d, c, r>>

---------------------------------------------------------------------------
EncodeGraph == /\ pc = "graph"
               /\ e' = Encode(g)
               /\ pc' = IF e'.aborted THEN "aborted" ELSE "encoded"
               /\ UNCHANGED <<input, g, raw, d, c, r>>

DfsEncode == /\ pc = "graph"
             /\ e' = DFS(g)
             /\ pc' = "encoded"
             /\ UNCHANGED <<input, g, raw, d, c, r>>

\* convertToRaw, then Sorter::sort by source and BuildAdjGraph.
WriteRaw == /\ pc = "encoded"
            /\ raw' = InOrder(convertToRaw(g, e))
            /\ pc' = "raw"
            /\ UNCHANGED <<input, g, e, d, c, r>>

---------------------------------------------------------------------------
Condense == /\ pc = "both" /\ input.kind = "edges"
            /\ LET made == generate_DAG(g, DFS_Sec(g))
               IN  /\ d' = made.d
                   /\ pc' = IF made.aborted THEN "aborted" ELSE "dag"
            /\ UNCHANGED <<input, g, e, raw, c, r>>

Code == /\ pc = "dag"
        /\ c' = dfs_code(d)
        /\ pc' = IF c'.aborted THEN "aborted" ELSE "coded"
        /\ UNCHANGED <<input, g, e, raw, d, r>>

---------------------------------------------------------------------------
BuildRanges == /\ pc = "ranges"
               /\ r' = convert_range_graph_into_adjlist(
                           ByStart(construct_range_graph(ByStart(input.lines))))
               /\ pc' = "ranged"
               /\ UNCHANGED <<input, g, e, raw, d, c>>

Next == \/ Convert \/ ConvertAdj \/ ConvertNonum \/ ConvertReverse
        \/ EncodeGraph \/ DfsEncode \/ WriteRaw
        \/ Condense \/ Code
        \/ BuildRanges

Spec == Init /\ [][Next]_vars

---------------------------------------------------------------------------
(***************************************************************************)
(* Every list the converters store is found again, in both directions and  *)
(* whatever file it went to.  Lines with a self-loop are stored by         *)
(* convert_adj with a count that is too large, and after the reverse       *)
(* converter of lists only ids up to the largest target are looked up.     *)
(***************************************************************************)
Heads(line) == ToSet(IF input.kind = "adj" THEN SubSeq(line, 3, Len(line)) ELSE Tail(line))

Edges == UNION {{<<line[1], u>> : u \in Heads(line) \ {line[1]}} : line \in ToSet(input.lines)}

NoSelfLoop == \A line \in ToSet(input.lines) : line[1] \notin Heads(line)

Stored(v) ==
    /\ input.kind = "adj" => NoSelfLoop
    /\ input.kind = "nonum" => v <= g.maxFromID

ListsStored ==
    pc \in {"graph", "stored", "both"} =>
        \A v \in {v \in 0 .. g.maxID : Stored(v)} :
            /\ ToSet(Succ(g, v)) = {p[2] : p \in {p \in Edges : p[1] = v}}
            /\ pc = "both" => ToSet(Pred(g, v)) = {p[1] : p \in {p \in Edges : p[2] = v}}

---------------------------------------------------------------------------
(***************************************************************************)
(* The new ids are 1, 2, ... without a gap, one for each vertex with an    *)
(* edge, and the two maps agree; without a root vertex 0 gets one as well. *)
(* encode gives up the last vertices when too few of 0 .. maxID are        *)
(* without an edge, because it stops at idcount = maxID.                   *)
(***************************************************************************)
Connected == {p[1] : p \in Edges} \cup {p[2] : p \in Edges}

Roomy == Cardinality(Connected \cup {0}) < g.maxID

EncodingOneToOne ==
    pc = "encoded" /\ Roomy =>
        LET encoded == {v \in 0 .. g.maxID : isNewIDExist(e, v)}
        IN  /\ Connected \subseteq encoded /\ encoded \subseteq Connected \cup {0}
            /\ {e.oldID_mapto_newID[v] : v \in encoded} = 1 .. Cardinality(encoded)
            /\ \A v \in encoded : e.newID_mapto_oldID[e.oldID_mapto_newID[v]] = v

(***************************************************************************)
(* For every new id one bucket holds all its successors, and start_ID      *)
(* leads to that bucket.                                                   *)
(***************************************************************************)
BucketOf(v) ==
    LET cuts == Cuts(raw)
    IN  Largest({b \in DOMAIN cuts : cuts[b].start <= v})

\* There is another source behind the middle and before the last three pairs.
CutsFound ==
    LET middle == 1 + CutLength(Len(raw))
    IN  \E n \in middle + 1 .. Len(raw) - 3 : raw[n][1] # raw[middle][1]

BucketsWhole ==
    (pc = "raw" /\ Roomy /\ CutsFound) =>
            \A v \in Connected :
                LET new == e.oldID_mapto_newID[v]
                    out == {e.oldID_mapto_newID[p[2]] : p \in {p \in Edges : p[1] = v}}
                IN  out # {} => ToSet(BucketList(raw, BucketOf(new), new)) = out

\* The encoded graph is the graph under new names (HashID.cpp encode, DFS).
EncodedExact == EncodingOneToOne /\ BucketsWhole

---------------------------------------------------------------------------
(***************************************************************************)
(* The condensed graph reaches what the graph reaches, between the         *)
(* vertices that name a component or are in none, and the counts of        *)
(* incoming edges are those of its lists.  A component with an edge to     *)
(* vertex 0 loses it: is_existed takes the count, still 0, for vertex 0.   *)
(***************************************************************************)
RECURSIVE ReachedFrom(_, _)
ReachedFrom(E, S) ==
    LET more == S \cup {p[2] : p \in {p \in E : p[1] \in S}}
    IN  IF more = S THEN S ELSE ReachedFrom(E, more)

Head0(v) == IF d.located[v] = 0 THEN v ELSE d.located[v]

DagEdges == {p \in (0 .. g.maxID) \X (0 .. g.maxID) : p[2] \in ToSet(DagSucc(d, p[1]))}

ZeroEntered == \E p \in Edges : p[2] = 0

DagKept ==
    pc = "dag" /\ ~ZeroEntered =>
        \A v \in Connected :
            /\ {Head0(u) : u \in ReachedFrom(Edges, {v})} = ReachedFrom(DagEdges, {Head0(v)})
            /\ Head0(v) = v => d.indeg[v] = Cardinality({p \in DagEdges : p[2] = v})

(***************************************************************************)
(* The answers are exact: x reaches y by the trees and the graph of trees  *)
(* if and only if a path of the condensed graph leads from x to y.         *)
(* Exceptions that are found only when the cross vertices are numbered     *)
(* (late) are not looked at by deal_with_excp, so their targets stay       *)
(* inside trees that do not hold them.                                     *)
(***************************************************************************)
Coded == {v \in 0 .. g.maxID : c.r.new[v] # 0}

AnswersExact ==
    pc = "coded" /\ ~c.late /\ ~ZeroEntered =>
        \A x, y \in Coded :
            vertices_reachability(d, c, c.r.new[x], c.r.new[y])
                <=> y \in ReachedFrom(DagEdges, {x})

---------------------------------------------------------------------------
(***************************************************************************)
(* Two vertices lie below one root if and only if the list that is found   *)
(* for the first has an interval with the second.  The lookup is right     *)
(* unless the first vertex is one the index names: then the list behind it *)
(* is read.  A root of one interval leaves find_vertex without a middle.   *)
(***************************************************************************)
Below(n, v) == input.lines[n][2] <= v /\ v <= input.lines[n][3]

Indexed(v) == \E n \in 2 .. Len(r.index) : r.index[n].startid = v

RangesExact ==
    pc = "ranged" =>
        \A n \in DOMAIN input.lines :
            \A v \in {v \in input.lines[n][2] .. input.lines[n][3] : ~Indexed(v)} :
                \A u \in 0 .. input.lines[Len(input.lines)][3] + 2 :
                    intersect_or_not(r, v, u)
                        <=> \E m \in DOMAIN input.lines :
                                input.lines[m][1] = input.lines[n][1] /\ Below(m, u)
===========================================================================
