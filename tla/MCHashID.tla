----------------------------- MODULE MCHashID -----------------------------
(***************************************************************************)
(* Inputs for HashID: every graph on a few vertices as a file of edges,    *)
(* larger graphs around a fixed part, files of lists with gaps and empty   *)
(* lists, and sets of intervals below roots.                               *)
(***************************************************************************)
EXTENDS HashID

AllPairs == FlattenSeq([v \in 1 .. 8 |-> [u \in 1 .. 8 |-> <<v - 1, u - 1>>]])

Rows(S) == SelectSeq(AllPairs, LAMBDA p : p \in S)

EdgeFiles(sets) == {[kind |-> "edges", lines |-> Rows(E)] : E \in sets}

\* All graphs on 1, 2, 3 and 6; 0, 4 and 5 have no edge.
Sparse == {1, 2, 3, 6}
Small == SUBSET {p \in Sparse \X Sparse : p[1] # p[2]} \ {{}}

\* Trees that meet: two roots, a vertex both reach, and paths below it.
Base == {<<1, 3>>, <<2, 3>>}
Meeting == {Base \cup E : E \in SUBSET {<<1, 4>>, <<3, 4>>, <<3, 5>>, <<4, 6>>, <<5, 6>>, <<2, 5>>, <<6, 7>>, <<4, 7>>}}

\* Cycles with edges between them, and vertex 0 among them.
Cycles == {{<<0, 1>>, <<1, 2>>, <<2, 1>>} \cup E :
              E \in SUBSET {<<2, 4>>, <<4, 5>>, <<5, 4>>, <<1, 5>>, <<2, 5>>, <<5, 0>>, <<5, 6>>}}

ListFiles ==
    {[kind |-> kind, lines |-> lines] :
        kind \in {"nonum"},
        lines \in {<<<<1, 2, 3>>, <<2, 4>>, <<4, 3>>>>, <<<<0, 3, 2>>, <<3, 2>>>>,
                   <<<<1, 1, 2>>, <<3, 5>>, <<5, 2, 1>>>>, <<<<0, 5>>, <<2>>, <<3, 5, 4, 0>>>>}}
      \cup
    {[kind |-> "adj", lines |-> lines] :
        lines \in {<<<<1, 2, 2, 3>>, <<2, 1, 4>>, <<4, 1, 3>>>>, <<<<0, 2, 3, 2>>, <<2, 0>>, <<3, 1, 2>>>>,
                   <<<<1, 2, 1, 2>>, <<3, 1, 5>>>>}}

\* Disjoint intervals, each with the root it lies below; two roots.
Intervals == <<<<1, 1>>, <<2, 3>>, <<5, 9>>, <<10, 10>>, <<12, 17>>>>
RangeFiles ==
    {[kind |-> "ranges", lines |-> ByStart([n \in DOMAIN Intervals |-> <<root[n], Intervals[n][1], Intervals[n][2]>>])] :
        root \in {f \in [1 .. 5 -> {20, 30}] : \A s \in 1 .. 5 : \E t \in (1 .. 5) \ {s} : f[s] = f[t]}}

MCInputs == EdgeFiles(Small \cup Meeting \cup Cycles) \cup ListFiles \cup RangeFiles
===========================================================================
