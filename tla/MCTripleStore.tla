--------------------------- MODULE MCTripleStore ---------------------------
(***************************************************************************)
(* Small databases: a digit has 3 bits, a page 4 bytes, and the sorter's   *)
(* memory holds two triples, so that records cross pages, files grow and   *)
(* are merged from up to five runs.                                        *)
(***************************************************************************)
EXTENDS TripleStore

MCsplitID == <<5, 9, 20>>

\* Facts of two predicates; ids below and above 8 take one byte and two.
Pool == <<<<17, 2, 3>>, <<1, 1, 9>>, <<9, 1, 3>>, <<1, 2, 9>>, <<3, 1, 1>>,
          <<3, 1, 17>>, <<1, 1, 2>>, <<9, 2, 1>>, <<17, 1, 9>>>>

Few == {SelectSeq(Pool, LAMBDA t : t \in F) :
            F \in {G \in SUBSET Range(Pool) : Cardinality(G) \in 1 .. 3}}

\* Longer files: one predicate, so that an area has many entries and more than
\* one pair of lines, in one of them crossing; a triple twice; ids that are multiples of the base.
Long == {<<<<11, 1, 17>>, <<1, 1, 2>>, <<3, 1, 9>>, <<9, 1, 11>>, <<2, 1, 10>>,
           <<10, 1, 17>>, <<1, 1, 11>>>>,
         <<<<1, 1, 4>>, <<2, 1, 4>>, <<9, 1, 10>>, <<9, 1, 12>>, <<9, 1, 17>>,
           <<22, 1, 23>>, <<23, 1, 25>>, <<25, 1, 25>>, <<1, 1, 4>>>>,
         <<<<17, 1, 1>>, <<17, 1, 3>>, <<18, 1, 9>>, <<5, 1, 2>>, <<25, 1, 9>>,
           <<4, 1, 4>>, <<4, 1, 6>>>>,
         <<<<1, 1, 66>>, <<4, 1, 69>>, <<5, 1, 70>>, <<6, 1, 71>>, <<27, 1, 36>>,
           <<27, 1, 37>>, <<30, 1, 39>>, <<37, 1, 46>>>>,
         <<<<2, 1, 3>>, <<8, 1, 16>>, <<16, 1, 17>>, <<3, 1, 8>>, <<1, 2, 8>>>>,
         Pool}

MCInputs == Few \cup Long
=============================================================================
