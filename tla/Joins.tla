-------------------------------- MODULE Joins --------------------------------
(***************************************************************************)
(* The joins of two buffers (TripleBit/SortMergeJoin.cpp, HashJoin.cpp):   *)
(* each keeps the rows of a buffer whose id in the join column is in the   *)
(* join column of the other.  Both loops compare the row at j before they  *)
(* see that j is past the end, so that what memory holds behind the second *)
(* buffer (past) can keep rows of the first.                               *)
(***************************************************************************)
EXTENDS EntityBuffer, FiniteSets, FiniteSetsExt

CONSTANT HashKeys    \* buckets of a hash join: a power of two, by size, in the code
ASSUME HashKeysAssumption == \E j \in 0 .. 16 : HashKeys = 2 ^ j

Ids(rows, k) == {rows[i][k] : i \in DOMAIN rows}

(***************************************************************************)
(* The id of the first buffer that is compared with the row behind the     *)
(* second: the least above all of the second, unless the walk was at its   *)
(* end already because the last of the second was matched.                 *)
(***************************************************************************)
PastCompared(ids1, ids2) ==
    IF ids2 = {} \/ Max(ids2) \in ids1 THEN {}
    ELSE LET above == {id \in ids1 : id > Max(ids2)}
         IN  IF above = {} THEN {} ELSE {Min(above)}

\* Mutant: the walk ends before it compares the last id of the second buffer.
MatchedBelow(ids1, ids2, past) ==
    {id \in ids1 \cap ids2 : id < Max(ids2)}

\* The ids for which the rows of the first buffer are kept.
Matched(ids1, ids2, past) ==
    (ids1 \cap ids2) \cup (PastCompared(ids1, ids2) \cap {past})

With(rows, k, ids) == SelectSeq(rows, LAMBDA r : r[k] \in ids)

(***************************************************************************)
(* SortMergeJoin::Join: both are sorted; Merge1 keeps the matching rows of *)
(* both, Merge2 those of the first.                                        *)
(***************************************************************************)
Merge(b1, b2, k1, k2, second, past) ==
    LET ids1 == Ids(b1.rows, k1)
        ids2 == Ids(b2.rows, k2)
    IN  <<[b1 EXCEPT !.rows = With(@, k1, Matched(ids1, ids2, past))],
          IF second THEN [b2 EXCEPT !.rows = With(@, k2, ids1)] ELSE b2>>

MergeJoin(b1, b2, k1, k2, second, past) ==
    Merge(sort(b1, k1), sort(b2, k2), k1, k2, second, past)

-----------------------------------------------------------------------------
\* BuildHashIndex: the rows by bucket, in the order they had.
Bucket(rows, k, h) == SelectSeq(rows, LAMBDA r : r[k] % HashKeys = h)

\* A slice as the SortMergeJoin of HashJoin.cpp leaves it, sorted.
Slice(rows, k, h) == SortSeq(Bucket(rows, k, h), LAMBDA r, q : r[k] < q[k])

(***************************************************************************)
(* HashJoin::Join: a task of the pool joins each pair of buckets that both *)
(* have rows.  Behind a bucket is the next that is not empty, where no id  *)
(* can match; behind the last is the end of the buffer.                    *)
(***************************************************************************)
HashJoin(b1, b2, k1, k2, past) ==
    LET hs == [h \in 1 .. HashKeys |-> h - 1]
        ids2(h) == Ids(Bucket(b2.rows, k2, h), k2)
        Behind(h) == IF \E g \in h + 1 .. HashKeys - 1 : ids2(g) # {} THEN -1 ELSE past
        Kept1(h) == With(Slice(b1.rows, k1, h), k1,
                         Matched(Ids(Bucket(b1.rows, k1, h), k1), ids2(h), Behind(h)))
        Kept2(h) == With(Slice(b2.rows, k2, h), k2, Ids(b1.rows, k1))
    IN  <<[b1 EXCEPT !.rows = FlattenSeq([h \in 1 .. HashKeys |-> Kept1(hs[h])])],
          [setSortKey(b2, k2) EXCEPT
              !.rows = FlattenSeq([h \in 1 .. HashKeys |-> Kept2(hs[h])])]>>
=============================================================================
