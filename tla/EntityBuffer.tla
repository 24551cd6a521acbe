---------------------------- MODULE EntityBuffer ----------------------------
(***************************************************************************)
(* A buffer of ids (TripleBit/EntityIDBuffer.cpp and .h): rows of one or   *)
(* two ids, the column they are (said to be) sorted by, and two flags.     *)
(* Columns count from 1 here; the code's sortKey is one less.              *)
(***************************************************************************)
EXTENDS Integers, Sequences, SequencesExt

CONSTANTS THREAD_NUMBER    \* chunks a sort is divided into: 16 in the code
ASSUME ThreadsAssumption == \E j \in 0 .. 5 : THREAD_NUMBER = 2 ^ j

\* empty(), setIDCount(n), setSortKey(key - 1) on a buffer just taken.
Buffer(n, key) == [n |-> n, key |-> key, sorted |-> TRUE, rows |-> <<>>]

\* setSortKey on a buffer that is in use.
setSortKey(b, key) == [b EXCEPT !.key = key, !.sorted = FALSE]

Column(rows, k) == [i \in DOMAIN rows |-> rows[i][k]]

(***************************************************************************)
(* mergeBuffer of two runs of rows: of two rows with one key that of the   *)
(* second run goes first.                                                  *)
(***************************************************************************)
MergedRows(s, t, k) ==
    LET m[i \in 1 .. Len(s) + 1, j \in 1 .. Len(t) + 1] ==
            IF i > Len(s) THEN SubSeq(t, j, Len(t))
            ELSE IF j > Len(t) THEN SubSeq(s, i, Len(s))
            ELSE IF t[j][k] <= s[i][k] THEN <<t[j]>> \o m[i, j + 1]
            ELSE <<s[i]>> \o m[i + 1, j]
    IN  m[1, 1]

(***************************************************************************)
(* sort(): the pool sorts one chunk per thread, the last of which takes    *)
(* what is left over; then neighbours are merged, 2, 4, 8 .. chunks at a   *)
(* time, between two buffers that change places.                           *)
(***************************************************************************)
SortedRows(rows, k) ==
    LET size == Len(rows) \div THREAD_NUMBER
        Edge(i) == IF i = THREAD_NUMBER THEN Len(rows) ELSE i * size
        Chunk(all, i, j) == SubSeq(all, Edge(i) + 1, Edge(j))
        chunks == FlattenSeq([i \in 1 .. THREAD_NUMBER |->
                      SortSeq(Chunk(rows, i - 1, i), LAMBDA r, q : r[k] < q[k])])
        Round(all, j) ==
            LET slot == 2 ^ j
                From(i) == (i - 1) * slot
            IN  FlattenSeq([i \in 1 .. THREAD_NUMBER \div slot |->
                    MergedRows(Chunk(all, From(i), From(i) + slot \div 2),
                               Chunk(all, From(i) + slot \div 2, From(i) + slot), k)])
        rounds == CHOOSE j \in 0 .. 5 : THREAD_NUMBER = 2 ^ j
    IN  FoldLeft(Round, chunks, [j \in 1 .. rounds |-> j])

\* sort(key): nothing is done when the flags say it is done.
sort(b, k) ==
    IF b.sorted /\ b.key = k THEN b
    ELSE [b EXCEPT !.key = k, !.sorted = TRUE, !.rows = SortedRows(@, k)]

\* mergeBuffer(XTemp, XYTemp), which keeps the flags of b.
mergeBuffer(b, x, xy) == [b EXCEPT !.rows = MergedRows(x, xy, b.key)]

appendBuffer(b, rows) == [b EXCEPT !.rows = @ \o rows]

(***************************************************************************)
(* uniqe: of neighbours that are equal the first is kept, and nothing of a *)
(* row of zeros at the front.  The size stays what it was; the rows at the *)
(* end are what memory held (stray).                                       *)
(***************************************************************************)
uniqe(b, stray) ==
    LET Before(i) == IF i = 1 THEN [c \in 1 .. b.n |-> 0] ELSE b.rows[i - 1]
        kept == [i \in DOMAIN b.rows |->
                    IF b.rows[i] = Before(i) THEN <<>> ELSE <<b.rows[i]>>]
        left == FlattenSeq(kept)
    IN  [b EXCEPT !.rows = left \o [i \in 1 .. Len(@) - Len(left) |->
                                       [c \in 1 .. b.n |-> stray]]]

\* getMinMax: the first and the last row, taken for the extremes.
getMinMax(b) == <<b.rows[1][b.key], b.rows[Len(b.rows)][b.key]>>

\* modifyByFlag: the rows with the flag.
modifyByFlag(b, flagged) ==
    [b EXCEPT !.rows = FlattenSeq([i \in DOMAIN @ |->
                                     IF i \in flagged THEN <<@[i]>> ELSE <<>>])]

\* getEntityIDPos: a row with the id in a sorted buffer, the first; 0 if none.
getEntityIDPos(b, id) ==
    LET hit == {i \in DOMAIN b.rows : b.rows[i][b.key] = id}
    IN  IF hit = {} THEN 0 ELSE CHOOSE i \in hit : \A j \in hit : i <= j

\* isInBuffer: a row of two that has the first id as its key and the other beside.
isInBuffer(b, key, other) ==
    LET p == getEntityIDPos(b, key)
    IN  /\ p # 0
        /\ \E i \in p .. Len(b.rows) :
              /\ \A j \in p .. i : b.rows[j][b.key] = key
              /\ b.rows[i][3 - b.key] = other
=============================================================================
