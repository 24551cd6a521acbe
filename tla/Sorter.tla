------------------------------- MODULE Sorter -------------------------------
(***************************************************************************)
(* The sort of a temporary file (TripleBit/Sorter.cpp).  A file is a run   *)
(* of ids; a record is width of them.  As many records as memory holds are *)
(* sorted by a thread of their own and written to an intermediate file;    *)
(* the runs are then merged through a heap of their heads.  The order a    *)
(* caller asks for is the sequence of columns, cols, that its comparison   *)
(* looks at.                                                               *)
(***************************************************************************)
EXTENDS Integers, Sequences, SequencesExt

\* Of a record the sorting threads copy eight bytes, whatever its width.
item == 2

\* The record whose first id is at position p.
Record(file, p, width) == SubSeq(file, p + 1, p + width)

Less(l, r, cols) ==
    \E k \in DOMAIN cols :
        /\ l[cols[k]] < r[cols[k]]
        /\ \A j \in 1 .. k - 1 : l[cols[j]] = r[cols[j]]

\* The head of run r comes before that of run s.
Smaller(file, r, s, width, cols) ==
    Less(Record(file, r.from, width), Record(file, s.from, width), cols)

\* Mutant: the item that went down is not followed.
DownStaying(s, c) ==
    [heap |-> [s.heap EXCEPT ![c] = s.heap[s.pos], ![s.pos] = s.heap[c]],
     pos  |-> s.pos]

\* The item at pos changes places with its child c.
Down(s, c) ==
    [heap |-> [s.heap EXCEPT ![c] = s.heap[s.pos], ![s.pos] = s.heap[c]],
     pos  |-> c]

(***************************************************************************)
(* The heap condition, restored from the top: the smaller child goes up,   *)
(* the right one of two that are equal.                                    *)
(***************************************************************************)
Sift(file, heap, width, cols) ==
    LET Settle(s, i) ==
            LET l == 2 * s.pos
                r == l + 1
                Under(c, d) == Smaller(file, s.heap[c], s.heap[d], width, cols)
                Up == {c \in {l, r} : c <= Len(s.heap) /\ Under(c, s.pos)}
                c == IF Up = {l, r} THEN IF Under(l, r) THEN l ELSE r
                     ELSE CHOOSE q \in Up : TRUE
            IN  IF Up = {} THEN s ELSE Down(s, c)
    IN  FoldLeft(Settle, [heap |-> heap, pos |-> 1],
                 [i \in 1 .. Len(heap) |-> i]).heap

\* The head of a run goes out; a run that is used up leaves its place to the last.
Popped(heap, width) ==
    LET next == heap[1].from + width
    IN  IF next # heap[1].to THEN [heap EXCEPT ![1].from = next]
        ELSE IF Len(heap) = 1 THEN <<>>
        ELSE [Front(heap) EXCEPT ![1] = Last(heap)]

Merge(file, runs, width, count, cols) ==
    LET Take(m, i) ==
            IF m.heap = <<>> THEN m
            ELSE [out  |-> m.out \o Record(file, m.heap[1].from, width),
                  heap |-> Sift(file, Popped(m.heap, width), width, cols)]
    IN  FoldLeft(Take, [out  |-> <<>>,
                        heap |-> SortSeq(runs, LAMBDA r, s : Smaller(file, r, s, width, cols))],
                 [i \in 1 .. count |-> i]).out

\* Sorter::sort; runLength is the number of records memory holds.
sort(in, width, runLength, cols) ==
    LET count == Len(in) \div width
        least(i, j) == IF i < j THEN i ELSE j
        Items(k) == SortSeq([i \in 1 .. least(runLength, count - k * runLength) |->
                                (k * runLength + i - 1) * width],
                            LAMBDA p, q : Less(Record(in, p, width),
                                               Record(in, q, width), cols))
        Spooled(k) == FlattenSeq([i \in DOMAIN Items(k) |->
                                     Record(in, Items(k)[i], item)])
        Padded(k)  == Spooled(k) \o [i \in 1 .. Len(Items(k)) * (width - item) |-> 0]
        number == (count + runLength - 1) \div runLength
        runs   == [k \in 1 .. number |->
                      [from |-> (k - 1) * runLength * item,
                       to   |-> (k - 1) * runLength * item + Len(Spooled(k - 1))]]
    IN  IF number <= 1 THEN IF in = <<>> THEN <<>> ELSE Spooled(0)
        ELSE Merge(FlattenSeq([k \in 1 .. number |-> Padded(k - 1)]),
                   runs, width, count, cols)
=============================================================================
