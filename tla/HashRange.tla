----------------------------- MODULE HashRange -----------------------------
(***************************************************************************)
(* HashID (Matrix/HashID.cpp): the intervals of new ids below each root,   *)
(* written as compressed lists with an index over them, and the question   *)
(* whether two vertices lie below one root.                                *)
(*                                                                         *)
(* The input is the sorted file of triples <<root, start, end>>.           *)
(***************************************************************************)
EXTENDS Integers, Sequences, FiniteSets, SequencesExt

CONSTANT RANGE_BINARY_SIZE      \* lists for one entry of the index, 1024 in the code
CONSTANT Digit                  \* values of one byte of an id, 128 in the code

\* A run of equal triples is read once: the last one is kept in last_*.
Distinct(rows) == SelectSeq([n \in DOMAIN rows |-> <<n, rows[n]>>],
    LAMBDA p : p[1] = 1 \/ rows[p[1] - 1] # p[2])

Lists(rows) ==
    FoldLeft(LAMBDA acc, p :
        LET row == p[2]
            n == Len(acc)
        IN  IF n > 0 /\ acc[n].id = row[1]
            THEN [acc EXCEPT ![n].ranges = Append(@, <<row[2], row[3]>>)]
            ELSE Append(acc, [id |-> row[1], ranges |-> <<<<row[2], row[3]>>>>]),
        <<>>, Distinct(rows))

\* construct_range_graph: each interval of a root with itself, then with the others.
Pairing(ranges) ==
    FlattenSeq([i \in DOMAIN ranges |->
        LET s == ranges[i][1]
            others == SelectSeq([j \in DOMAIN ranges |-> j], LAMBDA j : j # i)
        IN  <<<<s, s, ranges[i][2]>>>>
              \o [k \in DOMAIN others |-> <<s, ranges[others[k]][1], ranges[others[k]][2]>>]])

construct_range_graph(sorted_range) ==
    LET lists == Lists(sorted_range)
    IN  FlattenSeq([n \in DOMAIN lists |-> Pairing(lists[n].ranges)])

ByStart(rows) ==
    SortSeq(rows, LAMBDA a, b : \/ a[1] < b[1]
                                \/ a[1] = b[1] /\ a[2] < b[2]
                                \/ a[1] = b[1] /\ a[2] = b[2] /\ a[3] < b[3])

---------------------------------------------------------------------------
(***************************************************************************)
(* writeId: the digits of an id, the lowest first, every byte with the     *)
(* head bit, which changes from one id to the next.                        *)
(***************************************************************************)
RECURSIVE Digits(_)
Digits(id) == IF id < Digit THEN <<id>> ELSE <<id % Digit>> \o Digits(id \div Digit)

writeId(id, head) ==
    LET digits == Digits(id) IN [n \in DOMAIN digits |-> <<head, digits[n]>>]

\* batch_write: the interval that starts at srcid, then the others, each
\* start but the first of these as the distance from the end before it.
Numbers(ranges, srcid) ==
    LET mid == CHOOSE n \in DOMAIN ranges : ranges[n][1] = srcid
        others == SelectSeq([j \in DOMAIN ranges |-> j], LAMBDA j : j # mid)
        Width(n) == ranges[n][2] - ranges[n][1]
    IN  <<srcid, Width(mid)>>
          \o FlattenSeq([k \in DOMAIN others |->
                <<IF k = 1 THEN ranges[others[k]][1]
                  ELSE ranges[others[k]][1] - ranges[others[k - 1]][2],
                  Width(others[k])>>])

\* Mutant: every start is written as it is.
batch_write_plain(list) ==
    LET ranges == list.ranges
        mid == CHOOSE n \in DOMAIN ranges : ranges[n][1] = list.id
        order == <<mid>> \o SelectSeq([j \in DOMAIN ranges |-> j], LAMBDA j : j # mid)
        numbers == FlattenSeq([k \in DOMAIN order |->
            <<ranges[order[k]][1], ranges[order[k]][2] - ranges[order[k]][1]>>])
    IN  FlattenSeq([n \in DOMAIN numbers |-> writeId(numbers[n], n % 2)])

batch_write(list) ==
    LET numbers == Numbers(list.ranges, list.id)
    IN  FlattenSeq([n \in DOMAIN numbers |-> writeId(numbers[n], n % 2)])

(***************************************************************************)
(* convert_range_graph_into_adjlist: the bytes of all lists; where each    *)
(* begins; and an index with the first list, every list whose number is a  *)
(* multiple of RANGE_BINARY_SIZE, and a last entry behind all of them.     *)
(* Entries count from 0; but for the first, len is one more than the       *)
(* position of the list it names.                                          *)
(***************************************************************************)
Offset(bytes, n) == Len(FlattenSeq(SubSeq(bytes, 1, n)))

convert_range_graph_into_adjlist(rows) ==
    LET lists == Lists(rows)
        bytes == [n \in DOMAIN lists |-> batch_write(lists[n])]
        behind == rows[Len(rows)][3] + 1
        size == Len(lists)
        whole == SelectSeq([n \in DOMAIN lists |-> n],
                           LAMBDA n : n > 1 /\ n % RANGE_BINARY_SIZE = 0)
    IN  [adj |-> FlattenSeq(bytes),
         offset |-> [n \in 0 .. size |->
             [startid |-> IF n = size THEN behind ELSE lists[n + 1].id,
              offset |-> Offset(bytes, n)]],
         index |-> <<[startid |-> lists[1].id, len |-> 0]>>
                     \o [k \in DOMAIN whole |->
                            [startid |-> lists[whole[k]].id, len |-> whole[k]]]
                     \o <<[startid |-> behind, len |-> size + 1]>>]

---------------------------------------------------------------------------
(***************************************************************************)
(* find_pos: binary search for a vertex among starts t, positions low to   *)
(* high; where it misses, the positions on both sides of it.               *)
(***************************************************************************)
RECURSIVE Search(_, _, _, _, _)
Search(t, vertex, low, high, mid) ==
    IF low > high THEN [hit |-> FALSE, mid |-> mid, high |-> high]
    ELSE LET m == (low + high) \div 2
         IN  IF vertex > t[m].startid THEN Search(t, vertex, m + 1, high, m)
             ELSE IF vertex < t[m].startid THEN Search(t, vertex, low, m - 1, m)
             ELSE [hit |-> TRUE, mid |-> m, high |-> high]

\* A miss below the entry at mid walks down, to 0 at most; a miss above it
\* stays, because the search ends with high at mid.
find_pos(t, vertex, low, high) ==
    LET s == Search(t, vertex, low, high, 0)
        smaller == {n \in 0 .. s.mid : n < s.mid /\ t[n].startid <= vertex}
        below == IF smaller = {} THEN 0
                 ELSE CHOOSE n \in smaller : \A k \in smaller : k <= n
    IN  IF s.hit THEN [hit |-> TRUE, mid |-> s.mid, low_bound |-> 0, high_bound |-> 0]
        ELSE IF vertex > t[s.mid].startid
        THEN [hit |-> FALSE, mid |-> s.mid, low_bound |-> s.mid, high_bound |-> s.mid]
        ELSE [hit |-> FALSE, mid |-> s.mid, low_bound |-> below,
              high_bound |-> IF s.mid = 0 THEN 0 ELSE below + 1]

\* decode: a number ends where the head changes.  The one byte read behind
\* the list begins a number that is dropped.
Value(digits) == FoldRight(LAMBDA d, n : d + Digit * n, digits, 0)

RECURSIVE Runs(_)
Runs(bytes) ==
    IF bytes = <<>> THEN <<>>
    ELSE LET own == {n \in DOMAIN bytes : \A k \in 1 .. n : bytes[k][1] = bytes[1][1]}
             n == Cardinality(own)
         IN  <<Value([k \in 1 .. n |-> bytes[k][2]])>> \o Runs(SubSeq(bytes, n + 1, Len(bytes)))

\* The first number and the third are starts; the others are distances.
decode(bytes) ==
    LET numbers == Runs(bytes)
    IN  FoldLeft(LAMBDA data, k :
                     Append(data, IF k \in {1, 3} THEN numbers[k]
                                  ELSE numbers[k] + data[k - 1]),
                 <<>>, [k \in DOMAIN numbers |-> k])

\* find_vertex: the first interval, then binary search of the others by
\* their ends; the nearest end that is not below the vertex decides.
find_vertex(data, vertex) ==
    LET size == Len(data) \div 2
        later == {n \in 2 .. size : vertex <= data[2 * n]}
        near == IF later = {} THEN size ELSE CHOOSE n \in later : \A k \in later : n <= k
    IN  \/ data[1] <= vertex /\ vertex <= data[2]
        \/ data[2 * near - 1] <= vertex /\ vertex <= data[2 * near]

\* Where the list of a vertex begins, by the index and then by the starts.
Located(r, vertex) ==
    LET index == [n \in 0 .. Len(r.index) - 1 |-> r.index[n + 1]]
        top == find_pos(index, vertex, 0, Len(r.index) - 1)
        upper == IF top.low_bound = top.high_bound THEN top.low_bound + 1 ELSE top.high_bound
        in == find_pos(r.offset, vertex, index[top.low_bound].len, index[upper].len - 1)
    IN  IF top.hit THEN index[top.mid].len
        ELSE IF in.hit THEN in.mid ELSE in.low_bound

intersect_or_not(r, vertex1, vertex2) ==
    LET at == Located(r, vertex1)
        bytes == SubSeq(r.adj, r.offset[at].offset + 1, r.offset[at + 1].offset)
    IN  find_vertex(decode(bytes), vertex2)
===========================================================================
