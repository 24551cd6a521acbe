---------------------------- MODULE AdjConvert ----------------------------
(***************************************************************************)
(* HashID (Matrix/HashID.cpp): the converters from a text file to          *)
(* adjacency files, the index over them, and the lookups.  A text file is  *)
(* a sequence of lines, a line the sequence of its numbers; comment lines  *)
(* are left out.  A store is what a converter leaves on disk: a row of     *)
(* files of ids, and for every id the file and offset of its record.       *)
(***************************************************************************)
EXTENDS Integers, Sequences, FiniteSets, SequencesExt

CONSTANT Limit      \* bytes a file must stay below, (unsigned)(-1) / 8 in the code

IDSize == 4         \* sizeof(ID)

Largest(S) == CHOOSE x \in S : \A y \in S : y <= x

---------------------------------------------------------------------------
(***************************************************************************)
(* One record: the id, the count, the neighbours.  It goes to the last     *)
(* file unless there is none yet or it would fill it; the first record of  *)
(* a file is indexed at offset 1, because 0 stands for no record.          *)
(***************************************************************************)
Record(id, list) == <<id, Len(list)>> \o list

EmptyStore(n) ==
    [files |-> <<>>, fileOff |-> 0, start_ID |-> <<>>,
     index |-> [v \in 0 .. n |-> <<0, 0>>]]

\* Mutant: the first record of a file is indexed where it is.
WriteRecordPlain(s, id, words) ==
    LET size == IDSize * Len(words)
        n == Len(s.files)
    IN  IF n > 0 /\ s.fileOff + size < Limit
        THEN [s EXCEPT !.files[n] = @ \o words, !.index[id] = <<s.fileOff, n>>,
                       !.fileOff = @ + size]
        ELSE [s EXCEPT !.files = Append(@, words), !.index[id] = <<0, n + 1>>,
                       !.fileOff = size, !.start_ID = Append(@, id)]

WriteRecord(s, id, words) ==
    LET size == IDSize * Len(words)
        n == Len(s.files)
    IN  IF n > 0 /\ s.fileOff + size < Limit
        THEN [s EXCEPT !.files[n] = @ \o words, !.index[id] = <<s.fileOff, n>>,
                       !.fileOff = @ + size]
        ELSE [s EXCEPT !.files = Append(@, words), !.index[id] = <<1, n + 1>>,
                       !.fileOff = size, !.start_ID = Append(@, id)]

\* Records without neighbours for the ids from first to last.
WriteGap(s, first, last) ==
    FoldLeft(LAMBDA t, v : WriteRecord(t, v, Record(v, <<>>)), s,
             [n \in 1 .. last - first + 1 |-> first + n - 1])

---------------------------------------------------------------------------
(***************************************************************************)
(* The edges, self-loops dropped, as pairs <<key, value>> in the order of  *)
(* Sorter::sort with compare12 or compare21.                               *)
(***************************************************************************)
Ids(pairs) == UNION {{pairs[n][1], pairs[n][2]} : n \in DOMAIN pairs}

InOrder(pairs) ==
    SortSeq(pairs, LAMBDA a, b : a[1] < b[1] \/ (a[1] = b[1] /\ a[2] < b[2]))

NoLoops(pairs) == SelectSeq(pairs, LAMBDA e : e[1] # e[2])

Turned(pairs) == [n \in DOMAIN pairs |-> <<pairs[n][2], pairs[n][1]>>]

FromSources(lines) == InOrder(NoLoops(lines))

FromTargets(lines) == InOrder(Turned(NoLoops(lines)))

---------------------------------------------------------------------------
(***************************************************************************)
(* convert_edge and convert_edge_to_reverse_adj: the values of one key are *)
(* collected until the next key comes; every key without an edge gets an   *)
(* empty record.                                                           *)
(***************************************************************************)
Collecting(s, pairs) == [s |-> s, key |-> pairs[1][1], list |-> <<>>]

Flushed(c) == WriteRecord(c.s, c.key, Record(c.key, c.list))

Collect(c, e) ==
    IF e[1] = c.key THEN [c EXCEPT !.list = Append(@, e[2])]
    ELSE [s |-> WriteGap(Flushed(c), c.key + 1, e[1] - 1),
          key |-> e[1], list |-> <<e[2]>>]

\* The last key's record, and an empty one for every id up to the largest.
Finish(c, maxID) == WriteGap(Flushed(c), c.key + 1, maxID)

convert_edge(lines, n) ==
    LET pairs == FromSources(lines)
        lead == WriteGap(EmptyStore(n), 0, pairs[1][1] - 1)
    IN  Finish(FoldLeft(Collect, Collecting(lead, pairs), pairs), Largest(Ids(pairs)))

convert_edge_to_reverse_adj(lines, n) ==
    LET pairs == FromTargets(lines)
        lead == WriteGap(EmptyStore(n), 0, pairs[1][1] - 1)
    IN  Finish(FoldLeft(Collect, Collecting(lead, pairs), pairs), Largest(Ids(pairs)))

---------------------------------------------------------------------------
(***************************************************************************)
(* convert_adj: lines "from num to ...", with as many targets as num says. *)
(* The record keeps num as its count although self-loops are not stored.   *)
(***************************************************************************)
Others(v, list) == SelectSeq(list, LAMBDA u : u # v)

AdjLine(s, line) ==
    IF Len(line) = 1 \/ line[2] = 0 THEN s
    ELSE LET tos == SubSeq(line, 3, Len(line))
         IN  WriteRecord(s, line[1], <<line[1], line[2]>> \o Others(line[1], tos))

convert_adj(lines, n) == FoldLeft(AdjLine, EmptyStore(n), lines)

(***************************************************************************)
(* convert_adj_nonum: lines "from to ...".  Records follow the lines; only *)
(* the ids after the last line's get an empty record.                      *)
(***************************************************************************)
Targets(line) == Others(line[1], Tail(line))

NonumLine(s, line) == WriteRecord(s, line[1], Record(line[1], Targets(line)))

NonumIds(lines) == UNION {{lines[n][1]} \cup ToSet(Targets(lines[n])) : n \in DOMAIN lines}

convert_adj_nonum(lines, n) ==
    WriteGap(FoldLeft(NonumLine, EmptyStore(n), lines),
             lines[Len(lines)][1] + 1, Largest(NonumIds(lines)))

(***************************************************************************)
(* convert_adj_to_reverse_adj: the same lines, stored by target, without   *)
(* records for ids that are no target.  The last record goes to the last   *)
(* file whatever its length, so that there must be one: two targets.       *)
(***************************************************************************)
NonumEdges(lines) ==
    FlattenSeq([n \in DOMAIN lines |->
        [m \in DOMAIN Targets(lines[n]) |-> <<lines[n][1], Targets(lines[n])[m]>>]])

CollectTargets(c, e) ==
    IF e[1] = c.key THEN [c EXCEPT !.list = Append(@, e[2])]
    ELSE [s |-> Flushed(c), key |-> e[1], list |-> <<e[2]>>]

Appended(c) ==
    LET words == Record(c.key, c.list)
        n == Len(c.s.files)
    IN  [c.s EXCEPT !.files[n] = @ \o words, !.index[c.key] = <<c.s.fileOff, n>>,
                    !.fileOff = @ + IDSize * Len(words)]

convert_adj_to_reverse_adj(lines, n) ==
    LET pairs == FromTargets(NonumEdges(lines))
    IN  Appended(FoldLeft(CollectTargets, Collecting(EmptyStore(n), pairs), pairs))

---------------------------------------------------------------------------
(***************************************************************************)
(* degree[]: every stored edge is counted at both of its ends.             *)
(***************************************************************************)
OutDegree(pairs, v) == Cardinality({n \in DOMAIN pairs : pairs[n][1] = v})
InDegree(pairs, v) == Cardinality({n \in DOMAIN pairs : pairs[n][2] = v})

(***************************************************************************)
(* getOffset and reverse_getOffset, and the list that their callers read   *)
(* there; Null is the pointer NULL.                                        *)
(***************************************************************************)
Null == <<>>

Found(s, id) ==
    LET off == s.index[id][1]
        at == (IF off = 1 THEN 0 ELSE off) \div IDSize
        words == s.files[s.index[id][2]]
    IN  <<words[at + 1], SubSeq(words, at + 3, at + 2 + words[at + 2])>>

getOffset(s, maxFromID, id) ==
    IF id > maxFromID \/ id < s.start_ID[1] \/ s.index[id][1] = 0 THEN Null
    ELSE Found(s, id)

reverse_getOffset(s, maxFromID, id) ==
    IF id > maxFromID \/ id < s.start_ID[1] \/ s.index[id][1] = 0 THEN Null
    ELSE Found(s, id)

\* The list at a record, empty where there is none.
ListAt(found) == IF found = Null THEN <<>> ELSE found[2]
===========================================================================
