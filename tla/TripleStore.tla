---------------------------- MODULE TripleStore ----------------------------
(***************************************************************************)
(* Building a database of triples and looking things up in it              *)
(* (TripleBit/TripleBitBuilder.cpp).  The raw triples are sorted by        *)
(* subject, predicate, object and inserted one by one on side 0, then      *)
(* sorted the other way round and inserted on side 1; the statistics of a  *)
(* group are written when the next group begins.  Then the store is saved, *)
(* and loaded by the programs that query it.                               *)
(*                                                                         *)
(* Sorter.cpp loses the third id of every triple it sorts.  The sorted     *)
(* files are here what resolveTriples takes them for, all the triples in   *)
(* the order asked for; what the sorter does is modelled in Sorter, and    *)
(* checked for the couples it is written for.                              *)
(***************************************************************************)
EXTENDS FindEntity

CONSTANTS Inputs,      \* the files of raw triples
          Strays,      \* what memory nobody set may hold
          RunLength    \* records that memory holds for the sorter

S == INSTANCE Sorter

VARIABLES raw,     \* the raw triples, in the order they were parsed
          sorted,  \* the sorted file, from where it is to be read next
          pass,    \* side being filled, 2 once the store can be queried
          last,    \* the last triple inserted in this pass, if any
          count0, count1,  \* triples of the current key, of it and the predicate
          b,       \* the store being built
          one, two,        \* the statistics of either side
          db,      \* the store as loaded
          stray
vars == <<raw, sorted, pass, last, count0, count1, b, one, two, db, stray>>

Subject(t) == t[1]
Predicate(t) == t[2]
Object(t) == t[3]

Triple == Nat \X Nat \X Nat
None == <<>>

\* The columns a comparison looks at: by subject first, by object first, and
\* those of the writers of adjacency files.
compare123 == <<1, 2, 3>>
compare321 == <<3, 2, 1>>
compare12  == <<1, 2>>
compare21  == <<2, 1>>

\* The sorted file that a pass reads.
Sorted(f) ==
    SortSeq(raw, LAMBDA l, r : S!Less(l, r, IF f = 0 THEN compare123 ELSE compare321))

Init ==
    /\ raw \in Inputs
    /\ sorted = Sorted(0)
    /\ pass = 0
    /\ last = None
    /\ count0 = 0 /\ count1 = 0
    /\ b = Empty
    /\ one = [f \in Sides |-> OneEmpty]
    /\ two = [f \in Sides |-> TwoEmpty]
    /\ db = <<>>
    /\ stray \in Strays

Key123(t) == IF pass = 0 THEN Subject(t) ELSE Object(t)
Other(t) == IF pass = 0 THEN Object(t) ELSE Subject(t)

(***************************************************************************)
(* insertTriple as resolveTriples calls it, with what generateXY makes of  *)
(* the key and the other id: the smaller and the difference.               *)
(***************************************************************************)
Inserted(t, moved) ==
    LET k == Key123(t)
        o == Other(t)
    IN  insertTriple(b, pass, Predicate(t), IF k > o THEN o ELSE k,
                     IF k > o THEN k - o ELSE o - k, k > o, moved)

\* A triple equal to the one before it.
SkipTriple ==
    /\ pass \in Sides /\ sorted # <<>>
    /\ Head(sorted) = last
    /\ sorted' = Tail(sorted)
    /\ UNCHANGED <<raw, pass, last, count0, count1, b, one, two, db, stray>>

(***************************************************************************)
(* Any other.  The counts of the group before are written when the key or  *)
(* the predicate changes.                                                  *)
(***************************************************************************)
InsertTriple(moved) ==
    /\ pass \in Sides /\ sorted # <<>>
    /\ Head(sorted) # last
    /\ LET t       == Head(sorted)
           first   == last = None
           newKey  == ~ first /\ Key123(t) # Key123(last)
           newPred == ~ first /\ ~ newKey /\ Predicate(t) # Predicate(last)
       IN  /\ one' = IF newKey
                     THEN [one EXCEPT ![pass] = addOne(@, Key123(last), count0)]
                     ELSE one
           /\ two' = IF newKey \/ newPred
                     THEN [two EXCEPT ![pass] =
                              addTwo(@, Key123(last), Predicate(last), count1)]
                     ELSE two
           /\ count0' = IF first \/ newKey THEN 1 ELSE count0 + 1
           /\ count1' = IF first \/ newKey \/ newPred THEN 1 ELSE count1 + 1
           /\ b' = Inserted(t, moved)
           /\ last' = t
    /\ sorted' = Tail(sorted)
    /\ UNCHANGED <<raw, pass, db, stray>>

\* The first pass is over; the raw triples are sorted for the second.
NextPass ==
    /\ pass = 0 /\ sorted = <<>>
    /\ pass' = 1
    /\ sorted' = Sorted(1)
    /\ last' = None
    /\ UNCHANGED <<raw, count0, count1, b, one, two, db, stray>>

\* endBuild saves the store and the builder ends; the next program loads it.
EndBuild ==
    /\ pass = 1 /\ sorted = <<>>
    /\ pass' = 2
    /\ db' = load(save(b, stray))
    /\ b' = Empty
    /\ UNCHANGED <<raw, sorted, last, count0, count1, one, two, stray>>

Next ==
    \/ SkipTriple
    \/ \E moved \in BOOLEAN : InsertTriple(moved)
    \/ NextPass
    \/ EndBuild

Spec == Init /\ [][Next]_vars

-----------------------------------------------------------------------------
Facts == Range(raw)

\* Facts inserted in a pass so far; those of a finished pass are all.
Inserted0(f) ==
    IF pass = f
    THEN Range(SubSeq(Sorted(f), 1, Len(Sorted(f)) - Len(sorted)))
    ELSE IF f < pass THEN Facts ELSE {}

PairOf(f, t) == IF f = 0 THEN <<Subject(t), Object(t)>> ELSE <<Object(t), Subject(t)>>

InArea(a, q) == (a = 2) = (q[1] > q[2])

\* The pairs an area should hold, in order.
Due(ts, f, p, a) ==
    LET Q == {q \in {PairOf(f, t) : t \in {s \in ts : Predicate(s) = p}} : InArea(a, q)}
        Below(q) == {r \in Q : r[1] < q[1] \/ (r[1] = q[1] /\ r[2] < q[2])}
    IN  [i \in 1 .. Cardinality(Q) |-> CHOOSE q \in Q : Cardinality(Below(q)) = i - 1]

PredicatesOf(ts) == {Predicate(t) : t \in ts}

Decoded(area, a) ==
    LET rows == RowsFrom(area, 0, stray) IN [i \in DOMAIN rows |-> Pair(a, rows[i])]

(***************************************************************************)
(* While the store is built, the pages of each area hold the records       *)
(* inserted so far and nothing else, however often the files grew or       *)
(* moved, and each end pointer points into the present mapping, behind the *)
(* last record, with a byte of the last page to spare (insertXY, getPage). *)
(***************************************************************************)
RecordsKept ==
    \A f \in Sides : \A p \in DOMAIN b.mgr[f] : \A a \in Areas :
        LET m    == b.mgr[f][p]
            from == Lead(a)
            area == SubSeq(PagesOf(b, f, p, a), from + 1, from + m.used[a])
        IN  /\ Decoded(area, a) = Due(Inserted0(f), f, p, a)
            /\ m.count[a] = Len(Decoded(area, a))
            /\ m.end[a].gen = b.temp[f][a].gen
            /\ m.end[a].pos < (Last(m.page[a]) + 1) * PageSize
            /\ m.meta = b.temp[f][1].gen

(***************************************************************************)
(* A loaded store has, for each side and predicate, the areas that were    *)
(* built for them, and every triple in both sides (save, load).            *)
(***************************************************************************)
LoadedExact ==
    pass = 2 =>
        \A f \in Sides :
            /\ DOMAIN db[f] = PredicatesOf(Facts)
            /\ \A p \in DOMAIN db[f] : \A a \in Areas :
                  /\ db[f][p].own
                  /\ Decoded(db[f][p].area[a], a) = Due(Facts, f, p, a)
                  /\ db[f][p].count[a] = Len(Due(Facts, f, p, a))

\* What was inserted is kept while the store is built, and when it is loaded.
StoreKept == RecordsKept /\ LoadedExact

(***************************************************************************)
(* What the index needs of an area: no x whose low digit is zero (a        *)
(* backward walk takes it for padding), and no entry that names the bytes  *)
(* before the first record.                                                *)
(***************************************************************************)
Regular(m, a) ==
    \/ m.area[a] = <<>>
    \/ LET rows == RowsFrom(m.area[a], 0, stray)
       IN  /\ \A i \in DOMAIN rows : rows[i].x % Base # 0
           /\ \A i \in DOMAIN m.index[a].ent : m.index[a].ent[i].off # Before

(***************************************************************************)
(* An id does not lie in the gap between the entries of one pair of lines  *)
(* and the next pair, where the lines may cross, and the bytes before the  *)
(* area do not read as a key at or above it.                               *)
(***************************************************************************)
Reached(m, a, id) ==
    LET ix == m.index[a]
        l  == LineOf(ix, id)
    IN  \/ m.area[a] = <<>>
        \/ /\ l \in {0, Len(ix.lines)} \/
                \E i \in DOMAIN ix.ent : ix.ent[i].id \in id .. ix.lines[l + 1].start - 1
           /\ Key(m.area[a], a, Before, stray) < id

Ids == 1 .. 1 + Max(UNION {{Subject(t), Object(t)} : t \in Facts})

(***************************************************************************)
(* In such an area a scan from any id, one before the first or past the    *)
(* last key included, begins at the first record that has it as its key;   *)
(* where none has, at most one record too early: it misses nothing         *)
(* (searchChunk, getOffsetByID), and the lines have left a range to search *)
(* in (the assertion of searchChunk).                                      *)
(***************************************************************************)
ScansExact ==
    pass = 2 =>
        \A f \in Sides : \A p \in DOMAIN db[f] : \A a \in Areas : \A id \in Ids :
            LET m   == db[f][p]
                due == Due(Facts, f, p, a)
                Above(rows) == SelectSeq(rows, LAMBDA r : r[1] >= id)
            IN  Regular(m, a) /\ Reached(m, a, id) =>
                    /\ LinesApart(m.index[a], id)
                    /\ \A at \in {Lookup(m, a, id, stray)} : \A got \in {Scan(m, a, at, stray)} :
                          /\ at.st \in {"ok", "none"}
                          /\ Above(got) = Above(due)
                          /\ Len(got) <= Len(Above(due)) +
                                (IF \E i \in DOMAIN due : due[i][1] = id THEN 0 ELSE 1)

Sound(m, id) == \A a \in Areas : Regular(m, a) /\ Reached(m, a, id)

Ordered(rows, k) == \A i \in 1 .. Len(rows) - 1 : rows[i][k] <= rows[i + 1][k]

SameRows(rows, ref) ==
    \A r \in Range(rows) \cup Range(ref) :
        Cardinality({i \in DOMAIN rows : rows[i] = r}) =
        Cardinality({i \in DOMAIN ref : ref[i] = r})

\* The pairs of a predicate on a side, in both areas.
AllPairs(f, p) == Due(Facts, f, p, 1) \o Due(Facts, f, p, 2)

(***************************************************************************)
(* What the lookups of FindEntityID.cpp return, where the index can be     *)
(* relied on: the other ids of a key in a range are exactly those of the   *)
(* triples, in order; the pairs and keys of a predicate come in the order  *)
(* of their keys, all of them; with a range none of it is missing, none    *)
(* above it is there, and below it at most one row of each area.  The      *)
(* lookup of subjects with a range is exact or never ends.                 *)
(***************************************************************************)
RangesExact ==
    \A f \in Sides : \A p \in DOMAIN db[f] :
        LET m   == db[f][p]
            all == AllPairs(f, p)
            InRange(min, max) == SelectSeq(all, LAMBDA r : r[1] \in min .. max)
            Within(found, min, max, ref) ==
                /\ SameRows(SelectSeq(found.buffer.rows, LAMBDA r : r[1] >= min), ref)
                /\ Ordered(found.buffer.rows, 1)
                /\ Len(found.buffer.rows) <= Len(ref) + 2
        IN  /\ SameRows(findKeys(m, stray).buffer.rows, Keys(all))
            /\ SameRows(findPairs(m, stray).buffer.rows, all)
            /\ Ordered(findPairs(m, stray).buffer.rows, 1)
            /\ \A id \in Ids : Sound(m, id) =>
                  \A scans \in {Scans(m, id, stray)}, to \in {id, 9, 40} :
                    LET others == findOthers(scans, id, 3, to)
                        keys   == findSubjectIDByPredicate(scans, id, to)
                    IN  /\ others.buffer.rows = SetToSortSeq(
                                {<<r[2]>> : r \in {q \in Range(all) :
                                    q[1] = id /\ q[2] \in 3 .. to}},
                                LAMBDA r, q : r[1] < q[1])
                        /\ Within(findPairsInRange(scans, to), id, to, InRange(id, to))
                        /\ Within(findObjectIDByPredicate(scans, to), id, to,
                                  Keys(InRange(id, to)))
                        /\ keys.st # "loops" => SameRows(keys.buffer.rows, Keys(InRange(id, to)))

-----------------------------------------------------------------------------
\* The triple a pass inserts last; its group is never written.
Final(f) == Last(Sorted(f))

KeysOf(f) == {PairOf(f, t)[1] : t \in Facts}

With(f, k, p) == {t \in Facts : PairOf(f, t)[1] = k /\ Predicate(t) = p}

(***************************************************************************)
(* The statistics of a built database: the count of every key but the      *)
(* last, the list of those keys, and the count of every key with a         *)
(* predicate but the last, where the table is one chunk or the pair comes  *)
(* before its last chunk (addStatis, getStatis, getIDs,                    *)
(* getPredicatesByID).                                                     *)
(***************************************************************************)
StatisticsExact ==
    pass = 2 =>
        \A f \in Sides :
            LET final == PairOf(f, Final(f))[1]
                known == KeysOf(f) \ {final}
                pairs == {kp \in KeysOf(f) \X PredicatesOf(Facts) :
                             With(f, kp[1], kp[2]) # {}}
                         \ {<<final, Predicate(Final(f))>>}
                Early(kp) == \/ Len(two[f].chunk) = 1
                             \/ ~ NotBelow([v1 |-> kp[1], v2 |-> kp[2]],
                                           Last(two[f].chunk).v1, Last(two[f].chunk).v2)
            IN  /\ \A k \in known :
                      getOne(one[f], k) = Cardinality({t \in Facts : PairOf(f, t)[1] = k})
                /\ known # {} =>
                      /\ Range(getIDs(one[f], 0, Max(Ids))) = known
                      /\ Len(getIDs(one[f], 0, Max(Ids))) = Cardinality(known)
                      /\ getEntityCount(one[f]) = Cardinality(known)
                /\ \A kp \in pairs : Early(kp) =>
                      getTwo(two[f], kp[1], kp[2]) = Cardinality(With(f, kp[1], kp[2]))
                /\ \A k \in known :
                      LET found == getPredicatesByID(two[f], k)
                      IN  /\ Range(found.ids) = {p \in PredicatesOf(Facts) : With(f, k, p) # {}}
                          /\ Len(found.ids) = Cardinality(Range(found.ids))

Holds(found, rows) == found.st = "ok" /\ rows \subseteq Range(found.buffer.rows)

(***************************************************************************)
(* The lookups by subject or object alone miss none of what they are asked *)
(* for, when the sortKey they do not set is 0: the other ids of a known    *)
(* key, alone or with the predicate (findObjectIDBySubject,                *)
(* findObjectIDAndPredicateIDBySubject).  They may return more: they do    *)
(* not look at the key again.                                              *)
(***************************************************************************)
ByIdComplete ==
    \A f \in Sides : \A k \in KeysOf(f) \ {PairOf(f, Final(f))[1]} :
        LET ms  == db[1 - f]
            due == {t \in Facts : PairOf(f, t)[1] = k}
            Id(t) == PairOf(f, t)[2]
        IN  /\ Holds(findKeysById([p \in DOMAIN ms |-> findKeys(ms[p], stray)],
                                  two[f], k, 0, stray),
                     {<<Id(t)>> : t \in due})
            /\ Holds(findWithPredicatesById(
                        [p \in DOMAIN ms |-> findKeysWithPredicate(ms[p], p, stray)],
                        two[f], k, 0, stray),
                     {<<Id(t), Predicate(t)>> : t \in due})
            /\ Holds(findWithPredicatesById(
                        [p \in DOMAIN ms |-> findPredicateWithKeys(ms[p], p, stray)],
                        two[f], k, 0, stray),
                     {<<Predicate(t), Id(t)>> : t \in due})


(***************************************************************************)
(* "Sort a temporary file" (Sorter.cpp:193), for a file of couples, as the *)
(* writers of adjacency files sort it: what comes out is what went in,     *)
(* repeated couples included, and each couple is followed by none before   *)
(* it, whichever runs they were in (the heap of the merge).                *)
(***************************************************************************)
SortedFile ==
    pass = 0 /\ last = None =>
        LET couples == [i \in DOMAIN raw |-> <<Subject(raw[i]), Object(raw[i])>>]
        IN  \A cols \in {compare12, compare21} :
              \A file \in {S!sort(FlattenSeq(couples), 2, RunLength, cols)} :
                LET read == [i \in 1 .. Len(file) \div 2 |->
                                <<file[2 * i - 1], file[2 * i]>>]
                IN  /\ Len(file) % 2 = 0
                    /\ SameRows(read, couples)
                    /\ \A i \in 1 .. Len(read) - 1 : ~ S!Less(read[i + 1], read[i], cols)
=============================================================================
