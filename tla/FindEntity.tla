----------------------------- MODULE FindEntity -----------------------------
(***************************************************************************)
(* The lookups in a loaded store (TripleBit/FindEntityID.cpp).  db[f][p]   *)
(* is the manager of predicate p on side f (0: keys are subjects, 1: keys  *)
(* are objects).  A lookup by predicate scans the two areas of a manager,  *)
(* from where the index says, and merges what it found by key; lookups     *)
(* without a predicate do so for each predicate the statistics name.       *)
(*                                                                         *)
(* The answer is a buffer (st is "ok"), or none: "loops" when the scan     *)
(* never ends, "undefined" when the index gave no position or ran out of   *)
(* its area, "abort" when an assertion fails.                              *)
(* stray is what memory holds that nobody set.                             *)
(***************************************************************************)
EXTENDS ChunkStore, Statistics, EntityBuffer

\* A record as its key and the other id.
Pair(a, r) == IF a = 1 THEN <<r.x, r.x + r.y>> ELSE <<r.x + r.y, r.x>>

PairsFrom(m, a, p, stray) ==
    LET rows == RowsFrom(m.area[a], p, stray)
    IN  [i \in DOMAIN rows |-> Pair(a, rows[i])]

\* getChunkPosByID
Lookup(m, a, id, stray) ==
    getOffsetByID(m.area[a], a, m.index[a], id, stray)

\* What a scan of area a meets that starts where a lookup says.
Scan(m, a, at, stray) == IF at.st = "ok" THEN PairsFrom(m, a, at.off, stray) ELSE <<>>

\* The scans of both areas; they are lost when one of them has no position.
ScansAt(m, at, stray) ==
    [lost |-> \E a \in Areas : at[a].st \notin {"ok", "none"},
     rows |-> [a \in Areas |-> Scan(m, a, at[a], stray)]]

Scans(m, id, stray) == ScansAt(m, [a \in Areas |-> Lookup(m, a, id, stray)], stray)

\* The rows before the first of those that end a scan.
Until(rows, ends) == IF ends = {} THEN rows ELSE SubSeq(rows, 1, Min(ends) - 1)


UpTo(rows, max) == Until(rows, {i \in DOMAIN rows : rows[i][1] > max})

Keys(rows) == [i \in DOMAIN rows |-> <<rows[i][1]>>]

Answer(b) == [st |-> "ok", buffer |-> b]

Failed(st) == [st |-> st]

Both(n, x, xy) == Answer(mergeBuffer(Buffer(n, 1), x, xy))

-----------------------------------------------------------------------------
\* Every key of a predicate (findSubjectIDByPredicate, findObjectIDByPredicate),
\* and every pair (findSubjectIDAndObjectIDByPredicate and its mirror).
findKeys(m, stray) ==
    Both(1, Keys(PairsFrom(m, 1, 0, stray)), Keys(PairsFrom(m, 2, 0, stray)))

findPairs(m, stray) == Both(2, PairsFrom(m, 1, 0, stray), PairsFrom(m, 2, 0, stray))

(***************************************************************************)
(* findSubjectIDByPredicate with a range, its scans being those from min.  *)
(* In area 1 a subject below the range is left without stepping over its   *)
(* y, where the next read finds no x and does not move: the loop never     *)
(* ends.                                                                   *)
(***************************************************************************)
findSubjectIDByPredicate(scans, min, max) ==
    LET x  == UpTo(scans.rows[1], max)
        xy == UpTo(scans.rows[2], max)
    IN  CASE scans.lost                         -> Failed("undefined")
          [] \E i \in DOMAIN x : x[i][1] < min  -> Failed("loops")
          [] OTHER -> Both(1, Keys(x), Keys(SelectSeq(xy, LAMBDA r : r[1] >= min)))

\* findObjectIDByPredicate with a range: only the upper end is looked at.
findObjectIDByPredicate(scans, max) ==
    IF scans.lost THEN Failed("undefined")
    ELSE Both(1, Keys(UpTo(scans.rows[1], max)), Keys(UpTo(scans.rows[2], max)))

\* The pairs of a predicate with a range of keys, also without a lower end.
findPairsInRange(scans, max) ==
    IF scans.lost THEN Failed("undefined")
    ELSE Both(2, UpTo(scans.rows[1], max), UpTo(scans.rows[2], max))

(***************************************************************************)
(* findSubjectIDByPredicateAndObject (m on side 1) and its mirror: the     *)
(* other ids of one key.  They rise within an area, and those of area 2    *)
(* are below those of area 1.                                              *)
(***************************************************************************)
findOthers(scans, key, min, max) ==
    LET Of(a) == LET rows == scans.rows[a]
                 IN  Until(rows, {i \in DOMAIN rows : rows[i][1] # key \/ rows[i][2] > max})
        Others(rows) == [i \in DOMAIN rows |-> <<rows[i][2]>>]
        InRange(a) == SelectSeq(Of(a), LAMBDA r : r[2] >= min)
    IN  IF scans.lost THEN Failed("undefined")
        ELSE Both(1, Others(InRange(2)), Others(InRange(1)))

(***************************************************************************)
(* The lookups that add the predicate as a column.  The areas are appended *)
(* to the buffer, not merged into it.                                      *)
(***************************************************************************)
findKeysWithPredicate(m, p, stray) ==
    LET With(a) == LET r == PairsFrom(m, a, 0, stray)
                   IN  [i \in DOMAIN r |-> <<r[i][1], p>>]
    IN  Answer(appendBuffer(Buffer(2, 1), With(1) \o With(2)))

findKeysWithPredicateInRange(scans, p, max) ==
    LET With(a) == LET r == UpTo(scans.rows[a], max)
                   IN  [i \in DOMAIN r |-> <<r[i][1], p>>]
    IN  IF scans.lost THEN Failed("undefined")
        ELSE Answer(appendBuffer(Buffer(2, 1), With(1) \o With(2)))

findPredicateWithKeys(m, p, stray) ==
    LET With(a) == LET r == PairsFrom(m, a, 0, stray)
                   IN  [i \in DOMAIN r |-> <<p, r[i][1]>>]
    IN  Answer(appendBuffer(Buffer(2, 1), With(1) \o With(2)))

(***************************************************************************)
(* The lookups by subject or object alone.  found is what the lookup by    *)
(* predicate answers for each, t the two-constant table of the id's kind.  *)
(* The buffer of predicates they go through has a sortKey nobody set (k0), *)
(* which operator[] adds to the index.  What is found for a predicate is   *)
(* added to the buffer, whose key is set again if it is in use and has a   *)
(* column of predicates.                                                   *)
(***************************************************************************)
PredicateAt(pre, i, k0, stray) ==
    IF i + k0 < Len(pre) THEN pre[i + k0 + 1] ELSE stray

ForEachPredicate(found, columns, t, id, k0, stray) ==
    LET pre == getPredicatesByID(t, id)
        Keyed(b) == IF columns = 2 /\ b.rows # <<>> THEN setSortKey(b, 1) ELSE b
        Next(ans, i) ==
            LET p == PredicateAt(pre.ids, i - 1, k0, stray)
            IN  CASE ans.st # "ok"           -> ans
                  [] p \notin DOMAIN found -> Failed("undefined")
                  [] found[p].st # "ok"      -> found[p]
                  [] OTHER -> Answer(appendBuffer(Keyed(ans.buffer), found[p].buffer.rows))
    IN  IF pre.st # "ok" THEN pre
        ELSE FoldLeft(Next, Answer(Buffer(columns, 1)), [i \in DOMAIN pre.ids |-> i])

(***************************************************************************)
(* findObjectIDBySubject, findSubjectIDByObject.  The buffer takes itself  *)
(* for sorted, so that sort(1) changes nothing and uniqe sees only         *)
(* neighbours.  The id is not looked at again.                             *)
(***************************************************************************)
findKeysById(found, t, id, k0, stray) ==
    LET all == ForEachPredicate(found, 1, t, id, k0, stray)
    IN  IF all.st # "ok" THEN all ELSE Answer(uniqe(sort(all.buffer, 1), stray))

(***************************************************************************)
(* findObjectIDAndPredicateIDBySubject and the other lookups of a column   *)
(* of predicates.  The second predicate finds the buffer in use, so that   *)
(* sort(1) sorts from then on.                                             *)
(***************************************************************************)
findWithPredicatesById(found, t, id, k0, stray) ==
    LET all == ForEachPredicate(found, 2, t, id, k0, stray)
    IN  IF all.st # "ok" THEN all ELSE Answer(sort(all.buffer, 1))

(***************************************************************************)
(* findPredicateIDBySubjectAndObject: the predicates of both are joined,   *)
(* and the pointer to the result is assigned to the parameter; the         *)
(* caller's buffer stays empty.                                            *)
(***************************************************************************)
findPredicateIDBySubjectAndObject(sp, op, s, o) ==
    LET found == {getPredicatesByID(sp, s).st, getPredicatesByID(op, o).st}
    IN  IF "abort" \in found THEN Failed("abort") ELSE Answer(Buffer(1, 1))

\* findSubject, findObject: from the one-constant table.
findEntity(o, min, max) ==
    LET ids == getIDs(o, min, max)
    IN  Answer(appendBuffer(Buffer(1, 1), [i \in DOMAIN ids |-> <<ids[i]>>]))

\* findPredicate: ids of predicates are taken to be contiguous.
findPredicate(min, max) ==
    Answer(appendBuffer(Buffer(1, 1), [i \in 1 .. max - min + 1 |-> <<min + i - 1>>]))
=============================================================================
