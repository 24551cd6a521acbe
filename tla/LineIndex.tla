----------------------------- MODULE LineIndex -----------------------------
(***************************************************************************)
(* The index of an area (TripleBit/LineHashIndex.cpp).  One entry for each *)
(* page boundary names a record and its key; two straight lines per range  *)
(* of ids are fitted above and below the entries and tell where among them *)
(* to look.  An area of type 1 is ordered by x, one of type 2 by x + y.    *)
(***************************************************************************)
EXTENDS ChunkBytes, SequencesExt

CONSTANTS PageSize,  \* bytes in a page
          splitID    \* the ids at which a new pair of lines is begun

ASSUME PageAssumption ==
    /\ PageSize \in Nat \ {0}
    /\ splitID \in [1 .. 3 -> Nat]

Key(a, t, p, stray) ==
    LET r == RowAt(a, p, stray) IN IF t = 1 THEN r.x ELSE r.x + r.y

(***************************************************************************)
(* calculateLineKB, with its quotients kept exact: the line of least       *)
(* squares through points <<id, entry>> is (k * id + b) / d, d > 0.  When  *)
(* all the ids are one, k and b are 0.                                     *)
(***************************************************************************)
calculateLineKB(pts) ==
    LET n   == Len(pts)
        Sum(F(_)) == FoldLeft(LAMBDA acc, q : acc + F(q), 0, pts)
        mX  == Sum(LAMBDA q : q[1])
        mY  == Sum(LAMBDA q : q[2])
        mXX == Sum(LAMBDA q : q[1] * q[1])
        mXY == Sum(LAMBDA q : q[1] * q[2])
        d   == mXX * n - mX * mX
    IN  IF d = 0 THEN [k |-> 0, b |-> 0, d |-> 1]
        ELSE [k |-> mXY * n - mX * mY, b |-> mY * mXX - mX * mXY, d |-> d]

\* The line moved up (down) until no point lies above (below) it.
Raised(l, pts) ==
    [l EXCEPT !.b = Max({@} \cup {q[2] * l.d - l.k * q[1] : q \in Range(pts)})]

Lowered(l, pts) ==
    [l EXCEPT !.b = Min({@} \cup {q[2] * l.d - l.k * q[1] : q \in Range(pts)})]

(***************************************************************************)
(* buildLine for the entries number first + 1 to last, two at least.  With *)
(* only two, the lower line starts from the upper one.                     *)
(***************************************************************************)
buildLine(ent, first, last) ==
    LET up  == [i \in 1 .. last - first |-> <<ent[first + i].id, first + i - 1>>]
        low == [i \in 1 .. last - first - 1 |->
                    <<ent[first + i + 1].id, first + i - 1>>]
        u   == Raised(calculateLineKB(up), up)
    IN  [start |-> up[1][1],
         upper |-> u,
         lower |-> Lowered(IF Len(low) > 1 THEN calculateLineKB(low) ELSE u, low)]

(***************************************************************************)
(* buildIndex: an entry for the first record, one for the record at every  *)
(* page boundary (counted from the first record, of which type 1 has read  *)
(* the x), one for the last.  A pair of lines is closed when an entry is   *)
(* beyond the next split, and at the end.  splitID has three members; the  *)
(* fourth that is read is not one of them.                                 *)
(***************************************************************************)
buildIndex(a, t, stray) ==
    LET from  == IF t = 1 THEN SkipX(a, 0) ELSE 0
        bound == SelectSeq([i \in 1 .. Len(a) |-> from + i * PageSize],
                           LAMBDA p : p < Len(a))
        EntryAt(p) == [id |-> Key(a, t, p, stray), off |-> p]
        rest  == [i \in DOMAIN bound |-> EntryAt(skipBackward(a, bound[i]))]
        Split(i) == IF i <= 3 THEN splitID[i] ELSE stray
        Close(b, ent) ==
            IF Len(ent) - b.done < 2 THEN [b EXCEPT !.ent = ent]
            ELSE [ent |-> ent, done |-> Len(ent),
                  lines |-> Append(b.lines, buildLine(ent, b.done, Len(ent)))]
        Insert(b, e) ==
            IF e.id > Split(Len(b.lines) + 1) THEN Close(b, Append(b.ent, e))
            ELSE [b EXCEPT !.ent = Append(@, e)]
        most  == FoldLeft(Insert, [ent |-> <<EntryAt(0)>>, done |-> 0,
                                   lines |-> <<>>], rest)
        last  == EntryAt(skipBackward(a, Len(a)))
        all   == Close(most, Append(most.ent, last))
    IN  IF a = <<>> THEN [ent |-> <<>>, lines |-> <<>>]
        ELSE [ent |-> all.ent, lines |-> all.lines]

\* The lines an id belongs to: the last whose first entry is not beyond it.
LineOf(ix, id) ==
    Max({i \in 1 .. Len(ix.lines) :
            \A j \in 1 .. i : ix.lines[j].start <= id} \cup {0})

LowerChunk(ix, id) ==
    LET l == ix.lines[LineOf(ix, id)].lower
        c == (l.k * id + l.b) \div l.d
    IN  IF c \in 0 .. Len(ix.ent) - 1 THEN c ELSE 0

UpperChunk(ix, id) ==
    LET l == ix.lines[LineOf(ix, id)].upper
        c == - ((- (l.k * id + l.b)) \div l.d)
    IN  IF c \in 0 .. Len(ix.ent) - 1 THEN c ELSE Len(ix.ent) - 1

\* Entries count from 0, as in the code.
EntryId(ix, i) == ix.ent[i + 1].id

(***************************************************************************)
(* The search of searchChunk between the two lines, and the walk that      *)
(* mends its answer: down while the entry is not below the id, or up while *)
(* the next one still is.                                                  *)
(***************************************************************************)
Bisect(ix, id, low, high) ==
    LET b[l \in low .. high, h \in low .. high] ==
            LET m == l + (h - l) \div 2
            IN  IF l = h
                THEN IF l > 0 /\ EntryId(ix, l) > id THEN l - 1 ELSE l
                ELSE IF id > EntryId(ix, m) THEN b[m + 1, h]
                ELSE IF m = 0 \/ id > EntryId(ix, m - 1)
                THEN IF EntryId(ix, m) = id \/ m = 0 THEN m ELSE m - 1
                ELSE b[l, m]
    IN  b[low, high]

\* Mutant: the walk up goes on over entries with the id itself.
MendedPast(ix, id, r) ==
    LET n == Len(ix.ent)
    IN  IF EntryId(ix, r) > id /\ r > 0
        THEN Max({i \in 0 .. r - 1 : EntryId(ix, i) < id} \cup {0})
        ELSE Min({i \in r .. n - 1 : i = n - 1 \/ EntryId(ix, i + 1) > id})

Mended(ix, id, r) ==
    LET n == Len(ix.ent)
    IN  IF EntryId(ix, r) >= id /\ r > 0
        THEN Max({i \in 0 .. r - 1 : EntryId(ix, i) < id} \cup {0})
        ELSE Min({i \in r .. n - 1 : \/ i = n - 1
                                     \/ EntryId(ix, i) >= id
                                     \/ EntryId(ix, i + 1) >= id})

\* The assertion of searchChunk: the lines leave a range to search in.
LinesApart(ix, id) ==
    LineOf(ix, id) = 0 \/ LowerChunk(ix, id) <= UpperChunk(ix, id)

searchChunk(ix, id) ==
    LET low  == LowerChunk(ix, id)
        high == UpperChunk(ix, id)
    IN  IF LineOf(ix, id) = 0 THEN Before
        ELSE IF low = high THEN low
        ELSE Mended(ix, id, Bisect(ix, id, low, high))

(***************************************************************************)
(* From the byte m of a record with the key id, the first record with that *)
(* key: back a record at a time until one has a smaller key.               *)
(***************************************************************************)
FirstOf(a, t, id, m, stray) ==
    LET f[p \in Before .. Len(a), last \in 0 .. Len(a)] ==
            LET r == skipBackward(a, p)
            IN  IF p <= 0 \/ r = Before \/ Key(a, t, r, stray) < id THEN last
                ELSE f[r - 1, r]
    IN  f[m, m]

Found(off) == [st |-> "ok", off |-> off]

(***************************************************************************)
(* The search of getOffsetByID among the bytes low .. high.  The middle    *)
(* byte stands for the record it belongs to; the search ends when the      *)
(* range is empty or the middle repeats.  A range that ends below 0 is a   *)
(* size_t that wraps: "overrun", a read far outside the area.              *)
(***************************************************************************)
ByteSearch(a, t, id, low, high, stray) ==
    LET Ended(m) == IF m <= 0 THEN Found(0) ELSE Found(skipBackward(a, m))
        s[l \in 0 .. Len(a) + 1, h \in Before .. Len(a), last \in 0 .. Len(a)] ==
            LET m   == (l + h) \div 2
                key == Key(a, t, skipBackward(a, m), stray)
            IN  IF l > h THEN Ended(last)
                ELSE IF key = id THEN Found(FirstOf(a, t, id, m, stray))
                ELSE IF m = last THEN Ended(m)
                ELSE IF key > id
                THEN IF m = 0 THEN [st |-> "overrun"] ELSE s[l, m - 1, m]
                ELSE s[m + 1, h, m]
    IN  s[low, high, 0]

(***************************************************************************)
(* getOffsetByID.  "unset": the function says OK and has set no offset.    *)
(***************************************************************************)
getOffsetByID(a, t, ix, id, stray) ==
    LET c    == searchChunk(ix, id)
        low  == ix.ent[c + 1].off
        next == IF c + 1 < Len(ix.ent) THEN ix.ent[c + 2].off ELSE Len(a)
        key  == Key(a, t, low, stray)
    IN  IF a = <<>> THEN [st |-> "none"]
        ELSE IF c = Before
        THEN IF id > ix.ent[Len(ix.ent)].id THEN [st |-> "none"] ELSE Found(0)
        ELSE IF low = Before THEN [st |-> "overrun"]
        ELSE IF key = id THEN Found(FirstOf(a, t, id, low, stray))
        ELSE IF key > id THEN [st |-> "unset"]
        ELSE IF next = Before THEN [st |-> "overrun"]
        ELSE ByteSearch(a, t, id, low, IF next < low THEN Len(a) ELSE next, stray)
===========================================================================
