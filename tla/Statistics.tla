---------------------------- MODULE Statistics ----------------------------
(***************************************************************************)
(* How many triples an id, and an id with a predicate, occurs in           *)
(* (TripleBit/StatisticsBuffer.cpp).  Both tables are runs of differences: *)
(* a head with full values opens a chunk, each later entry holds what is   *)
(* to be added to the one before.  A chunk is found by an index: of the    *)
(* one-constant table by the id's hundred (IdHash), of the two-constant    *)
(* table by the values of its head.                                        *)
(***************************************************************************)
EXTENDS Integers, Sequences, SequencesExt, FiniteSetsExt

CONSTANTS IdHash,      \* ids in a chunk of the one-constant table
          IndexSize,   \* entries of its index
          StatInit,    \* bytes of a new two-constant table
          StatInc      \* bytes it grows by

ASSUME StatisticsAssumption ==
    /\ IdHash \in Nat \ {0} /\ IndexSize \in Nat \ {0}
    /\ StatInit \in Nat /\ StatInc \in Nat \ {0}

\* Bytes of a value written without its leading zeros.
getLen(v) == Cardinality({k \in 0 .. 3 : v >= 256 ^ k})

(***************************************************************************)
(* The one-constant table: code is the run of entries, a position in it    *)
(* stands for the byte offset; index[k] is where the chunk of the ids      *)
(* k * IdHash .. is, 0 when there is none (and for the first chunk).       *)
(***************************************************************************)
OneEmpty == [code |-> <<>>, next |-> 0, last |-> 0,
             index |-> [k \in 0 .. IndexSize - 1 |-> 0]]

\* Mutant: a chunk holds IdHash ids from its first on, not a hundred of the index.
addOneUneven(o, v, count) ==
    LET gap  == v - o.last
        head == v >= o.next
        entry == IF head THEN [kind |-> "head", v |-> v, c |-> count]
                 ELSE IF gap < 16 /\ count <= 8
                 THEN [kind |-> "small", v |-> gap, c |-> count - 1]
                 ELSE [kind |-> "wide", v |-> gap - 1, c |-> count - 1]
    IN  [code  |-> Append(o.code, entry),
         last  |-> v,
         next  |-> IF head THEN v + IdHash ELSE o.next,
         index |-> IF head THEN [o.index EXCEPT ![v \div IdHash] = Len(o.code)]
                   ELSE o.index]

addOne(o, v, count) ==
    LET gap  == v - o.last
        head == v >= o.next
        entry == IF head THEN [kind |-> "head", v |-> v, c |-> count]
                 ELSE IF gap < 16 /\ count <= 8
                 THEN [kind |-> "small", v |-> gap, c |-> count - 1]
                 ELSE [kind |-> "wide", v |-> gap - 1, c |-> count - 1]
    IN  [code  |-> Append(o.code, entry),
         last  |-> v,
         next  |-> IF head THEN (v \div IdHash + 1) * IdHash ELSE o.next,
         index |-> IF head THEN [o.index EXCEPT ![v \div IdHash] = Len(o.code)]
                   ELSE o.index]

\* decode: the entries from begin to end, and the one at begin in any case.
decodeOne(o, begin, end) ==
    LET Next(acc, e) ==
            LET v == Last(acc).id IN
            Append(acc, CASE e.kind = "small" -> [id |-> v + e.v, count |-> e.c + 1]
                          [] e.kind = "wide"  -> [id |-> v + 1 + e.v, count |-> e.c + 1]
                          [] e.kind = "head"  -> [id |-> e.v, count |-> e.c])
        h == o.code[begin + 1]
    IN  FoldLeft(Next, <<[id |-> h.v, count |-> h.c]>>,
                 SubSeq(o.code, begin + 2, end))

\* The next chunk at or behind the k-th: where it begins.
ChunkFrom(o, k) ==
    LET later == {i \in k .. IndexSize - 1 : o.index[i] # 0}
    IN  IF later = {} THEN Len(o.code) ELSE o.index[Min(later)]

EntryFrom(o, k) ==
    Min({i \in k .. IndexSize - 1 : o.index[i] # 0} \cup {IndexSize})

\* getStatis: how often v occurs, 0 when the table does not know it.
getOne(o, v) ==
    LET k == v \div IdHash
        t == decodeOne(o, o.index[k], ChunkFrom(o, k + 1))
        hit == {i \in DOMAIN t : t[i].id = v}
    IN  IF hit = {} THEN 0 ELSE t[Min(hit)].count

(***************************************************************************)
(* getIDs: the ids from min to max.  The chunk of min is read up to the    *)
(* next entry of the index at or behind it, which is its own unless it is  *)
(* the first chunk of all; the search for min and max is for the first id  *)
(* not below them, and one that fails leaves the reader where it is.       *)
(***************************************************************************)
getIDs(o, min, max) ==
    LET k    == min \div IdHash
        end1 == IF max \div IdHash + 1 >= IndexSize THEN Len(o.code)
                ELSE ChunkFrom(o, max \div IdHash + 1)
        Ids(begin, end) == [i \in DOMAIN decodeOne(o, begin, end) |->
                               decodeOne(o, begin, end)[i].id]
        AtLeast(s, v) == {i \in DOMAIN s : s[i] >= v}
        FromMin(s) == IF AtLeast(s, min) = {} THEN s
                      ELSE SubSeq(s, Min(AtLeast(s, min)), Len(s))
        UpToMax(s) == IF AtLeast(s, max) = {} THEN s
                      ELSE SubSeq(s, 1, Min(AtLeast(s, max)))
        from[i \in k .. IndexSize, first \in BOOLEAN] ==
            LET begin == IF first THEN o.index[k] ELSE o.index[i]
                at    == EntryFrom(o, IF first THEN i ELSE i + 1)
                end   == ChunkFrom(o, at)
                s     == IF first THEN FromMin(Ids(begin, end)) ELSE Ids(begin, end)
            IN  IF end = end1 THEN UpToMax(s) ELSE s \o from[at, FALSE]
    IN  IF o.code = <<>> THEN <<>> ELSE from[k, TRUE]

\* getEntityCount: the chunks of the index, each counted to the next.
getEntityCount(o) ==
    LET ends == {o.index[k] : k \in 1 .. IndexSize - 1} \cup {Len(o.code)}
        starts == {0} \cup {e \in ends : e # Len(o.code)}
        Behind(s) == Min({e \in ends : e > s})
    IN  IF o.code = <<>> THEN 0
        ELSE FoldSet(LAMBDA s, n : n + Len(decodeOne(o, s, Behind(s))), 0, starts)

-----------------------------------------------------------------------------
(***************************************************************************)
(* The two-constant table.  A chunk ends when the buffer has to grow, and  *)
(* the first entry of all makes it grow.                                   *)
(***************************************************************************)
TwoEmpty == [chunk |-> <<>>, used |-> 0, size |-> StatInit,
             last |-> [v1 |-> 0, v2 |-> 0]]

addTwo(t, v1, v2, count) ==
    LET same == v1 = t.last.v1
        gap  == v2 - t.last.v2
        tiny == same /\ gap \in 0 .. 31 /\ count < 5
        len  == IF tiny THEN 1
                ELSE IF same THEN 1 + getLen(gap) + getLen(count - 1)
                ELSE 1 + getLen(v1 - t.last.v1) + getLen(v2) + getLen(count - 1)
        head == t.chunk = <<>> \/ t.used + len > t.size
        entry == IF same THEN [same |-> TRUE, v2 |-> gap, c |-> count - 1]
                 ELSE [same |-> FALSE, v1 |-> v1 - t.last.v1, v2 |-> v2,
                       c |-> count - 1]
    IN  [chunk |-> IF head
                   THEN Append(t.chunk, [v1 |-> v1, v2 |-> v2, count |-> count,
                                         rest |-> <<>>])
                   ELSE [t.chunk EXCEPT ![Len(t.chunk)].rest = Append(@, entry)],
         used  |-> t.used + IF head THEN 12 ELSE len,
         size  |-> IF head THEN t.size + StatInc ELSE t.size,
         last  |-> [v1 |-> v1, v2 |-> v2]]

decodeTwo(c) ==
    LET Next(acc, e) ==
            LET l == Last(acc) IN
            Append(acc, IF e.same
                        THEN [l EXCEPT !.v2 = @ + e.v2, !.count = e.c + 1]
                        ELSE [v1 |-> l.v1 + e.v1, v2 |-> e.v2, count |-> e.c + 1])
    IN  FoldLeft(Next, <<[v1 |-> c.v1, v2 |-> c.v2, count |-> c.count]>>, c.rest)

NotBelow(e, v1, v2) == e.v1 > v1 \/ (e.v1 = v1 /\ e.v2 >= v2)

\* find(value1, value2): the first entry not below; the first of all if none.
findTwo(s, v1, v2) ==
    LET hit == {i \in DOMAIN s : NotBelow(s[i], v1, v2)}
    IN  IF hit = {} THEN 1 ELSE Min(hit)

\* getStatis: 0 when the chunk that is looked at does not hold the pair.
getTwo(t, v1, v2) ==
    LET i == findTwo(t.chunk, v1, v2)
        c == t.chunk[i]
        k == IF NotBelow(c, v1, v2) /\ ~ (c.v1 = v1 /\ c.v2 = v2) THEN i - 1 ELSE i
        s == decodeTwo(t.chunk[k])
        e == s[findTwo(s, v1, v2)]
    IN  IF k = 0 THEN 0 ELSE IF e.v1 = v1 /\ e.v2 = v2 THEN e.count ELSE 0

(***************************************************************************)
(* getPredicatesByID: the predicates of an id, from the chunk or the two   *)
(* chunks that may hold it, in the order the code meets them: of those in  *)
(* a chunk first the one the binary search falls on, then the ones before  *)
(* it backwards, then the ones behind it.  It does not look at minID and   *)
(* maxID.  An id below the first head fails an assertion: "abort".         *)
(***************************************************************************)
findPredicateEntry(s, id) ==
    LET f[l \in 0 .. Len(s) + 1, h \in -1 .. Len(s)] ==
            LET m == l + (h - l) \div 2
            IN  IF l > h THEN -1
                ELSE IF m = Len(s) THEN f[l, m - 1]
                ELSE IF s[m + 1].v1 = id THEN m
                ELSE IF s[m + 1].v1 > id THEN f[l, m - 1] ELSE f[m + 1, h]
    IN  f[0, Len(s)]

PredicatesIn(s, id) ==
    LET m   == findPredicateEntry(s, id) + 1
        Of(i) == s[i].v2
        lo  == Min({i \in 1 .. m : s[i].v1 = id})
        hi  == Max({i \in m .. Len(s) : s[i].v1 = id})
    IN  IF m = 0 THEN <<>>
        ELSE <<Of(m)>> \o [i \in 1 .. m - lo |-> Of(m - i)]
                       \o [i \in 1 .. hi - m |-> Of(m + i)]

getPredicatesByID(t, id) ==
    LET n   == Len(t.chunk)
        hit == {i \in 1 .. n : t.chunk[i].v1 >= id}
        pos == IF hit = {} THEN n ELSE Min(hit)
        c   == t.chunk[pos]
        range == CASE pos = 1               -> <<1, 1>>
                   [] pos > 1 /\ c.v1 > id  -> <<pos - 1, pos - 1>>
                   [] pos > 1 /\ c.v1 = id  ->
                         <<IF c.v2 = 1 THEN pos ELSE pos - 1, pos>>
                   [] pos > 1 /\ c.v1 < id  -> <<pos, pos>>
    IN  IF pos = 1 /\ c.v1 > id THEN [st |-> "abort"]
        ELSE [st  |-> "ok",
              ids |-> FlattenSeq([i \in 1 .. range[2] - range[1] + 1 |->
                          PredicatesIn(decodeTwo(t.chunk[range[1] + i - 1]), id)])]
===========================================================================
