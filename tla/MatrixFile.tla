----------------------------- MODULE MatrixFile -----------------------------
(***************************************************************************)
(* One bucket of the matrix (Matrix/Matrixmap.cpp, Matrix/PageIndex.cpp):  *)
(* the adjacency lists of a range of vertices, packed into pages, and the  *)
(* index with the first vertex of each page.  Small lists share a page;    *)
(* a list too long for one starts a page and runs over the next.  The      *)
(* first page begins with the descriptor of the bucket.                    *)
(*                                                                         *)
(* Addresses count from the start of the file; "pages" holds what was      *)
(* written at an address.                                                  *)
(***************************************************************************)
EXTENDS Integers, Sequences, FiniteSets, FiniteSetsExt, SequencesExt

CONSTANTS
    pagesize,       \* bytes of a page, 65536 in the code
    Digit,          \* values of one byte of an id, 128 in the code
    maxRunChunk,    \* index entries one task walks over, 3 in the code
    cacheSize,      \* lists the cache of a product holds, 65530 in the code
    dropSize        \* lists it drops when it is full, 100 in the code

META == 40          \* sizeof(BucketManagerMeta)
IDSIZE == 4         \* sizeof(ID)

ASSUME MatrixAssumption ==
    /\ pagesize \in Nat /\ pagesize > META
    /\ Digit \in Nat \ {0, 1}
    /\ maxRunChunk \in Nat \ {0}
    /\ cacheSize \in Nat /\ dropSize \in 1 .. cacheSize

\* An id that no vertex has: what a reader finds that has left the pages.
Astray == 0

---------------------------------------------------------------------------
\* The digits of an id, lowest first, each with the head bit of the id.
Width(id) == CHOOSE k \in 1 .. 32 :
    id < Digit ^ k /\ (k = 1 \/ id >= Digit ^ (k - 1))

Coded(id, head) ==
    [k \in 1 .. Width(id) |-> <<head, (id \div Digit ^ (k - 1)) % Digit>>]

\* getBody: the first id, then the distance from each id to the next, with
\* the head bit changing from one to the next.
getBody(Yid) ==
    FlattenSeq([i \in DOMAIN Yid |->
        Coded(IF i = 1 THEN Yid[1] ELSE Yid[i] - Yid[i - 1], i % 2 = 0)])

\* readYi: the id whose digits start at p, up to the next change of the head.
RunEnd(body, p) ==
    Min({q \in p .. Len(body) : q = Len(body) \/ body[q + 1][1] # body[p][1]})

readYi(body, p, y0) ==
    y0 + SumFunction([q \in p .. RunEnd(body, p) |-> body[q][2] * Digit ^ (q - p)])

\* readBody: every id, the first one as it is, the others added to the one before.
readBody(body) ==
    LET starts == SelectSeq([p \in DOMAIN body |-> p],
                      LAMBDA p : p = 1 \/ body[p - 1][1] # body[p][1])
    IN  FoldLeft(LAMBDA ys, p :
            Append(ys, readYi(body, p, IF ys = <<>> THEN 0 ELSE ys[Len(ys)])), <<>>, starts)

---------------------------------------------------------------------------
(***************************************************************************)
(* Writing.  pending holds the lists of the page being collected; length   *)
(* and used are the descriptor's, endPtr is where the next page goes.      *)
(***************************************************************************)
NewBucket ==
    [length |-> pagesize, used |-> META, endPtr |-> META, chunkUsed |-> 2,
     pending |-> <<>>, pages |-> [a \in {} |-> 0], index |-> <<>>]

Heads(n) == 2 + n * (2 + IDSIZE)

\* A page of small lists: for each its id and the offset of its last byte.
LinePage(lines) ==
    LET Offset(i) == Heads(Len(lines))
                     + SumFunction([j \in 1 .. i |-> Len(lines[j].body)]) - 1
    IN  [size |-> Len(lines),
         heads |-> [i \in DOMAIN lines |-> <<lines[i].id, Offset(i)>>],
         body |-> FlattenSeq([i \in DOMAIN lines |-> lines[i].body])]

LongPage(id, body) == [size |-> 0, id |-> id, len |-> Len(body), body |-> body]

\* The zeros of a page that was never written.
BlankPage == LongPage(0, <<>>)

insertEntries(f, id, page) ==
    [f EXCEPT !.index = Append(@, [x |-> id, y |-> f.endPtr - META]),
              !.pages = [a \in DOMAIN @ \cup {f.endPtr} |->
                            IF a = f.endPtr THEN page ELSE @[a]]]

\* The pending lists go to the page at endPtr; without any it stays blank
\* and the index does not name it.
SavePending(f) ==
    IF f.pending = <<>> THEN f
    ELSE [insertEntries(f, f.pending[1].id, LinePage(f.pending)) EXCEPT !.pending = <<>>]

resize(f) == [f EXCEPT !.length = @ + pagesize, !.endPtr = f.used]

CeilDiv(n, d) == IF n <= 0 THEN 0 ELSE (n + d - 1) \div d

\* The pages a long list needs beside what is left of this one.  The
\* difference is unsigned: where it would be negative it wraps, and the
\* quotient keeps nothing of that in its low 32 bits.
Longer(f, charLen) == CeilDiv(charLen + 10 - (f.length - f.used), pagesize)

Line(id, body) == [id |-> id, body |-> body]

InsertLong(f, xid, body) ==
    LET g == IF f.pending = <<>> THEN f ELSE [SavePending(f) EXCEPT !.used = f.length]
        r == Longer(g, Len(body))
        h == IF r = 0 THEN g
             ELSE [g EXCEPT !.length = @ + r * pagesize, !.endPtr = g.used]
        w == insertEntries(h, xid, LongPage(xid, body))
    IN  [resize([w EXCEPT !.used = w.length]) EXCEPT !.chunkUsed = 2]

\* A mutation: the descriptor in front of the first page is forgotten.
isPtrFullFresh(f, len) == len > pagesize

isPtrFull(f, len) == f.used + len > f.length

insertNewXY(f, xid, Yid) ==
    LET body == getBody(Yid)
        cell == 2 + IDSIZE + Len(body)
    IN  IF Len(body) + 20 >= pagesize THEN InsertLong(f, xid, body)
        ELSE IF ~ isPtrFull(f, 30 + f.chunkUsed + Len(body))
        THEN [f EXCEPT !.chunkUsed = @ + cell, !.pending = Append(@, Line(xid, body))]
        ELSE [resize([SavePending(f) EXCEPT !.used = f.length])
                EXCEPT !.chunkUsed = 2 + cell, !.pending = <<Line(xid, body)>>]

endNewInsert(f) == [SavePending(f) EXCEPT !.used = f.length]

\* insertTask: the lists of one bucket in the order of their vertices.
BuildBucket(lists) ==
    endNewInsert(FoldLeft(LAMBDA f, l : insertNewXY(f, l[1], l[2]), NewBucket, lists))

---------------------------------------------------------------------------
(***************************************************************************)
(* Reading one list.  getOffsetByID finds the page in the index, then the  *)
(* vertex in the page; an id before the first entry is answered with a     *)
(* code that getYByID takes for a length.                                  *)
(***************************************************************************)
searchChunk(index, id) ==
    LET n == Len(index)
        X(k) == index[k + 1].x
        search[low \in 0 .. n, high \in 0 .. n] ==
            LET mid == low + (high - low) \div 2
            IN  IF id > X(mid)
                THEN IF mid + 1 = high THEN mid ELSE search[mid + 1, high]
                ELSE IF mid = 0 \/ id > X(mid - 1) THEN mid
                ELSE IF mid = low THEN mid ELSE search[low, mid]
        mid == IF id >= X(n - 1) THEN n - 1 ELSE search[0, n - 1]
    IN  IF id < X(0) THEN -1
        ELSE IF X(mid) > id /\ mid > 0
        THEN Max({k \in 0 .. mid - 1 : k = 0 \/ X(k) <= id})
        ELSE Min({k \in mid .. n - 1 : k + 1 = n \/ X(k) >= id \/ X(k + 1) >= id})

\* The bytes of line i (from 1) of a page of small lists.
LineBody(page, i) ==
    LET from == IF i = 1 THEN Heads(page.size) ELSE page.heads[i - 1][2] + 1
        base == Heads(page.size)
    IN  SubSeq(page.body, from - base + 1, page.heads[i][2] + 1 - base)

\* The bisection over the lines of a page.
FindLine(page, id) ==
    LET find[low \in 0 .. page.size, high \in -1 .. page.size] ==
            LET mid == (low + high) \div 2
                value == page.heads[mid + 1][1]
            IN  IF low > high THEN 0
                ELSE IF value = id THEN mid + 1
                ELSE IF value < id THEN find[mid + 1, high] ELSE find[low, mid - 1]
    IN  find[0, page.size - 1]

getYByID(f, id) ==
    IF f.index = <<>> \/ searchChunk(f.index, id) = -1 THEN <<Astray>>
    ELSE LET page == f.pages[META + f.index[searchChunk(f.index, id) + 1].y]
         IN  IF page.size = 0
             THEN IF page.id = id THEN readBody(page.body) ELSE <<>>
             ELSE IF FindLine(page, id) = 0 THEN <<>>
             ELSE readBody(LineBody(page, FindLine(page, id)))

\* The bucket (from 0) of an id; start_ID has the first id of each bucket
\* and, behind them, the first id that no bucket has.
BucketOf(start_ID, xid) ==
    LET bucSize == Len(start_ID) - 1
        S(k) == start_ID[k + 1]
        find[begin \in 0 .. bucSize, end \in 0 .. bucSize] ==
            LET mid == (begin + end) \div 2
            IN  IF begin >= end THEN begin
                ELSE IF S(mid) = xid THEN mid
                ELSE IF S(mid) < xid THEN find[mid + 1, end] ELSE find[begin, mid]
        k == find[0, bucSize - 1]
    IN  IF S(k) > xid THEN k - 1 ELSE k

\* Matrixmap::getAllY; NOT_FOUND leaves the caller's buffer empty.
getAllY(matrix, start_ID, xid) ==
    IF xid >= start_ID[Len(start_ID)] \/ xid < start_ID[1] THEN <<>>
    ELSE getYByID(matrix[BucketOf(start_ID, xid)], xid)

---------------------------------------------------------------------------
(***************************************************************************)
(* Walking over the pages.  reader is where the walk reads, base where it  *)
(* believes the page to begin; they differ on the first page.              *)
(***************************************************************************)
PageAt(f, a) ==
    IF a \in DOMAIN f.pages THEN f.pages[a]
    ELSE IF \/ a % pagesize # 0 /\ a # META
            \/ \E p \in DOMAIN f.pages : /\ f.pages[p].size = 0
                                         /\ p < a /\ a < p + 10 + f.pages[p].len
    THEN [size |-> -1]
    ELSE BlankPage

Step(page) ==
    IF page.size = 0 THEN CeilDiv(page.len + 10, pagesize) * pagesize ELSE pagesize

Rows(page) ==
    IF page.size = 0 THEN <<<<page.id, readBody(page.body)>>>>
    ELSE [i \in 1 .. page.size |-> <<page.heads[i][1], readBody(LineBody(page, i))>>]

(***************************************************************************)
(* The rows a walk computes, in order.  The walks of pagerank and of the   *)
(* tasks end at a blank page (stops); the one of spmv takes it for vertex  *)
(* 0 and goes on.  A walk that has gone astray computes what it finds.     *)
(***************************************************************************)
WalkRows(f, reader, base, limit, stops) ==
    LET From(r, b, rest) ==
            LET page == PageAt(f, r)
            IN  IF r >= limit THEN <<>>
                ELSE IF page.size = -1 THEN <<<<Astray, <<>>>>>>
                ELSE IF page.size = 0 /\ page.id = 0
                THEN IF stops THEN <<>> ELSE rest[b + Step(page)]
                ELSE Rows(page) \o rest[b + Step(page)]
        walk[b \in Nat] == From(b, b, walk)
    IN  From(reader, base, walk)

\* AppExample::pagerank(index, itera) and spmv(preID, result): a whole bucket.
WalkBucket(f, stops) == WalkRows(f, META, 0, f.used, stops)

(***************************************************************************)
(* pagerank_task and spmv_task: at most maxRunChunk entries of the index   *)
(* from startNum on, and where the task that goes on has to begin.         *)
(***************************************************************************)
ChunkEnd(f, startNum, endNum) ==
    IF startNum + maxRunChunk >= Len(f.index) \/ startNum + maxRunChunk >= endNum
    THEN endNum ELSE startNum + maxRunChunk

ChunkLimit(f, startNum, endNum) ==
    IF startNum + maxRunChunk >= Len(f.index) THEN f.used
    ELSE META + f.index[ChunkEnd(f, startNum, endNum) + 1].y

\* A mutation: the first page is taken for one that begins where it is read.
WalkChunkPlain(f, startNum, endNum) ==
    LET reader == META + f.index[startNum + 1].y
    IN  WalkRows(f, reader, reader, ChunkLimit(f, startNum, endNum), TRUE)

WalkChunk(f, startNum, endNum) ==
    LET reader == META + f.index[startNum + 1].y
    IN  WalkRows(f, reader, IF startNum = 0 THEN reader - META ELSE reader,
                 ChunkLimit(f, startNum, endNum), TRUE)

---------------------------------------------------------------------------
(***************************************************************************)
(* Products (Matrix/OnePredicateOp.cpp).  A cache of a product's bucket is *)
(* a sequence of ids with their lists, the oldest first (CycleCache.h).    *)
(***************************************************************************)
CacheInsert(c, key, value) ==
    Append(IF Len(c) >= cacheSize THEN SubSeq(c, dropSize + 1, Len(c)) ELSE c, <<key, value>>)

\* Matrixmap::getAllY with a cache: an id no bucket has is not cached.
getAllYCached(matrix, start_ID, c, xid) ==
    LET hit == {k \in DOMAIN c : c[k][1] = xid}
        ys == getAllY(matrix, start_ID, xid)
    IN  IF hit # {} THEN [cache |-> c, ys |-> c[Min(hit)][2]]
        ELSE IF xid >= start_ID[Len(start_ID)] \/ xid < start_ID[1]
        THEN [cache |-> c, ys |-> <<>>]
        ELSE [cache |-> CacheInsert(c, xid, ys), ys |-> ys]

\* An id that is in both buffers is taken from the first one.
mergeSingleBuffer(buffer1, buffer2) ==
    LET merge[i \in 1 .. Len(buffer1) + 1, j \in 1 .. Len(buffer2) + 1] ==
            IF i > Len(buffer1) THEN SubSeq(buffer2, j, Len(buffer2))
            ELSE IF j > Len(buffer2) THEN SubSeq(buffer1, i, Len(buffer1))
            ELSE IF buffer2[j] < buffer1[i] THEN <<buffer2[j]>> \o merge[i, j + 1]
            ELSE IF buffer2[j] = buffer1[i] THEN merge[i, j + 1]
            ELSE <<buffer1[i]>> \o merge[i + 1, j]
    IN  merge[1, 1]

\* The union of the lists of a row's targets, from the last one to the first.
RowProduct(matrix, start_ID, c, targets) ==
    FoldLeft(LAMBDA acc, y :
        LET got == getAllYCached(matrix, start_ID, acc.cache, y)
        IN  [cache |-> got.cache,
             row |-> IF got.ys = <<>> THEN acc.row ELSE mergeSingleBuffer(got.ys, acc.row)],
        [cache |-> c, row |-> <<>>], Reverse(targets))

\* A long row does not use the cache, and its loop begins one behind the last
\* target: stray is what the buffer has there.
LongRowProduct(matrix, start_ID, stray, targets) ==
    FoldLeft(LAMBDA row, y :
        LET ys == getAllY(matrix, start_ID, y)
        IN  IF ys = <<>> THEN row ELSE mergeSingleBuffer(ys, row),
        <<>>, <<stray>> \o Reverse(targets))

LongRows(f) == {f.pages[a].id : a \in {p \in DOMAIN f.pages : f.pages[p].size = 0}}

(***************************************************************************)
(* matrixMultiply: the rows of one bucket f of the one factor, multiplied  *)
(* with the other factor, become the bucket of the product.                *)
(***************************************************************************)
MultiplyBucket(f, matrix, start_ID, strays) ==
    LET Insert(out, x, row) == IF row = <<>> THEN out ELSE insertNewXY(out, x, row)
        Multiply(acc, x, ys) ==
            IF x \in LongRows(f)
            THEN [acc EXCEPT !.out = Insert(@, x, LongRowProduct(matrix, start_ID, strays[x], ys))]
            ELSE LET got == RowProduct(matrix, start_ID, acc.cache, ys)
                 IN  [cache |-> got.cache, out |-> Insert(acc.out, x, got.row)]
    IN  endNewInsert(FoldLeft(LAMBDA acc, row : Multiply(acc, row[1], row[2]),
                              [cache |-> <<>>, out |-> NewBucket], WalkBucket(f, TRUE)).out)
===========================================================================
