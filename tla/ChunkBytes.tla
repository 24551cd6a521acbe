---------------------------- MODULE ChunkBytes ----------------------------
(***************************************************************************)
(* The bytes of an area of a ChunkManager (TripleBit/BitmapBuffer.cpp).    *)
(* An area is a run of records; a record is a pair x, y, each written as   *)
(* digits to the base Base (128 in the code), low digit first, the digits  *)
(* of y marked by their high bit.  Nothing but that bit separates one      *)
(* number from the next, and a reader walks over it in both directions.    *)
(* Behind the last record the page holds zeros; what lies before the first *)
(* one belongs to something else.                                          *)
(***************************************************************************)
EXTENDS Integers, Sequences, FiniteSetsExt

CONSTANTS Base     \* digits per byte: 128 in the code
ASSUME BaseAssumption == Base \in Nat \ {0, 1}

\* Where a backward walk that has left the area ends.
Before == -1

Digits(n) ==
    LET d[k \in 0 .. n] ==
            IF k < Base THEN <<k>> ELSE <<k % Base>> \o d[k \div Base]
    IN  d[n]

RecordBytes(x, y) ==
    LET hi == Digits(y)
    IN  Digits(x) \o [i \in 1 .. Len(hi) |-> hi[i] + Base]

\* Positions count from 0, as offsets do in the code.
ByteAt(a, p) == IF p < Len(a) THEN a[p + 1] ELSE 0

MarkedY(a, p) == ByteAt(a, p) >= Base

\* The first position from p on that does (or does not) hold a digit of y.
SkipX(a, p) == Min({q \in p .. Len(a) : q = Len(a) \/ MarkedY(a, q)})

SkipY(a, p) == Min({q \in p .. Len(a) : ~ MarkedY(a, q)})

ReadId(a, p, end) ==
    LET v[q \in p .. end] ==
            IF q = end THEN 0 ELSE (ByteAt(a, q) % Base) + Base * v[q + 1]
    IN  v[p]

XAt(a, p) == ReadId(a, p, SkipX(a, p))

YAt(a, p) == ReadId(a, SkipX(a, p), SkipY(a, SkipX(a, p)))

(***************************************************************************)
(* skipBackward: over zeros, then over a y, then over an x, to the byte    *)
(* after the y before.  A first digit of x that is zero counts as one of   *)
(* the zeros, and the first record has no y before it.                     *)
(***************************************************************************)
skipBackward(a, p) ==
    LET q1 == Max({q \in 0 .. p : ByteAt(a, q) # 0} \cup {Before})
        q2 == Max({q \in 0 .. q1 : ~ MarkedY(a, q)} \cup {Before})
        q3 == Max({q \in 0 .. q2 : MarkedY(a, q)} \cup {Before})
    IN  IF q3 = Before THEN Before ELSE q3 + 1

(***************************************************************************)
(* The record at p.  Before the first byte are bytes of something else     *)
(* (the descriptor's pointers, the area before), the last of them without  *)
(* the mark; a read that starts there takes them for low digits of the     *)
(* first record's x.  stray is what such a read makes of that x.           *)
(***************************************************************************)
RowAt(a, p, stray) ==
    IF p = Before THEN [x |-> stray, y |-> YAt(a, 0)]
    ELSE [x |-> XAt(a, p), y |-> YAt(a, p)]

NextRow(a, p) == LET q == IF p = Before THEN 0 ELSE p IN SkipY(a, SkipX(a, q))

\* The records from position p on, as a forward scan reads them.
RowsFrom(a, p, stray) ==
    LET r[q \in Before .. Len(a)] ==
            IF q >= Len(a) THEN <<>>
            ELSE <<RowAt(a, q, stray)>> \o r[NextRow(a, q)]
    IN  r[p]
===========================================================================
