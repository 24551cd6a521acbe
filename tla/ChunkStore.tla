---------------------------- MODULE ChunkStore ----------------------------
(***************************************************************************)
(* The store of triples (BitmapBuffer and ChunkManager,                    *)
(* TripleBit/BitmapBuffer.cpp).  For each side f (0: by subject, 1: by     *)
(* object) and predicate a manager keeps two areas: 1 for records whose    *)
(* key is not above the other id, 2 for the rest.  An area is written      *)
(* into pages taken one by one from a temporary file, which is mapped into *)
(* memory; when the file grows, the mapping may move, and every pointer    *)
(* into it has to be computed anew.  save copies the pages of each area    *)
(* together into one image; load finds the areas in it again.              *)
(*                                                                         *)
(* A store is a record: temp[f][a] is a temporary file, mgr[f] the         *)
(* managers by predicate.  A pointer is the mapping it points into (gen)   *)
(* and a position in it.                                                   *)
(***************************************************************************)
EXTENDS LineIndex

CONSTANTS InitPages,   \* pages of a new temporary file
          IncPages,    \* pages it grows by
          MetaSize     \* bytes of a ChunkManagerMeta, at the front of area 1

ASSUME StoreAssumption ==
    /\ InitPages \in Nat /\ IncPages \in Nat \ {0}
    /\ MetaSize \in Nat /\ MetaSize < PageSize

Sides == {0, 1}
Areas == {1, 2}

\* Bytes in front of the records of an area: its descriptor, in area 1.
Lead(a) == IF a = 1 THEN MetaSize ELSE 0

Zeros(n) == [i \in 1 .. n |-> 0]

Empty ==
    [temp |-> [f \in Sides |-> [a \in Areas |->
                  [gen |-> 0, used |-> 0, bytes |-> Zeros(InitPages * PageSize)]]],
     mgr  |-> [f \in Sides |-> <<>>]]

length(m, a) == Len(m.page[a]) * PageSize

\* The end of an area as getPage computes it for a file that was mapped anew.
EndPtr(t, m, a) ==
    [gen |-> t.gen,
     pos |-> Last(m.page[a]) * PageSize + PageSize
             - (length(m, a) - m.used[a] - Lead(a))]

(***************************************************************************)
(* getPage: the next page of a temporary file, and the end pointers (and,  *)
(* for area 1, where the descriptors are) of every manager of the side     *)
(* when the file had to grow.                                              *)
(***************************************************************************)
getPage(b, f, a, moved) ==
    LET old  == b.temp[f][a]
        full == old.used * PageSize >= Len(old.bytes)
        new  == IF ~ full THEN old
                ELSE [old EXCEPT !.gen = IF moved THEN @ + 1 ELSE @,
                                 !.bytes = @ \o Zeros(IncPages * PageSize)]
        Repoint(m) == [m EXCEPT !.end[a] = EndPtr(new, m, a),
                                !.meta = IF a = 1 THEN new.gen ELSE @]
    IN  [page |-> old.used,
         ptr  |-> [gen |-> new.gen, pos |-> old.used * PageSize],
         b    |-> [b EXCEPT !.temp[f][a] = [new EXCEPT !.used = @ + 1],
                            !.mgr[f] = IF full THEN [p \in DOMAIN @ |-> Repoint(@[p])]
                                       ELSE @]]

\* The manager of a predicate, made on first use with a page for each area.
getChunkManager(b, f, p, moved) ==
    LET one == getPage(b, f, 1, moved)
        two == getPage(one.b, f, 2, moved)
        new == [page  |-> <<<<one.page>>, <<two.page>>>>,
                used  |-> <<0, 0>>,
                count |-> <<0, 0>>,
                end   |-> <<[one.ptr EXCEPT !.pos = @ + MetaSize], two.ptr>>,
                meta  |-> one.ptr.gen]
    IN  IF p \in DOMAIN b.mgr[f] THEN b
        ELSE [two.b EXCEPT !.mgr[f] = (p :> new) @@ @]

\* memcpy through a pointer; through one into an old mapping it is lost.
Written(t, ptr, s) ==
    IF ptr.gen # t.gen THEN t
    ELSE [t EXCEPT !.bytes =
            [i \in DOMAIN @ |-> IF i - ptr.pos \in DOMAIN s THEN s[i - ptr.pos]
                                ELSE @[i]]]

isPtrFull(m, a, len) == m.used[a] + len + Lead(a) >= length(m, a)

(***************************************************************************)
(* ChunkManager::insertXY: a record that does not leave a byte free in the *)
(* last page is written in two parts, the second into a new page.          *)
(***************************************************************************)
insertXY(b, f, p, a, rec, moved) ==
    LET m    == b.mgr[f][p]
        room == length(m, a) - m.used[a] - Lead(a)
        b1   == [b EXCEPT !.temp[f][a] = Written(@, m.end[a], SubSeq(rec, 1, room))]
        pg   == getPage(b1, f, a, moved)
        b2   == IF ~ isPtrFull(m, a, Len(rec)) THEN b
                ELSE [pg.b EXCEPT !.mgr[f][p].page[a] = Append(@, pg.page),
                                  !.mgr[f][p].end[a] = pg.ptr]
        rest == IF isPtrFull(m, a, Len(rec)) THEN SubSeq(rec, room + 1, Len(rec))
                ELSE rec
    IN  [b2 EXCEPT !.temp[f][a] = Written(@, b2.mgr[f][p].end[a], rest),
                   !.mgr[f][p].end[a].pos = @ + Len(rest),
                   !.mgr[f][p].used[a] = @ + Len(rec),
                   !.mgr[f][p].count[a] = @ + 1]

\* BitmapBuffer::insertTriple: bigger tells that the key is the larger id.
insertTriple(b, f, p, x, y, bigger, moved) ==
    insertXY(getChunkManager(b, f, p, moved), f, p, IF bigger THEN 2 ELSE 1,
             RecordBytes(x, y), moved)

-----------------------------------------------------------------------------
Ascending(S) == SetToSortSeq(S, <)

\* The pages of an area, one after the other.
PagesOf(b, f, p, a) ==
    FlattenSeq([i \in DOMAIN b.mgr[f][p].page[a] |->
        LET from == b.mgr[f][p].page[a][i] * PageSize
        IN  SubSeq(b.temp[f][a].bytes, from + 1, from + PageSize)])

\* What the descriptor at the front of area 1 says.
MetaOf(b, f, p) ==
    LET m == b.mgr[f][p]
    IN  [pid |-> p, type |-> f, used |-> m.used, count |-> m.count,
         length |-> [a \in Areas |-> length(m, a)]]

\* Mutant: area 2 is taken to follow the bytes used of area 1, not its pages.
AreaAtUsed(image, off, meta, a) ==
    LET start == off + MetaSize + IF a = 1 THEN 0 ELSE meta.used[1]
    IN  SubSeq(image, start + 1, start + meta.used[a])

(***************************************************************************)
(* The two areas a descriptor at an offset of the image stands for         *)
(* (startPtr and endPtr, as save and ChunkManager::load set them).         *)
(***************************************************************************)
AreaAt(image, off, meta, a) ==
    LET start == IF a = 1 THEN off + MetaSize ELSE off + meta.length[1]
    IN  SubSeq(image, start + 1, start + meta.used[a])

\* The indexes of all managers (LineHashIndex::save), and one of them (load).
SavedIndexes(disk, stray) ==
    LET Index(e, a) == buildIndex(AreaAt(disk.image, e.off, disk.meta[e.off], a),
                                  a, stray)
    IN  FlattenSeq([i \in DOMAIN disk.directory |->
            <<Index(disk.directory[i], 1), Index(disk.directory[i], 2)>>])

LoadedIndex(disk, i, a) == disk.index[2 * (i - 1) + a]

(***************************************************************************)
(* save: the areas of side 0, then those of side 1, by predicate; the      *)
(* directory notes where each begins.  Then the indexes, in the order of   *)
(* the directory, each written behind the one before.                      *)
(***************************************************************************)
save(b, stray) ==
    LET Copy(acc, fp) ==
            [image |-> acc.image \o PagesOf(b, fp[1], fp[2], 1)
                                 \o PagesOf(b, fp[1], fp[2], 2),
             meta  |-> (Len(acc.image) :> MetaOf(b, fp[1], fp[2])) @@ acc.meta,
             directory |-> Append(acc.directory,
                                  [id |-> fp[2], off |-> Len(acc.image)])]
        On(f)  == [i \in DOMAIN Ascending(DOMAIN b.mgr[f]) |->
                      <<f, Ascending(DOMAIN b.mgr[f])[i]>>]
        disk   == FoldLeft(Copy, [image |-> <<>>, meta |-> <<>>, directory |-> <<>>],
                           On(0) \o On(1))
    IN  [image |-> disk.image, meta |-> disk.meta, directory |-> disk.directory,
         index |-> SavedIndexes(disk, stray)]

(***************************************************************************)
(* load: the directory holds the predicates of side 0 and then those of    *)
(* side 1.  The areas of side 0 are found by adding up lengths, those of   *)
(* side 1 by the directory; the indexes are taken in turn.  A manager is   *)
(* loaded only where the descriptor is its own.                            *)
(***************************************************************************)
load(disk) ==
    LET n == Len(disk.directory) \div 2
        Add(off, i) == LET k == disk.meta[off] IN off + k.length[1] + k.length[2]
        offsets == [i \in 1 .. 2 * n |->
                       IF i <= n THEN FoldLeft(Add, 0, [j \in 1 .. i - 1 |-> j])
                       ELSE disk.directory[i].off]
        At(f, p) == CHOOSE i \in 1 .. 2 * n :
                        disk.directory[i].id = p /\ (i > n) = (f = 1)
        Manager(f, p) ==
            LET i   == At(f, p)
                off == offsets[i]
                own == /\ disk.meta[off].pid = p
                       /\ disk.meta[off].type = f
            IN  [own   |-> own,
                 count |-> disk.meta[off].count,
                 area  |-> [a \in Areas |->
                              AreaAt(disk.image, off, disk.meta[off], a)],
                 index |-> [a \in Areas |-> LoadedIndex(disk, i, a)]]
    IN  [f \in Sides |-> [p \in {disk.directory[i].id : i \in 1 .. n} |-> Manager(f, p)]]
===========================================================================
