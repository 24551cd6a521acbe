-------------------------- MODULE AdjFile_proofs --------------------------
(***************************************************************************)
(* Proofs about AdjFile, for any number of vertices, any edge file and any *)
(* limit.  The inductive invariant says where the writer is in the sorted  *)
(* edges (Place), how the files are laid out (Layout, Open), that an       *)
(* indexed vertex has its whole record inside a file (Stored), and that    *)
(* exactly the vertices below Upto are indexed (Frontier).                 *)
(***************************************************************************)
EXTENDS AdjFile, SequenceTheorems, FiniteSetTheorems, TLAPS

\* The vertices below are written.
Upto == IF pc = "done" THEN maxID + 1 ELSE IF pc = "read" THEN lastfrom ELSE i

Sorted ==
    /\ edges \in Edges
    /\ input # <<>>
    /\ \A a, b \in DOMAIN input : a < b => input[a][1] <= input[b][1]

Place ==
    /\ pc = "lead" => i <= lastfrom /\ pos = 0
    /\ pc \in {"lead", "read"} /\ pos = 0 => lastfrom = input[1][1]
    /\ pc = "read" /\ pos > 0 => lastfrom = input[pos][1]
    /\ pc = "gap" => pos < Len(input) /\ i <= Edge[1]
    /\ pc = "done" => dir = "reverse"

FileOK(words, id) ==
    /\ Len(words) >= 2
    /\ words[1] = id
    /\ IDSize * Len(words) < Limit \/ Len(words) = 2 + words[2]

Layout ==
    \A d \in Dir :
        /\ Len(start_ID[d]) = Len(files[d])
        /\ \A n \in DOMAIN files[d] : FileOK(files[d][n], start_ID[d][n])
        /\ start_ID[d] # <<>> => start_ID[d][1] = 0

Open ==
    files[dir] # <<>> => fileOff = IDSize * Len(files[dir][Len(files[dir])])

Indexed(d, v) == index[d][v][1] # 0

\* A record that lies in words and begins at place at.
RecordIn(words, at, v) ==
    /\ at \in Nat
    /\ at + 2 <= Len(words)
    /\ words[at + 1] = v
    /\ at + 2 + words[at + 2] <= Len(words)

\* The words of a record that lies in words and begins at place at.
RecordAt(words, at, record) ==
    /\ at \in Nat
    /\ at + Len(record) <= Len(words)
    /\ \A n \in 1 .. Len(record) : words[at + n] = record[n]

Holds(d, v) ==
    /\ index[d][v][2] \in DOMAIN files[d]
    /\ RecordIn(Words(d, v), At(d, v), v)

Stored == \A d \in Dir, v \in Vertex : Indexed(d, v) => Holds(d, v)

Frontier ==
    /\ \A v \in Vertex : Indexed(dir, v) <=> v < Upto
    /\ files[dir] = <<>> => Upto = 0
    /\ dir = "forward" => /\ files["reverse"] = <<>>
                          /\ \A v \in Vertex : ~Indexed("reverse", v)
    /\ dir = "reverse" => \A v \in Vertex : Indexed("forward", v)

IInv == TypeOK /\ Sorted /\ Place /\ Layout /\ Open /\ Stored /\ Frontier

---------------------------------------------------------------------------
(***************************************************************************)
(* A record is the id, the count and the list.                             *)
(***************************************************************************)
LEMMA RecordShape ==
    ASSUME NEW id \in Vertex, NEW list \in Seq(Vertex), AdjFileAssumption
    PROVE  /\ <<id, Len(list)>> \o list \in Seq(Nat)
           /\ Len(<<id, Len(list)>> \o list) = 2 + Len(list)
           /\ (<<id, Len(list)>> \o list)[1] = id
           /\ (<<id, Len(list)>> \o list)[2] = Len(list)
<1>1. Vertex \subseteq Nat
  BY DEF Vertex
<1>4. list \in Seq(Nat)
  BY <1>1, SeqMonotonic, Zenon
<1>2. list \in Seq(Nat) /\ Len(list) \in Nat /\ id \in Nat
  BY <1>1, <1>4
<1>3. <<id, Len(list)>> \in Seq(Nat) /\ Len(<<id, Len(list)>>) = 2
  BY <1>2
<1> QED
  BY <1>2, <1>3

\* The words of a file to which more words are appended.
LEMMA Appended ==
    ASSUME NEW words \in Seq(Nat), NEW more \in Seq(Nat)
    PROVE  /\ words \o more \in Seq(Nat)
           /\ Len(words \o more) = Len(words) + Len(more)
           /\ \A n \in 1 .. Len(words) : (words \o more)[n] = words[n]
           /\ \A n \in 1 .. Len(more) :
                 (words \o more)[Len(words) + n] = more[n]
OBVIOUS

(***************************************************************************)
(* A record stays where it is, and reads the same, when words are appended *)
(* to its file.                                                            *)
(***************************************************************************)
LEMMA RecordStays ==
    ASSUME NEW words \in Seq(Nat), NEW more \in Seq(Nat), NEW at, NEW v,
           RecordIn(words, at, v)
    PROVE  /\ RecordIn(words \o more, at, v)
           /\ (words \o more)[at + 1] = words[at + 1]
           /\ SubSeq(words \o more, at + 3, at + 2 + (words \o more)[at + 2])
                = SubSeq(words, at + 3, at + 2 + words[at + 2])
<1> DEFINE both == words \o more
<1>1. /\ at \in Nat /\ at + 2 <= Len(words) /\ words[at + 1] = v
      /\ at + 2 + words[at + 2] <= Len(words)
  BY DEF RecordIn
<1>2. /\ both \in Seq(Nat) /\ Len(both) = Len(words) + Len(more)
      /\ \A n \in 1 .. Len(words) : both[n] = words[n]
  OBVIOUS
<1>3. Len(words) \in Nat /\ Len(more) \in Nat /\ words[at + 2] \in Nat
  BY <1>1
<1>4. both[at + 1] = words[at + 1] /\ both[at + 2] = words[at + 2]
  BY <1>1, <1>2, <1>3
<1>5. RecordIn(both, at, v)
  BY <1>1, <1>2, <1>3, <1>4 DEF RecordIn
<1>6. SubSeq(both, at + 3, at + 2 + words[at + 2])
        = SubSeq(words, at + 3, at + 2 + words[at + 2])
  <2> DEFINE m == at + 3
             n == at + 2 + words[at + 2]
  <2>1. m \in Nat /\ n \in Nat /\ m >= 1 /\ n <= Len(words)
    BY <1>1, <1>3
  <2> HIDE DEF m, n
  <2>2. \A p \in m .. n : both[p] = words[p]
    BY <1>2, <1>3, <2>1
  <2>3. SubSeq(both, m, n) = SubSeq(words, m, n)
    BY <1>2, <1>3, <2>1, <2>2
  <2> QED
    BY <2>3 DEF m, n
<1> QED
  BY <1>4, <1>5, <1>6

---------------------------------------------------------------------------
(***************************************************************************)
(* What Write changes: files only grow at their ends, one index entry is   *)
(* set, and the record it points to is there.                              *)
(***************************************************************************)
WriteEffect(id, record) ==
    /\ files' \in [Dir -> Seq(File)] /\ fileOff' \in Nat
    /\ index' \in [Dir -> [Vertex -> Nat \X Nat]]
    /\ start_ID' \in [Dir -> Seq(Vertex)]
    /\ \A d \in Dir \ {dir} : files'[d] = files[d] /\ start_ID'[d] = start_ID[d]
    /\ \A d \in Dir : \A n \in DOMAIN files[d] :
          /\ n \in DOMAIN files'[d]
          /\ files'[d][n] = files[d][n] \/ files'[d][n] = files[d][n] \o record
    /\ \A d \in Dir, v \in Vertex :
          ~(d = dir /\ v = id) => index'[d][v] = index[d][v]
    /\ \A d \in Dir : start_ID[d] # <<>> =>
          start_ID'[d] # <<>> /\ start_ID'[d][1] = start_ID[d][1]
    /\ index'[dir][id][1] # 0
    /\ index'[dir][id][2] \in DOMAIN files'[dir]
    /\ RecordIn(files'[dir][index'[dir][id][2]],
                Decoded(index'[dir][id][1]) \div IDSize, id)
    /\ RecordAt(files'[dir][index'[dir][id][2]],
                Decoded(index'[dir][id][1]) \div IDSize, record)
    /\ files'[dir] # <<>>
    /\ fileOff' = IDSize * Len(files'[dir][Len(files'[dir])])
    /\ Len(start_ID'[dir]) = Len(files'[dir])
    /\ \A n \in DOMAIN files'[dir] : FileOK(files'[dir][n], start_ID'[dir][n])
    /\ start_ID'[dir][1] = 0

LEMMA WriteIntoFile ==
    ASSUME AdjFileAssumption, TypeOK, Layout, Open,
           NEW id \in Vertex, NEW list \in Seq(Vertex), Write(id, list),
           Fits(IDSize * Len(<<id, Len(list)>> \o list))
    PROVE  WriteEffect(id, <<id, Len(list)>> \o list)
<1> DEFINE record == <<id, Len(list)>> \o list
           last == Len(files[dir])
           words == files[dir][last]
<1>0. /\ dir \in Dir /\ files \in [Dir -> Seq(Seq(Nat))]
      /\ fileOff \in Nat /\ index \in [Dir -> [Vertex -> Nat \X Nat]]
      /\ start_ID \in [Dir -> Seq(Vertex)]
  BY DEF TypeOK, File
<1>1. /\ record \in Seq(Nat) /\ Len(record) = 2 + Len(list)
      /\ record[1] = id /\ record[2] = Len(list) /\ Len(list) \in Nat
  BY RecordShape
<1>2. /\ files' = [files EXCEPT ![dir][last] = @ \o record]
      /\ index' = [index EXCEPT ![dir][id] = <<fileOff, last>>]
      /\ fileOff' = fileOff + IDSize * Len(record)
      /\ start_ID' = start_ID
      /\ files[dir] # <<>>
      /\ fileOff + IDSize * Len(record) < Limit
  BY DEF Write, Fits
<1> HIDE DEF record
<1>3. /\ files[dir] \in Seq(Seq(Nat)) /\ last \in Nat /\ last >= 1
      /\ last \in DOMAIN files[dir] /\ words \in Seq(Nat) /\ Len(words) \in Nat
  BY <1>0, <1>2
<1>4. /\ Len(start_ID[dir]) = last /\ FileOK(words, start_ID[dir][last])
      /\ fileOff = 4 * Len(words)
      /\ start_ID[dir] # <<>> => start_ID[dir][1] = 0
      /\ \A n \in DOMAIN files[dir] : FileOK(files[dir][n], start_ID[dir][n])
  BY <1>0, <1>2, <1>3 DEF Layout, Open, IDSize
<1>5. /\ words \o record \in Seq(Nat)
      /\ Len(words \o record) = Len(words) + Len(record)
      /\ \A n \in 1 .. Len(words) : (words \o record)[n] = words[n]
      /\ \A n \in 1 .. Len(record) : (words \o record)[Len(words) + n] = record[n]
  BY <1>1, <1>3, Appended
<1> HIDE DEF words
<1>6. /\ files'[dir] = [files[dir] EXCEPT ![last] = words \o record]
      /\ \A d \in Dir \ {dir} : files'[d] = files[d]
      /\ files' \in [Dir -> Seq(Seq(Nat))]
  <2>1. files' = [files EXCEPT ![dir] = [files[dir] EXCEPT ![last] = words \o record]]
    BY <1>2 DEF words
  <2>2. [files[dir] EXCEPT ![last] = words \o record] \in Seq(Seq(Nat))
    BY <1>3, <1>5, ExceptSeq
  <2> HIDE DEF last
  <2> QED
    BY <1>0, <2>1, <2>2
<1>7. /\ Len(files'[dir]) = last /\ DOMAIN files'[dir] = DOMAIN files[dir]
      /\ files'[dir][last] = words \o record
      /\ \A n \in DOMAIN files[dir] : n # last => files'[dir][n] = files[dir][n]
  BY <1>3, <1>5, <1>6, ExceptSeq
<1>8. /\ index'[dir][id] = <<fileOff, last>>
      /\ \A d \in Dir, v \in Vertex :
            ~(d = dir /\ v = id) => index'[d][v] = index[d][v]
      /\ index' \in [Dir -> [Vertex -> Nat \X Nat]]
  BY <1>0, <1>2, <1>3
<1>9. /\ RecordIn(words \o record, Decoded(fileOff) \div IDSize, id)
      /\ RecordAt(words \o record, Decoded(fileOff) \div IDSize, record)
  <2>1. Decoded(fileOff) \div IDSize = Len(words)
    <3>1. Decoded(4 * Len(words)) = 4 * Len(words)
      BY <1>3 DEF Decoded
    <3>2. (4 * Len(words)) \div 4 = Len(words)
      BY <1>3
    <3> QED
      BY <1>4, <3>1, <3>2 DEF IDSize
  <2>2. (words \o record)[Len(words) + 1] = id
        /\ (words \o record)[Len(words) + 2] = Len(list)
    BY <1>1, <1>3, <1>5
  <2>3. RecordIn(words \o record, Len(words), id)
    BY <1>1, <1>3, <1>5, <2>2 DEF RecordIn
  <2>4. RecordAt(words \o record, Len(words), record)
    BY <1>1, <1>3, <1>5 DEF RecordAt
  <2> QED
    BY <2>1, <2>3, <2>4
<1>10. \A n \in DOMAIN files'[dir] : FileOK(files'[dir][n], start_ID'[dir][n])
  <2> SUFFICES ASSUME NEW n \in DOMAIN files[dir]
               PROVE  FileOK(files'[dir][n], start_ID[dir][n])
    BY <1>2, <1>7
  <2>1. CASE n = last
    <3>1. IDSize * Len(words \o record) < Limit
      BY <1>1, <1>2, <1>3, <1>4, <1>5 DEF IDSize
    <3>3. Len(words) >= 2
      BY <1>4 DEF FileOK
    <3>2. Len(words \o record) >= 2 /\ (words \o record)[1] = words[1]
      BY <1>1, <1>3, <1>5, <3>3
    <3> QED
      BY <1>4, <1>7, <2>1, <3>1, <3>2 DEF FileOK
  <2>2. CASE n # last
    BY <1>4, <1>7, <2>2
  <2> QED
    BY <2>1, <2>2
<1>11. /\ index'[dir][id][1] # 0
       /\ index'[dir][id][2] \in DOMAIN files'[dir]
       /\ RecordIn(files'[dir][index'[dir][id][2]],
                Decoded(index'[dir][id][1]) \div IDSize, id)
       /\ RecordAt(files'[dir][index'[dir][id][2]],
                Decoded(index'[dir][id][1]) \div IDSize, record)
  <2>1. fileOff # 0
    BY <1>3, <1>4 DEF FileOK
  <2>2. index'[dir][id][1] = fileOff /\ index'[dir][id][2] = last
    BY <1>8
  <2>3. files'[dir][last] = words \o record /\ last \in DOMAIN files'[dir]
    BY <1>3, <1>7
  <2> QED
    BY <1>9, <2>1, <2>2, <2>3
<1>12. /\ files'[dir] # <<>> /\ fileOff' \in Nat
       /\ fileOff' = IDSize * Len(files'[dir][Len(files'[dir])])
  <2>1. files'[dir][Len(files'[dir])] = words \o record
    BY <1>7
  <2>2. fileOff' = 4 * Len(words) + 4 * Len(record)
    BY <1>2, <1>4 DEF IDSize
  <2>3. IDSize * Len(words \o record) = 4 * Len(words) + 4 * Len(record)
    BY <1>1, <1>3, <1>5 DEF IDSize
  <2>4. files'[dir] # <<>>
    BY <1>3, <1>7
  <2>5. fileOff' \in Nat
    BY <1>1, <1>3, <2>2
  <2> QED
    BY <2>1, <2>2, <2>3, <2>4, <2>5
<1>13. start_ID[dir] # <<>> /\ start_ID'[dir][1] = 0
       /\ Len(start_ID'[dir]) = Len(files'[dir])
  BY <1>0, <1>2, <1>3, <1>4, <1>7
<1>14. \A d \in Dir : \A n \in DOMAIN files[d] :
          /\ n \in DOMAIN files'[d]
          /\ files'[d][n] = files[d][n] \/ files'[d][n] = files[d][n] \o record
  BY <1>6, <1>7 DEF words
<1> QED
  BY <1>0, <1>2, <1>6, <1>8, <1>10, <1>11, <1>12, <1>13, <1>14
  DEF WriteEffect, File, record

LEMMA WriteNewFile ==
    ASSUME AdjFileAssumption, TypeOK, Layout,
           NEW id \in Vertex, NEW list \in Seq(Vertex), Write(id, list),
           ~Fits(IDSize * Len(<<id, Len(list)>> \o list)),
           files[dir] = <<>> => id = 0
    PROVE  WriteEffect(id, <<id, Len(list)>> \o list)
<1> DEFINE record == <<id, Len(list)>> \o list
           new == Len(files[dir]) + 1
<1>0. /\ dir \in Dir /\ files \in [Dir -> Seq(Seq(Nat))]
      /\ fileOff \in Nat /\ index \in [Dir -> [Vertex -> Nat \X Nat]]
      /\ start_ID \in [Dir -> Seq(Vertex)]
  BY DEF TypeOK, File
<1>1. /\ record \in Seq(Nat) /\ Len(record) = 2 + Len(list)
      /\ record[1] = id /\ record[2] = Len(list) /\ Len(list) \in Nat
  BY RecordShape
<1>2. /\ files' = [files EXCEPT ![dir] = Append(@, record)]
      /\ index' = [index EXCEPT ![dir][id] = <<1, new>>]
      /\ fileOff' = IDSize * Len(record)
      /\ start_ID' = [start_ID EXCEPT ![dir] = Append(@, id)]
  BY DEF Write, StartOffset
<1> HIDE DEF record
<1>3. /\ files[dir] \in Seq(Seq(Nat)) /\ start_ID[dir] \in Seq(Vertex)
      /\ new \in Nat /\ new >= 1 /\ DOMAIN files[dir] = 1 .. new - 1
  BY <1>0
<1>4. /\ Len(start_ID[dir]) = new - 1
      /\ start_ID[dir] # <<>> => start_ID[dir][1] = 0
      /\ \A n \in DOMAIN files[dir] : FileOK(files[dir][n], start_ID[dir][n])
  BY <1>0, <1>3 DEF Layout
<1>5. /\ files' \in [Dir -> Seq(Seq(Nat))]
      /\ \A d \in Dir \ {dir} : files'[d] = files[d]
      /\ Len(files'[dir]) = new /\ DOMAIN files'[dir] = 1 .. new
      /\ files'[dir][new] = record
      /\ \A n \in 1 .. new - 1 : files'[dir][n] = files[dir][n]
  <2>1. files' = [files EXCEPT ![dir] = Append(files[dir], record)]
    BY <1>2
  <2>2. /\ Append(files[dir], record) \in Seq(Seq(Nat))
        /\ Len(Append(files[dir], record)) = new
        /\ Append(files[dir], record)[new] = record
        /\ \A n \in 1 .. new - 1 :
              Append(files[dir], record)[n] = files[dir][n]
    BY <1>1, <1>3
  <2> HIDE DEF new
  <2> QED
    BY <1>0, <2>1, <2>2
<1>6. /\ start_ID' \in [Dir -> Seq(Vertex)]
      /\ \A d \in Dir \ {dir} : start_ID'[d] = start_ID[d]
      /\ Len(start_ID'[dir]) = new /\ start_ID'[dir][new] = id
      /\ \A n \in 1 .. new - 1 : start_ID'[dir][n] = start_ID[dir][n]
  <2>1. start_ID' = [start_ID EXCEPT ![dir] = Append(start_ID[dir], id)]
    BY <1>2
  <2>2. /\ Append(start_ID[dir], id) \in Seq(Vertex)
        /\ Len(Append(start_ID[dir], id)) = new
        /\ Append(start_ID[dir], id)[new] = id
        /\ \A n \in 1 .. new - 1 :
              Append(start_ID[dir], id)[n] = start_ID[dir][n]
    BY <1>3, <1>4
  <2> HIDE DEF new
  <2> QED
    BY <1>0, <2>1, <2>2
<1> HIDE DEF new
<1>7. /\ index'[dir][id] = <<1, new>>
      /\ \A d \in Dir, v \in Vertex :
            ~(d = dir /\ v = id) => index'[d][v] = index[d][v]
      /\ index' \in [Dir -> [Vertex -> Nat \X Nat]]
  BY <1>0, <1>2, <1>3
<1>8. /\ RecordIn(record, Decoded(1) \div IDSize, id)
      /\ RecordAt(record, Decoded(1) \div IDSize, record)
  <2>1. Decoded(1) \div IDSize = 0
    BY DEF Decoded, IDSize
  <2>2. RecordIn(record, 0, id)
    BY <1>1 DEF RecordIn
  <2>3. RecordAt(record, 0, record)
    BY <1>1 DEF RecordAt
  <2> QED
    BY <2>1, <2>2, <2>3
<1>9. /\ index'[dir][id][1] # 0
      /\ index'[dir][id][2] \in DOMAIN files'[dir]
      /\ RecordIn(files'[dir][index'[dir][id][2]],
               Decoded(index'[dir][id][1]) \div IDSize, id)
      /\ RecordAt(files'[dir][index'[dir][id][2]],
               Decoded(index'[dir][id][1]) \div IDSize, record)
  <2>1. index'[dir][id][1] = 1 /\ index'[dir][id][2] = new
    BY <1>7
  <2> QED
    BY <1>3, <1>5, <1>8, <2>1
<1>10. \A n \in DOMAIN files'[dir] : FileOK(files'[dir][n], start_ID'[dir][n])
  <2> SUFFICES ASSUME NEW n \in 1 .. new
               PROVE  FileOK(files'[dir][n], start_ID'[dir][n])
    BY <1>5
  <2>1. CASE n = new
    BY <1>1, <1>5, <1>6, <2>1 DEF FileOK
  <2>2. CASE n # new
    <3>1. n \in 1 .. new - 1
      BY <1>3, <2>2
    <3> QED
      BY <1>3, <1>4, <1>5, <1>6, <3>1
  <2> QED
    BY <2>1, <2>2
<1>11. start_ID'[dir][1] = 0
  <2>1. CASE files[dir] = <<>>
    <3>1. new = 1 /\ id = 0
      BY <2>1 DEF new
    <3> QED
      BY <1>6, <3>1
  <2>2. CASE files[dir] # <<>>
    <3>1. 1 \in 1 .. new - 1 /\ start_ID[dir] # <<>>
      BY <1>3, <1>4, <2>2 DEF new
    <3> QED
      BY <1>4, <1>6, <3>1
  <2> QED
    BY <2>1, <2>2
<1>12. /\ files'[dir] # <<>> /\ fileOff' \in Nat
       /\ fileOff' = IDSize * Len(files'[dir][Len(files'[dir])])
  <2>1. files'[dir][Len(files'[dir])] = record /\ files'[dir] # <<>>
    BY <1>3, <1>5
  <2>2. fileOff' \in Nat
    BY <1>1, <1>2 DEF IDSize
  <2> QED
    BY <1>2, <2>1, <2>2
<1>13. \A d \in Dir : start_ID[d] # <<>> =>
          start_ID'[d] # <<>> /\ start_ID'[d][1] = start_ID[d][1]
  <2> SUFFICES ASSUME start_ID[dir] # <<>>
               PROVE  start_ID'[dir] # <<>> /\ start_ID'[dir][1] = start_ID[dir][1]
    BY <1>6
  <2>1. start_ID'[dir] # <<>>
    BY <1>0, <1>3, <1>6
  <2> QED
    BY <1>4, <1>11, <2>1
<1>14. \A d \in Dir : \A n \in DOMAIN files[d] :
          /\ n \in DOMAIN files'[d]
          /\ files'[d][n] = files[d][n] \/ files'[d][n] = files[d][n] \o record
  <2> SUFFICES ASSUME NEW n \in 1 .. new - 1
               PROVE  n \in 1 .. new /\ files'[dir][n] = files[dir][n]
    BY <1>3, <1>5
  <2> QED
    BY <1>3, <1>5
<1> QED
  BY <1>0, <1>5, <1>6, <1>7, <1>9, <1>10, <1>11, <1>12, <1>13, <1>14
  DEF WriteEffect, File, record

---------------------------------------------------------------------------
(***************************************************************************)
(* After a record is written, everything that was stored is still found    *)
(* where it was, and the record is found too.                              *)
(***************************************************************************)
LEMMA WriteKeeps ==
    ASSUME TypeOK, Layout, Stored, NEW id \in Vertex, NEW record \in Seq(Nat),
           WriteEffect(id, record), dir' = dir, ~Indexed(dir, id)
    PROVE  /\ Layout' /\ Open' /\ Stored'
           /\ \A d \in Dir, v \in Vertex :
                 Indexed(d, v)' <=> (Indexed(d, v) \/ (d = dir /\ v = id))
           /\ \A d \in Dir, v \in Vertex :
                 Indexed(d, v) => getOffset(d, v)' = getOffset(d, v)
<1>0. /\ dir \in Dir /\ files \in [Dir -> Seq(Seq(Nat))]
      /\ start_ID \in [Dir -> Seq(Vertex)]
  BY DEF TypeOK, File
<1>1. \A d \in Dir, v \in Vertex :
         ~(d = dir /\ v = id) => index'[d][v] = index[d][v]
  BY DEF WriteEffect
<1>2. \A d \in Dir, v \in Vertex :
         Indexed(d, v)' <=> (Indexed(d, v) \/ (d = dir /\ v = id))
  BY <1>1 DEF WriteEffect, Indexed
<1>3. ASSUME NEW d \in Dir, NEW v \in Vertex, Indexed(d, v)
      PROVE  Holds(d, v)' /\ getOffset(d, v)' = getOffset(d, v)
  <2> DEFINE n == index[d][v][2]
             at == At(d, v)
  <2>1. index'[d][v] = index[d][v]
    BY <1>1, <1>3
  <2>2. n \in DOMAIN files[d] /\ RecordIn(files[d][n], at, v)
    BY <1>3 DEF Stored, Holds, Words
  <2>3. /\ n \in DOMAIN files'[d]
        /\ files'[d][n] = files[d][n] \/ files'[d][n] = files[d][n] \o record
    BY <2>2 DEF WriteEffect
  <2>4. files[d][n] \in Seq(Nat)
    BY <1>0, <2>2
  <2>5. /\ index'[d][v][2] = n /\ Words(d, v) = files[d][n]
        /\ Words(d, v)' = files'[d][n] /\ At(d, v)' = at
    BY <2>1 DEF Words, At
  <2> HIDE DEF n, at
  <2>6. /\ RecordIn(files'[d][n], at, v)
        /\ files'[d][n][at + 1] = files[d][n][at + 1]
        /\ SubSeq(files'[d][n], at + 3, at + 2 + files'[d][n][at + 2])
             = SubSeq(files[d][n], at + 3, at + 2 + files[d][n][at + 2])
    <3>1. CASE files'[d][n] = files[d][n]
      BY <2>2, <3>1
    <3>2. CASE files'[d][n] = files[d][n] \o record
      <4> DEFINE words == files[d][n]
      <4>1. words \in Seq(Nat) /\ RecordIn(words, at, v)
        BY <2>2, <2>4
      <4> HIDE DEF words
      <4>2. /\ RecordIn(words \o record, at, v)
            /\ (words \o record)[at + 1] = words[at + 1]
            /\ SubSeq(words \o record, at + 3,
                      at + 2 + (words \o record)[at + 2])
                 = SubSeq(words, at + 3, at + 2 + words[at + 2])
        BY <4>1, RecordStays
      <4> QED
        BY <3>2, <4>2 DEF words
    <3> QED
      BY <2>3, <3>1, <3>2
  <2>7. Holds(d, v)'
    BY <2>1, <2>3, <2>6 DEF Holds, Words, At, n, at
  <2>8. /\ start_ID[d] # <<>> /\ start_ID'[d] # <<>>
        /\ start_ID'[d][1] = start_ID[d][1]
    <3>1. Len(start_ID[d]) = Len(files[d])
      BY DEF Layout
    <3>2. start_ID[d] # <<>>
      BY <1>0, <2>2, <3>1
    <3> QED
      BY <3>2 DEF WriteEffect
  <2>9. getOffset(d, v)' = getOffset(d, v)
    BY <2>1, <2>5, <2>6, <2>8 DEF getOffset, at
  <2> QED
    BY <2>7, <2>9
<1>4. Holds(dir, id)'
  BY DEF WriteEffect, Holds, Words, At
<1>5. Stored'
  BY <1>2, <1>3, <1>4 DEF Stored
<1>6. Layout'
  <2> SUFFICES ASSUME NEW d \in Dir
               PROVE  /\ Len(start_ID'[d]) = Len(files'[d])
                      /\ \A n \in DOMAIN files'[d] :
                            FileOK(files'[d][n], start_ID'[d][n])
                      /\ start_ID'[d] # <<>> => start_ID'[d][1] = 0
    BY DEF Layout, FileOK
  <2>1. CASE d = dir
    BY <2>1 DEF WriteEffect
  <2>2. CASE d # dir
    BY <2>2 DEF WriteEffect, Layout
  <2> QED
    BY <2>1, <2>2
<1>7. Open'
  BY DEF WriteEffect, Open
<1> QED
  BY <1>2, <1>3, <1>5, <1>6, <1>7

LEMMA WriteMade ==
    ASSUME AdjFileAssumption, TypeOK, Layout, Open,
           NEW id \in Vertex, NEW list \in Seq(Vertex), Write(id, list),
           files[dir] = <<>> => id = 0
    PROVE  /\ <<id, Len(list)>> \o list \in Seq(Nat)
           /\ WriteEffect(id, <<id, Len(list)>> \o list)
<1>1. CASE Fits(IDSize * Len(<<id, Len(list)>> \o list))
  BY <1>1, WriteIntoFile, RecordShape
<1>2. CASE ~Fits(IDSize * Len(<<id, Len(list)>> \o list))
  BY <1>2, WriteNewFile, RecordShape
<1> QED
  BY <1>1, <1>2

\* What every step, a writing one or not, keeps of the stored lists.
Kept ==
    /\ files' \in [Dir -> Seq(File)] /\ fileOff' \in Nat
    /\ index' \in [Dir -> [Vertex -> Nat \X Nat]]
    /\ start_ID' \in [Dir -> Seq(Vertex)]
    /\ Layout' /\ Open' /\ Stored' /\ Frontier'
    /\ \A d \in Dir, v \in Vertex :
          Indexed(d, v) => getOffset(d, v)' = getOffset(d, v)

\* A record for the first vertex that is not indexed yet.
LEMMA WriteMoves ==
    ASSUME AdjFileAssumption, IInv, NEW list \in Seq(Vertex),
           NEW id \in Vertex, id = Upto, Write(id, list), dir' = dir, Upto' = id + 1
    PROVE  Kept
<1>0. TypeOK /\ Layout /\ Open /\ Stored /\ dir \in Dir /\ Vertex \subseteq Nat
  <2>1. TypeOK /\ Layout /\ Open /\ Stored
    BY DEF IInv
  <2>2. dir \in Dir
    BY <2>1 DEF TypeOK
  <2>3. Vertex \subseteq Nat
    BY DEF Vertex
  <2> QED
    BY <2>1, <2>2, <2>3
<1>1. /\ \A v \in Vertex : Indexed(dir, v) <=> v < id
      /\ files[dir] = <<>> => id = 0
      /\ dir = "forward" => /\ files["reverse"] = <<>>
                            /\ \A v \in Vertex : ~Indexed("reverse", v)
      /\ dir = "reverse" => \A v \in Vertex : Indexed("forward", v)
  BY DEF IInv, Frontier
<1>2. ~Indexed(dir, id)
  BY <1>0, <1>1
<1>3. PICK record \in Seq(Nat) : WriteEffect(id, record)
  BY <1>0, <1>1, WriteMade
<1>4. /\ Layout' /\ Open' /\ Stored'
      /\ \A d \in Dir, v \in Vertex :
            Indexed(d, v)' <=> (Indexed(d, v) \/ (d = dir /\ v = id))
      /\ \A d \in Dir, v \in Vertex :
            Indexed(d, v) => getOffset(d, v)' = getOffset(d, v)
  BY <1>0, <1>2, <1>3, WriteKeeps
<1>5. /\ files' \in [Dir -> Seq(File)] /\ fileOff' \in Nat
      /\ index' \in [Dir -> [Vertex -> Nat \X Nat]]
      /\ start_ID' \in [Dir -> Seq(Vertex)]
      /\ files'[dir] # <<>>
      /\ \A d \in Dir \ {dir} : files'[d] = files[d]
  BY <1>3 DEF WriteEffect
<1>6. \A d \in Dir, v \in Vertex :
            index'[d][v][1] # 0 <=> (index[d][v][1] # 0 \/ (d = dir /\ v = id))
  BY <1>4 DEF Indexed
<1>7. Frontier'
  <2>1. ASSUME NEW v \in Vertex
        PROVE  index'[dir][v][1] # 0 <=> v < id + 1
    <3>1. v \in Nat /\ id \in Nat
      BY <1>0
    <3>2. index'[dir][v][1] # 0 <=> (index[dir][v][1] # 0 \/ v = id)
      BY <1>0, <1>6
    <3>3. index[dir][v][1] # 0 <=> v < id
      BY <1>1 DEF Indexed
    <3> QED
      BY <3>1, <3>2, <3>3
  <2>2. dir = "forward" => /\ files'["reverse"] = <<>>
                           /\ \A v \in Vertex : ~(index'["reverse"][v][1] # 0)
    BY <1>0, <1>1, <1>5, <1>6 DEF Indexed, Dir
  <2>3. dir = "reverse" => \A v \in Vertex : index'["forward"][v][1] # 0
    BY <1>0, <1>1, <1>6 DEF Indexed, Dir
  <2> QED
    BY <1>5, <2>1, <2>2, <2>3 DEF Frontier, Indexed
<1> QED
  BY <1>4, <1>5, <1>7 DEF Kept

\* A step that writes no record.
LEMMA Idle ==
    ASSUME IInv, UNCHANGED fileVars, dir' = dir, Upto' = Upto
    PROVE  Kept
<1>1. /\ files' = files /\ fileOff' = fileOff /\ index' = index
      /\ start_ID' = start_ID
  BY DEF fileVars
<1>2. /\ files \in [Dir -> Seq(File)] /\ fileOff \in Nat
      /\ index \in [Dir -> [Vertex -> Nat \X Nat]]
      /\ start_ID \in [Dir -> Seq(Vertex)]
      /\ Layout /\ Open /\ Stored /\ Frontier
  BY DEF IInv, TypeOK
<1>3. Layout' /\ Open'
  BY <1>1, <1>2 DEF Layout, Open, FileOK
<1>4. \A d \in Dir, v \in Vertex :
         /\ Indexed(d, v)' <=> Indexed(d, v)
         /\ Holds(d, v)' <=> Holds(d, v)
         /\ getOffset(d, v)' = getOffset(d, v)
  BY <1>1 DEF Indexed, Holds, RecordIn, getOffset, Words, At
<1>5. Stored'
  BY <1>2, <1>4 DEF Stored
<1>6. Frontier'
  BY <1>1, <1>2 DEF Frontier, Indexed
<1> QED
  BY <1>1, <1>2, <1>3, <1>4, <1>5, <1>6 DEF Kept

---------------------------------------------------------------------------
(***************************************************************************)
(* The sorted edges are a nonempty sequence in ascending order.            *)
(***************************************************************************)
SortedInput(s) ==
    /\ s \in Seq(Vertex \X Vertex) /\ s # <<>>
    /\ \A a, b \in DOMAIN s : a < b => s[a][1] <= s[b][1]

LEMMA PermutedShape ==
    ASSUME AdjFileAssumption, NEW e \in Edges, NEW s \in Permuted(e)
    PROVE  s \in Seq(Vertex \X Vertex) /\ s # <<>> /\ DOMAIN s = DOMAIN e
<1>1. e \in Seq(Vertex \X Vertex) /\ e # <<>>
  BY DEF AdjFileAssumption
<1>2. PICK p \in [DOMAIN e -> DOMAIN e] : s = [n \in DOMAIN e |-> e[p[n]]]
  BY DEF Permuted, Bijection, Injection
<1>3. /\ DOMAIN e = 1 .. Len(e) /\ Len(e) \in Nat
      /\ \A n \in DOMAIN e : e[n] \in Vertex \X Vertex
  BY <1>1
<1>4. s \in [1 .. Len(e) -> Vertex \X Vertex]
  BY <1>2, <1>3
<1>5. s \in Seq(Vertex \X Vertex) /\ Len(s) = Len(e)
  BY <1>3, <1>4
<1> QED
  BY <1>1, <1>2, <1>5

LEMMA ForwardInput ==
    ASSUME AdjFileAssumption, NEW e \in Edges, NEW s \in Sorted12(e)
    PROVE  SortedInput(s)
<1>1. s \in Permuted(e)
      /\ \A a, b \in DOMAIN s : a < b => Before12(s[a], s[b])
  BY PermutedShape DEF Sorted12
<1>2. s \in Seq(Vertex \X Vertex) /\ s # <<>>
  BY <1>1, PermutedShape
<1>3. ASSUME NEW a \in DOMAIN s, NEW b \in DOMAIN s, a < b
      PROVE  s[a][1] <= s[b][1]
  <2>1. s[a][1] \in Int /\ s[b][1] \in Int
    BY <1>2 DEF Vertex
  <2>2. Before12(s[a], s[b])
    BY <1>1, <1>3
  <2> QED
    BY <2>1, <2>2 DEF Before12
<1> QED
  BY <1>2, <1>3 DEF SortedInput

LEMMA ReverseInput ==
    ASSUME AdjFileAssumption, NEW e \in Edges, NEW t \in FromTargets(e)
    PROVE  SortedInput(t)
<1>1. PICK s \in Sorted21(e) : t = [n \in DOMAIN e |-> <<s[n][2], s[n][1]>>]
  BY DEF FromTargets
<1>2. s \in Permuted(e)
      /\ \A a, b \in DOMAIN e : a < b => Before21(s[a], s[b])
  BY DEF Sorted21
<1>3. s \in Seq(Vertex \X Vertex) /\ s # <<>> /\ DOMAIN s = DOMAIN e
  BY <1>2, PermutedShape
<1>4. DOMAIN e = 1 .. Len(s) /\ Len(s) \in Nat
      /\ \A n \in DOMAIN e : s[n][1] \in Vertex /\ s[n][2] \in Vertex
  BY <1>3
<1>5. t \in [1 .. Len(s) -> Vertex \X Vertex]
  BY <1>1, <1>4
<1>6. t \in Seq(Vertex \X Vertex) /\ t # <<>>
  BY <1>3, <1>4, <1>5
<1>7. ASSUME NEW a \in DOMAIN t, NEW b \in DOMAIN t, a < b
      PROVE  t[a][1] <= t[b][1]
  <2>1. a \in DOMAIN e /\ b \in DOMAIN e /\ t[a][1] = s[a][2] /\ t[b][1] = s[b][2]
    BY <1>1
  <2>2. s[a][2] \in Int /\ s[b][2] \in Int
    BY <1>4, <2>1 DEF Vertex
  <2>3. Before21(s[a], s[b])
    BY <1>2, <1>7, <2>1
  <2> QED
    BY <2>1, <2>2, <2>3 DEF Before21
<1> QED
  BY <1>6, <1>7 DEF SortedInput

---------------------------------------------------------------------------
(***************************************************************************)
(* The induction.                                                          *)
(***************************************************************************)
LEMMA InitHolds ==
    ASSUME AdjFileAssumption, Init
    PROVE  IInv
<1>1. /\ edges \in Edges /\ pc = "lead" /\ dir = "forward"
      /\ pos = 0 /\ lastfrom = input[1][1] /\ tempEnt = <<>> /\ i = 0
      /\ files = [d \in Dir |-> <<>>] /\ fileOff = 0
      /\ index = [d \in Dir |-> [v \in Vertex |-> <<0, 0>>]]
      /\ start_ID = [d \in Dir |-> <<>>]
      /\ indeg = [v \in Vertex |-> 0] /\ outdeg = [v \in Vertex |-> 0]
  BY DEF Init
<1>2. SortedInput(input)
  BY <1>1, ForwardInput DEF Init
<1>3. /\ input \in Seq(Vertex \X Vertex) /\ Len(input) \in Nat /\ Len(input) >= 1
      /\ input[1] \in Vertex \X Vertex
  BY <1>2 DEF SortedInput
<1>4. lastfrom \in Vertex /\ 0 <= lastfrom /\ maxID \in Nat
  BY <1>1, <1>3 DEF AdjFileAssumption, Vertex
<1>5. TypeOK
  <2>1. <<>> \in Seq(File) /\ <<>> \in Seq(Vertex) /\ <<0, 0>> \in Nat \X Nat
    BY DEF File
  <2>2. index \in [Dir -> [Vertex -> Nat \X Nat]]
    BY <1>1, <2>1
  <2>3. files \in [Dir -> Seq(File)] /\ start_ID \in [Dir -> Seq(Vertex)]
    BY <1>1, <2>1
  <2>4. indeg \in [Vertex -> Nat] /\ outdeg \in [Vertex -> Nat]
    BY <1>1
  <2>5. pos \in 0 .. Len(input) /\ i \in 0 .. maxID + 1 /\ fileOff \in Nat
    BY <1>1, <1>3, <1>4
  <2> QED
    BY <1>1, <1>3, <1>4, <2>1, <2>2, <2>3, <2>4, <2>5 DEF TypeOK, Dir
<1>6. Sorted
  BY <1>1, <1>2 DEF Sorted, SortedInput
<1>7. Place
  BY <1>1, <1>4 DEF Place
<1>8. Layout /\ Open
  BY <1>1 DEF Layout, Open, Dir
<1>9. \A d \in Dir, v \in Vertex : ~Indexed(d, v)
  BY <1>1 DEF Indexed
<1>10. Stored /\ Frontier
  <2>1. Stored
    BY <1>9 DEF Stored
  <2>2. \A v \in Vertex : ~(v < 0)
    BY DEF Vertex
  <2>3. Upto = 0 /\ files["reverse"] = <<>>
    BY <1>1 DEF Upto, Dir
  <2> QED
    BY <1>1, <1>9, <2>1, <2>2, <2>3 DEF Frontier, Dir
<1> QED
  BY <1>5, <1>6, <1>7, <1>8, <1>10 DEF IInv

\* The facts about the state that the steps use.
LEMMA Facts ==
    ASSUME AdjFileAssumption, IInv
    PROVE  /\ dir \in Dir /\ pos \in Nat /\ i \in Nat /\ lastfrom \in Nat
           /\ pos <= Len(input) /\ i <= maxID + 1 /\ lastfrom <= maxID
           /\ Len(input) \in Nat /\ maxID \in Nat /\ input # <<>>
           /\ lastfrom \in Vertex /\ tempEnt \in Seq(Vertex)
           /\ input \in Seq(Vertex \X Vertex)
           /\ pos < Len(input) =>
                 /\ pos + 1 \in DOMAIN input /\ pos + 1 \in 1 .. Len(input)
                 /\ Edge[1] \in Vertex /\ Edge[2] \in Vertex
                 /\ Edge[1] \in Nat /\ Edge[1] <= maxID
<1>1. TypeOK /\ input # <<>>
  BY DEF IInv, Sorted
<1>2. /\ dir \in Dir /\ input \in Seq(Vertex \X Vertex) /\ pos \in 0 .. Len(input)
      /\ lastfrom \in Vertex /\ tempEnt \in Seq(Vertex) /\ i \in 0 .. maxID + 1
  BY <1>1 DEF TypeOK
<1>3. maxID \in Nat /\ Len(input) \in Nat
  BY <1>2 DEF AdjFileAssumption
<1>4. ASSUME pos < Len(input)
      PROVE  /\ pos + 1 \in 1 .. Len(input) /\ pos + 1 \in DOMAIN input
             /\ Edge \in Vertex \X Vertex
  BY <1>2, <1>3, <1>4 DEF Edge
<1> QED
  BY <1>1, <1>2, <1>3, <1>4 DEF Vertex

\* A step that leaves the input alone and writes as Kept says.
LEMMA Preserved ==
    ASSUME AdjFileAssumption, IInv, Kept, UNCHANGED readVars, Place',
           pc' \in {"lead", "read", "gap", "tail", "done"},
           pos' \in 0 .. Len(input), lastfrom' \in Vertex,
           tempEnt' \in Seq(Vertex), i' \in 0 .. maxID + 1,
           indeg' \in [Vertex -> Nat], outdeg' \in [Vertex -> Nat]
    PROVE  IInv'
<1>1. edges' = edges /\ dir' = dir /\ input' = input
  BY DEF readVars
<1>2. Sorted'
  BY <1>1 DEF IInv, Sorted
<1>3. dir \in Dir /\ input \in Seq(Vertex \X Vertex)
  BY DEF IInv, TypeOK
<1>4. TypeOK'
  BY <1>1, <1>3 DEF Kept, TypeOK
<1> QED
  BY <1>2, <1>4 DEF Kept, IInv

\* A record for a vertex without edges, in any of the three loops.
LEMMA EmptyStep ==
    ASSUME AdjFileAssumption, IInv, WriteEmpty, i <= maxID,
           pc \in {"lead", "gap", "tail"},
           pc = "lead" => i < lastfrom, pc = "gap" => i < Edge[1]
    PROVE  IInv' /\ Kept
<1>1. /\ i' = i + 1 /\ Write(i, <<>>) /\ UNCHANGED readVars
      /\ pc' = pc /\ pos' = pos /\ lastfrom' = lastfrom /\ tempEnt' = tempEnt
      /\ indeg' = indeg /\ outdeg' = outdeg /\ dir' = dir /\ input' = input
  BY DEF WriteEmpty, readVars, degVars
<1>2. i \in Vertex /\ i' \in 0 .. maxID + 1 /\ i \in Nat
  <2>1. i \in Nat /\ maxID \in Nat /\ i <= maxID /\ i' = i + 1
    BY <1>1, Facts
  <2> QED
    BY <2>1 DEF Vertex
<1>3. Upto = i /\ Upto' = i + 1
  BY <1>1 DEF Upto
<1>4. Kept
  <2>1. <<>> \in Seq(Vertex)
    OBVIOUS
  <2> QED
    BY <1>1, <1>2, <1>3, <2>1, WriteMoves
<1>5. Place
  BY DEF IInv
<1>6. Place'
  BY <1>1, <1>2, <1>5, Facts DEF Place, Edge
<1>7. /\ pos \in 0 .. Len(input) /\ indeg \in [Vertex -> Nat]
      /\ outdeg \in [Vertex -> Nat]
  BY DEF IInv, TypeOK
<1> QED
  BY <1>1, <1>2, <1>4, <1>6, <1>7, Facts, Preserved

LEMMA LeadEndStep ==
    ASSUME AdjFileAssumption, IInv, LeadEnd
    PROVE  IInv' /\ Kept
<1>1. /\ pc = "lead" /\ i >= lastfrom /\ pc' = "read"
      /\ i' = i /\ pos' = pos /\ lastfrom' = lastfrom /\ tempEnt' = tempEnt
      /\ indeg' = indeg /\ outdeg' = outdeg /\ dir' = dir /\ input' = input
      /\ UNCHANGED readVars /\ UNCHANGED fileVars
  BY DEF LeadEnd, readVars, degVars
<1>2. Place
  BY DEF IInv
<1>3. Upto' = Upto
  BY <1>1, <1>2, Facts DEF Upto, Place
<1>4. Kept
  BY <1>1, <1>3, Idle
<1>5. Place'
  BY <1>1, <1>2 DEF Place, Edge
<1>6. /\ pos \in 0 .. Len(input) /\ i \in 0 .. maxID + 1
      /\ indeg \in [Vertex -> Nat] /\ outdeg \in [Vertex -> Nat]
  BY DEF IInv, TypeOK
<1> QED
  BY <1>1, <1>4, <1>5, <1>6, Facts, Preserved

\* Counting an edge keeps the degrees natural numbers.
LEMMA CountEdgeType ==
    ASSUME AdjFileAssumption, IInv, CountEdge, pos < Len(input)
    PROVE  indeg' \in [Vertex -> Nat] /\ outdeg' \in [Vertex -> Nat]
<1>1. indeg \in [Vertex -> Nat] /\ outdeg \in [Vertex -> Nat]
  BY DEF IInv, TypeOK
<1>2. Edge[1] \in Vertex /\ Edge[2] \in Vertex
  BY Facts
<1>3. CASE dir = "forward"
  BY <1>1, <1>2, <1>3 DEF CountEdge
<1>4. CASE dir # "forward"
  BY <1>1, <1>4 DEF CountEdge, degVars
<1> QED
  BY <1>3, <1>4

LEMMA CollectStep ==
    ASSUME AdjFileAssumption, IInv, Collect
    PROVE  IInv' /\ Kept
<1>1. /\ pc = "read" /\ pos < Len(input) /\ Edge[1] = lastfrom
      /\ tempEnt' = Append(tempEnt, Edge[2]) /\ pos' = pos + 1 /\ CountEdge
      /\ pc' = pc /\ i' = i /\ lastfrom' = lastfrom
      /\ dir' = dir /\ input' = input
      /\ UNCHANGED readVars /\ UNCHANGED fileVars
  BY DEF Collect, readVars
<1>2. Upto' = Upto
  BY <1>1 DEF Upto
<1>3. Kept
  BY <1>1, <1>2, Idle
<1>4. pos' \in 0 .. Len(input) /\ i \in 0 .. maxID + 1
  BY <1>1, Facts
<1>5. Place'
  <2>1. pos' > 0 /\ lastfrom' = input'[pos'][1]
    BY <1>1, Facts DEF Edge
  <2> QED
    BY <1>1, <2>1 DEF Place
<1>6. tempEnt' \in Seq(Vertex)
  BY <1>1, Facts
<1> QED
  BY <1>1, <1>3, <1>4, <1>5, <1>6, Facts, CountEdgeType, Preserved

LEMMA FinishStep ==
    ASSUME AdjFileAssumption, IInv, Finish
    PROVE  IInv' /\ Kept
<1>1. /\ pc = "read" /\ pos < Len(input) /\ Edge[1] # lastfrom
      /\ Write(lastfrom, tempEnt) /\ pc' = "gap" /\ i' = lastfrom + 1
      /\ CountEdge /\ pos' = pos /\ lastfrom' = lastfrom /\ tempEnt' = tempEnt
      /\ dir' = dir /\ input' = input /\ UNCHANGED readVars
  BY DEF Finish, readVars, AfterLast
<1>2. Upto = lastfrom /\ Upto' = lastfrom + 1
  BY <1>1 DEF Upto
<1>3. Kept
  BY <1>1, <1>2, Facts, WriteMoves
<1>4. lastfrom < Edge[1]
  <2>1. CASE pos = 0
    BY <1>1, <2>1 DEF IInv, Place, Edge
  <2>2. CASE pos > 0
    <3>1. lastfrom = input[pos][1]
      BY <1>1, <2>2 DEF IInv, Place
    <3>2. pos \in DOMAIN input /\ pos + 1 \in DOMAIN input /\ pos < pos + 1
      BY <1>1, <2>2, Facts
    <3>3. input[pos][1] <= input[pos + 1][1]
      BY <3>2 DEF IInv, Sorted
    <3> QED
      BY <1>1, <3>1, <3>3, Facts DEF Edge
  <2> QED
    BY <2>1, <2>2, Facts
<1>5. Place'
  <2>1. pos' < Len(input') /\ i' <= Edge[1] /\ Edge' = Edge
    BY <1>1, <1>4, Facts DEF Edge
  <2> QED
    BY <1>1, <2>1 DEF Place
<1>6. pos' \in 0 .. Len(input) /\ i' \in 0 .. maxID + 1
  BY <1>1, Facts
<1> QED
  BY <1>1, <1>3, <1>5, <1>6, Facts, CountEdgeType, Preserved

LEMMA GapEndStep ==
    ASSUME AdjFileAssumption, IInv, GapEnd
    PROVE  IInv' /\ Kept
<1>1. /\ pc = "gap" /\ i >= Edge[1] /\ pc' = "read"
      /\ tempEnt' = <<Edge[2]>> /\ lastfrom' = Edge[1] /\ pos' = pos + 1
      /\ i' = i /\ indeg' = indeg /\ outdeg' = outdeg
      /\ dir' = dir /\ input' = input
      /\ UNCHANGED readVars /\ UNCHANGED fileVars
  BY DEF GapEnd, readVars, degVars
<1>2. pos < Len(input) /\ i <= Edge[1]
  BY <1>1 DEF IInv, Place
<1>3. Upto' = Upto
  BY <1>1, <1>2, Facts DEF Upto
<1>4. Kept
  BY <1>1, <1>3, Idle
<1>5. Place'
  <2>1. pos' > 0 /\ lastfrom' = input'[pos'][1]
    BY <1>1, Facts DEF Edge
  <2> QED
    BY <1>1, <2>1 DEF Place
<1>6. /\ pos' \in 0 .. Len(input) /\ i \in 0 .. maxID + 1
      /\ lastfrom' \in Vertex /\ tempEnt' \in Seq(Vertex)
  BY <1>1, <1>2, Facts
<1>7. indeg \in [Vertex -> Nat] /\ outdeg \in [Vertex -> Nat]
  BY DEF IInv, TypeOK
<1> QED
  BY <1>1, <1>4, <1>5, <1>6, <1>7, Preserved

LEMMA FinishLastStep ==
    ASSUME AdjFileAssumption, IInv, FinishLast
    PROVE  IInv' /\ Kept
<1>1. /\ pc = "read" /\ Write(lastfrom, tempEnt) /\ pc' = "tail"
      /\ i' = lastfrom + 1 /\ pos' = pos /\ lastfrom' = lastfrom
      /\ tempEnt' = tempEnt /\ indeg' = indeg /\ outdeg' = outdeg
      /\ dir' = dir /\ input' = input /\ UNCHANGED readVars
  BY DEF FinishLast, readVars, degVars, AfterLast
<1>2. Upto = lastfrom /\ Upto' = lastfrom + 1
  BY <1>1 DEF Upto
<1>3. Kept
  BY <1>1, <1>2, Facts, WriteMoves
<1>4. Place'
  BY <1>1 DEF Place
<1>5. /\ pos' \in 0 .. Len(input) /\ i' \in 0 .. maxID + 1
      /\ indeg \in [Vertex -> Nat] /\ outdeg \in [Vertex -> Nat]
  <2>1. /\ indeg \in [Vertex -> Nat] /\ outdeg \in [Vertex -> Nat]
        /\ pos \in 0 .. Len(input)
    BY DEF IInv, TypeOK
  <2>2. i' \in 0 .. maxID + 1
    BY <1>1, Facts
  <2> QED
    BY <1>1, <2>1, <2>2
<1> QED
  BY <1>1, <1>3, <1>4, <1>5, Facts, Preserved

LEMMA CloseStep ==
    ASSUME AdjFileAssumption, IInv, Close
    PROVE  IInv' /\ Kept
<1>1. /\ pc = "tail" /\ i > maxID /\ dir = "reverse" /\ pc' = "done"
      /\ i' = i /\ pos' = pos /\ lastfrom' = lastfrom /\ tempEnt' = tempEnt
      /\ indeg' = indeg /\ outdeg' = outdeg /\ dir' = dir /\ input' = input
      /\ UNCHANGED readVars /\ UNCHANGED fileVars
  BY DEF Close, readVars, degVars
<1>2. Upto' = Upto
  BY <1>1, Facts DEF Upto
<1>3. Kept
  BY <1>1, <1>2, Idle
<1>4. Place'
  BY <1>1 DEF Place
<1>5. /\ pos \in 0 .. Len(input) /\ i \in 0 .. maxID + 1
      /\ indeg \in [Vertex -> Nat] /\ outdeg \in [Vertex -> Nat]
  BY DEF IInv, TypeOK
<1> QED
  BY <1>1, <1>3, <1>4, <1>5, Facts, Preserved

\* The reverse pass starts with a full index of the forward lists.
LEMMA StartReverseStep ==
    ASSUME AdjFileAssumption, IInv, StartReverse
    PROVE  IInv' /\ Kept
<1>1. /\ pc = "tail" /\ i > maxID /\ dir = "forward"
      /\ dir' = "reverse" /\ pc' = "lead" /\ edges' = edges
      /\ pos' = 0 /\ lastfrom' = input'[1][1] /\ tempEnt' = <<>> /\ i' = 0
      /\ fileOff' = 0 /\ files' = files /\ index' = index
      /\ start_ID' = start_ID /\ indeg' = indeg /\ outdeg' = outdeg
  BY DEF StartReverse, degVars
<1>2. SortedInput(input')
  BY ReverseInput DEF StartReverse, IInv, Sorted
<1>3. /\ input' \in Seq(Vertex \X Vertex) /\ Len(input') \in Nat
      /\ Len(input') >= 1 /\ lastfrom' \in Vertex
  BY <1>1, <1>2 DEF SortedInput
<1>4. /\ files \in [Dir -> Seq(File)] /\ index \in [Dir -> [Vertex -> Nat \X Nat]]
      /\ start_ID \in [Dir -> Seq(Vertex)]
      /\ indeg \in [Vertex -> Nat] /\ outdeg \in [Vertex -> Nat]
  BY DEF IInv, TypeOK
<1>5. TypeOK'
  <2>1. pos' \in 0 .. Len(input') /\ i' \in 0 .. maxID + 1 /\ fileOff' \in Nat
    BY <1>1, <1>3, Facts
  <2>2. tempEnt' \in Seq(Vertex)
    BY <1>1
  <2> QED
    BY <1>1, <1>3, <1>4, <2>1, <2>2 DEF TypeOK, Dir
<1>6. Sorted'
  BY <1>1, <1>2 DEF IInv, Sorted, SortedInput
<1>7. Place'
  <2>1. i' <= lastfrom'
    BY <1>1, <1>3 DEF Vertex
  <2> QED
    BY <1>1, <2>1 DEF Place
<1>8. /\ files["reverse"] = <<>>
      /\ \A v \in Vertex : Indexed("forward", v) /\ ~Indexed("reverse", v)
  <2>1. \A v \in Vertex : v < i
    BY <1>1, Facts DEF Vertex
  <2>2. Upto = i
    BY <1>1 DEF Upto
  <2> QED
    BY <1>1, <2>1, <2>2 DEF IInv, Frontier
<1>9. Layout' /\ Open'
  BY <1>1, <1>8 DEF IInv, Layout, Open, FileOK
<1>10. \A d \in Dir, v \in Vertex :
         /\ Indexed(d, v)' <=> Indexed(d, v)
         /\ Holds(d, v)' <=> Holds(d, v)
         /\ getOffset(d, v)' = getOffset(d, v)
  BY <1>1 DEF Indexed, Holds, RecordIn, getOffset, Words, At
<1>11. Stored'
  BY <1>10 DEF IInv, Stored
<1>12. Frontier'
  <2>1. Upto' = 0 /\ \A v \in Vertex : ~(v < 0)
    BY <1>1 DEF Upto, Vertex
  <2> QED
    BY <1>1, <1>8, <2>1 DEF Frontier, Indexed
<1> QED
  BY <1>1, <1>4, <1>5, <1>6, <1>7, <1>9, <1>10, <1>11, <1>12 DEF Kept, IInv, TypeOK

LEMMA StepHolds ==
    ASSUME AdjFileAssumption, IInv, Next
    PROVE  IInv' /\ Kept
<1>1. CASE Lead
  BY <1>1, EmptyStep, Facts DEF Lead
<1>2. CASE LeadEnd
  BY <1>2, LeadEndStep
<1>3. CASE Collect
  BY <1>3, CollectStep
<1>4. CASE Finish
  BY <1>4, FinishStep
<1>5. CASE Gap
  <2>1. pos < Len(input)
    BY <1>5 DEF Gap, IInv, Place
  <2>2. i <= maxID
    BY <1>5, <2>1, Facts DEF Gap
  <2> QED
    BY <1>5, <2>2, EmptyStep DEF Gap
<1>6. CASE GapEnd
  BY <1>6, GapEndStep
<1>7. CASE FinishLast
  BY <1>7, FinishLastStep
<1>8. CASE Trail
  BY <1>8, EmptyStep DEF Trail
<1>9. CASE StartReverse
  BY <1>9, StartReverseStep
<1>10. CASE Close
  BY <1>10, CloseStep
<1> QED
  BY <1>1, <1>2, <1>3, <1>4, <1>5, <1>6, <1>7, <1>8, <1>9, <1>10 DEF Next

LEMMA StutterHolds ==
    ASSUME IInv, UNCHANGED vars
    PROVE  IInv'
<1>1. /\ edges' = edges /\ dir' = dir /\ input' = input /\ pc' = pc
      /\ pos' = pos /\ lastfrom' = lastfrom /\ tempEnt' = tempEnt /\ i' = i
      /\ files' = files /\ fileOff' = fileOff /\ index' = index
      /\ start_ID' = start_ID /\ indeg' = indeg /\ outdeg' = outdeg
  BY DEF vars, readVars, fileVars, degVars
<1>2. Upto' = Upto /\ UNCHANGED fileVars
  BY <1>1 DEF Upto, fileVars
<1>3. Kept
  BY <1>1, <1>2, Idle
<1>4. TypeOK' /\ Sorted' /\ Place'
  BY <1>1 DEF IInv, TypeOK, Sorted, Place, Edge
<1> QED
  BY <1>3, <1>4 DEF Kept, IInv

\* Every reachable state is one the invariant describes.
THEOREM InvariantHolds == Spec => []IInv
<1>1. Init => IInv
  BY AdjFileAssumption, InitHolds
<1>2. IInv /\ [Next]_vars => IInv'
  BY AdjFileAssumption, StepHolds, StutterHolds
<1> QED
  BY <1>1, <1>2, PTL DEF Spec

---------------------------------------------------------------------------
(***************************************************************************)
(* The variables keep their types, so the writer's counters never leave    *)
(* their ranges: it writes no record past maxID.                           *)
(***************************************************************************)
THEOREM TypeCorrect == Spec => []TypeOK
<1>1. IInv => TypeOK
  BY DEF IInv
<1> QED
  BY <1>1, InvariantHolds, PTL

(***************************************************************************)
(* Only a file that a single record fills reaches the limit, and start_ID  *)
(* names the record every file begins with.                                *)
(***************************************************************************)
THEOREM FilesFitTheorem == Spec => []FilesFit
<1>1. IInv => FilesFit
  BY DEF IInv, Layout, FileOK, FilesFit
<1> QED
  BY <1>1, InvariantHolds, PTL

(***************************************************************************)
(* When a pass is over, getOffset finds for every vertex the record that   *)
(* begins with its id: what the callers assert of addr[0].                 *)
(***************************************************************************)
THEOREM RecordsFoundTheorem == Spec => []RecordsFound
<1>1. ASSUME IInv PROVE RecordsFound
  <2> SUFFICES ASSUME NEW d \in Dir, NEW v \in Vertex, Complete(d)
               PROVE  getOffset(d, v) # Null /\ getOffset(d, v)[1] = v
    BY DEF RecordsFound
  <2>1. Indexed(d, v)
    <3>1. CASE pc = "done"
      <4>1. dir = "reverse" /\ Upto = maxID + 1
        BY <1>1, <3>1 DEF IInv, Place, Upto
      <4>2. v < maxID + 1
        BY AdjFileAssumption DEF AdjFileAssumption, Vertex
      <4> QED
        BY <1>1, <4>1, <4>2 DEF IInv, Frontier, Dir
    <3>2. CASE pc # "done"
      BY <1>1, <3>2 DEF Complete, IInv, Frontier
    <3> QED
      BY <3>1, <3>2
  <2>2. Holds(d, v)
    BY <1>1, <2>1 DEF IInv, Stored
  <2>3. start_ID[d] # <<>> /\ start_ID[d][1] = 0
    <3>1. files[d] \in Seq(File) /\ start_ID[d] \in Seq(Vertex)
      BY <1>1 DEF IInv, TypeOK
    <3>2. Len(start_ID[d]) = Len(files[d])
          /\ (start_ID[d] # <<>> => start_ID[d][1] = 0)
      BY <1>1 DEF IInv, Layout
    <3> QED
      BY <2>2, <3>1, <3>2 DEF Holds
  <2>4. ~(v < 0) /\ Words(d, v)[At(d, v) + 1] = v
    BY <2>2 DEF Vertex, Holds, RecordIn
  <2> QED
    BY <2>1, <2>3, <2>4 DEF getOffset, Indexed, Null
<1> QED
  BY <1>1, InvariantHolds, PTL

(***************************************************************************)
(* A list that getOffset finds once is found unchanged ever after, in both *)
(* passes.                                                                 *)
(***************************************************************************)
THEOREM FoundStaysTheorem == Spec => FoundStays
<1>1. ASSUME IInv, [Next]_vars
      PROVE  [\A d \in Dir, v \in Vertex :
                getOffset(d, v) # Null => getOffset(d, v)' = getOffset(d, v)]_vars
  <2>1. CASE Next
    <3>1. Kept
      BY <1>1, <2>1, AdjFileAssumption, StepHolds
    <3>2. \A d \in Dir, v \in Vertex : getOffset(d, v) # Null => Indexed(d, v)
      BY DEF getOffset, Indexed
    <3> QED
      BY <3>1, <3>2 DEF Kept
  <2>2. CASE UNCHANGED vars
    BY <2>2
  <2> QED
    BY <1>1, <2>1, <2>2
<1> QED
  BY <1>1, InvariantHolds, PTL DEF FoundStays, Spec
---------------------------------------------------------------------------
(***************************************************************************)
(* What the records hold.  Beside IInv the invariant says that the list    *)
(* being collected is the run of lastfrom's pairs that ends at pos         *)
(* (Collected), that every list written is the run of its vertex in the    *)
(* sorted pairs (Written), and that the degrees count the pairs read so    *)
(* far (Degrees).                                                          *)
(***************************************************************************)
\* The places of s that hold a member of X.
Places(s, X) == {n \in DOMAIN s : s[n] \in X}

\* l is what s has for v: a run of s, and all of v's pairs are in that run.
OwnList(s, v, l) ==
  /\ l \in Seq(Vertex)
  /\ \E a \in 0 .. Len(s) :
       /\ a + Len(l) <= Len(s)
       /\ \A k \in 1 .. Len(l) : s[a + k] = <<v, l[k]>>
       /\ \A n \in DOMAIN s : s[n][1] = v => a + 1 <= n /\ n <= a + Len(l)

Ascending(s) ==
    /\ s \in Seq(Vertex \X Vertex) /\ s # <<>>
    /\ \A a, b \in DOMAIN s : a < b => Before12(s[a], s[b])

Pairs == Vertex \X Vertex

---------------------------------------------------------------------------
OneToOne(f, D) == \A x, y \in D : f[x] = f[y] => x = y
Onto(f, D, T) == \A t \in T : \E x \in D : f[x] = t
Into(f, D, T) == {x \in D : f[x] \in T}

(***************************************************************************)
(* A one-to-one function onto T takes as many values in T as T has members.*)
(***************************************************************************)
LEMMA SameCount ==
    ASSUME NEW D, NEW R, NEW f \in [D -> R], IsFiniteSet(R), NEW T \in SUBSET R,
           OneToOne(f, D), Onto(f, D, T)
    PROVE  Cardinality(Into(f, D, T)) = Cardinality(T)
<1> DEFINE P == Into(f, D, T)
           g == [x \in P |-> f[x]]
<1>1. IsFiniteSet(T)
  BY FS_Subset
<1>2. g \in [P -> T]
  BY DEF Into
<1>3. g \in Injection(P, T)
  <2>1. \A x, y \in P : g[x] = g[y] => x = y
    BY DEF Into, OneToOne
  <2>2. DOMAIN g = P
    OBVIOUS
  <2> HIDE DEF g, P
  <2> QED
    BY <1>2, <2>1, <2>2 DEF Injection, IsInjective
<1>4. g \in Surjection(P, T)
  <2>1. \A t \in T : \E x \in P : g[x] = t
    BY DEF Into, Onto
  <2> HIDE DEF g, P
  <2> QED
    BY <1>2, <2>1 DEF Surjection
<1> HIDE DEF g, P
<1>5. Cardinality(P) = Cardinality(T)
  BY <1>1, <1>3, <1>4, FS_Injection
<1> QED
  BY <1>5 DEF P

\* Sorting keeps how often each pair occurs.
LEMMA PermutedCount ==
    ASSUME AdjFileAssumption, NEW e \in Edges, NEW s \in Permuted(e), NEW X
    PROVE  Cardinality(Places(s, X)) = Cardinality(Places(e, X))
<1>1. PICK p \in Bijection(DOMAIN e, DOMAIN e) : s = [n \in DOMAIN e |-> e[p[n]]]
  BY DEF Permuted
<1>2. p \in [DOMAIN e -> DOMAIN e] /\ OneToOne(p, DOMAIN e)
  BY <1>1 DEF Bijection, Injection, IsInjective, OneToOne
<1>3. IsFiniteSet(DOMAIN e)
  <2>1. e \in Seq(Vertex \X Vertex)
    BY DEF AdjFileAssumption
  <2>2. DOMAIN e = 1 .. Len(e) /\ Len(e) \in Nat
    BY <2>1
  <2> QED
    BY <2>2, FS_Interval
<1>4. Places(e, X) \in SUBSET DOMAIN e
  BY DEF Places
<1>5. Onto(p, DOMAIN e, Places(e, X))
  BY <1>1, <1>4 DEF Bijection, Surjection, Onto
<1>6. Cardinality(Into(p, DOMAIN e, Places(e, X))) = Cardinality(Places(e, X))
  BY <1>2, <1>3, <1>4, <1>5, SameCount
<1>7. Places(s, X) = Into(p, DOMAIN e, Places(e, X))
  BY <1>1, <1>2 DEF Places, Into
<1> QED
  BY <1>6, <1>7

\* The run of v in s is as long as s has pairs that begin with v.
LEMMA OwnLength ==
    ASSUME NEW s \in Seq(Pairs), NEW v \in Vertex, NEW l \in Seq(Vertex),
           OwnList(s, v, l)
    PROVE  Len(l) = Cardinality({n \in DOMAIN s : s[n][1] = v})
<1>1. PICK a \in 0 .. Len(s) :
         /\ a + Len(l) <= Len(s)
         /\ \A k \in 1 .. Len(l) : s[a + k] = <<v, l[k]>>
         /\ \A n \in DOMAIN s : s[n][1] = v => a + 1 <= n /\ n <= a + Len(l)
  BY DEF OwnList
<1>2. Len(s) \in Nat /\ Len(l) \in Nat /\ a \in Nat /\ DOMAIN s = 1 .. Len(s)
  OBVIOUS
<1>3. ASSUME NEW n \in (a + 1) .. (a + Len(l)) PROVE n \in DOMAIN s /\ s[n][1] = v
  <2>1. n - a \in 1 .. Len(l) /\ a + (n - a) = n /\ n \in 1 .. Len(s)
    BY <1>1, <1>2
  <2>2. s[n] = <<v, l[n - a]>>
    BY <1>1, <2>1
  <2> QED
    BY <1>2, <2>1, <2>2
<1>4. {n \in DOMAIN s : s[n][1] = v} = (a + 1) .. (a + Len(l))
  BY <1>1, <1>2, <1>3
<1>5. Cardinality((a + 1) .. (a + Len(l))) = Len(l)
  <2> DEFINE lo == a + 1
             hi == a + Len(l)
  <2>1. lo \in Int /\ hi \in Int /\ hi = lo + Len(l) - 1
    BY <1>2
  <2> HIDE DEF lo, hi
  <2>2. Cardinality(lo .. hi) = IF lo > hi THEN 0 ELSE hi - lo + 1
    BY <2>1, FS_Interval
  <2>3. Cardinality(lo .. hi) = Len(l)
    BY <1>2, <2>1, <2>2
  <2> QED
    BY <2>3 DEF lo, hi
<1> QED
  BY <1>4, <1>5

\* A neighbour occurs in v's list as often as its pair occurs in s.
LEMMA OwnTimes ==
    ASSUME NEW s \in Seq(Pairs), NEW v \in Vertex, NEW l \in Seq(Vertex),
           OwnList(s, v, l), NEW u \in Vertex
    PROVE  Cardinality({k \in DOMAIN l : l[k] = u})
             = Cardinality(Places(s, {<<v, u>>}))
<1>1. PICK a \in 0 .. Len(s) :
         /\ a + Len(l) <= Len(s)
         /\ \A k \in 1 .. Len(l) : s[a + k] = <<v, l[k]>>
         /\ \A n \in DOMAIN s : s[n][1] = v => a + 1 <= n /\ n <= a + Len(l)
  BY DEF OwnList
<1>2. /\ Len(s) \in Nat /\ Len(l) \in Nat /\ a \in Nat
      /\ DOMAIN s = 1 .. Len(s) /\ DOMAIN l = 1 .. Len(l)
  OBVIOUS
<1> DEFINE f == [k \in DOMAIN l |-> a + k]
           T == Places(s, {<<v, u>>})
<1>3. f \in [DOMAIN l -> DOMAIN s]
  BY <1>1, <1>2
<1>4. OneToOne(f, DOMAIN l)
  BY <1>2 DEF OneToOne
<1>5. T \in SUBSET (DOMAIN s)
  BY DEF Places
<1>6. ASSUME NEW t \in T PROVE \E x \in DOMAIN l : f[x] = t
  <2>1. t \in DOMAIN s /\ s[t] = <<v, u>>
    BY DEF Places
  <2>2. s[t][1] = v
    BY <2>1
  <2>3. a + 1 <= t /\ t <= a + Len(l) /\ t \in Nat
    BY <1>1, <1>2, <2>1, <2>2
  <2>4. t - a \in DOMAIN l /\ f[t - a] = t
    BY <1>2, <2>3
  <2> QED
    BY <2>4
<1>7. IsFiniteSet(DOMAIN s)
  BY <1>2, FS_Interval
<1>8. \A k \in DOMAIN l : f[k] \in T <=> l[k] = u
  <2> SUFFICES ASSUME NEW k \in DOMAIN l PROVE f[k] \in T <=> l[k] = u
    OBVIOUS
  <2>1. f[k] = a + k /\ a + k \in DOMAIN s /\ s[a + k] = <<v, l[k]>>
    BY <1>1, <1>2, <1>3
  <2> QED
    BY <2>1 DEF Places
<1> HIDE DEF f, T
<1>9. Cardinality(Into(f, DOMAIN l, T)) = Cardinality(T)
  <2>1. Onto(f, DOMAIN l, T)
    BY <1>6 DEF Onto
  <2> QED
    BY <1>3, <1>4, <1>5, <1>7, <2>1, SameCount
<1>10. Into(f, DOMAIN l, T) = {k \in DOMAIN l : l[k] = u}
  BY <1>8 DEF Into
<1> QED
  BY <1>9, <1>10 DEF T

\* The list ascends with s.
LEMMA OwnAscends ==
    ASSUME NEW s, Ascending(s), NEW v \in Vertex, NEW l \in Seq(Vertex),
           OwnList(s, v, l), NEW x \in DOMAIN l, NEW y \in DOMAIN l, x < y
    PROVE  l[x] <= l[y]
<1>1. PICK a \in 0 .. Len(s) :
         /\ a + Len(l) <= Len(s)
         /\ \A k \in 1 .. Len(l) : s[a + k] = <<v, l[k]>>
  BY DEF OwnList
<1>2. /\ Len(s) \in Nat /\ Len(l) \in Nat /\ a \in Nat
      /\ DOMAIN s = 1 .. Len(s) /\ DOMAIN l = 1 .. Len(l)
  BY DEF Ascending
<1>3. a + x \in DOMAIN s /\ a + y \in DOMAIN s /\ a + x < a + y
  BY <1>1, <1>2
<1>4. Before12(s[a + x], s[a + y])
  BY <1>3 DEF Ascending
<1>5. s[a + x] = <<v, l[x]>> /\ s[a + y] = <<v, l[y]>>
  BY <1>1, <1>2
<1>6. v \in Int /\ l[x] \in Int /\ l[y] \in Int
  <2>1. l[x] \in Vertex /\ l[y] \in Vertex
    OBVIOUS
  <2> QED
    BY <2>1 DEF Vertex
<1>7. Before12(<<v, l[x]>>, <<v, l[y]>>)
  BY <1>4, <1>5
<1> QED
  BY <1>6, <1>7 DEF Before12

\* The pairs that end in v.
To(v) == {q \in Pairs : q[2] = v}

LEMMA ForwardOrder ==
    ASSUME AdjFileAssumption, NEW e \in Edges, NEW s \in Sorted12(e)
    PROVE  Ascending(s) /\ s \in Permuted(e)
<1>1. s \in Permuted(e)
      /\ \A a, b \in DOMAIN e : a < b => Before12(s[a], s[b])
  BY DEF Sorted12
<1>2. s \in Seq(Vertex \X Vertex) /\ s # <<>> /\ DOMAIN s = DOMAIN e
  BY <1>1, PermutedShape
<1> QED
  BY <1>1, <1>2 DEF Ascending

LEMMA ReverseOrder ==
    ASSUME AdjFileAssumption, NEW e \in Edges, NEW t \in FromTargets(e)
    PROVE  Ascending(t)
<1>1. PICK s \in Sorted21(e) : t = [n \in DOMAIN e |-> <<s[n][2], s[n][1]>>]
  BY DEF FromTargets
<1>2. \A a, b \in DOMAIN e : a < b => Before21(s[a], s[b])
  BY DEF Sorted21
<1>3. SortedInput(t)
  BY ReverseInput
<1>4. ASSUME NEW a \in DOMAIN t, NEW b \in DOMAIN t, a < b
      PROVE  Before12(t[a], t[b])
  <2>1. /\ a \in DOMAIN e /\ b \in DOMAIN e
        /\ t[a] = <<s[a][2], s[a][1]>> /\ t[b] = <<s[b][2], s[b][1]>>
    BY <1>1
  <2>2. Before21(s[a], s[b])
    BY <1>2, <1>4, <2>1
  <2>3. Before12(<<s[a][2], s[a][1]>>, <<s[b][2], s[b][1]>>)
    BY <2>2 DEF Before12, Before21
  <2> QED
    BY <2>1, <2>3
<1> QED
  BY <1>3, <1>4 DEF Ascending, SortedInput

LEMMA ForwardLists ==
    ASSUME AdjFileAssumption, edges \in Edges, NEW s \in Sorted12(edges),
           NEW v \in Vertex, NEW l \in Seq(Vertex), OwnList(s, v, l)
    PROVE  /\ IsListOf(l, "forward", v)
           /\ Len(l) = Cardinality({n \in DOMAIN s : s[n][1] = v})
<1>1. Ascending(s) /\ s \in Permuted(edges) /\ s \in Seq(Pairs)
  BY ForwardOrder DEF Ascending, Pairs
<1>2. \A a, b \in DOMAIN l : a < b => l[a] <= l[b]
  BY <1>1, OwnAscends
<1>3. ASSUME NEW u \in Vertex
      PROVE  Cardinality({a \in DOMAIN l : l[a] = u}) = Times("forward", v, u)
  <2>1. Cardinality({a \in DOMAIN l : l[a] = u}) = Cardinality(Places(s, {<<v, u>>}))
    BY <1>1, OwnTimes
  <2>2. Cardinality(Places(s, {<<v, u>>})) = Cardinality(Places(edges, {<<v, u>>}))
    BY <1>1, PermutedCount
  <2>3. Places(edges, {<<v, u>>}) = {n \in DOMAIN edges : edges[n] = <<v, u>>}
    BY DEF Places
  <2> QED
    BY <2>1, <2>2, <2>3 DEF Times, Edges12
<1>4. Len(l) = Cardinality({n \in DOMAIN s : s[n][1] = v})
  BY <1>1, OwnLength
<1> QED
  BY <1>2, <1>3, <1>4 DEF IsListOf

LEMMA ReverseLists ==
    ASSUME AdjFileAssumption, edges \in Edges, NEW t \in FromTargets(edges),
           NEW v \in Vertex, NEW l \in Seq(Vertex), OwnList(t, v, l)
    PROVE  /\ IsListOf(l, "reverse", v)
           /\ Len(l) = Cardinality(Places(edges, To(v)))
<1>1. PICK s \in Sorted21(edges) :
         t = [n \in DOMAIN edges |-> <<s[n][2], s[n][1]>>]
  BY DEF FromTargets
<1>2. s \in Permuted(edges)
  BY DEF Sorted21
<1>3. s \in Seq(Vertex \X Vertex) /\ DOMAIN s = DOMAIN edges
  BY <1>2, PermutedShape
<1>4. Ascending(t) /\ t \in Seq(Pairs)
  BY ReverseOrder DEF Ascending, Pairs
<1>5. \A a, b \in DOMAIN l : a < b => l[a] <= l[b]
  BY <1>4, OwnAscends
<1>6. DOMAIN t = DOMAIN s /\ \A n \in DOMAIN s : /\ s[n] \in Vertex \X Vertex
                                                 /\ t[n] = <<s[n][2], s[n][1]>>
  BY <1>1, <1>3
<1>7. ASSUME NEW u \in Vertex
      PROVE  Cardinality({a \in DOMAIN l : l[a] = u}) = Times("reverse", v, u)
  <2>1. Cardinality({a \in DOMAIN l : l[a] = u}) = Cardinality(Places(t, {<<v, u>>}))
    BY <1>4, OwnTimes
  <2>2. Places(t, {<<v, u>>}) = Places(s, {<<u, v>>})
    <3>1. \A n \in DOMAIN s : t[n] \in {<<v, u>>} <=> s[n] \in {<<u, v>>}
      BY <1>6
    <3> QED
      BY <1>6, <3>1 DEF Places
  <2>3. Cardinality(Places(s, {<<u, v>>})) = Cardinality(Places(edges, {<<u, v>>}))
    BY <1>2, PermutedCount
  <2>4. Places(edges, {<<u, v>>}) = {n \in DOMAIN edges : edges[n] = <<u, v>>}
    BY DEF Places
  <2> QED
    BY <2>1, <2>2, <2>3, <2>4 DEF Times, Edges12
<1>8. Len(l) = Cardinality(Places(edges, To(v)))
  <2>1. Len(l) = Cardinality({n \in DOMAIN t : t[n][1] = v})
    BY <1>4, OwnLength
  <2>2. {n \in DOMAIN t : t[n][1] = v} = Places(s, To(v))
    <3>1. \A n \in DOMAIN s : t[n][1] = v <=> s[n] \in To(v)
      BY <1>6 DEF To, Pairs
    <3> QED
      BY <1>6, <3>1 DEF Places
  <2> QED
    BY <1>2, <2>1, <2>2, PermutedCount
<1> QED
  BY <1>5, <1>7, <1>8 DEF IsListOf

---------------------------------------------------------------------------
(***************************************************************************)
(* The record that Write leaves is the one getOffset finds.                *)
(***************************************************************************)
Reads(words, at, id, list) ==
    /\ words[at + 1] = id
    /\ SubSeq(words, at + 3, at + 2 + words[at + 2]) = list

LEMMA RecordRead ==
    ASSUME NEW id \in Vertex, NEW list \in Seq(Vertex), AdjFileAssumption,
           NEW words \in Seq(Nat), NEW at,
           RecordAt(words, at, <<id, Len(list)>> \o list)
    PROVE  Reads(words, at, id, list)
<1> DEFINE record == <<id, Len(list)>> \o list
<1>1. /\ Len(record) = 2 + Len(list) /\ Len(list) \in Nat
      /\ record[1] = id /\ record[2] = Len(list)
      /\ \A n \in 1 .. Len(list) : record[2 + n] = list[n]
  BY RecordShape
<1>2. /\ at \in Nat /\ at + Len(record) <= Len(words)
      /\ \A n \in 1 .. Len(record) : words[at + n] = record[n]
  BY DEF RecordAt
<1> HIDE DEF record
<1>3. words[at + 1] = id /\ words[at + 2] = Len(list)
  BY <1>1, <1>2
<1>4. SubSeq(words, at + 3, at + 2 + Len(list)) = list
  <2> DEFINE m == at + 3
             n == at + 2 + Len(list)
             sub == SubSeq(words, m, n)
  <2>1. /\ m \in 1 .. Len(words) + 1 /\ n \in m - 1 .. Len(words)
        /\ Len(words) \in Nat /\ n - m + 1 = Len(list)
    BY <1>1, <1>2
  <2>2. Len(sub) = Len(list) /\ sub \in Seq(Nat)
        /\ \A k \in 1 .. Len(list) : sub[k] = words[m + k - 1]
    <3> HIDE DEF m, n
    <3> QED
      BY <2>1, SubSeqProperties
  <2>3. \A k \in 1 .. Len(list) : sub[k] = list[k]
    <3> SUFFICES ASSUME NEW k \in 1 .. Len(list) PROVE sub[k] = list[k]
      OBVIOUS
    <3>1. m + k - 1 = at + (2 + k) /\ 2 + k \in 1 .. Len(record)
      BY <1>1, <1>2
    <3>2. sub[k] = words[at + (2 + k)]
      BY <2>2, <3>1
    <3> QED
      BY <1>1, <1>2, <3>1, <3>2
  <2> HIDE DEF sub
  <2>4. sub = list
    <3>1. list \in Seq(Nat)
      <4>1. Vertex \subseteq Nat
        BY DEF Vertex
      <4> QED
        BY <4>1, SeqMonotonic, Zenon
    <3> QED
      BY <2>2, <2>3, <3>1, SeqEqual
  <2> QED
    BY <2>4 DEF sub
<1> QED
  BY <1>3, <1>4 DEF Reads

LEMMA WriteFinds ==
    ASSUME AdjFileAssumption, IInv, NEW list \in Seq(Vertex),
           NEW id \in Vertex, id = Upto, Write(id, list), dir' = dir, IInv'
    PROVE  getOffset(dir, id)' = <<id, list>>
<1> DEFINE record == <<id, Len(list)>> \o list
<1>1. TypeOK /\ Layout /\ Open /\ dir \in Dir /\ (files[dir] = <<>> => id = 0)
  BY DEF IInv, Frontier, TypeOK
<1>2. WriteEffect(id, record)
  BY <1>1, WriteMade
<1> DEFINE n == index'[dir][id][2]
           at == Decoded(index'[dir][id][1]) \div IDSize
           words == files'[dir][n]
<1>3. /\ index'[dir][id][1] # 0 /\ n \in DOMAIN files'[dir]
      /\ RecordAt(words, at, record)
      /\ files' \in [Dir -> Seq(Seq(Nat))] /\ start_ID' \in [Dir -> Seq(Vertex)]
      /\ files'[dir] # <<>> /\ Len(start_ID'[dir]) = Len(files'[dir])
      /\ start_ID'[dir][1] = 0
  BY <1>2 DEF WriteEffect, File
<1>4. /\ start_ID'[dir] # <<>> /\ words \in Seq(Nat) /\ ~(id < 0)
  <2>1. files'[dir] \in Seq(Seq(Nat)) /\ start_ID'[dir] \in Seq(Vertex)
    BY <1>1, <1>3
  <2>2. words \in Seq(Nat)
    BY <1>3, <2>1
  <2>3. start_ID'[dir] # <<>>
    <3>1. Len(files'[dir]) # 0
      BY <1>3, <2>1
    <3> QED
      BY <1>3, <3>1
  <2>4. ~(id < 0)
    BY DEF Vertex
  <2> QED
    BY <2>2, <2>3, <2>4
<1>5. Reads(words, at, id, list)
  <2> HIDE DEF words, at
  <2> QED
    BY <1>3, <1>4, RecordRead
<1>6. Words(dir, id)' = words /\ At(dir, id)' = at
  BY DEF Words, At
<1> HIDE DEF words, at, n
<1> QED
  BY <1>3, <1>4, <1>5, <1>6 DEF getOffset, Reads

---------------------------------------------------------------------------
(***************************************************************************)
(* The inductive invariant.                                                *)
(***************************************************************************)
Source ==
    /\ dir = "forward" => input \in Sorted12(edges)
    /\ dir = "reverse" => input \in FromTargets(edges)

\* tempEnt is the run of lastfrom's pairs that ends at pos.
Collected ==
    /\ Len(tempEnt) <= pos
    /\ \A k \in 1 .. Len(tempEnt) :
          input[pos - Len(tempEnt) + k] = <<lastfrom, tempEnt[k]>>
    /\ \A n \in 1 .. pos - Len(tempEnt) : input[n][1] < lastfrom
    /\ pc \in {"gap", "tail"} => lastfrom < i
    /\ pc = "tail" => pos = Len(input)

Written ==
    \A v \in Vertex : v < Upto => OwnList(input, v, getOffset(dir, v)[2])

\* How many of the first n pairs of s have v in place k.
CountOf(s, n, k, v) == Cardinality({a \in 1 .. n : s[a][k] = v})

Counted == IF pc = "gap" THEN pos + 1 ELSE pos

Degrees ==
    dir = "forward" => \A v \in Vertex :
       /\ outdeg[v] = CountOf(input, Counted, 1, v)
       /\ indeg[v] = CountOf(input, Counted, 2, v)

\* What the first pass has left.
ForwardList(v) ==
    /\ IsListOf(getOffset("forward", v)[2], "forward", v)
    /\ outdeg[v] = Len(getOffset("forward", v)[2])
    /\ indeg[v] = Cardinality(Places(edges, To(v)))

ForwardDone == dir = "reverse" => \A v \in Vertex : ForwardList(v)

ListInv == Source /\ Collected /\ Written /\ Degrees /\ ForwardDone

---------------------------------------------------------------------------
(***************************************************************************)
(* What a step keeps of each part.                                         *)
(***************************************************************************)
LEMMA SourceStays ==
    ASSUME Source, UNCHANGED readVars
    PROVE  Source'
<1>1. edges' = edges /\ dir' = dir /\ input' = input
  BY DEF readVars
<1> QED
  BY <1>1 DEF Source

\* A step that writes no record.
LEMMA WrittenStays ==
    ASSUME IInv, Written, Kept, input' = input, dir' = dir, Upto' = Upto
    PROVE  Written'
<1> SUFFICES ASSUME NEW v \in Vertex, v < Upto
             PROVE  OwnList(input, v, getOffset(dir, v)'[2])
  BY DEF Written, OwnList
<1>1. Indexed(dir, v) /\ dir \in Dir
  BY DEF IInv, Frontier, TypeOK
<1>2. getOffset(dir, v)' = getOffset(dir, v)
  BY <1>1 DEF Kept
<1> QED
  BY <1>2 DEF Written

\* A step that writes the list of the next vertex.
LEMMA WrittenGrows ==
    ASSUME AdjFileAssumption, IInv, IInv', Written, Kept, input' = input,
           dir' = dir, NEW id \in Vertex, NEW list \in Seq(Vertex),
           id = Upto, Upto' = id + 1, Write(id, list), OwnList(input, id, list)
    PROVE  Written'
<1> SUFFICES ASSUME NEW v \in Vertex, v < id + 1
             PROVE  OwnList(input, v, getOffset(dir, v)'[2])
  BY DEF Written, OwnList
<1>1. CASE v = id
  <2>1. getOffset(dir, v)' = <<id, list>>
    BY <1>1, WriteFinds
  <2> QED
    BY <1>1, <2>1
<1>2. CASE v # id
  <2>1. v < id
    BY <1>2 DEF Vertex
  <2>2. Indexed(dir, v) /\ dir \in Dir
    BY <2>1 DEF IInv, Frontier, TypeOK
  <2>3. getOffset(dir, v)' = getOffset(dir, v)
    BY <2>2 DEF Kept
  <2> QED
    BY <2>1, <2>3 DEF Written
<1> QED
  BY <1>1, <1>2

LEMMA ForwardListSame ==
    ASSUME NEW v \in Vertex, ForwardList(v), edges' = edges,
           outdeg' = outdeg, indeg' = indeg,
           getOffset("forward", v)' = getOffset("forward", v)
    PROVE  ForwardList(v)'
<1>1. \A u \in Vertex : Times("forward", v, u)' = Times("forward", v, u)
  BY DEF Times, Edges12
<1>2. Places(edges, To(v))' = Places(edges, To(v))
  BY DEF Places, To
<1> DEFINE l == getOffset("forward", v)[2]
<1>3. l' = l
  OBVIOUS
<1>4. IsListOf(l, "forward", v)
  BY DEF ForwardList
<1> HIDE DEF l
<1>5. IsListOf(l, "forward", v)'
  BY <1>1, <1>3, <1>4 DEF IsListOf
<1> QED
  BY <1>2, <1>5 DEF ForwardList, l

LEMMA ForwardStays ==
    ASSUME IInv, ForwardDone, Kept, UNCHANGED readVars,
           dir = "reverse" => UNCHANGED degVars
    PROVE  ForwardDone'
<1>1. edges' = edges /\ dir' = dir
  BY DEF readVars
<1> SUFFICES ASSUME dir = "reverse", NEW v \in Vertex
             PROVE  ForwardList(v)'
  BY <1>1 DEF ForwardDone
<1>2. Indexed("forward", v)
  BY DEF IInv, Frontier
<1>3. getOffset("forward", v)' = getOffset("forward", v)
  BY <1>2 DEF Kept, Dir
<1>4. outdeg' = outdeg /\ indeg' = indeg
  BY DEF degVars
<1>5. ForwardList(v)
  BY DEF ForwardDone
<1> QED
  BY <1>1, <1>3, <1>4, <1>5, ForwardListSame

LEMMA DegreesStay ==
    ASSUME Degrees, UNCHANGED degVars, UNCHANGED readVars, Counted' = Counted
    PROVE  Degrees'
<1>1. outdeg' = outdeg /\ indeg' = indeg /\ dir' = dir /\ input' = input
  BY DEF readVars, degVars
<1> QED
  BY <1>1 DEF Degrees, CountOf

\* One more pair is counted.
LEMMA CountMore ==
    ASSUME NEW s, NEW n \in Nat, NEW k, NEW v
    PROVE  CountOf(s, n + 1, k, v)
             = IF s[n + 1][k] = v THEN CountOf(s, n, k, v) + 1
                                  ELSE CountOf(s, n, k, v)
<1> DEFINE S == {a \in 1 .. n : s[a][k] = v}
           T == {a \in 1 .. n + 1 : s[a][k] = v}
<1>1. IsFiniteSet(S) /\ n + 1 \notin S
  <2>1. IsFiniteSet(1 .. n)
    BY FS_Interval
  <2>2. IsFiniteSet(S)
    BY <2>1, FS_Subset
  <2> QED
    BY <2>2
<1>2. CASE s[n + 1][k] = v
  <2>1. T = S \cup {n + 1}
    BY <1>2
  <2> HIDE DEF S, T
  <2>2. Cardinality(T) = Cardinality(S) + 1
    BY <1>1, <2>1, FS_AddElement
  <2> QED
    BY <1>2, <2>2 DEF CountOf, S, T
<1>3. CASE s[n + 1][k] # v
  <2>1. T = S
    BY <1>3
  <2> QED
    BY <1>3, <2>1 DEF CountOf
<1> QED
  BY <1>2, <1>3

LEMMA DegreesGrow ==
    ASSUME AdjFileAssumption, IInv, Degrees, CountEdge, UNCHANGED readVars,
           pos < Len(input), Counted = pos, Counted' = pos + 1
    PROVE  Degrees'
<1>1. /\ dir' = dir /\ input' = input /\ pos \in Nat
      /\ outdeg \in [Vertex -> Nat] /\ indeg \in [Vertex -> Nat]
  BY Facts DEF readVars, IInv, TypeOK
<1>5. \A k, v : CountOf(input, Counted, k, v)' = CountOf(input, pos + 1, k, v)
  BY <1>1 DEF CountOf
<1> SUFFICES ASSUME dir = "forward", NEW v \in Vertex
             PROVE  /\ outdeg'[v] = CountOf(input, pos + 1, 1, v)
                    /\ indeg'[v] = CountOf(input, pos + 1, 2, v)
  BY <1>1, <1>5 DEF Degrees
<1>2. /\ outdeg' = [outdeg EXCEPT ![input[pos + 1][1]] = @ + 1]
      /\ indeg' = [indeg EXCEPT ![input[pos + 1][2]] = @ + 1]
  BY DEF CountEdge, Edge
<1>3. outdeg[v] = CountOf(input, pos, 1, v) /\ indeg[v] = CountOf(input, pos, 2, v)
  BY DEF Degrees
<1>4. /\ outdeg'[v] = IF input[pos + 1][1] = v THEN outdeg[v] + 1 ELSE outdeg[v]
      /\ indeg'[v] = IF input[pos + 1][2] = v THEN indeg[v] + 1 ELSE indeg[v]
  BY <1>1, <1>2
<1> QED
  BY <1>1, <1>3, <1>4, CountMore

---------------------------------------------------------------------------
(***************************************************************************)
(* The run that is being collected.                                        *)
(***************************************************************************)
LEMMA Around ==
    ASSUME AdjFileAssumption, IInv, Collected
    PROVE  /\ \A n \in 1 .. pos : input[n][1] <= lastfrom
           /\ pos < Len(input) =>
                 \A n \in DOMAIN input : pos < n => Edge[1] <= input[n][1]
           /\ \A n \in DOMAIN input : input[n][1] \in Nat
           /\ DOMAIN input = 1 .. Len(input)
<1>1. /\ pos \in Nat /\ lastfrom \in Nat /\ Len(tempEnt) \in Nat
      /\ Len(input) \in Nat /\ DOMAIN input = 1 .. Len(input)
      /\ pos <= Len(input)
  BY Facts
<1>2. \A n \in DOMAIN input : input[n][1] \in Nat
  <2>1. input \in Seq(Vertex \X Vertex)
    BY Facts
  <2> QED
    BY <2>1 DEF Vertex
<1>3. ASSUME NEW n \in 1 .. pos PROVE input[n][1] <= lastfrom
  <2>1. CASE n <= pos - Len(tempEnt)
    <3>1. n \in 1 .. pos - Len(tempEnt) /\ n \in DOMAIN input
      BY <1>1, <2>1
    <3>2. input[n][1] < lastfrom
      BY <3>1 DEF Collected
    <3> QED
      BY <1>1, <1>2, <3>1, <3>2
  <2>2. CASE n > pos - Len(tempEnt)
    <3> DEFINE k == n - (pos - Len(tempEnt))
    <3>1. k \in 1 .. Len(tempEnt) /\ pos - Len(tempEnt) + k = n
      BY <1>1, <2>2 DEF Collected
    <3>2. input[pos - Len(tempEnt) + k] = <<lastfrom, tempEnt[k]>>
      BY <3>1 DEF Collected
    <3> HIDE DEF k
    <3> QED
      BY <1>1, <3>1, <3>2
  <2> QED
    BY <1>1, <2>1, <2>2
<1>4. ASSUME pos < Len(input), NEW n \in DOMAIN input, pos < n
      PROVE  Edge[1] <= input[n][1]
  <2>1. pos + 1 \in DOMAIN input /\ (pos + 1 = n \/ pos + 1 < n)
    BY <1>1, <1>4
  <2>2. CASE pos + 1 = n
    BY <1>2, <2>1, <2>2 DEF Edge
  <2>3. CASE pos + 1 < n
    BY <2>1, <2>3 DEF IInv, Sorted, Edge
  <2> QED
    BY <2>1, <2>2, <2>3
<1> QED
  BY <1>1, <1>2, <1>3, <1>4

\* A vertex without edges has the empty list.
LEMMA EmptyOwn ==
    ASSUME AdjFileAssumption, IInv, Collected, pc \in {"lead", "gap", "tail"},
           pc = "lead" => i < lastfrom, pc = "gap" => i < Edge[1]
    PROVE  OwnList(input, i, <<>>)
<1>1. /\ i \in Nat /\ lastfrom \in Nat /\ pos \in Nat /\ Len(input) \in Nat
      /\ input # <<>> /\ pos <= Len(input)
      /\ pos < Len(input) => Edge[1] \in Nat
  BY Facts
<1>2. ASSUME NEW n \in DOMAIN input PROVE input[n][1] # i
  <2>1. n \in 1 .. Len(input) /\ input[n][1] \in Nat /\ 1 \in DOMAIN input
    BY <1>1, Around
  <2>2. CASE pc = "lead"
    <3>1. lastfrom = input[1][1]
      BY <2>2 DEF IInv, Place
    <3>2. n = 1 \/ (1 < n /\ input[1][1] <= input[n][1])
      BY <2>1 DEF IInv, Sorted
    <3> QED
      BY <1>1, <2>1, <2>2, <3>1, <3>2
  <2>3. CASE pc \in {"gap", "tail"} /\ n <= pos
    <3>1. input[n][1] <= lastfrom /\ lastfrom < i
      BY <1>1, <2>1, <2>3, Around DEF Collected
    <3> QED
      BY <1>1, <2>1, <3>1
  <2>4. CASE pc = "gap" /\ pos < n
    <3>1. pos < Len(input)
      BY <1>1, <2>1, <2>4
    <3>2. Edge[1] <= input[n][1]
      BY <2>4, <3>1, Around
    <3> QED
      BY <1>1, <2>1, <2>4, <3>1, <3>2
  <2>5. CASE pc = "tail" /\ pos < n
    BY <1>1, <2>1, <2>5 DEF Collected
  <2> QED
    BY <1>1, <2>1, <2>2, <2>3, <2>4, <2>5
<1>3. 0 \in 0 .. Len(input) /\ Len(<<>>) = 0
  BY <1>1
<1> QED
  BY <1>2, <1>3 DEF OwnList

\* The collected run is all that lastfrom has.
LEMMA CollectedOwn ==
    ASSUME AdjFileAssumption, IInv, Collected,
           pos < Len(input) => lastfrom < Edge[1]
    PROVE  OwnList(input, lastfrom, tempEnt)
<1>1. /\ lastfrom \in Nat /\ pos \in Nat /\ Len(input) \in Nat
      /\ pos <= Len(input) /\ Len(tempEnt) \in Nat
      /\ pos < Len(input) => Edge[1] \in Nat
  BY Facts
<1> DEFINE a == pos - Len(tempEnt)
<1>2. a \in 0 .. Len(input) /\ a + Len(tempEnt) = pos
  BY <1>1 DEF Collected
<1>3. \A k \in 1 .. Len(tempEnt) : input[a + k] = <<lastfrom, tempEnt[k]>>
  BY DEF Collected
<1>4. ASSUME NEW n \in DOMAIN input, input[n][1] = lastfrom
      PROVE  a + 1 <= n /\ n <= a + Len(tempEnt)
  <2>1. n \in 1 .. Len(input) /\ n \in Nat
    BY Around
  <2>2. ~(n <= a)
    <3>1. ASSUME n <= a PROVE FALSE
      <4>1. n \in 1 .. pos - Len(tempEnt)
        BY <1>1, <2>1, <3>1
      <4>2. input[n][1] < lastfrom
        BY <4>1 DEF Collected
      <4> QED
        BY <1>1, <1>4, <4>2
    <3> QED
      BY <3>1
  <2>3. ~(pos < n)
    <3>1. ASSUME pos < n PROVE FALSE
      <4>1. pos < Len(input)
        BY <1>1, <2>1, <3>1
      <4>2. Edge[1] <= lastfrom
        BY <1>4, <3>1, <4>1, Around
      <4> QED
        BY <1>1, <4>1, <4>2
    <3> QED
      BY <3>1
  <2> HIDE DEF a
  <2> QED
    BY <1>1, <1>2, <2>1, <2>2, <2>3
<1> HIDE DEF a
<1> QED
  BY <1>1, <1>2, <1>3, <1>4, Facts DEF OwnList

---------------------------------------------------------------------------
(***************************************************************************)
(* The induction.                                                          *)
(***************************************************************************)
LEMMA InitLists ==
    ASSUME AdjFileAssumption, Init
    PROVE  ListInv
<1>1. /\ pc = "lead" /\ dir = "forward" /\ input \in Sorted12(edges)
      /\ pos = 0 /\ tempEnt = <<>> /\ i = 0
      /\ indeg = [v \in Vertex |-> 0] /\ outdeg = [v \in Vertex |-> 0]
  BY DEF Init
<1>2. Source /\ ForwardDone
  BY <1>1 DEF Source, ForwardDone
<1>3. Collected
  BY <1>1 DEF Collected
<1>4. Written
  BY <1>1 DEF Written, Upto, Vertex
<1>5. Degrees
  <2>1. Counted = 0
    BY <1>1 DEF Counted
  <2>2. ASSUME NEW k, NEW v PROVE CountOf(input, 0, k, v) = 0
    <3>1. {a \in 1 .. 0 : input[a][k] = v} = {}
      OBVIOUS
    <3> QED
      BY <3>1, FS_EmptySet DEF CountOf
  <2> QED
    BY <1>1, <2>1, <2>2 DEF Degrees
<1> QED
  BY <1>2, <1>3, <1>4, <1>5 DEF ListInv

LEMMA EmptyLists ==
    ASSUME AdjFileAssumption, IInv, ListInv, WriteEmpty, i <= maxID,
           pc \in {"lead", "gap", "tail"},
           pc = "lead" => i < lastfrom, pc = "gap" => i < Edge[1]
    PROVE  ListInv'
<1>1. /\ i' = i + 1 /\ Write(i, <<>>) /\ UNCHANGED readVars /\ UNCHANGED degVars
      /\ pc' = pc /\ pos' = pos /\ lastfrom' = lastfrom /\ tempEnt' = tempEnt
      /\ dir' = dir /\ input' = input
  BY DEF WriteEmpty, readVars
<1>2. IInv' /\ Kept
  BY EmptyStep
<1>3. Source /\ Collected /\ Written /\ Degrees /\ ForwardDone
  BY DEF ListInv
<1>4. Source' /\ ForwardDone'
  BY <1>1, <1>2, <1>3, SourceStays, ForwardStays
<1>5. Collected'
  BY <1>1, <1>3, Facts DEF Collected
<1>6. Written'
  <2>1. Upto = i /\ Upto' = i + 1
    BY <1>1 DEF Upto
  <2>2. OwnList(input, i, <<>>)
    BY <1>3, EmptyOwn
  <2>3. i \in Vertex /\ <<>> \in Seq(Vertex)
    BY Facts DEF Vertex
  <2> QED
    BY <1>1, <1>2, <1>3, <2>1, <2>2, <2>3, WrittenGrows
<1>7. Degrees'
  <2>1. Counted' = Counted
    BY <1>1 DEF Counted
  <2> QED
    BY <1>1, <1>3, <2>1, DegreesStay
<1> QED
  BY <1>4, <1>5, <1>6, <1>7 DEF ListInv

LEMMA LeadEndLists ==
    ASSUME AdjFileAssumption, IInv, ListInv, LeadEnd
    PROVE  ListInv'
<1>1. /\ pc = "lead" /\ i >= lastfrom /\ pc' = "read"
      /\ pos' = pos /\ lastfrom' = lastfrom /\ tempEnt' = tempEnt /\ i' = i
      /\ UNCHANGED readVars /\ UNCHANGED degVars /\ dir' = dir /\ input' = input
  BY DEF LeadEnd, readVars
<1>2. IInv' /\ Kept
  BY LeadEndStep
<1>3. Source /\ Collected /\ Written /\ Degrees /\ ForwardDone
  BY DEF ListInv
<1>4. Source' /\ ForwardDone'
  BY <1>1, <1>2, <1>3, SourceStays, ForwardStays
<1>5. Collected'
  BY <1>1, <1>3 DEF Collected
<1>6. Written'
  <2>1. i <= lastfrom
    BY <1>1 DEF IInv, Place
  <2>2. Upto' = Upto
    BY <1>1, <2>1, Facts DEF Upto
  <2> QED
    BY <1>1, <1>2, <1>3, <2>2, WrittenStays
<1>7. Degrees'
  <2>1. Counted' = Counted
    BY <1>1 DEF Counted
  <2> QED
    BY <1>1, <1>3, <2>1, DegreesStay
<1> QED
  BY <1>4, <1>5, <1>6, <1>7 DEF ListInv

LEMMA CollectLists ==
    ASSUME AdjFileAssumption, IInv, ListInv, Collect
    PROVE  ListInv'
<1>1. /\ pc = "read" /\ pos < Len(input) /\ Edge[1] = lastfrom
      /\ tempEnt' = Append(tempEnt, Edge[2]) /\ pos' = pos + 1 /\ CountEdge
      /\ pc' = pc /\ i' = i /\ lastfrom' = lastfrom
      /\ dir' = dir /\ input' = input /\ UNCHANGED readVars
  BY DEF Collect, readVars
<1>2. IInv' /\ Kept
  BY CollectStep
<1>3. Source /\ Collected /\ Written /\ Degrees /\ ForwardDone
  BY DEF ListInv
<1>4. dir = "reverse" => UNCHANGED degVars
  BY <1>1 DEF CountEdge
<1>5. Source' /\ ForwardDone'
  BY <1>1, <1>2, <1>3, <1>4, SourceStays, ForwardStays
<1>6. Collected'
  <2>1. /\ tempEnt \in Seq(Vertex) /\ Edge \in Vertex \X Vertex /\ pos \in Nat
        /\ Edge = input[pos + 1]
    BY <1>1, Facts DEF Edge
  <2> DEFINE m == Len(tempEnt)
  <2>2. m \in Nat /\ Len(tempEnt') = m + 1 /\ tempEnt'[m + 1] = Edge[2]
        /\ \A k \in 1 .. m : tempEnt'[k] = tempEnt[k]
    BY <1>1, <2>1
  <2>3. /\ m <= pos
        /\ \A k \in 1 .. m : input[pos - m + k] = <<lastfrom, tempEnt[k]>>
        /\ \A n \in 1 .. pos - m : input[n][1] < lastfrom
    BY <1>3 DEF Collected
  <2> HIDE DEF m
  <2>4. pos' - Len(tempEnt') = pos - m /\ Len(tempEnt') <= pos'
    <3>1. pos' = pos + 1 /\ Len(tempEnt') = m + 1 /\ m \in Nat /\ m <= pos
      BY <1>1, <2>2, <2>3
    <3> QED
      BY <2>1, <3>1
  <2>5. ASSUME NEW k \in 1 .. Len(tempEnt')
        PROVE  input[pos - m + k] = <<lastfrom, tempEnt'[k]>>
    <3>1. CASE k = m + 1
      <4>1. pos - m + k = pos + 1
        BY <2>1, <2>2, <3>1
      <4>2. Edge = <<lastfrom, Edge[2]>>
        BY <1>1, <2>1
      <4> QED
        BY <2>1, <2>2, <3>1, <4>1, <4>2
    <3>2. CASE k # m + 1
      BY <2>2, <2>3, <3>2
    <3> QED
      BY <3>1, <3>2
  <2>6. /\ \A k \in 1 .. Len(tempEnt') :
              input'[pos' - Len(tempEnt') + k] = <<lastfrom', tempEnt'[k]>>
        /\ \A n \in 1 .. pos' - Len(tempEnt') : input'[n][1] < lastfrom'
    BY <1>1, <2>3, <2>4, <2>5
  <2> QED
    BY <1>1, <2>4, <2>6 DEF Collected
<1>7. Written'
  <2>1. Upto' = Upto
    BY <1>1 DEF Upto
  <2> QED
    BY <1>1, <1>2, <1>3, <2>1, WrittenStays
<1>8. Degrees'
  <2>1. Counted = pos /\ Counted' = pos + 1
    BY <1>1 DEF Counted
  <2> QED
    BY <1>1, <1>3, <2>1, DegreesGrow
<1> QED
  BY <1>5, <1>6, <1>7, <1>8 DEF ListInv

LEMMA FinishLists ==
    ASSUME AdjFileAssumption, IInv, ListInv, Finish
    PROVE  ListInv'
<1>1. /\ pc = "read" /\ pos < Len(input)
      /\ Write(lastfrom, tempEnt) /\ pc' = "gap" /\ i' = lastfrom + 1
      /\ CountEdge /\ pos' = pos /\ lastfrom' = lastfrom /\ tempEnt' = tempEnt
      /\ dir' = dir /\ input' = input /\ UNCHANGED readVars
  BY DEF Finish, readVars, AfterLast
<1>2. IInv' /\ Kept
  BY FinishStep
<1>3. Source /\ Collected /\ Written /\ Degrees /\ ForwardDone
  BY DEF ListInv
<1>4. dir = "reverse" => UNCHANGED degVars
  BY <1>1 DEF CountEdge
<1>5. Source' /\ ForwardDone'
  BY <1>1, <1>2, <1>3, <1>4, SourceStays, ForwardStays
<1>6. Collected'
  BY <1>1, <1>3, Facts DEF Collected
<1>7. lastfrom < Edge[1]
  <2>1. i' <= Edge'[1] /\ Edge' = Edge
    BY <1>1, <1>2 DEF IInv, Place, Edge
  <2> QED
    BY <1>1, <2>1, Facts
<1>8. Written'
  <2>1. Upto = lastfrom /\ Upto' = lastfrom + 1
    BY <1>1 DEF Upto
  <2>2. OwnList(input, lastfrom, tempEnt)
    BY <1>3, <1>7, CollectedOwn
  <2> QED
    BY <1>1, <1>2, <1>3, <2>1, <2>2, Facts, WrittenGrows
<1>9. Degrees'
  <2>1. Counted = pos /\ Counted' = pos + 1
    BY <1>1 DEF Counted
  <2> QED
    BY <1>1, <1>3, <2>1, DegreesGrow
<1> QED
  BY <1>5, <1>6, <1>8, <1>9 DEF ListInv

LEMMA GapEndLists ==
    ASSUME AdjFileAssumption, IInv, ListInv, GapEnd
    PROVE  ListInv'
<1>1. /\ pc = "gap" /\ i >= Edge[1] /\ pc' = "read"
      /\ tempEnt' = <<Edge[2]>> /\ lastfrom' = Edge[1] /\ pos' = pos + 1
      /\ i' = i /\ UNCHANGED degVars /\ UNCHANGED readVars
      /\ dir' = dir /\ input' = input
  BY DEF GapEnd, readVars
<1>2. IInv' /\ Kept
  BY GapEndStep
<1>3. Source /\ Collected /\ Written /\ Degrees /\ ForwardDone
  BY DEF ListInv
<1>4. Source' /\ ForwardDone'
  BY <1>1, <1>2, <1>3, SourceStays, ForwardStays
<1>5. pos < Len(input) /\ i <= Edge[1] /\ lastfrom < i
  BY <1>1, <1>3 DEF IInv, Place, Collected
<1>6. Collected'
  <2>1. /\ input \in Seq(Vertex \X Vertex) /\ pos \in Nat /\ lastfrom \in Nat
        /\ pos + 1 \in DOMAIN input /\ Edge[1] \in Nat /\ i \in Nat
        /\ Edge = input[pos + 1]
    BY <1>5, Facts DEF Edge
  <2>2. Edge = <<Edge[1], Edge[2]>>
    BY <2>1
  <2>3. Len(tempEnt') = 1 /\ pos' - Len(tempEnt') = pos /\ tempEnt'[1] = Edge[2]
    BY <1>1, <2>1
  <2>4. \A k \in 1 .. 1 : input[pos + k] = <<Edge[1], tempEnt'[k]>>
    BY <2>1, <2>2, <2>3
  <2>5. ASSUME NEW n \in 1 .. pos PROVE input[n][1] < Edge[1]
    <3>1. input[n][1] <= lastfrom /\ n \in DOMAIN input /\ input[n][1] \in Nat
      BY <1>3, <1>5, <2>1, Around
    <3> QED
      BY <1>5, <2>1, <3>1
  <2>6. Len(tempEnt') <= pos'
    BY <1>1, <2>1, <2>3
  <2> QED
    BY <1>1, <2>3, <2>4, <2>5, <2>6 DEF Collected
<1>7. Written'
  <2>1. Upto' = Upto
    BY <1>1, <1>5, Facts DEF Upto
  <2> QED
    BY <1>1, <1>2, <1>3, <2>1, WrittenStays
<1>8. Degrees'
  <2>1. Counted' = Counted
    BY <1>1 DEF Counted
  <2> QED
    BY <1>1, <1>3, <2>1, DegreesStay
<1> QED
  BY <1>4, <1>6, <1>7, <1>8 DEF ListInv

LEMMA FinishLastLists ==
    ASSUME AdjFileAssumption, IInv, ListInv, FinishLast
    PROVE  ListInv'
<1>1. /\ pc = "read" /\ pos = Len(input) /\ Write(lastfrom, tempEnt)
      /\ pc' = "tail" /\ i' = lastfrom + 1 /\ pos' = pos /\ lastfrom' = lastfrom
      /\ tempEnt' = tempEnt /\ UNCHANGED degVars /\ UNCHANGED readVars
      /\ dir' = dir /\ input' = input
  BY DEF FinishLast, readVars, AfterLast
<1>2. IInv' /\ Kept
  BY FinishLastStep
<1>3. Source /\ Collected /\ Written /\ Degrees /\ ForwardDone
  BY DEF ListInv
<1>4. Source' /\ ForwardDone'
  BY <1>1, <1>2, <1>3, SourceStays, ForwardStays
<1>5. Collected'
  BY <1>1, <1>3, Facts DEF Collected
<1>6. Written'
  <2>1. Upto = lastfrom /\ Upto' = lastfrom + 1
    BY <1>1 DEF Upto
  <2>2. OwnList(input, lastfrom, tempEnt)
    BY <1>1, <1>3, Facts, CollectedOwn
  <2> QED
    BY <1>1, <1>2, <1>3, <2>1, <2>2, Facts, WrittenGrows
<1>7. Degrees'
  <2>1. Counted' = Counted
    BY <1>1 DEF Counted
  <2> QED
    BY <1>1, <1>3, <2>1, DegreesStay
<1> QED
  BY <1>4, <1>5, <1>6, <1>7 DEF ListInv

LEMMA CloseLists ==
    ASSUME AdjFileAssumption, IInv, ListInv, Close
    PROVE  ListInv'
<1>1. /\ pc = "tail" /\ i > maxID /\ pc' = "done" /\ i' = i /\ pos' = pos
      /\ lastfrom' = lastfrom /\ tempEnt' = tempEnt
      /\ UNCHANGED degVars /\ UNCHANGED readVars /\ dir' = dir /\ input' = input
  BY DEF Close, readVars
<1>2. IInv' /\ Kept
  BY CloseStep
<1>3. Source /\ Collected /\ Written /\ Degrees /\ ForwardDone
  BY DEF ListInv
<1>4. Source' /\ ForwardDone'
  BY <1>1, <1>2, <1>3, SourceStays, ForwardStays
<1>5. Collected'
  BY <1>1, <1>3 DEF Collected
<1>6. Written'
  <2>1. Upto' = Upto
    BY <1>1, Facts DEF Upto
  <2> QED
    BY <1>1, <1>2, <1>3, <2>1, WrittenStays
<1>7. Degrees'
  <2>1. Counted' = Counted
    BY <1>1 DEF Counted
  <2> QED
    BY <1>1, <1>3, <2>1, DegreesStay
<1> QED
  BY <1>4, <1>5, <1>6, <1>7 DEF ListInv

\* The first pass is over: what is written are the lists of its edges.
LEMMA ForwardOver ==
    ASSUME AdjFileAssumption, IInv, ListInv, pc = "tail", i > maxID,
           dir = "forward", NEW v \in Vertex
    PROVE  ForwardList(v)
<1>1. /\ Source /\ Collected /\ Written /\ Degrees /\ edges \in Edges
      /\ input \in Sorted12(edges) /\ Len(input) \in Nat
      /\ pos = Len(input) /\ Counted = Len(input) /\ DOMAIN input = 1 .. Len(input)
  BY Facts DEF ListInv, Source, Collected, Counted, IInv, Sorted
<1> DEFINE l == getOffset("forward", v)[2]
<1>2. OwnList(input, v, l)
  <2>1. Upto = i /\ v < i
    BY Facts DEF Upto, Vertex
  <2> QED
    BY <1>1, <2>1 DEF Written
<1>3. l \in Seq(Vertex)
  BY <1>2 DEF OwnList
<1> HIDE DEF l
<1>4. /\ IsListOf(l, "forward", v)
      /\ Len(l) = Cardinality({n \in DOMAIN input : input[n][1] = v})
  BY <1>1, <1>2, <1>3, ForwardLists
<1>5. outdeg[v] = Len(l)
  BY <1>1, <1>4 DEF Degrees, CountOf
<1>6. indeg[v] = Cardinality(Places(edges, To(v)))
  <2>1. indeg[v] = Cardinality({n \in 1 .. Len(input) : input[n][2] = v})
    BY <1>1 DEF Degrees, CountOf
  <2>2. {n \in 1 .. Len(input) : input[n][2] = v} = Places(input, To(v))
    <3>1. \A n \in DOMAIN input : input[n] \in Pairs
      BY Facts DEF Pairs
    <3> QED
      BY <1>1, <3>1 DEF Places, To
  <2>3. input \in Permuted(edges)
    BY <1>1 DEF Sorted12
  <2>4. Cardinality(Places(input, To(v))) = Cardinality(Places(edges, To(v)))
    BY <1>1, <2>3, PermutedCount
  <2> QED
    BY <2>1, <2>2, <2>4
<1> QED
  BY <1>4, <1>5, <1>6 DEF ForwardList, l

LEMMA StartReverseLists ==
    ASSUME AdjFileAssumption, IInv, ListInv, StartReverse
    PROVE  ListInv'
<1>1. /\ pc = "tail" /\ i > maxID /\ dir = "forward"
      /\ dir' = "reverse" /\ pc' = "lead" /\ edges' = edges
      /\ input' \in FromTargets(edges)
      /\ pos' = 0 /\ tempEnt' = <<>> /\ i' = 0
      /\ files' = files /\ index' = index
      /\ start_ID' = start_ID /\ indeg' = indeg /\ outdeg' = outdeg
  BY DEF StartReverse, degVars
<1>2. Source'
  BY <1>1 DEF Source
<1>3. Collected'
  BY <1>1 DEF Collected
<1>4. Written'
  <2>1. Upto' = 0 /\ \A v \in Vertex : ~(v < 0)
    BY <1>1 DEF Upto, Vertex
  <2> QED
    BY <2>1 DEF Written
<1>5. Degrees'
  BY <1>1 DEF Degrees
<1>6. ForwardDone'
  <2> SUFFICES ASSUME NEW v \in Vertex PROVE ForwardList(v)'
    BY DEF ForwardDone
  <2>1. ForwardList(v)
    BY <1>1, ForwardOver
  <2>2. getOffset("forward", v)' = getOffset("forward", v)
    BY <1>1 DEF getOffset, Words, At
  <2> QED
    BY <1>1, <2>1, <2>2, ForwardListSame
<1> QED
  BY <1>2, <1>3, <1>4, <1>5, <1>6 DEF ListInv

LEMMA StepLists ==
    ASSUME AdjFileAssumption, IInv, ListInv, Next
    PROVE  ListInv'
<1>1. CASE Lead
  BY <1>1, EmptyLists, Facts DEF Lead
<1>2. CASE LeadEnd
  BY <1>2, LeadEndLists
<1>3. CASE Collect
  BY <1>3, CollectLists
<1>4. CASE Finish
  BY <1>4, FinishLists
<1>5. CASE Gap
  <2>1. pos < Len(input)
    BY <1>5 DEF Gap, IInv, Place
  <2>2. i <= maxID
    BY <1>5, <2>1, Facts DEF Gap
  <2> QED
    BY <1>5, <2>2, EmptyLists DEF Gap
<1>6. CASE GapEnd
  BY <1>6, GapEndLists
<1>7. CASE FinishLast
  BY <1>7, FinishLastLists
<1>8. CASE Trail
  BY <1>8, EmptyLists DEF Trail
<1>9. CASE StartReverse
  BY <1>9, StartReverseLists
<1>10. CASE Close
  BY <1>10, CloseLists
<1> QED
  BY <1>1, <1>2, <1>3, <1>4, <1>5, <1>6, <1>7, <1>8, <1>9, <1>10 DEF Next

LEMMA StutterLists ==
    ASSUME IInv, ListInv, UNCHANGED vars
    PROVE  ListInv'
<1>1. /\ edges' = edges /\ dir' = dir /\ input' = input /\ pc' = pc
      /\ pos' = pos /\ lastfrom' = lastfrom /\ tempEnt' = tempEnt /\ i' = i
      /\ UNCHANGED readVars /\ UNCHANGED fileVars /\ UNCHANGED degVars
  BY DEF vars, readVars
<1>2. Upto' = Upto /\ Counted' = Counted
  BY <1>1 DEF Upto, Counted
<1>3. Kept
  BY <1>1, <1>2, Idle
<1>4. Collected'
  BY <1>1 DEF ListInv, Collected
<1> QED
  BY <1>1, <1>2, <1>3, <1>4, SourceStays, WrittenStays, DegreesStay, ForwardStays
  DEF ListInv

\* Every reachable state is one that both invariants describe.
THEOREM ListInvariance == Spec => [](IInv /\ ListInv)
<1>1. Init => IInv /\ ListInv
  BY AdjFileAssumption, InitHolds, InitLists
<1>2. IInv /\ ListInv /\ [Next]_vars => (IInv /\ ListInv)'
  BY AdjFileAssumption, StepHolds, StutterHolds, StepLists, StutterLists
<1> QED
  BY <1>1, <1>2, PTL DEF Spec

---------------------------------------------------------------------------
(***************************************************************************)
(* When both passes are over, the record that getOffset finds for a vertex *)
(* holds the vertex's own list in either direction, ascending and with     *)
(* every parallel edge, and degree[] counts the lengths of the two lists.  *)
(***************************************************************************)
THEOREM ListsFoundTheorem == Spec => []ListsFound
<1>1. ASSUME IInv, ListInv PROVE ListsFound
  <2> SUFFICES ASSUME pc = "done"
               PROVE  /\ \A d \in Dir, v \in Vertex :
                            IsListOf(getOffset(d, v)[2], d, v)
                      /\ \A v \in Vertex :
                            /\ outdeg[v] = Len(getOffset("forward", v)[2])
                            /\ indeg[v] = Len(getOffset("reverse", v)[2])
    BY DEF ListsFound
  <2>1. /\ dir = "reverse" /\ Upto = maxID + 1 /\ edges \in Edges
        /\ input \in FromTargets(edges)
    BY <1>1 DEF IInv, ListInv, Place, Sorted, Source, Upto
  <2>2. ASSUME NEW v \in Vertex
        PROVE  /\ IsListOf(getOffset("reverse", v)[2], "reverse", v)
               /\ Len(getOffset("reverse", v)[2]) = Cardinality(Places(edges, To(v)))
    <3> DEFINE l == getOffset("reverse", v)[2]
    <3>1. v < maxID + 1
      BY AdjFileAssumption DEF AdjFileAssumption, Vertex
    <3>2. OwnList(input, v, l)
      BY <1>1, <2>1, <3>1 DEF ListInv, Written
    <3> HIDE DEF l
    <3>3. l \in Seq(Vertex)
      BY <3>2 DEF OwnList
    <3>4. /\ IsListOf(l, "reverse", v)
          /\ Len(l) = Cardinality(Places(edges, To(v)))
      BY <2>1, <3>2, <3>3, AdjFileAssumption, ReverseLists
    <3> QED
      BY <3>4 DEF l
  <2>3. \A v \in Vertex : ForwardList(v)
    BY <1>1, <2>1 DEF ListInv, ForwardDone
  <2> QED
    BY <2>2, <2>3 DEF ForwardList, Dir
<1> QED
  BY <1>1, ListInvariance, PTL
===========================================================================
