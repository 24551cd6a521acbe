----------------------------- MODULE AdjFile -----------------------------
(***************************************************************************)
(* How Graph (Matrix/Graph.cpp) stores adjacency lists: construct_adj      *)
(* writes the successors of every vertex and counts degrees, after it      *)
(* construct_reverse_adj writes the predecessors.  Both read the edges in  *)
(* sorted order, write one record per id (the id, the count, the list) to  *)
(* a row of files, start a new file when one is full, and index every id   *)
(* by file and offset for getOffset.  construct_adj_DAG,                   *)
(* construct_reverse_adj_DAG and generate_DAG_reverse_adj store the        *)
(* condensed graph in the same way.                                        *)
(*                                                                         *)
(* A file is a sequence of ids.  Offsets count bytes, as in the code.      *)
(***************************************************************************)
EXTENDS Integers, Sequences, FiniteSets, Functions

CONSTANTS
    maxID,      \* the largest vertex id
    Edges,      \* the edge files: sequences of pairs <<from, to>>
    Limit       \* bytes a file must stay below, (unsigned)(-1) / 8 in the code

Vertex == 0 .. maxID

IDSize == 4     \* sizeof(ID)

ASSUME AdjFileAssumption ==
    /\ maxID \in Nat /\ Limit \in Nat
    /\ \A e \in Edges : e \in Seq(Vertex \X Vertex) /\ e # <<>>

Dir == {"forward", "reverse"}

VARIABLES
    edges,          \* the edge file
    pc,             \* the loop the writer is in
    dir,            \* which of the lists is being written
    input,          \* the sorted edges, as pairs <<vertex, neighbour>>
    pos,            \* how many of them are stored in a list
    lastfrom,       \* the vertex whose list is being collected
    tempEnt,        \* that list
    i,              \* the vertex without edges to write next
    files,          \* per direction, the contents of its files
    fileOff,        \* the length in bytes of the last file
    index,          \* per direction, id to <<offset, file>>; offset 0: none
    start_ID,       \* per direction, the first id of each file
    indeg, outdeg   \* degree[]

readVars == <<edges, dir, input>>
fileVars == <<files, fileOff, index, start_ID>>
degVars == <<indeg, outdeg>>
vars == <<readVars, pc, pos, lastfrom, tempEnt, i, fileVars, degVars>>

---------------------------------------------------------------------------
(***************************************************************************)
(* Sorter::sort with TempFile::compare12 and compare21.                    *)
(***************************************************************************)
Permuted(e) ==
    {[n \in DOMAIN e |-> e[p[n]]] : p \in Bijection(DOMAIN e, DOMAIN e)}

Before12(a, b) == a[1] < b[1] \/ (a[1] = b[1] /\ a[2] <= b[2])
Before21(a, b) == a[2] < b[2] \/ (a[2] = b[2] /\ a[1] <= b[1])

Sorted12(e) ==
    {s \in Permuted(e) : \A a, b \in DOMAIN e : a < b => Before12(s[a], s[b])}

Sorted21(e) ==
    {s \in Permuted(e) : \A a, b \in DOMAIN e : a < b => Before21(s[a], s[b])}

\* The edges as construct_reverse_adj reads them: each from its target.
FromTargets(e) ==
    {[n \in DOMAIN e |-> <<s[n][2], s[n][1]>>] : s \in Sorted21(e)}

Init ==
    /\ edges \in Edges
    /\ pc = "lead" /\ dir = "forward"
    /\ input \in Sorted12(edges)
    /\ pos = 0 /\ lastfrom = input[1][1] /\ tempEnt = <<>> /\ i = 0
    /\ files = [d \in Dir |-> <<>>] /\ fileOff = 0
    /\ index = [d \in Dir |-> [v \in Vertex |-> <<0, 0>>]]
    /\ start_ID = [d \in Dir |-> <<>>]
    /\ indeg = [v \in Vertex |-> 0] /\ outdeg = [v \in Vertex |-> 0]

---------------------------------------------------------------------------
(***************************************************************************)
(* One record.  It goes to the last file unless there is none yet or it    *)
(* would fill it; a record at the start of a file is indexed at offset 1,  *)
(* because 0 means that there is no record.                                *)
(***************************************************************************)
Fits(size) == files[dir] # <<>> /\ fileOff + size < Limit

\* Mutant: the first record of a file is indexed at its real offset.
StartOffsetZero == 0

StartOffset == 1

Write(id, list) ==
    LET record == <<id, Len(list)>> \o list
        size == IDSize * Len(record)
        last == Len(files[dir])
    IN  IF Fits(size)
        THEN /\ files' = [files EXCEPT ![dir][last] = @ \o record]
             /\ index' = [index EXCEPT ![dir][id] = <<fileOff, last>>]
             /\ fileOff' = fileOff + size
             /\ UNCHANGED start_ID
        ELSE /\ files' = [files EXCEPT ![dir] = Append(@, record)]
             /\ index' = [index EXCEPT ![dir][id] = <<StartOffset, last + 1>>]
             /\ fileOff' = size
             /\ start_ID' = [start_ID EXCEPT ![dir] = Append(@, id)]

\* A vertex without edges.
WriteEmpty ==
    /\ Write(i, <<>>)
    /\ i' = i + 1
    /\ UNCHANGED <<readVars, pc, pos, lastfrom, tempEnt, degVars>>

---------------------------------------------------------------------------
\* The vertices before the first one that has edges.
Lead == pc = "lead" /\ i < lastfrom /\ WriteEmpty

LeadEnd ==
    /\ pc = "lead" /\ i >= lastfrom
    /\ pc' = "read"
    /\ UNCHANGED <<readVars, pos, lastfrom, tempEnt, i, fileVars, degVars>>

Edge == input[pos + 1]

\* construct_adj counts an edge at both ends, construct_reverse_adj does not.
CountEdge ==
    IF dir = "forward"
    THEN /\ outdeg' = [outdeg EXCEPT ![Edge[1]] = @ + 1]
         /\ indeg' = [indeg EXCEPT ![Edge[2]] = @ + 1]
    ELSE UNCHANGED degVars

\* An edge of the vertex being collected.
Collect ==
    /\ pc = "read" /\ pos < Len(input) /\ Edge[1] = lastfrom
    /\ tempEnt' = Append(tempEnt, Edge[2])
    /\ pos' = pos + 1
    /\ CountEdge
    /\ UNCHANGED <<readVars, pc, lastfrom, i, fileVars>>

\* Mutant: the written vertex is taken for one without edges.
AfterLastSame == lastfrom

\* The first vertex that may be without edges.
AfterLast == lastfrom + 1

\* The first edge of another vertex: the collected list is written.
Finish ==
    /\ pc = "read" /\ pos < Len(input) /\ Edge[1] # lastfrom
    /\ Write(lastfrom, tempEnt)
    /\ pc' = "gap" /\ i' = AfterLast
    /\ CountEdge
    /\ UNCHANGED <<readVars, pos, lastfrom, tempEnt>>

\* The vertices without edges between the two.
Gap == pc = "gap" /\ i < Edge[1] /\ WriteEmpty

\* Mutant: the list of the last vertex goes on with the list before it.
GapEndKept ==
    /\ pc = "gap" /\ i >= Edge[1]
    /\ tempEnt' = Append(tempEnt, Edge[2])
    /\ lastfrom' = Edge[1] /\ pos' = pos + 1
    /\ pc' = "read"
    /\ UNCHANGED <<readVars, i, fileVars, degVars>>

GapEnd ==
    /\ pc = "gap" /\ i >= Edge[1]
    /\ tempEnt' = <<Edge[2]>> /\ lastfrom' = Edge[1] /\ pos' = pos + 1
    /\ pc' = "read"
    /\ UNCHANGED <<readVars, i, fileVars, degVars>>

FinishLast ==
    /\ pc = "read" /\ pos = Len(input)
    /\ Write(lastfrom, tempEnt)
    /\ pc' = "tail" /\ i' = AfterLast
    /\ UNCHANGED <<readVars, pos, lastfrom, tempEnt, degVars>>

\* The vertices after the last one that has edges.
Trail == pc = "tail" /\ i <= maxID /\ WriteEmpty

\* construct_adj is done, construct_reverse_adj begins.
StartReverse ==
    /\ pc = "tail" /\ i > maxID /\ dir = "forward"
    /\ dir' = "reverse" /\ pc' = "lead"
    /\ input' \in FromTargets(edges)
    /\ pos' = 0 /\ lastfrom' = input'[1][1] /\ tempEnt' = <<>> /\ i' = 0
    /\ fileOff' = 0
    /\ UNCHANGED <<edges, files, index, start_ID, degVars>>

Close ==
    /\ pc = "tail" /\ i > maxID /\ dir = "reverse"
    /\ pc' = "done"
    /\ UNCHANGED <<readVars, pos, lastfrom, tempEnt, i, fileVars, degVars>>

Next ==
    \/ Lead \/ LeadEnd \/ Collect \/ Finish \/ Gap \/ GapEnd \/ FinishLast
    \/ Trail \/ StartReverse \/ Close

Spec == Init /\ [][Next]_vars

---------------------------------------------------------------------------
(***************************************************************************)
(* Graph::getOffset and reverse_getOffset, and what their callers read     *)
(* there: the id, the count, the list.                                     *)
(***************************************************************************)
Null == <<>>

Decoded(off) == IF off = 1 THEN 0 ELSE off

Words(d, id) == files[d][index[d][id][2]]
At(d, id) == Decoded(index[d][id][1]) \div IDSize

getOffset(d, id) ==
    IF start_ID[d] = <<>> \/ index[d][id][1] = 0 THEN Null
    ELSE IF id < start_ID[d][1] THEN Null
    ELSE LET words == Words(d, id)
             at == At(d, id)
         IN  <<words[at + 1], SubSeq(words, at + 3, at + 2 + words[at + 2])>>

---------------------------------------------------------------------------
File == Seq(Nat)

TypeOK ==
    /\ pc \in {"lead", "read", "gap", "tail", "done"} /\ dir \in Dir
    /\ input \in Seq(Vertex \X Vertex) /\ pos \in 0 .. Len(input)
    /\ lastfrom \in Vertex /\ tempEnt \in Seq(Vertex) /\ i \in 0 .. maxID + 1
    /\ files \in [Dir -> Seq(File)] /\ fileOff \in Nat
    /\ index \in [Dir -> [Vertex -> Nat \X Nat]]
    /\ start_ID \in [Dir -> Seq(Vertex)]
    /\ indeg \in [Vertex -> Nat] /\ outdeg \in [Vertex -> Nat]

\* How often u is the neighbour of v: the edges from v to u, or from u to v.
Edges12(v, u) == Cardinality({n \in DOMAIN edges : edges[n] = <<v, u>>})
Times(d, v, u) == IF d = "forward" THEN Edges12(v, u) ELSE Edges12(u, v)

\* The list of v holds its neighbours in ascending order, parallel edges too.
IsListOf(l, d, v) ==
    /\ \A a, b \in DOMAIN l : a < b => l[a] <= l[b]
    /\ \A u \in Vertex :
          Cardinality({a \in DOMAIN l : l[a] = u}) = Times(d, v, u)

(***************************************************************************)
(* When a pass is over, getOffset finds for every vertex a record that     *)
(* begins with its id, as every caller asserts: also for a vertex without  *)
(* edges and for the first record of a file.                               *)
(***************************************************************************)
Complete(d) == pc = "done" \/ (d = "forward" /\ dir = "reverse")

RecordsFound ==
    \A d \in Dir : Complete(d) =>
        \A v \in Vertex : getOffset(d, v) # Null /\ getOffset(d, v)[1] = v

(***************************************************************************)
(* That record holds the vertex's own list, and the degrees are the        *)
(* lengths of the lists of the two directions.                             *)
(***************************************************************************)
ListsFound ==
    pc = "done" =>
        /\ \A d \in Dir, v \in Vertex : IsListOf(getOffset(d, v)[2], d, v)
        /\ \A v \in Vertex :
              /\ outdeg[v] = Len(getOffset("forward", v)[2])
              /\ indeg[v] = Len(getOffset("reverse", v)[2])

(***************************************************************************)
(* A file stays below the limit that a 32-bit offset needs unless a single *)
(* record fills it, and start_ID names the record it begins with.          *)
(***************************************************************************)
FilesFit ==
    \A d \in Dir :
        /\ Len(start_ID[d]) = Len(files[d])
        /\ \A n \in DOMAIN files[d] :
              LET words == files[d][n]
              IN  /\ words[1] = start_ID[d][n]
                  /\ \/ IDSize * Len(words) < Limit
                     \/ Len(words) = 2 + words[2]

(***************************************************************************)
(* What getOffset has once found for a vertex stays: no later record is    *)
(* written over it, and no other entry of the index replaces its own.      *)
(***************************************************************************)
FoundStays ==
    [][\A d \in Dir, v \in Vertex :
          getOffset(d, v) # Null => getOffset(d, v)' = getOffset(d, v)]_vars
===========================================================================
