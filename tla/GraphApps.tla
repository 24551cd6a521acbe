------------------------------ MODULE GraphApps ------------------------------
(***************************************************************************)
(* The programs over the matrix (Matrix/AppExample.cpp, the serial part of *)
(* Matrix/WccDriver.cpp, Algorithm/): the buckets are built, and then one  *)
(* of these runs over them:                                                *)
(*   pagerank, spmv   every bucket walked by a cilk_for                    *)
(*   tasks            the same walk in chunks that the workers of the      *)
(*                    scheduler take, steal and split                      *)
(*   forest, wcc      a search from each root, by workers that share       *)
(*                    isVisited, idValue and changes and take no lock      *)
(*   serial           WccDriver's components, by one thread                *)
(*   product          powers of the matrix (Matrix/OnePredicateOp.cpp),    *)
(*                    each bucket multiplied by a cilk_for                 *)
(*   bfs, bfs_forest  OnePredicateOp's searches, by one thread             *)
(*   visits, top      what the roots reach, counted by tasks; the vertices *)
(*                    of the greatest values                               *)
(* A search reads the list of a vertex with getAllY, which MatrixExact     *)
(* shows to be the list that was stored.                                   *)
(***************************************************************************)
EXTENDS MatrixFile

CONSTANTS
    Inputs,     \* records [app, lists, cuts, roots, workers], and for some
                \* apps what they are called with
    maxID,
    UNIT_SIZE   \* roots of one task that counts visits, 10240 in the code

Vertex == 1 .. maxID

Searching(i) == i.app \in {"forest", "wcc"}

ASSUME InputAssumption ==
    /\ maxID \in Nat
    /\ UNIT_SIZE \in Nat \ {0}
    /\ \A i \in Inputs :
        Searching(i) => /\ i.lists \in [Vertex -> Seq(Vertex)]
                        /\ i.roots \in SUBSET Vertex

VARIABLES
    input, pc,
    matrix,         \* the buckets, from 0
    todo,           \* what is left to walk: buckets, or <<bucket, start, end>>
    computed,       \* for each vertex the lists its value was computed from
    roots,          \* the roots no worker has taken
    isVisited, idValue, changes,
    worker,         \* for each worker its step and its local variables
    files,          \* the file of <<power, bucket>>
    way,            \* the factors of the products left, used from the end
    spent,          \* the powers made here that the program still holds
    result          \* what a program reports at its end

vars == <<input, pc, matrix, todo, computed, roots, isVisited, idValue, changes, worker,
          files, way, spent, result>>

stored == <<input, matrix>>
alone  == <<files, way, spent, result>>
sweep  == <<todo, computed, alone>>
search == <<roots, isVisited, idValue, changes, worker>>

\* que and p are what is left of the queue and of the list being scanned.  Of
\* a chain, dst is the entry to be written and val what it gets, tmp the next
\* one, and "to" what the entries are set to (see Target).
Idle == [step |-> "idle", root |-> 0, que |-> <<>>, p |-> <<>>,
         dst |-> 0, val |-> 0, tmp |-> 0, to |-> "component"]

---------------------------------------------------------------------------
\* The vertices that have a list, and the buckets they are cut into.
Listed(i) == {v \in Vertex : i.lists[v] # <<>>}

start_ID(i) == SetToSortSeq(i.cuts, <) \o <<Max(Listed(i)) + 1>>

BucketLists(i, b) ==
    LET s == start_ID(i)
        own == {v \in Listed(i) : s[b + 1] <= v /\ v < s[b + 2]}
    IN  [k \in 1 .. Cardinality(own) |->
            LET v == SetToSortSeq(own, <)[k] IN <<v, i.lists[v]>>]

Buckets(i) == 0 .. Cardinality(i.cuts) - 1

Init ==
    /\ input \in Inputs
    /\ pc = "input"
    /\ matrix = <<>>
    /\ todo = {}
    /\ computed = [v \in Vertex \cup {Astray} |-> <<>>]
    /\ roots = {}
    /\ isVisited = [v \in Vertex |-> FALSE]
    /\ idValue = [v \in Vertex |-> v]
    /\ changes = [v \in Vertex |-> v]
    /\ worker = [w \in input.workers |-> Idle]
    /\ files = <<>>
    /\ way = <<>>
    /\ spent = {}
    /\ result = <<>>

\* getRunWay (Algorithm/matrix_product.cpp): the factors of a power, the last
\* two for the first product.
getRunWay(times) ==
    LET from[t \in 0 .. times] ==
            IF t <= 1 THEN <<>>
            ELSE IF t % 2 = 0 THEN <<t \div 2, t \div 2>> \o from[t \div 2]
            ELSE <<1, t - 1>> \o from[t - 1]
    IN  from[times]

\* BuildAdjGraph writes the buckets, Matrixmap::load reads them back.
Build ==
    /\ pc = "input"
    /\ matrix' = [b \in Buckets(input) |-> BuildBucket(BucketLists(input, b))]
    /\ pc' = input.app
    /\ todo' = CASE input.app \in {"pagerank", "spmv"} -> Buckets(input)
                 [] input.app = "tasks" ->
                        {<<b, 0, Len(matrix'[b].index)>> : b \in Buckets(input)}
                 [] input.app = "product" /\ input.times > 1 -> Buckets(input)
                 [] OTHER -> {}
    /\ way' = IF input.app = "product" THEN getRunWay(input.times) ELSE <<>>
    /\ files' = IF input.app = "product"
                THEN [f \in {1} \X Buckets(input) |-> matrix'[f[2]]] ELSE <<>>
    /\ roots' = IF Searching(input) THEN input.roots ELSE {}
    /\ UNCHANGED <<input, computed, isVisited, idValue, changes, worker, spent, result>>

---------------------------------------------------------------------------
Compute(rows) ==
    computed' = [v \in DOMAIN computed |-> computed[v] \o
        [k \in 1 .. Cardinality({n \in DOMAIN rows : rows[n][1] = v}) |->
            SelectSeq(rows, LAMBDA row : row[1] = v)[k][2]]]

\* pagerank(index, itera) and spmv(preID, result): a bucket, by some worker.
SweepBucket(b) ==
    /\ pc \in {"pagerank", "spmv"}
    /\ b \in todo
    /\ Compute(WalkBucket(matrix[b], pc = "pagerank"))
    /\ todo' = todo \ {b}
    /\ UNCHANGED <<stored, pc, search, alone>>

(***************************************************************************)
(* parallel_push_pop_steal: a worker pops or steals a task and runs it;    *)
(* what the task left over becomes one task or two.                        *)
(***************************************************************************)
SubTasks(b, startNum, endNum) ==
    IF startNum >= endNum THEN {}
    ELSE IF startNum + maxRunChunk < endNum
    THEN {<<b, startNum, startNum + maxRunChunk>>, <<b, startNum + maxRunChunk, endNum>>}
    ELSE {<<b, startNum, endNum>>}

RunTask(t) ==
    /\ pc = "tasks"
    /\ t \in todo
    /\ t[2] < t[3]      \* else the task returns NULL, and the worker reads through it
    /\ Compute(WalkChunk(matrix[t[1]], t[2], t[3]))
    /\ todo' = (todo \ {t}) \cup SubTasks(t[1], ChunkEnd(matrix[t[1]], t[2], t[3]), t[3])
    /\ UNCHANGED <<stored, pc, search, alone>>

---------------------------------------------------------------------------
(***************************************************************************)
(* The searches of forest and wcc.  A step reads shared cells or writes    *)
(* one; a cell read twice with no store between is read once, as compiled  *)
(* code does.                                                              *)
(***************************************************************************)
At(w, step) == pc \in {"forest", "wcc"} /\ worker[w].step = step

Goto(w, step) == worker' = [worker EXCEPT ![w].step = step]

\* One worker takes the roots in order, several in any order: as tasks of the
\* scheduler, which hands out each root once, or as steps of a cilk_for.
TakeRoot(w, r) ==
    /\ At(w, "idle")
    /\ r \in roots
    /\ DOMAIN worker = {w} => r = Min(roots)
    /\ roots' = roots \ {r}
    /\ worker' = [worker EXCEPT ![w] = [Idle EXCEPT !.step = "enter", !.root = r]]
    /\ UNCHANGED <<stored, pc, sweep, isVisited, idValue, changes>>

EnterNew(w) ==
    /\ At(w, "enter")
    /\ ~ isVisited[worker[w].root]
    /\ Goto(w, "begin")
    /\ UNCHANGED <<stored, pc, sweep, roots, isVisited, idValue, changes>>

Begin(w) ==
    LET component == worker[w].root
    IN  /\ At(w, "begin")
        /\ isVisited' = [isVisited EXCEPT ![component] = TRUE]
        /\ idValue' = IF pc = "wcc" THEN [idValue EXCEPT ![component] = component] ELSE idValue
        /\ worker' = [worker EXCEPT ![w].step = "scan", ![w].que = <<component>>]
        /\ UNCHANGED <<stored, pc, sweep, roots, changes>>

\* A root that another search has reached: in wcc the two labels are linked.
EnterVisited(w) ==
    LET r == worker[w].root
        below == changes[r] < changes[idValue[r]]
    IN  /\ At(w, "enter")
        /\ isVisited[r]
        /\ IF pc = "forest" THEN worker' = [worker EXCEPT ![w] = Idle]
           ELSE worker' = [worker EXCEPT ![w].step = "relink",
                    ![w].dst = IF below THEN idValue[r] ELSE r,
                    ![w].val = IF below THEN changes[r] ELSE changes[idValue[r]],
                    ![w].tmp = IF below THEN changes[idValue[r]] ELSE changes[r],
                    ![w].to = IF below THEN "root" ELSE "label"]
        /\ UNCHANGED <<stored, pc, sweep, roots, isVisited, idValue, changes>>

Pop(w) ==
    /\ At(w, "scan")
    /\ worker[w].p = <<>>
    /\ worker[w].que # <<>>
    /\ worker' = [worker EXCEPT ![w].p = input.lists[Head(worker[w].que)],
                                ![w].que = Tail(@)]
    /\ UNCHANGED <<stored, pc, sweep, roots, isVisited, idValue, changes>>

Finish(w) ==
    /\ At(w, "scan")
    /\ worker[w].p = <<>>
    /\ worker[w].que = <<>>
    /\ worker' = [worker EXCEPT ![w] = Idle]
    /\ UNCHANGED <<stored, pc, sweep, roots, isVisited, idValue, changes>>

SeeNew(w) ==
    /\ At(w, "scan")
    /\ worker[w].p # <<>>
    /\ ~ isVisited[Head(worker[w].p)]
    /\ Goto(w, "mark")
    /\ UNCHANGED <<stored, pc, sweep, roots, isVisited, idValue, changes>>

Mark(w) ==
    LET y == Head(worker[w].p)
    IN  /\ At(w, "mark")
        /\ isVisited' = [isVisited EXCEPT ![y] = TRUE]
        /\ worker' = [worker EXCEPT ![w].que = Append(@, y),
                ![w].step = IF pc = "wcc" THEN "label" ELSE "scan",
                ![w].p = IF pc = "wcc" THEN @ ELSE Tail(@)]
        /\ UNCHANGED <<stored, pc, sweep, roots, idValue, changes>>

\* A mutation: the label goes to the position in the list, not to the target.
LabelPosition(w) ==
    /\ At(w, "label")
    /\ idValue' = [idValue EXCEPT ![Len(worker[w].p)] = worker[w].root]
    /\ worker' = [worker EXCEPT ![w].step = "scan", ![w].p = Tail(@)]
    /\ UNCHANGED <<stored, pc, sweep, roots, isVisited, changes>>

Label(w) ==
    /\ At(w, "label")
    /\ idValue' = [idValue EXCEPT ![Head(worker[w].p)] = worker[w].root]
    /\ worker' = [worker EXCEPT ![w].step = "scan", ![w].p = Tail(@)]
    /\ UNCHANGED <<stored, pc, sweep, roots, isVisited, changes>>

\* A mutation: the first target that is visited ends the list.
SeeVisitedBreaks(w) ==
    LET y == Head(worker[w].p)
        other == changes[idValue[y]]
    IN  /\ At(w, "scan")
        /\ worker[w].p # <<>>
        /\ isVisited[y]
        /\ IF pc = "forest" THEN worker' = [worker EXCEPT ![w].p = <<>>]
           ELSE worker' = [worker EXCEPT
                    ![w].step = IF worker[w].root < other THEN "relink" ELSE "follow",
                    ![w].dst = idValue[y], ![w].val = worker[w].root,
                    ![w].tmp = other, ![w].to = "component"]
        /\ UNCHANGED <<stored, pc, sweep, roots, isVisited, idValue, changes>>

\* A target that is visited: the label of its search and the own are linked,
\* the greater one to the smaller.
SeeVisited(w) ==
    LET y == Head(worker[w].p)
        other == changes[idValue[y]]
    IN  /\ At(w, "scan")
        /\ worker[w].p # <<>>
        /\ isVisited[y]
        /\ IF pc = "forest" THEN worker' = [worker EXCEPT ![w].p = Tail(@)]
           ELSE worker' = [worker EXCEPT
                    ![w].step = IF worker[w].root < other THEN "relink" ELSE "follow",
                    ![w].dst = idValue[y], ![w].val = worker[w].root,
                    ![w].tmp = other, ![w].to = "component"]
        /\ UNCHANGED <<stored, pc, sweep, roots, isVisited, idValue, changes>>

\* A mutation: a label greater than the other is not linked to it.
FollowSkips(w) ==
    /\ At(w, "follow")
    /\ worker' = [worker EXCEPT ![w].step = "scan", ![w].p = Tail(@)]
    /\ UNCHANGED <<stored, pc, sweep, roots, isVisited, idValue, changes>>

Follow(w) ==
    /\ At(w, "follow")
    /\ changes' = [changes EXCEPT ![worker[w].root] = worker[w].tmp]
    /\ worker' = [worker EXCEPT ![w].step = "scan", ![w].p = Tail(@)]
    /\ UNCHANGED <<stored, pc, sweep, roots, isVisited, idValue>>

\* What the entries of a chain are set to; the loops read it again each time.
Target(w) ==
    LET r == worker[w].root
    IN  IF worker[w].to = "component" THEN r
        ELSE IF worker[w].to = "root" THEN changes[r] ELSE changes[idValue[r]]

\* A mutation: the chain is followed and none of its entries is written.
RelinkReads(w) ==
    /\ At(w, "relink")
    /\ Goto(w, "chain")
    /\ UNCHANGED <<stored, pc, sweep, roots, isVisited, idValue, changes>>

Relink(w) ==
    /\ At(w, "relink")
    /\ changes' = [changes EXCEPT ![worker[w].dst] = worker[w].val]
    /\ Goto(w, "chain")
    /\ UNCHANGED <<stored, pc, sweep, roots, isVisited, idValue>>

Chain(w) ==
    /\ At(w, "chain")
    /\ changes[worker[w].tmp] > Target(w)
    /\ worker' = [worker EXCEPT ![w].step = "relink", ![w].dst = worker[w].tmp,
                                ![w].val = Target(w), ![w].tmp = changes[worker[w].tmp]]
    /\ UNCHANGED <<stored, pc, sweep, roots, isVisited, idValue, changes>>

ChainEnd(w) ==
    /\ At(w, "chain")
    /\ changes[worker[w].tmp] <= Target(w)
    /\ worker' = IF worker[w].to = "component"
                 THEN [worker EXCEPT ![w].step = "scan", ![w].p = Tail(@)]
                 ELSE [worker EXCEPT ![w] = Idle]
    /\ UNCHANGED <<stored, pc, sweep, roots, isVisited, idValue, changes>>

SearchStep(w) ==
    \/ \E r \in roots : TakeRoot(w, r)
    \/ EnterNew(w) \/ Begin(w) \/ EnterVisited(w)
    \/ Pop(w) \/ Finish(w)
    \/ SeeNew(w) \/ Mark(w) \/ Label(w) \/ SeeVisited(w)
    \/ Follow(w) \/ Relink(w) \/ Chain(w) \/ ChainEnd(w)

---------------------------------------------------------------------------
\* The end of the cilk_for, or of waitForComplete.
Joined ==
    /\ roots = {}
    /\ \A w \in DOMAIN worker : worker[w].step = "idle"

\* wcc_apply_changes: tasks of the pool, each with a range of its own, follow
\* every label down to its smallest one.
wcc_apply_changes ==
    /\ pc = "wcc"
    /\ Joined
    /\ pc' = "apply"
    /\ UNCHANGED <<stored, sweep, search>>

Loose == {v \in Vertex : idValue[v] > changes[idValue[v]]}

wcc_apply_changes_task(v) ==
    /\ pc = "apply"
    /\ v \in Loose
    /\ idValue' = [idValue EXCEPT ![v] = changes[idValue[v]]]
    /\ UNCHANGED <<stored, pc, sweep, roots, isVisited, changes, worker>>

Applied ==
    /\ pc = "apply"
    /\ Loose = {}
    /\ pc' = "labelled"
    /\ UNCHANGED <<stored, sweep, search>>

\* wcc_in_serial: the search from each vertex that is not visited yet.
Reach(lists, from, but) ==
    LET reach[k \in 0 .. maxID] ==
            IF k = 0 THEN from
            ELSE LET before == reach[k - 1]
                 IN  before \cup {v \in Vertex \ but :
                         \E u \in before : v \in Range(lists[u])}
    IN  reach[maxID]

SerialLabels(lists) ==
    FoldLeft(LAMBDA acc, id :
        IF id \in acc.seen THEN acc
        ELSE LET new == Reach(lists, {id}, acc.seen)
             IN  [seen |-> acc.seen \cup new,
                  label |-> [v \in Vertex |-> IF v \in new THEN Min(new) ELSE acc.label[v]]],
        [seen |-> {}, label |-> idValue], [n \in Vertex |-> n]).label

wcc_in_serial ==
    /\ pc = "serial"
    /\ idValue' = SerialLabels(input.lists)
    /\ pc' = "labelled"
    /\ UNCHANGED <<stored, sweep, roots, isVisited, changes, worker>>

---------------------------------------------------------------------------
(***************************************************************************)
(* Powers of the matrix.  A power the program has made stays in matrixMap  *)
(* as an object whose buckets were deleted: loadMatrix does not load it    *)
(* again, and the use of a bucket makes a new, empty one in its file.      *)
(***************************************************************************)
Larger  == Max({way[Len(way)], way[Len(way) - 1]})
Smaller == Min({way[Len(way)], way[Len(way) - 1]})

Held(n, b) == IF n \in spent THEN NewBucket ELSE files[<<n, b>>]

\* matrixMultiply(small, big, b), one step of the cilk_for; the factors it
\* reads belong to no other step.
Multiply(b) ==
    LET f == Held(Larger, b)
    IN  /\ pc = "product"
        /\ b \in todo
        /\ \E strays \in [LongRows(f) -> Vertex \cup {Astray}] :
             files' = (<<Larger + Smaller, b>> :>
                        MultiplyBucket(f, [c \in Buckets(input) |-> Held(Smaller, c)],
                                       start_ID(input), strays))
                      @@ (IF Larger \in spent THEN <<Larger, b>> :> NewBucket ELSE <<>>)
                      @@ files
        /\ todo' = todo \ {b}
        /\ UNCHANGED <<stored, pc, search, computed, way, spent, result>>

\* The end of the cilk_for: clearMatrix, and loadMatrix of the next factors.
NextPower ==
    /\ pc = "product"
    /\ todo = {}
    /\ way # <<>>
    /\ way' = SubSeq(way, 1, Len(way) - 2)
    /\ spent' = (spent \cup {Larger + Smaller}) \ {Larger, Smaller}
    /\ todo' = IF way' = <<>> THEN {} ELSE Buckets(input)
    /\ UNCHANGED <<stored, pc, search, computed, files, result>>

---------------------------------------------------------------------------
\* The search of one vertex through the queue; last is the one visited last.
Bfs(lists, ispush, id) ==
    LET visit[k \in 0 .. maxID] ==
            IF k = 0 THEN [que |-> <<id>>, ispush |-> ispush \cup {id}, last |-> id]
            ELSE LET s == visit[k - 1]
                     new == SelectSeq(lists[Head(s.que)], LAMBDA y : y \notin s.ispush)
                 IN  IF s.que = <<>> THEN s
                     ELSE [que |-> Tail(s.que) \o new, ispush |-> s.ispush \cup Range(new),
                           last |-> Head(s.que)]
    IN  visit[maxID]

Report(r) ==
    /\ result' = r
    /\ pc' = "reported"
    /\ UNCHANGED <<stored, search, todo, computed, files, way, spent>>

bfs ==
    /\ pc = "bfs"
    /\ Report(Bfs(input.lists, {}, input.from).ispush)

\* bfs_forest(preID): the loop over a bucket and the loop over the queue use
\* the one variable id, so that the first goes on where the second ended.
ForestOf(lists, first, end, before) ==
    LET from[id \in Nat, ispush \in SUBSET Vertex, treeNum \in Nat] ==
            IF id >= end THEN [ispush |-> ispush, treeNum |-> treeNum]
            ELSE IF id \in ispush THEN from[id + 1, ispush, treeNum]
            ELSE LET tree == Bfs(lists, ispush, id)
                 IN  from[tree.last + 1, tree.ispush, treeNum + 1]
    IN  from[first, before.ispush, before.treeNum]

bfs_forest ==
    LET s == start_ID(input)
    IN  /\ pc = "bfs_forest"
        /\ Report(FoldLeft(LAMBDA before, preID :
                ForestOf(input.lists, s[preID], s[preID + 1], before),
                [ispush |-> {}, treeNum |-> 0], [k \in 1 .. Len(s) - 1 |-> k]))

(***************************************************************************)
(* visit_count_task: what each of the roots of a task reaches.  visit_arr  *)
(* has a byte for each id below the last one that has a list, and memset   *)
(* clears these: marks of greater ids stay from one root to the next.      *)
(***************************************************************************)
CountedRoot(lists, r) ==
    lists[r] # <<>> /\ \A u \in Vertex : r \notin Range(lists[u])

VisitTask(lists, limit, task) ==
    FoldLeft(LAMBDA acc, r :
        IF ~ CountedRoot(lists, r) THEN [acc EXCEPT !.loop_vertices = @ + 1]
        ELSE LET kept == {v \in acc.visit : v >= limit}
                 new == Reach(lists, {r}, kept)
             IN  [acc EXCEPT !.visit = kept \cup new,
                             !.res = (r :> Cardinality(new)) @@ @],
        [visit |-> {}, res |-> <<>>, loop_vertices |-> 0], task)

\* The tasks share nothing but loop_vertices, which they add to atomically.
visit_count ==
    LET rootSeq == SetToSortSeq(input.roots, <)
        rootNum == Len(rootSeq)
        tasks == {SubSeq(rootSeq, begin + 1, Min({begin + UNIT_SIZE, rootNum})) :
                    begin \in {b \in 0 .. rootNum - 1 : b % UNIT_SIZE = 0}}
        done == {VisitTask(input.lists, Max(Listed(input)), t) : t \in tasks}
    IN  /\ pc = "visits"
        /\ Report(FoldSet(LAMBDA d, acc : d.res @@ acc, <<>>, done))

---------------------------------------------------------------------------
\* getMaxValue: the num greatest values, kept as a heap with the least on top.
\* Its cells are <<value, id>>.
Sink(runs) ==
    LET size == Len(runs)
        down[pos \in 1 .. size, h \in [1 .. size -> Nat \X Nat]] ==
            LET left == 2 * pos
                least == IF left + 1 <= size /\ h[left + 1][1] <= h[left][1]
                         THEN left + 1 ELSE left
            IN  IF left > size THEN h
                ELSE IF h[pos][1] <= h[least][1] THEN h
                ELSE down[least, [h EXCEPT ![pos] = h[least], ![least] = h[pos]]]
    IN  down[1, runs]

Offer(runs, cell) ==
    IF cell[1] <= runs[1][1] THEN runs ELSE Sink([runs EXCEPT ![1] = cell])

qsort(runs) == SortSeq(runs, LAMBDA a, b : a[1] < b[1])

\* The greatest values of one bucket, by a thread of its own.  A bucket of
\* less than num vertices is read on into the next one.
TopValue(values, startID, endID, num) ==
    LET cells(first, last) == [k \in 1 .. last - first |-> <<values[first + k - 1], first + k - 1>>]
    IN  FoldLeft(Offer, qsort(cells(startID, startID + num)), cells(startID + num, endID))

getMaxValue ==
    LET s == start_ID(input)
        top == [k \in 1 .. Len(s) - 1 |-> TopValue(input.values, s[k], s[k + 1], input.num)]
    IN  /\ pc = "top"
        /\ Report(qsort(FoldLeft(Offer, top[1], FlattenSeq(Tail(top)))))

AloneStep ==
    \/ \E b \in todo : Multiply(b)
    \/ NextPower
    \/ bfs \/ bfs_forest \/ visit_count \/ getMaxValue

Next ==
    \/ Build
    \/ \E t \in todo : SweepBucket(t) \/ RunTask(t)
    \/ \E w \in DOMAIN worker : SearchStep(w)
    \/ wcc_apply_changes
    \/ \E v \in Vertex : wcc_apply_changes_task(v)
    \/ Applied
    \/ wcc_in_serial
    \/ AloneStep

Spec == Init /\ [][Next]_vars

\* The threads of cilk, of the scheduler and of the pool run as long as they
\* have a step.
Fairness == \A w \in UNION {i.workers : i \in Inputs} :
                WF_vars(w \in DOMAIN worker /\ SearchStep(w))

FairSpec ==
    /\ Spec
    /\ Fairness
    /\ WF_vars(wcc_apply_changes)
    /\ \A v \in Vertex : WF_vars(wcc_apply_changes_task(v))
    /\ WF_vars(Applied)

---------------------------------------------------------------------------
Extent(page) == IF page.size = 0 THEN 10 + page.len ELSE Heads(page.size) + Len(page.body)

\* No page reaches into the next one or past the end of the file.
PagesApart(f) ==
    \A a \in DOMAIN f.pages :
        LET end == a + Extent(f.pages[a])
        IN  /\ end <= f.used
            /\ \A c \in DOMAIN f.pages : c > a => end <= c

\* The vertices the search of a root takes when the roots run in order.
Tree(i, r) ==
    Reach(i.lists, {r}, Reach(i.lists, {s \in i.roots : s < r}, {}))

\* The vertices are numbered tree by tree, as HashID numbers them.
TreeByTree(i) ==
    /\ \A r \in i.roots : Tree(i, r) = r .. Max(Tree(i, r))
    /\ Vertex = UNION {Tree(i, r) : r \in i.roots}

\* bfs visits what its vertex reaches.  bfs_forest leaves no vertex out that
\* has a list and counts the trees, if the numbering is tree by tree: its loop
\* goes on behind the last vertex of a tree (OnePredicateOp.cpp).
SearchesExact ==
    /\ pc = "bfs" => result' = Reach(input.lists, {input.from}, {})
    /\ pc = "bfs_forest" /\ TreeByTree(input) =>
        LET looped == {r \in input.roots : r <= Max(Listed(input))}
        IN  /\ result'.treeNum = Cardinality(looped)
            /\ result'.ispush = UNION {Tree(input, r) : r \in looped}

\* The count of a root is the number of vertices it reaches, if the marks of
\* all of these are cleared before (AppExample.cpp visit_count_task).
VisitsExact ==
    pc = "visits" =>
        \A r \in input.roots :
            LET reached == Reach(input.lists, {r}, {})
            IN  /\ (r \in DOMAIN result') = CountedRoot(input.lists, r)
                /\ /\ CountedRoot(input.lists, r)
                   /\ \A v \in reached : v < Max(Listed(input))
                   => result'[r] = Cardinality(reached)

\* The vertices reported have the greatest values, none is there twice, and
\* they are in order, where every bucket has as many vertices as are asked
\* for (AppExample.cpp getMaxValue).
TopExact ==
    LET s == start_ID(input)
        ids == {result'[k][2] : k \in DOMAIN result'}
    IN  pc = "top" /\ (\A k \in 1 .. Len(s) - 1 : s[k] + input.num <= s[k + 1]) =>
            /\ Len(result') = input.num
            /\ Cardinality(ids) = input.num
            /\ \A k \in DOMAIN result' : result'[k][1] = input.values[result'[k][2]]
            /\ \A k \in 1 .. input.num - 1 : result'[k][1] <= result'[k + 1][1]
            /\ \A v \in s[1] .. s[Len(s)] - 1 : v \in ids \/ input.values[v] <= result'[1][1]

\* What was stored is read back: getAllY finds the list of every vertex, and
\* nothing for a vertex without one (Matrixmap.cpp insertNewXY, PageIndex.cpp
\* getOffsetByID), however the lists fall on the pages; and what the programs
\* of one pass report of it is right, whatever tasks and buckets it is cut
\* into (OnePredicateOp.cpp bfs, bfs_forest, AppExample.cpp visit_count,
\* getMaxValue).
MatrixExact ==
    [][/\ pc = "input" =>
            /\ \A v \in Vertex : getAllY(matrix', start_ID(input), v) = input.lists[v]
            /\ \A b \in DOMAIN matrix' : PagesApart(matrix'[b])
       /\ SearchesExact
       /\ VisitsExact
       /\ TopExact]_vars

\* The pages of a bucket follow each other as the walks count them: no list
\* ends behind the page counted last for it, and no blank page comes between.
Walkable(f, blanks) ==
    LET a(k) == f.index[k].y + META
        page(k) == f.pages[a(k)]
        next(k) == (IF a(k) = META THEN 0 ELSE a(k)) + Step(page(k))
    IN  /\ f.index = <<>> \/ blanks \/ a(1) = META
        /\ \A k \in DOMAIN f.index : a(k) + Extent(page(k)) <= next(k)
        /\ \A k \in 1 .. Len(f.index) - 1 :
            IF blanks THEN next(k) <= a(k + 1) ELSE next(k) = a(k + 1)

\* The vertices two edges lead to.
Twice(v) == UNION {Range(input.lists[y]) : y \in Range(input.lists[v]) \cap Vertex}

\* The file of a product has for each vertex that reaches one by two edges
\* these, in order and once; a long row may have the list of one more vertex
\* among them.  A power made before is not read again, which is left out.
ProductExact ==
    /\ pc = "product"
    /\ todo = {}
    /\ way # <<>>
    /\ {Larger, Smaller} \cap spent = {}
    /\ \A b \in Buckets(input) : Walkable(matrix[b], FALSE) /\ Walkable(files[<<2, b>>], FALSE)
    => \A b \in Buckets(input) :
        LET rows == WalkBucket(files[<<2, b>>], TRUE)
            Of(v) == {Range(rows[k][2]) : k \in {n \in DOMAIN rows : rows[n][1] = v}}
            NoEmpty(S) == S \ {{}}
            own == {l[1] : l \in Range(BucketLists(input, b))}
        IN  /\ \A k \in 1 .. Len(rows) - 1 : rows[k][1] < rows[k + 1][1]
            /\ \A k \in DOMAIN rows : \A n \in 1 .. Len(rows[k][2]) - 1 :
                    rows[k][1] \in own /\ rows[k][2][n] < rows[k][2][n + 1]
            /\ \A v \in own :
                \/ Of(v) = NoEmpty({Twice(v)})
                \/ /\ v \in LongRows(matrix[b])
                   /\ \E u \in Vertex : Of(v) = NoEmpty({Twice(v) \cup Range(input.lists[u])})

\* A sweep computes the value of every vertex once, from its list, whoever
\* takes which chunk in which order (AppExample.cpp pagerank_task, spmv_task,
\* pagerank, spmv), and no task is empty, which would end in a null pointer
\* (Scheduler.cpp parallel_push_pop_steal).  The sweep of a product makes the
\* rows of the product (OnePredicateOp.cpp matrixMultiply).
SweepExact ==
    /\ ProductExact
    /\ pc = "tasks" => \A t \in todo : t[2] < t[3]
    /\ /\ pc \in {"pagerank", "spmv", "tasks"}
       /\ todo = {}
       /\ \A b \in DOMAIN matrix : Walkable(matrix[b], pc = "spmv")
       => \A v \in DOMAIN computed :
            computed[v] = IF v \in Listed(input) THEN <<input.lists[v]>> ELSE <<>>

Closed(C) == \A u \in C : \A k \in DOMAIN input.lists[u] : input.lists[u][k] \in C

\* When the searches have ended exactly the vertices that a root reaches are
\* visited, although the workers test and set isVisited without a lock
\* (AppExample.cpp bfs_forest, bfs_forest_task, wcc, wcc_task).
ForestComplete ==
    /\ pc \in {"forest", "wcc"}
    /\ Joined
    => LET visited == {v \in Vertex : isVisited[v]}
       IN  /\ input.roots \subseteq visited
           /\ Closed(visited)
           /\ \A C \in SUBSET Vertex : input.roots \subseteq C /\ Closed(C) => visited \subseteq C

\* u and v are weakly connected: whatever is the same at both ends of every
\* edge is the same at u and v.
Connected(u, v) == u = v \/
    \A c \in [Vertex -> BOOLEAN] :
        (\A x \in Vertex : \A k \in DOMAIN input.lists[x] : c[input.lists[x][k]] = c[x])
        => c[u] = c[v]

\* No interleaving of the workers gives a vertex the label of a vertex it is
\* not connected with (AppExample.cpp wcc, wcc_task, wcc_apply_changes).
LabelsSound == input.app = "wcc" => \A v \in Vertex : Connected(v, idValue[v])

---------------------------------------------------------------------------
\* One worker, and no search that meets the trees of two others.
MeetsOne(i) ==
    /\ Cardinality(i.workers) = 1
    /\ \A r \in i.roots :
        Cardinality({s \in i.roots \ {r} :
            \E u \in Tree(i, r) : Range(i.lists[u]) \cap Tree(i, s) # {}}) <= 1

Symmetric(i) == \A u, v \in Vertex : v \in Range(i.lists[u]) => u \in Range(i.lists[v])

\* Two vertices get the same label if and only if they are connected, where
\* one worker runs and no search meets two others (AppExample.cpp wcc), and
\* in the serial program where the matrix has both directions (WccDriver.cpp).
LabelsExact ==
    /\ pc = "labelled"
    /\ IF input.app = "wcc" THEN MeetsOne(input) ELSE Symmetric(input)
    => \A u, v \in Vertex :
        (input.app = "wcc" => isVisited[u] /\ isVisited[v])
        => (idValue[u] = idValue[v]) = Connected(u, v)

\* Every search ends, and so does the following of chains that other workers
\* change at the same time, and of the labels at the end (the while loops of
\* AppExample.cpp wcc, wcc_apply_changes_task).
WorkersFinish ==
    /\ pc = "forest" ~> Joined
    /\ pc = "wcc" ~> pc = "labelled"
=============================================================================
