----------------------------- MODULE TripleQuery -----------------------------
(***************************************************************************)
(* The execution of a query (TripleBit/TripleBitQuery.cpp, RDFQuery.cpp).  *)
(* Buffers are filled from the store, one pattern at a time, and reduced   *)
(* by joins, one join variable at a time; what is left is printed.         *)
(*                                                                         *)
(* A lookup returns what FindEntity.tla finds of TripleBit/FindEntityID:   *)
(* the rows of the pattern in the order of their first column, all those   *)
(* of a range and possibly one below it (loose).                           *)
(***************************************************************************)
EXTENDS QueryGraph, Joins, TLC

CONSTANTS Inputs,      \* of [q, facts]: a query and the triples it is asked of
          Lucks,       \* of [past, loose]: what memory holds behind buffers, and
                       \* whether lookups return a row below their range
          Misread,     \* selectivities that getSelectivity's race may produce
          MaxRounds,   \* how often the query is asked
          INIT_BUFFERS,        \* buffers to begin with: 5 in the code
          INCREASE_BUFFERS     \* and more at a time: 5 in the code

ASSUME PoolAssumption == INIT_BUFFERS \in Nat \ {0} /\ INCREASE_BUFFERS \in Nat \ {0}

VARIABLES
    ask,        \* the query and the triples
    luck,       \* what the build and the store add to this behaviour
    plan,       \* the plan of the query
    pc,         \* what is done next
    todo,       \* patterns or passes that are left
    list,       \* EntityIDList: pattern -> handle
    bufs,       \* handle -> buffer
    pool,       \* the BufferManager
    printed,    \* [st, rows]: what was printed
    round

vars == <<ask, luck, plan, pc, todo, list, bufs, pool, printed, round>>

Q == ask.q
Pattern(i) == Q.patterns[i]

-----------------------------------------------------------------------------
(***************************************************************************)
(* The pool of buffers of a repository (TripleBit/BufferManager.cpp): a    *)
(* pool is [all, clean, used, next, ub], sequences of handles and the last *)
(* handle; ub is set where the code leaves what C++ defines.               *)
(***************************************************************************)
Handles(from, n) == [k \in 1 .. n |-> from + k]

BufferManager == [all |-> Handles(0, INIT_BUFFERS), clean |-> Handles(0, INIT_BUFFERS),
                  used |-> <<>>, next |-> INIT_BUFFERS, ub |-> FALSE]

expandBuffer(p) ==
    LET new == Handles(p.next, INCREASE_BUFFERS)
    IN  [p EXCEPT !.all = @ \o new, !.clean = @ \o new, !.next = @ + INCREASE_BUFFERS]

(***************************************************************************)
(* getNewBuffer: the pool grows when as many are used as there are; the    *)
(* front of an empty vector is taken without a test.                       *)
(***************************************************************************)
getNewBuffer(p0) ==
    LET p == IF Len(p0.used) = Len(p0.all) THEN expandBuffer(p0) ELSE p0
    IN  IF p.clean = <<>> THEN [p EXCEPT !.ub = TRUE]
        ELSE [p EXCEPT !.clean = Tail(@), !.used = Append(@, Head(p.clean))]

\* The buffer a call of getNewBuffer returned.
Gotten(p) == Last(p.used)

\* Mutant: a freed buffer stays in use.
freeBufferUsed(p, b) ==
    IF Contains(p.used, b) THEN [p EXCEPT !.clean = Append(@, b)] ELSE p

freeBuffer(p, b) ==
    IF Contains(p.used, b)
    THEN [p EXCEPT !.used = SelectSeq(@, LAMBDA u : u # b), !.clean = Append(@, b)]
    ELSE p

(***************************************************************************)
(* reserveBuffer: the first buffers are clean again, the others deleted,   *)
(* by an iterator that erase has moved to the next already when the loop   *)
(* steps on: every second one stays in the pool, and from an odd number    *)
(* the iterator passes the end.                                            *)
(***************************************************************************)
reserveBuffer(p) ==
    LET more == Len(p.all) - INIT_BUFFERS
        stay == [k \in 1 .. more \div 2 |-> p.all[INIT_BUFFERS + 2 * k]]
    IN  [p EXCEPT !.all = SubSeq(@, 1, INIT_BUFFERS) \o stay, !.used = <<>>,
                  !.clean = SubSeq(p.all, 1, INIT_BUFFERS),
                  !.ub = @ \/ more % 2 = 1]

-----------------------------------------------------------------------------
(***************************************************************************)
(* The store.                                                              *)
(***************************************************************************)
Matches(tp, f) == \A d \in ToSet(Dims) \ Free(tp) : f[d] = tp[d].id

Ranked(S, Lt(_, _)) ==
    LET At(i) == CHOOSE x \in S : Cardinality({y \in S : Lt(y, x)}) = i - 1
    IN  [i \in 1 .. Cardinality(S) |-> At(i)]

RowsOf(tp, cols) ==
    LET Lt(f, g) == LET a == cols[1] IN f[a] * 100 + f.s * 10 + f.o < g[a] * 100 + g.s * 10 + g.o
        all == Ranked({f \in ask.facts : Matches(tp, f)}, Lt)
    IN  [k \in DOMAIN all |-> [c \in DOMAIN cols |-> all[k][cols[c]]]]

\* Lookups that may return a row below the range: those that scan a predicate.
Scans(tp, cols) == Len(cols) = 2 \/ (cols = <<"o">> /\ tp.s.var)

(***************************************************************************)
(* findEntityIDByTriple into a buffer just taken.                          *)
(***************************************************************************)
NoMax == 99

findEntityIDByTriple(p, i, min, max) ==
    LET tp   == Pattern(i)
        cols == p.scan[i]
        rows == RowsOf(tp, cols)
        below == {k \in DOMAIN rows : rows[k][1] < min}
        first == Cardinality(below) + (IF luck.loose /\ below # {} /\ Scans(tp, cols)
                                       THEN 0 ELSE 1)
    IN  [Buffer(Len(cols), 1) EXCEPT
            !.rows = SelectSeq(SubSeq(rows, first, Len(rows)), LAMBDA r : r[1] <= max)]

\* What the statistics count for a pattern: its triples.
Count(i) == Cardinality({f \in ask.facts : Matches(Pattern(i), f)})

\* The table getStatis reads for a pattern, for those that read one.
Table(tp) == CASE ~ tp.s.var /\ tp.o.var -> "sp"
               [] tp.s.var /\ ~ tp.o.var -> "op"
               [] OTHER                  -> "none"

(***************************************************************************)
(* getSelectivity runs as one task per pattern.  getStatis decodes into    *)
(* the members of its table, so that the answers of patterns that read the *)
(* same table are anything.                                                *)
(***************************************************************************)
Raced(i) == /\ Table(Pattern(i)) # "none"
            /\ \E j \in DOMAIN Q.patterns \ {i} : Table(Pattern(j)) = Table(Pattern(i))

Selectivity(wrong, m) ==
    [i \in DOMAIN Q.patterns |-> IF i \in wrong THEN m ELSE Count(i)]

-----------------------------------------------------------------------------
(***************************************************************************)
(* Buffers at work: w is [list, bufs, pool, st], where st is "null" when   *)
(* a join left nothing (NULL_RESULT).                                      *)
(***************************************************************************)
Size(w, t) == Len(w.bufs[w.list[t]].rows)

\* getNewBuffer, for a pattern.
Take(w, t) ==
    LET p == getNewBuffer(w.pool)
    IN  IF p.ub THEN [w EXCEPT !.pool = p]
        ELSE [w EXCEPT !.pool = p, !.list = (t :> Gotten(p)) @@ @,
                       !.bufs = (Gotten(p) :> Buffer(1, 1)) @@ @]

Fill(w, p, t, min, max) ==
    IF w.pool.ub THEN w
    ELSE [w EXCEPT !.bufs[w.list[t]] = findEntityIDByTriple(p, t, min, max)]

\* getMinMax; of an empty buffer it reads other memory.
Bounds(b) == IF b.rows = <<>> THEN <<0, NoMax>> ELSE getMinMax(b)

Join(w, h1, h2, k1, k2) ==
    LET j == MergeJoin(w.bufs[h1], w.bufs[h2], k1, k2, TRUE, luck.past)
    IN  [w EXCEPT !.bufs[h1] = j[1], !.bufs[h2] = j[2]]

(***************************************************************************)
(* The pattern a variable's join starts from.  The first time, patterns of *)
(* two variables that have no buffer get an empty one (fresh), and the     *)
(* smallest of the others is taken; later, the smallest of two variables.  *)
(* The first pattern is taken when there is none.  A pattern that names    *)
(* the variable twice is met twice, and then has the empty buffer.         *)
(***************************************************************************)
Smaller(s, t) ==
    IF Size(s.w, t) < s.minSize THEN [s EXCEPT !.minSize = Size(s.w, t), !.minSizeID = t] ELSE s

Smallest(w, tids) ==
    FoldLeft(Smaller, [w |-> w, minSize |-> NoMax, minSizeID |-> 1, fresh |-> {}], tids).minSizeID

FirstMet(p, s, t) ==
    IF s.w.pool.ub THEN s
    ELSE IF t \in DOMAIN s.w.list THEN Smaller([s EXCEPT !.fresh = @ \ {t}], t)
    ELSE IF getVariableCount(p, t) >= 2
         THEN [s EXCEPT !.w = Take(@, t), !.fresh = @ \cup {t}]
    ELSE s

Tids(p, v) == [k \in DOMAIN p.tpnodes[v] |-> p.tpnodes[v][k].tid]

\* findEntitiesAndJoinFirstTime, one pattern.
JoinFirstTime(w, p, v, t0, fresh, t) ==
    LET h0 == w.list[t0]
        k0 == getVariablePos(Q, p, v, t0)
        k  == getVariablePos(Q, p, v, t)
        b  == Bounds(w.bufs[h0])
    IN  CASE w.st = "null" \/ w.pool.ub \/ t = t0 -> w
          [] t \in fresh ->
                Join(Fill(w, p, t, b[1], b[2]), h0, w.list[t], k0, k)
          [] t \notin fresh /\ getVariableCount(p, t) = 2 ->
                Join(w, h0, w.list[t], k0, k)
          [] OTHER ->
                LET pl == getNewBuffer(w.pool)
                    found == findEntityIDByTriple(p, t, b[1], b[2])
                IN  IF pl.ub THEN [w EXCEPT !.pool = pl]
                    ELSE [w EXCEPT
                        !.bufs[h0] = MergeJoin(@, found, k0, 1, FALSE, luck.past)[1],
                        !.pool = freeBuffer(pl, Gotten(pl))]

Emptied(w, t0) ==
    IF ~ w.pool.ub /\ Size(w, t0) = 0 THEN [w EXCEPT !.st = "null"] ELSE w

findFirstTime(w0, p, v) ==
    LET tids  == Tids(p, v)
        met == FoldLeft(LAMBDA s, t : FirstMet(p, s, t),
                        [w |-> w0, minSize |-> NoMax, minSizeID |-> 1, fresh |-> {}], tids)
        fresh == met.fresh
        w1 == met.w
        t0 == met.minSizeID
        w2 == IF w1.pool.ub \/ t0 \in DOMAIN w1.list THEN w1
              ELSE Fill(Take(w1, t0), p, t0, 0, NoMax)
        w3 == [w2 EXCEPT !.bufs[w2.list[t0]] = sort(@, getVariablePos(Q, p, v, t0))]
    IN  IF w2.pool.ub \/ Len(tids) = 1 THEN w2
        ELSE FoldLeft(LAMBDA w, t : Emptied(JoinFirstTime(w, p, v, t0, fresh, t), t0),
                      w3, tids)

\* modifyEntitiesAndJoin: the buffers of two variables, by hash joins.
JoinAgain(w, p, v, t0, t) ==
    LET j == HashJoin(w.bufs[w.list[t0]], w.bufs[w.list[t]],
                      getVariablePos(Q, p, v, t0), getVariablePos(Q, p, v, t), luck.past)
    IN  IF w.st = "null" \/ t = t0 \/ getVariableCount(p, t) # 2 THEN w
        ELSE [w EXCEPT !.bufs[w.list[t0]] = j[1], !.bufs[w.list[t]] = j[2]]

findAgain(w0, p, v) ==
    LET tids == Tids(p, v)
        t0 == Smallest(w0, SelectSeq(tids, LAMBDA t : getVariableCount(p, t) >= 2))
        w1 == IF t0 \in DOMAIN w0.list THEN w0 ELSE Fill(Take(w0, t0), p, t0, 0, NoMax)
        w2 == [w1 EXCEPT !.bufs[w1.list[t0]] = setSortKey(@, getVariablePos(Q, p, v, t0))]
    IN  IF w1.pool.ub THEN w1
        ELSE FoldLeft(LAMBDA w, t : Emptied(JoinAgain(w, p, v, t0, t), t0), w2, tids)

findEntitiesAndJoin(w, p, v, firstTime) ==
    IF firstTime THEN findFirstTime(w, p, v) ELSE findAgain(w, p, v)

-----------------------------------------------------------------------------
(***************************************************************************)
(* Printing (the end of singleVariableJoin, acyclicJoin, cyclicJoin).  A   *)
(* collection c is [bl, vars, bits, keys]: the patterns whose buffers are  *)
(* joined, the variables of a row of results, those found, and where the   *)
(* key of each buffer but the first is in a row (keyPos).  What is printed *)
(* has st "rows", "none" (empty result), "loops" or "undefined".           *)
(***************************************************************************)
NoCollection == [bl |-> <<>>, vars |-> <<>>, bits |-> {}, keys |-> <<>>]

Printed(rows) == [st |-> "rows", rows |-> rows]
Failed(st) == [st |-> st, rows |-> <<>>]

Wanted(i) == VarsOf(Pattern(i)) \subseteq ToSet(Q.projection)
Covered(c) == Cardinality(c.bits) = Len(Q.projection)
Loaded(w, i) == i \in DOMAIN w.list
Buf(w, i) == w.bufs[w.list[i]]
RowsIn(w, i) == Buf(w, i).rows

\* A row of results in the order of the projection.
Result(c, vec) ==
    LET pos == generateResultPos(c.vars, Q.projection)
    IN  [k \in DOMAIN pos |-> vec[pos[k]]]

Presentable(c) == ToSet(Q.projection) \subseteq ToSet(c.vars)

Others(row, k) == [i \in 1 .. Len(row) - 1 |-> row[IF i < k THEN i ELSE i + 1]]
Block(b, key) == SelectSeq(b.rows, LAMBDA r : r[b.key] = key)

FirstRows(w, c) ==
    LET rows == RowsIn(w, c.bl[1]) IN Printed([k \in DOMAIN rows |-> Result(c, rows[k])])

(***************************************************************************)
(* getResult: the rows of buffer l that have the key, each with what the   *)
(* next buffers have; FALSE, and no more of its rows, once one has nothing *)
(* in the next.                                                            *)
(***************************************************************************)
RECURSIVE getResult(_, _, _, _, _)
getResult(w, c, key, vec, l) ==
    LET b == Buf(w, c.bl[l])
        One(acc, row) ==
            LET v2 == vec \o Others(row, b.key)
                r  == getResult(w, c, v2[c.keys[l]], v2, l + 1)
            IN  IF ~ acc.ret THEN acc
                ELSE IF l = Len(c.bl) THEN [acc EXCEPT !.out = Append(@, Result(c, v2))]
                ELSE [ret |-> r.ret, out |-> acc.out \o r.out]
    IN  IF l > Len(c.bl) THEN [ret |-> TRUE, out |-> <<>>]
        ELSE FoldLeft(One, [ret |-> Block(b, key) # <<>>, out |-> <<>>], Block(b, key))

(***************************************************************************)
(* getResult_join: the same with a row that must agree in two places.  A   *)
(* row that does not is left behind in the vector, in front of the next.   *)
(***************************************************************************)
RECURSIVE getResult_join(_, _, _, _, _, _)
getResult_join(w, c, verify, key, vec, l) ==
    LET b == Buf(w, c.bl[l])
        One(acc, row) ==
            LET v2 == acc.vec \o Others(row, b.key)
                next == getResult_join(w, c, verify, v2[c.keys[l]], v2, l + 1)
            IN  IF l < Len(c.bl) THEN [vec |-> vec, out |-> acc.out \o next]
                ELSE IF v2[verify[1]] # v2[verify[2]] THEN [acc EXCEPT !.vec = v2]
                ELSE [vec |-> vec, out |-> Append(acc.out, Result(c, v2))]
    IN  FoldLeft(One, [vec |-> vec, out |-> <<>>], Block(b, key)).out

-----------------------------------------------------------------------------
(***************************************************************************)
(* One join variable.                                                      *)
(***************************************************************************)
collectSingle(w) ==
    LET v == plan.order[1]
        Add(c, i) ==
            LET ins == insertVarID(Q, plan, IF c.bits = {} THEN NoKey ELSE v, c.vars, i)
            IN  IF Covered(c) \/ ~ Wanted(i) \/ ~ Loaded(w, i) \/ Buf(w, i).n = 1 THEN c
                ELSE [bl |-> Append(c.bl, i), vars |-> ins.vars,
                      bits |-> c.bits \cup VarsOf(Pattern(i)),
                      keys |-> IF c.bits = {} THEN <<>> ELSE Append(c.keys, ins.ret)]
    IN  FoldLeft(Add, NoCollection, Indices(Q.patterns))

(***************************************************************************)
(* With one projection the first ids of the first buffer are printed, as   *)
(* many as it has rows.                                                    *)
(***************************************************************************)
printSingle(w) ==
    LET c    == collectSingle(w)
        rows == RowsIn(w, Tids(plan, plan.order[1])[1])
        ids  == FlattenSeq(rows)
        main == RowsIn(w, c.bl[1])
        key  == Buf(w, c.bl[1]).key
        Each(acc, row) ==
            LET r == getResult(w, c, row[key], row, 2)
            IN  IF row[key] \in acc.skip THEN acc
                ELSE [skip |-> IF r.ret THEN acc.skip ELSE {row[key]}, out |-> acc.out \o r.out]
    IN  IF Len(Q.projection) = 1 THEN Printed([k \in DOMAIN rows |-> <<ids[k]>>])
        ELSE IF ~ Presentable(c) THEN Failed("undefined")
        ELSE IF Len(Q.projection) = 2 THEN FirstRows(w, c)
        ELSE Printed(FoldLeft(Each, [skip |-> {}, out |-> <<>>], main).out)

(***************************************************************************)
(* A tree of join variables.  Patterns are gone through round after round  *)
(* until the projection is covered: those of two columns within it that    *)
(* share one variable with those before.                                   *)
(***************************************************************************)
collectAcyclic(w) ==
    LET Add(s, i) ==
            LET shared == VarsOf(Pattern(i)) \cap s.c.bits
                ins == insertVarID(Q, plan, IF s.c.bits = {} THEN NoKey
                                            ELSE CHOOSE v \in shared : TRUE, s.c.vars, i)
                k   == IF s.c.bits = {} THEN Buf(s.w, i).key ELSE ins.ret
            IN  IF \/ Covered(s.c) \/ ~ Wanted(i)
                   \/ ~ Loaded(w, i) \/ Buf(w, i).n = 1
                   \/ s.c.bits # {} /\ Cardinality(shared) # 1
                THEN s
                ELSE [c |-> [s.c EXCEPT !.bl = Append(@, i), !.vars = ins.vars,
                                        !.bits = @ \cup VarsOf(Pattern(i))],
                      w |-> [s.w EXCEPT !.bufs[w.list[i]] = setSortKey(@, k)]]
        n == Len(Q.patterns)
    IN  FoldLeft(Add, [c |-> NoCollection, w |-> w], [k \in 1 .. n * n |-> ((k - 1) % n) + 1])

\* sort() of the buffers that were collected.
SortAll(w, c) ==
    FoldLeft(LAMBDA u, i : [u EXCEPT !.bufs[w.list[i]].rows =
                                SortedRows(@, u.bufs[w.list[i]].key),
                            !.bufs[w.list[i]].sorted = TRUE], w, c.bl)

(***************************************************************************)
(* One projection: the only buffer of one column that can be there ends    *)
(* the search before its size is taken, and without one the search ends    *)
(* behind the patterns; more than two: the keys are those another query    *)
(* left.                                                                   *)
(***************************************************************************)
printAcyclic(w) ==
    LET s == collectAcyclic(w)
    IN  IF Len(Q.projection) = 1 THEN Failed("undefined")
        ELSE IF ~ Covered(s.c) THEN Failed("loops")
        ELSE IF Len(Q.projection) = 2 THEN FirstRows(SortAll(s.w, s.c), s.c)
        ELSE Failed("undefined")

(***************************************************************************)
(* A graph with a cycle.  Every buffer of a pattern of two variables is    *)
(* collected.  The end of a round is seen only behind a pattern that is    *)
(* not passed over.                                                        *)
(***************************************************************************)
PassedOver(w, i) == ~ Loaded(w, i) \/ Cardinality(VarsOf(Pattern(i))) = 1

collectCyclic(w) ==
    LET Position(idvec, v) == Min({k \in DOMAIN idvec : idvec[k] = v})
        Add(s, i) ==
            LET shared == VarsOf(Pattern(i)) \cap s.c.bits
                ins == insertVarID(Q, plan, IF s.c.bits = {} THEN NoKey ELSE Min(shared),
                                   s.c.vars, i)
                k   == IF s.c.bits = {} THEN Buf(s.w, i).key ELSE ins.ret
            IN  IF \/ PassedOver(w, i) \/ Contains(s.c.bl, i)
                   \/ s.c.bits # {} /\ Cardinality(shared) \notin {1, 2}
                THEN s
                ELSE [c |-> [bl |-> Append(s.c.bl, i), vars |-> ins.vars,
                             bits |-> s.c.bits \cup VarsOf(Pattern(i)),
                             keys |-> IF s.c.bits = {} THEN <<>>
                                      ELSE Append(s.c.keys, Position(ins.vars, ins.sort))],
                      w |-> [s.w EXCEPT !.bufs[w.list[i]] = setSortKey(@, k)]]
        n == Len(Q.patterns)
    IN  FoldLeft(Add, [c |-> NoCollection, w |-> w], [k \in 1 .. n * n |-> ((k - 1) % n) + 1])

printCyclic(w0) ==
    LET s == collectCyclic(w0)
        c == s.c
        w == SortAll(s.w, c)
        verify == generateVerifyPos(c.vars)
        due == {i \in DOMAIN Q.patterns : ~ PassedOver(w0, i)}
        Each(out, row) == out \o getResult_join(w, c, verify, row[c.keys[1]], row, 2)
    IN  IF PassedOver(w0, Len(Q.patterns)) \/ ToSet(c.bl) # due THEN Failed("loops")
        ELSE IF verify = <<>> \/ ~ Presentable(c) THEN Failed("undefined")
        ELSE Printed(FoldLeft(Each, <<>>, RowsIn(w, c.bl[1])))

-----------------------------------------------------------------------------
(***************************************************************************)
(* The life of a query.                                                    *)
(***************************************************************************)
nodeIsLeaf(p, v) == Contains(p.leafNodes, v)
Find(v) == [v |-> v, firstTime |-> TRUE]
Again(v) == [v |-> v, firstTime |-> FALSE]

Finds(p) ==
    LET rest == SelectSeq(p.order, LAMBDA v : v = p.order[1] \/ Len(p.tpnodes[v]) > 1)
    IN  [k \in DOMAIN rest |-> Find(rest[k])]

Inner(p) == LET vs == SelectSeq(p.order, LAMBDA v : ~ nodeIsLeaf(p, v))
            IN  [k \in DOMAIN vs |-> Again(vs[k])]

\* Mutant: no second pass.
firstPass(p) == Finds(p)

\* The passes of acyclicJoin over the join variables, and those of cyclicJoin.
acyclicPasses(p) == Finds(p) \o Inner(p)

cyclicPasses(p) ==
    Finds(p) \o Reverse(Inner(p)) \o [k \in DOMAIN p.order |-> Again(p.order[k])]
             \o Reverse(Inner(p))

Work == [list |-> list, bufs |-> bufs, pool |-> pool, st |-> "ok"]

Put(w) == list' = w.list /\ bufs' = w.bufs /\ pool' = w.pool

Nothing == Failed("none")

Init ==
    /\ ask \in Inputs
    /\ luck \in Lucks
    /\ plan = <<>> /\ pc = "asked" /\ todo = <<>>
    /\ list = <<>> /\ bufs = <<>> /\ pool = BufferManager
    /\ printed = Nothing /\ round = 1

\* encodeTripleNode: the constants of a pattern are looked up.
Named == UNION {{f.s, f.o} : f \in ask.facts}

Known(tp) ==
    /\ ~ tp.p.var => tp.p.id \in {f.p : f \in ask.facts}
    /\ {tp[d].id : d \in {"s", "o"} \ Free(tp)} \subseteq Named

\* RDFQuery::Execute refuses a query, or knows that nothing answers it.
Refuse ==
    /\ pc = "asked"
    /\ {i \in DOMAIN Q.patterns : Pattern(i).p.var \/ ~ Known(Pattern(i))} # {}
    /\ printed' = Nothing /\ pc' = "printed"
    /\ UNCHANGED <<ask, luck, plan, todo, list, bufs, pool, round>>

\* transform and generatePlan.
Plan ==
    /\ pc = "asked"
    /\ {i \in DOMAIN Q.patterns : Pattern(i).p.var \/ ~ Known(Pattern(i))} = {}
    /\ IF collectJoinVariables(Q) = <<>>
       THEN pc' = "undefined" /\ UNCHANGED plan
       ELSE /\ pc' = "planned"
            /\ \E wrong \in SUBSET {i \in DOMAIN Q.patterns : Raced(i)}, m \in Misread :
                    plan' = generatePlan(Q, Selectivity(wrong, m))
    /\ UNCHANGED <<ask, luck, todo, list, bufs, pool, printed, round>>

Next1(w, at) == pc' = IF w.pool.ub THEN "undefined" ELSE at

(***************************************************************************)
(* query: the first buffer is that of the first pattern of the first       *)
(* variable.  With one variable and one projection a second buffer is      *)
(* taken for all the other patterns, and belongs to none (0).              *)
(***************************************************************************)
Start ==
    LET tids == Tids(plan, plan.order[1])
        w1   == Fill(Take(Work, tids[1]), plan, tids[1], 0, NoMax)
        w    == IF Len(plan.order) = 1 /\ Len(Q.projection) = 1 /\ ~ w1.pool.ub
                THEN Take(w1, 0) ELSE w1
    IN  /\ pc = "planned"
        /\ Put(w)
        /\ IF Len(plan.order) = 1
           THEN Next1(w, "single") /\ todo' = Tail(tids)
           ELSE /\ Next1(w, "joins")
                /\ todo' = IF plan.cyclic THEN cyclicPasses(plan) ELSE acyclicPasses(plan)
        /\ UNCHANGED <<ask, luck, plan, printed, round>>

(***************************************************************************)
(* singleVariableJoin, one more pattern: joined into the first buffer,     *)
(* and, with more than one projection, reduced itself and kept.            *)
(***************************************************************************)
SinglePattern ==
    LET t  == Head(todo)
        one == Len(Q.projection) = 1
        h0 == list[Tids(plan, plan.order[1])[1]]
        b  == Bounds(bufs[h0])
        w1 == IF one THEN Work ELSE Take(Work, t)
        h  == IF one THEN list[0] ELSE Gotten(w1.pool)
        found == findEntityIDByTriple(plan, t, b[1], b[2])
        j  == MergeJoin(bufs[h0], found, 1, 1, ~ one, luck.past)
        w  == [w1 EXCEPT !.bufs[h0] = j[1], !.bufs[h] = j[2]]
    IN  /\ pc = "single" /\ todo # <<>>
        /\ IF w1.pool.ub THEN Put(w1) /\ pc' = "undefined" /\ UNCHANGED printed
           ELSE IF j[1].rows = <<>>
                THEN Put([w EXCEPT !.list = list]) /\ pc' = "printed" /\ printed' = Nothing
                ELSE Put(w) /\ UNCHANGED <<pc, printed>>
        /\ todo' = Tail(todo)
        /\ UNCHANGED <<ask, luck, plan, round>>

\* acyclicJoin and cyclicJoin, one variable of a pass.
JoinVariable ==
    LET w == findEntitiesAndJoin(Work, plan, Head(todo).v, Head(todo).firstTime)
    IN  /\ pc = "joins" /\ todo # <<>>
        /\ Put(w)
        /\ IF w.st = "null" THEN pc' = "printed" /\ printed' = Nothing
           ELSE Next1(w, pc) /\ UNCHANGED printed
        /\ todo' = Tail(todo)
        /\ UNCHANGED <<ask, luck, plan, round>>

PrintResult ==
    /\ pc \in {"single", "joins"} /\ todo = <<>>
    /\ printed' = IF pc = "single" THEN printSingle(Work)
                  ELSE IF plan.cyclic THEN printCyclic(Work) ELSE printAcyclic(Work)
    /\ pc' = IF printed'.st = "rows" THEN "printed" ELSE printed'.st
    /\ UNCHANGED <<ask, luck, plan, todo, list, bufs, pool, round>>

(***************************************************************************)
(* TripleBitRepository::execute ends with releaseBuffer; then the query    *)
(* may be asked again.  A map has its keys in order, the buffer of no      *)
(* pattern is in none.                                                     *)
(***************************************************************************)
releaseBuffer ==
    LET p == reserveBuffer(FoldLeft(LAMBDA q, t : IF t \in DOMAIN list THEN freeBuffer(q, list[t]) ELSE q,
                                    pool, Indices(Q.patterns)))
    IN  /\ pc = "printed"
        /\ pool' = p
        /\ list' = <<>> /\ bufs' = <<>>
        /\ pc' = IF p.ub THEN "undefined" ELSE "released"
        /\ UNCHANGED <<ask, luck, plan, todo, printed, round>>

AskAgain ==
    /\ pc = "released" /\ round < MaxRounds
    /\ pc' = "asked" /\ round' = round + 1 /\ todo' = <<>>
    /\ UNCHANGED <<ask, luck, plan, list, bufs, pool, printed>>

Next == Refuse \/ Plan \/ Start \/ SinglePattern \/ JoinVariable \/ PrintResult
        \/ releaseBuffer \/ AskAgain

Spec == Init /\ [][Next]_vars

-----------------------------------------------------------------------------
(***************************************************************************)
(* What a query asks for: the values of its variables for which all its    *)
(* patterns are triples.                                                   *)
(***************************************************************************)
AllVars == UNION {VarsOf(Pattern(i)) : i \in DOMAIN Q.patterns}

Term(b, t) == IF t.var THEN b[t.id] ELSE t.id
Instance(b, tp) == [d \in ToSet(Dims) |-> Term(b, tp[d])]

Solutions ==
    {b \in [AllVars -> Named] :
        \A i \in DOMAIN Q.patterns : Instance(b, Pattern(i)) \in ask.facts}

Answers == {[k \in DOMAIN Q.projection |-> b[Q.projection[k]]] : b \in Solutions}

(***************************************************************************)
(* No join loses an answer: whatever the order of the plan, the state of   *)
(* memory behind the buffers and the pass, a row that is part of an answer *)
(* stays in the buffer of its pattern, and "empty result" is only said     *)
(* when nothing answers the query.  Queries with a pattern that names a    *)
(* variable twice are left out.                                            *)
(***************************************************************************)
Repeating == \E i \in DOMAIN Q.patterns :
                Pattern(i).s = Pattern(i).o /\ Pattern(i).s.var

NothingLost ==
    ~ Repeating =>
    /\ pc \in {"single", "joins"} =>
        \A b \in Solutions : \A i \in DOMAIN list \ {0} :
            [c \in DOMAIN plan.scan[i] |-> Instance(b, Pattern(i))[plan.scan[i][c]]]
                \in ToSet(bufs[list[i]].rows)
    /\ pc = "printed" /\ printed.st = "none" => Solutions = {}

(***************************************************************************)
(* The plan visits each join variable once, and each but the first of a    *)
(* component when a neighbour has been visited, for the buffers of its     *)
(* patterns come from there.  A plan is cyclic exactly when the graph of   *)
(* the join variables has a cycle (two patterns of the same two variables  *)
(* are one), and else its leaves are the variables of one edge that are    *)
(* not a root.                                                             *)
(***************************************************************************)
Edges == joinEdges(Q, collectJoinVariables(Q))
Neighbours(v) == ToSet(getAdjVariableByID(Edges, v))
Roots == {plan.order[k] : k \in {k \in DOMAIN plan.order :
            \A l \in 1 .. k - 1 : plan.order[l] \notin Neighbours(plan.order[k])}}
Tree == Cardinality(ToSet(plan.order)) - Cardinality(Roots) = Len(Edges)

PlanWellFormed ==
    pc = "planned" =>
        /\ IsInjective(plan.order) /\ ToSet(plan.order) = ToSet(collectJoinVariables(Q))
        /\ plan.cyclic <=> ~ Tree
        /\ Tree => ToSet(plan.leafNodes) =
              {v \in ToSet(plan.order) \ Roots : Cardinality(Neighbours(v)) = 1}

(***************************************************************************)
(* A buffer is at work for one pattern at most, and never while the pool   *)
(* has it for free.  As long as the pool did not have to grow, each buffer *)
(* is free or in use, and nothing is undefined.                            *)
(***************************************************************************)
PoolWhole ==
    /\ IsInjective(list) /\ {list[t] : t \in DOMAIN list} \subseteq ToSet(pool.used)
    /\ ToSet(pool.clean) \cap ToSet(pool.used) = {}
    /\ pool.next = INIT_BUFFERS =>
        /\ ~ pool.ub
        /\ ToSet(pool.clean) \cup ToSet(pool.used) = ToSet(pool.all)
        /\ pc = "released" => Len(pool.clean) = INIT_BUFFERS

(***************************************************************************)
(* A printed result has every answer, unless the query has a cycle, where  *)
(* a row that does not agree with itself hides the next ones, or asks for  *)
(* one variable of a query joined by another (what is printed is then the  *)
(* front of a buffer of both).                                             *)
(***************************************************************************)
Projects(vs) == ToSet(Q.projection) \subseteq vs
FirstColumn == Len(plan.order) = 1 /\ Len(Q.projection) = 1

PrintedComplete ==
    /\ printed.st = "rows" /\ ~ plan.cyclic /\ ~ Repeating
    /\ FirstColumn => Projects(ToSet(plan.order))
    => Answers \subseteq ToSet(printed.rows)

(***************************************************************************)
(* What is printed is an answer, when no join took memory behind a buffer  *)
(* for a row.  How far the passes reduce the buffers, and what printing    *)
(* joins, depends on the query and its plan:                               *)
(*  - at most one pattern binds a variable only (a second never reduces    *)
(*    the buffers joined before it), unless only that variable is asked    *)
(*    for, and joins the patterns alone;                                   *)
(*  - a tree: both passes go from the root down, so that what a variable   *)
(*    learns in the first gets one variable up in the second.  The parent  *)
(*    of each must be the root or printed, a printed one must be visited   *)
(*    twice, and no variable has more than two buffers, of which the one   *)
(*    joined first would miss what the last one learnt;                    *)
(*  - a cycle: there is one only, for two places of a row are compared.    *)
(***************************************************************************)
Alone(v) == {t \in ToSet(Tids(plan, v)) : getVariableCount(plan, t) = 1}
Parents(v) == {plan.order[k] : k \in {k \in DOMAIN plan.order :
                 /\ plan.order[k] \in Neighbours(v)
                 /\ \E l \in DOMAIN plan.order : k < l /\ plan.order[l] = v}}
Printing == {plan.order[1]} \cup ToSet(Q.projection)

Determined ==
    /\ IF FirstColumn THEN Projects(ToSet(plan.order))
       ELSE \A v \in ToSet(plan.order) : Cardinality(Alone(v)) <= 1
    /\ plan.cyclic => Len(Edges) <= Len(plan.order)
    /\ ~ plan.cyclic /\ Len(plan.order) > 1 =>
        /\ \A v \in ToSet(Tail(plan.order)) : Parents(v) \cap Printing # {}
        /\ \E v \in ToSet(plan.order) \ ToSet(plan.leafNodes) : v \in ToSet(Q.projection)
        /\ \A v \in ToSet(plan.order) : Cardinality(ToSet(Tids(plan, v)) \ Alone(v)) <= 2

PrintedSound ==
    printed.st = "rows" /\ luck.past = 0 /\ ~ Repeating /\ Determined
    => ToSet(printed.rows) \subseteq Answers
=============================================================================
