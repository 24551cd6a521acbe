---------------------------- MODULE MCTripleQuery ----------------------------
(***************************************************************************)
(* Queries of each shape the executor tells apart, each over all sets of   *)
(* the triples its patterns can match in a small world.                    *)
(***************************************************************************)
EXTENDS TripleQuery

x == Variable(1)
y == Variable(2)
z == Variable(3)
u == Variable(4)
Pat(a, p, b) == [s |-> a, p |-> Const(p), o |-> b]
F(A, p, B) == {[s |-> a, p |-> p, o |-> b] : a \in A, b \in B}
AskOf(patterns, projection, always, maybe) ==
    [q : {[patterns |-> patterns, projection |-> projection, filters |-> {}]},
     facts : {always \cup some : some \in SUBSET maybe}]
Ask(patterns, projection, triples) == AskOf(patterns, projection, {}, triples)

Two == 1 .. 2
Three == 1 .. 3
Small == F(Two, 1, Two) \cup F(Two, 2, Two)

\* One join variable, with patterns of one variable and of two.
Stars ==
    UNION {Ask(<<Pat(x, 1, y)>>, <<1, 2>>, F(Two, 1, Two)),
           Ask(<<Pat(x, 1, Const(1)), Pat(x, 2, Const(2))>>, <<1>>,
               F(Three, 1, {1}) \cup F(Three, 2, {2})),
           Ask(<<Pat(x, 1, Const(1)), Pat(x, 2, Const(2)), Pat(x, 1, Const(2))>>, <<1>>,
               F(Three, 1, {1, 2}) \cup F(Three, 2, {2})),
           Ask(<<Pat(x, 1, y), Pat(x, 2, Const(2))>>, <<1, 2>>,
               F(Three, 1, {1, 3}) \cup F(Three, 2, {2})),
           Ask(<<Pat(x, 1, y), Pat(x, 2, z)>>, <<1, 2, 3>>, Small),
           Ask(<<Pat(x, 1, y), Pat(x, 2, Const(2)), Pat(x, 3, Const(1))>>, <<1, 2>>,
               F(Three, 1, {1}) \cup F(Three, 2, {2}) \cup F(Three, 3, {1})),
           Ask(<<Pat(x, 1, y), Pat(x, 2, z), Pat(x, 3, Const(1))>>, <<1, 2, 3>>,
               F(Three, 1, {1}) \cup F(Three, 2, {2}) \cup F(Three, 3, {1})),
           Ask(<<Pat(x, 1, y), Pat(x, 2, Const(2))>>, <<2>>,
               F(Three, 1, {1, 3}) \cup F(Three, 2, {2})),
           Ask(<<Pat(x, 1, x), Pat(x, 2, Const(2))>>, <<1>>,
               F(Two, 1, Two) \cup F(Two, 2, {2}))}

Pairs == {<<1, 1>>, <<2, 2>>}
Triplets == Pairs \cup {<<3, 3>>}
R(p, pairs) == {[s |-> a[1], p |-> p, o |-> a[2]] : a \in pairs}

\* Trees of join variables.
Trees ==
    UNION {Ask(<<Pat(x, 1, y), Pat(y, 2, z)>>, <<1, 2>>, F(Two, 1, {1}) \cup F(Two, 2, Two)),
           Ask(<<Pat(x, 1, y), Pat(y, 2, z), Pat(x, 2, Const(1))>>, <<2, 3>>, Small),
           Ask(<<Pat(x, 1, y), Pat(y, 2, z), Pat(z, 1, u), Pat(u, 2, Const(1))>>, <<2, 3>>, Small),
           Ask(<<Pat(x, 1, y), Pat(y, 2, z), Pat(x, 2, Const(1)), Pat(x, 3, Const(1))>>, <<1, 2>>,
               F(Three, 1, {1}) \cup F({1}, 2, {1}) \cup F(Three, 2, {1}) \cup F(Three, 3, {1})),
           Ask(<<Pat(x, 1, y), Pat(y, 2, z), Pat(z, 3, Const(1)), Pat(x, 3, Const(2))>>, <<1, 2>>,
               F({1}, 1, Two) \cup F(Two, 2, Two) \cup F(Two, 3, {1}) \cup F({1}, 3, {2})),
           Ask(<<Pat(x, 1, y), Pat(y, 2, z)>>, <<1, 2, 3>>, F(Two, 1, {1}) \cup F({1}, 2, Two)),
           Ask(<<Pat(x, 1, y), Pat(y, 2, z)>>, <<1, 3>>, F(Two, 1, {1}) \cup F({1}, 2, Two)),
           Ask(<<Pat(x, 1, y), Pat(y, 2, z), Pat(z, 3, u), Pat(u, 4, Const(1))>>, <<1, 2>>,
               R(1, {<<1, 1>>, <<1, 2>>}) \cup R(2, {<<1, 1>>, <<2, 2>>})
               \cup R(3, {<<1, 3>>, <<2, 1>>}) \cup F(Two, 4, {1})),
           AskOf(<<Pat(x, 1, y), Pat(y, 2, z), Pat(x, 3, u), Pat(u, 4, Const(1))>>, <<2, 3>>,
                 R(1, Pairs) \cup F({3}, 4, {1}), R(2, Pairs) \cup R(3, Pairs) \cup F(Two, 4, {1})),
           AskOf(<<Pat(x, 1, y), Pat(y, 2, z), Pat(z, 4, Const(1)), Pat(y, 3, u), Pat(u, 5, Const(1))>>,
                 <<1, 2>>,
                 F({1}, 1, Three) \cup R(2, Triplets) \cup R(3, Triplets) \cup F({1, 4}, 4, {1})
                 \cup F({1, 4}, 5, {1}),
                 F({2, 3}, 4, {1}) \cup F({2, 3}, 5, {1})),
           Ask(<<Pat(x, 1, y), Pat(y, 2, y), Pat(x, 2, Const(1))>>, <<1, 2>>, Small)}

\* Graphs of join variables with a cycle.
Cycles ==
    UNION {Ask(<<Pat(x, 1, y), Pat(y, 2, z), Pat(z, 1, x)>>, <<1, 2, 3>>, Small),
           Ask(<<Pat(x, 1, y), Pat(x, 2, y)>>, <<1, 2>>, Small),
           Ask(<<Pat(x, 1, y), Pat(x, 2, y), Pat(x, 1, Const(1))>>, <<1, 2>>,
               F(Two, 1, Two) \cup F(Two, 2, {1})),
           Ask(<<Pat(x, 1, y), Pat(x, 2, y), Pat(x, 3, y)>>, <<1, 2>>,
               R(1, Pairs) \cup R(2, Pairs) \cup R(3, {<<1, 2>>, <<2, 1>>}))}

MCLucks == {[past |-> 0, loose |-> FALSE], [past |-> 0, loose |-> TRUE],
            [past |-> 3, loose |-> TRUE]}
MCInputs == Stars \cup Trees \cup Cycles
=============================================================================
