----------------------------- MODULE MCOksQuery -----------------------------
(* Two classes with two attributes, x and the list y, and three objects.   *)
EXTENDS OksQuery

MCClass == {"base", "sub"}
MCSubClasses == [base |-> {"sub"}, sub |-> {}]
MCRelationship == [base |-> {"r", "s"}, sub |-> {"s"}]
MCTarget == [r |-> "base", s |-> "base"]

MCValuesOf == [x |-> 0..2, y |-> {0}]

CONSTANTS o1, o2, o3
Symmetry == Permutations(Object) \cup Permutations(Index)

Compared(a, n, f) == Bracket(<<Word(a), Number(n), Word(f)>>)
Query(scope, item) == Bracket(<<Word(scope), item>>)

OnX == {Compared("x", n, f) : n \in 0..2, f \in Comparisons}
Ranges(N) == {Compared("x", n, f) : n \in N, f \in {"=", "<", "<=", ">", ">="}}
Both(op, i, j) == Bracket(<<Word(op), i, j>>)

MCSearchTexts ==
    {Query(w, i) : w \in {"all", "this-class"}, i \in OnX}
    \cup {Query("this-class", Both(op, i, j)) :
              op \in {"and", "or"}, i \in Ranges({1}), j \in Ranges(0..2)}
    \cup {Query("this-class", Both(op, i, j)) :
              op \in {"and", "or"}, i \in Ranges({0, 2}), j \in Ranges({1})}

\* Parsing: right and wrong parts, alone and inside others, two or three of them.
Simple == {Compared("x", 0, "="), Compared("y", 1, "<"), Compared("z", 0, "="),
           Compared("x", 1, "?"), Bracket(<<Word("object-id"), Word(o1), Word("=")>>),
           Bracket(<<Word("x"), Word("=")>>), Bracket(<<>>), Word("x")}
Nested == {Bracket(<<Word(r), Word(q), i>>) : r \in {"r", "t"}, q \in {"some", "all"}, i \in Simple}
          \cup {Bracket(<<Word("not"), i>>) : i \in Simple}
          \cup {Both(op, i, j) : op \in {"and", "or"}, i, j \in Simple}
          \cup {Bracket(<<Word("and"), i>>) : i \in Simple}
Deep == Simple \cup Nested \cup {Bracket(<<Word("not"), i>>) : i \in Nested}
        \cup {Bracket(<<Word("s"), Word("some"), i>>) : i \in Nested}
        \cup {Both("or", i, Compared("x", 0, "=")) : i \in Nested}
\* Of three parts one or two may be left out: wrong ones, but not the negation
\* of a wrong one.
Three == LET Parts == {Compared("x", 0, "="), Compared("y", 1, "<"), Compared("z", 0, "="),
                       Bracket(<<Word("not"), Compared("z", 0, "=")>>), Bracket(<<>>)}
         IN  {Bracket(<<Word(op), i, j, k>>) : op \in {"and", "or"}, i, j, k \in Parts}
DeepThree == Three \cup {Bracket(<<Word("not"), i>>) : i \in Three}
             \cup {Bracket(<<Word("s"), Word("all"), i>>) : i \in Three}
             \cup {Bracket(<<Word("or"), i, Compared("z", 0, "="), Compared("x", 0, "=")>>) : i \in Three}
MCTexts == {Query(w, i) : w \in {"all", "this-class", "other"}, i \in Deep}
           \cup {Query("all", i) : i \in DeepThree}

Step(w, names, next) == Bracket(<<Word(w)>> \o [n \in DOMAIN names |-> Word(names[n])] \o next)
MCPathTexts ==
    LET last == Step("direct", <<"s">>, <<>>)
        nested == Step("nested", <<"r", "s">>, <<last>>)
    IN  {last, nested, Step("direct", <<"r", "s">>, <<last>>), Step("nested", <<"s">>, <<>>),
         Step("direct", <<"s">>, <<nested>>), Step("nested", <<"s">>, <<Step("nested", <<"r">>, <<last>>)>>),
         Step("path", <<"r">>, <<>>), Step("direct", <<>>, <<last>>)}
=============================================================================
