---------------------------- MODULE MCOksObjects ----------------------------
EXTENDS OksObjects

\* Objects by name, of class A or its subclass B, and their texts.
Name(c, i) == <<c, i, 0>>
a == Name("A", "a")
b == Name("A", "b")
p == Name("A", "p")
q == Name("B", "q")

Leaf(rels, n) == [uid |-> n, value |-> [r \in rels |-> <<>>], readable |-> TRUE]
Parent(rels, n, r, v) == [Leaf(rels, n) EXCEPT !.value[r] = v]
Broken(text) == [text EXCEPT !.readable = FALSE]

\* Two threads read three files: parts, a parent of some of them, and one that
\* refers to all before they are read.  The two parents share no part.
Parallel ==
    LET R == {"part", "uses"}
    IN  [files |-> <<"parts", "parent", "user">>,
         content |-> [parts  |-> {<<Leaf(R, a), Leaf(R, b)>>},
                      parent |-> {<<Parent(R, p, "part", <<a>>)>>, <<Parent(R, p, "part", <<a, a>>)>>,
                                  <<Leaf(R, a)>>},
                      user   |-> {<<Parent(R, q, "uses", <<p, b>>)>>, <<Parent(R, q, "part", <<b>>)>>}],
         rels |-> <<"part", "uses">>, composite |-> {"part"}, exclusive |-> {"part"}, dependent |-> {},
         threads |-> 2, notify |-> FALSE, test |-> FALSE, allow |-> FALSE, edits |-> 0, reloads |-> 0]

\* Parts move between parents and files, and are reloaded with the callback
\* on changes or without it.
Moves(notify) ==
    LET R == {"part"}
    IN  [files |-> <<"f", "g">>,
         content |-> [f |-> {<<Leaf(R, a), Parent(R, p, "part", <<a>>)>>,
                             <<Parent(R, p, "part", <<b>>), Leaf(R, a)>>, <<Parent(R, p, "part", <<>>)>>,
                             <<Leaf(R, a)>>},
                      g |-> {<<Parent(R, q, "part", <<a>>)>>, <<Parent(R, q, "part", <<b>>), Leaf(R, b)>>,
                             <<Leaf(R, a), Leaf(R, q)>>}],
         rels |-> <<"part">>, composite |-> {"part"}, exclusive |-> {"part"}, dependent |-> {},
         threads |-> 1, notify |-> notify, test |-> FALSE, allow |-> FALSE, edits |-> 2, reloads |-> 2]

\* Objects of one id in a hierarchy, read by one thread and reloaded.
Hierarchy(threads) ==
    LET c == Name("A", "x")
        d == Name("B", "x")
        R == {}
    IN  [files |-> <<"f", "g">>,
         content |-> [f |-> {<<Leaf(R, c)>>, <<Leaf(R, d)>>, <<>>},
                      g |-> {<<Leaf(R, d)>>, <<Leaf(R, q)>>, <<Leaf(R, c)>>}],
         rels |-> <<>>, composite |-> {}, exclusive |-> {}, dependent |-> {},
         threads |-> threads, notify |-> TRUE, test |-> TRUE, allow |-> FALSE, edits |-> 2, reloads |-> 1]

\* Duplicated objects are loaded under names of their own.
Duplicates ==
    LET R == {"uses"}
    IN  [files |-> <<"f", "g">>,
         content |-> [f |-> {<<Leaf(R, a), Leaf(R, a)>>, <<Leaf(R, a), Parent(R, p, "uses", <<a>>)>>},
                      g |-> {<<Leaf(R, b), Leaf(R, b)>>, <<Leaf(R, a)>>}],
         rels |-> <<"uses">>, composite |-> {}, exclusive |-> {}, dependent |-> {},
         threads |-> 1, notify |-> FALSE, test |-> TRUE, allow |-> TRUE, edits |-> 0, reloads |-> 0]

\* A text that cannot be read to its end, reloaded without the callback.
Unreadable ==
    LET R == {"uses"}
    IN  [files |-> <<"f">>,
         content |-> [f |-> {<<Parent(R, p, "uses", <<a>>), Leaf(R, a)>>,
                             <<Broken(Parent(R, p, "uses", <<b>>))>>, <<Leaf(R, p), Leaf(R, b)>>}],
         rels |-> <<"uses">>, composite |-> {}, exclusive |-> {}, dependent |-> {},
         threads |-> 1, notify |-> FALSE, test |-> FALSE, allow |-> FALSE, edits |-> 2, reloads |-> 2]

\* Shared parts, dependent too, read by one thread.
Shared ==
    LET R == {"uses"}
    IN  [files |-> <<"f", "g">>,
         content |-> [f |-> {<<Leaf(R, a), Parent(R, p, "uses", <<a, b>>)>>, <<Parent(R, p, "uses", <<a>>)>>},
                      g |-> {<<Leaf(R, b), Parent(R, q, "uses", <<a, b>>)>>}],
         rels |-> <<"uses">>, composite |-> {"uses"}, exclusive |-> {}, dependent |-> {"uses"},
         threads |-> 1, notify |-> FALSE, test |-> FALSE, allow |-> FALSE, edits |-> 0, reloads |-> 0]

MCSetups == {Parallel, Moves(TRUE), Moves(FALSE), Hierarchy(1), Duplicates, Unreadable, Shared}

\* Two threads create objects of one id.
RaceSetups == {[Hierarchy(2) EXCEPT !.edits = 0, !.reloads = 0]}
=============================================================================
