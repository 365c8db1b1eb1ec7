----------------------------- MODULE MCOksSchema -----------------------------
EXTENDS OksSchema, TLC

CONSTANTS f, g

Times(n, k) == [m \in Name |-> IF m <= n THEN k ELSE 0]

\* n classes made one by one, as with an editor, in two files.
Edited(n, s) ==
    [content |-> [x \in File |-> <<>>], owner |-> {1, 3}, abstract |-> {1},
     uses |-> Times(n, 1), careless |-> s]

\* Two schema files with a class in common, changed after they were loaded; a
\* class may be destroyed and made again.
Loaded(s) ==
    [Edited(3, s) EXCEPT
       !.content = (f :> <<[name |-> 1, supers |-> <<>>], [name |-> 2, supers |-> <<1>>]>>
                    @@ g :> <<[name |-> 3, supers |-> <<1, 2>>], [name |-> 1, supers |-> <<>>]>>),
       !.uses = Times(3, 2)]

MCSetups ==
    {Edited(4, {}), Loaded({}), Loaded({"loadUnfit"}), Edited(3, {"testIds"}),
     Edited(3, {"destroySuper"}), Edited(2, {"closeSome"}), Edited(2, {"unknownSuper"})}
=============================================================================
