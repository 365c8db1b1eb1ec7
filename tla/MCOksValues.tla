----------------------------- MODULE MCOksValues -----------------------------
EXTENDS OksValues

Just(x) == <<x, x>>
From(m, n) == <<Number(m), Number(n)>>

\* Numbers of different width and sign, with a range and initial values.
Numbers ==
    [objects |-> {1}, types |-> {"s8", "u8", "s64"}, multi |-> {FALSE},
     ranges |-> {<<>>, <<From(-1, 1), Just(Number(6))>>, <<<<Number(0), Star>>, Just(Star)>>},
     inits |-> {Empty, Number(0), Number(6)}, formats |-> {"dec", "hex"},
     inputs |-> {<<"s64", -1>>, <<"s64", 6>>, <<"u8", 3>>}, careless |-> {}]

\* Numbers, words and enumerations, single and lists.
Kinds ==
    [objects |-> {1}, types |-> {"s16", "string", "enum"}, multi |-> BOOLEAN,
     ranges |-> {<<>>, <<Just(Number(1)), Just(Word("red"))>>,
               <<Just(Word("red")), Just(Word("blue")), Just(Number(1))>>}, inits |-> {Empty, Number(1)},
     formats |-> {"dec"}, inputs |-> {<<"s16", 1>>, <<"string", Word("red")>>, <<"enum", Word("red")>>},
     careless |-> {}]

\* Truth values.
Booleans ==
    [objects |-> {1}, types |-> {"bool", "s16", "string"}, multi |-> {FALSE},
     ranges |-> {<<>>, <<From(0, 1)>>}, inits |-> {Empty, Number(0), Number(1)}, formats |-> {"dec"},
     inputs |-> {<<"bool", 1>>, <<"s16", 6>>, <<"string", Word("true")>>}, careless |-> {}]

MCSetups == {Numbers, Kinds, Booleans}
=============================================================================
