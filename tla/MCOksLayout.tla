----------------------------- MODULE MCOksLayout -----------------------------
EXTENDS OksLayout, TLC

Symmetry == Permutations(AttributeName) \cup Permutations(RelationshipName) \cup Permutations(ItemType)

Setup(O, n, s) == [objects |-> O, max |-> n, careless |-> s]

\* Objects of both classes, or two of the derived one.
MCSetups ==
    {Setup({1, 2}, 3, {}), Setup({2, 3}, 3, {}), Setup({2}, 3, {"removeOverride"}),
     Setup({1, 2}, 2, {"retypeOverridden"}), Setup({2, 3}, 2, {"noConversion"})}
=============================================================================
