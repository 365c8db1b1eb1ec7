--------------------------- MODULE MCOksComposite ---------------------------
EXTENDS OksComposite, TLC

Symmetry == Permutations(Object) \cup Permutations(File)

\* A part of one parent only, and a part that is shared; both are dependent.
Tree == [files |-> File, saved |-> File,
         rel |-> {"part", "uses"}, many |-> {}, max |-> 1,
         composite |-> {"part", "uses"}, exclusive |-> {"part"},
         dependent |-> {"part", "uses"}, careless |-> {}]

\* A list of parts and a reference that is not composite.
Weak == [files |-> File, saved |-> {},
         rel |-> {"parts", "weak"}, many |-> {"parts"}, max |-> 1,
         composite |-> {"parts"}, exclusive |-> {"parts"},
         dependent |-> {}, careless |-> {}]

\* Lists of more than one part, in one file.
Lists(f) == [files |-> {f}, saved |-> {f},
             rel |-> {"uses"}, many |-> {"uses"}, max |-> 2,
             composite |-> {"uses"}, exclusive |-> {},
             dependent |-> {"uses"}, careless |-> {}]

MCSetups == {Tree, Weak} \cup {Lists(f) : f \in File}
=============================================================================
