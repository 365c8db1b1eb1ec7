------------------------------ MODULE OksQuery ------------------------------
(***************************************************************************)
(* Queries (src/src/query.cpp): a text is parsed into an expression,       *)
(* checked, printed, and evaluated on the objects of a class and of its    *)
(* sub-classes, with or without an index; a path query looks for a chain   *)
(* of references between two objects.                                      *)
(*                                                                         *)
(* A text is a tree of items: a word, a number or a bracket with items.    *)
(* Blanks and quotes are left out: no word contains a blank or a bracket,  *)
(* and each number is a valid value of the attribute it is compared with.  *)
(***************************************************************************)
EXTENDS OksIndex

CONSTANTS
    SubClasses,   \* OksClass::p_all_sub_classes of each class
    Relationship, \* the relationships of each class
    Target,       \* the class type of each relationship
    ManyValues,   \* the relationships with a list of values
    Null,         \* the null reference
    SearchTexts,  \* queries to execute, about attributes
    Texts,        \* queries to parse
    PathTexts,    \* path expressions
    MaxRefs       \* bound: references in memory

VARIABLES
    ref,          \* the references of each object by relationship
    query         \* a query parsed from a text, or Unasked

queryVars == <<vars, ref, query>>

Word(w) == [kind |-> "word", word |-> w]
Number(n) == [kind |-> "number", number |-> n]
Bracket(s) == [kind |-> "bracket", items |-> s]

\* Expressions.  Nil stands for the null pointer, for a failed construction.
Nil == [type |-> "nil"]
Comparator(a, v, f) == [type |-> "comparator", attribute |-> a, value |-> v, cmp |-> f]
RelationshipExpression(r, all, e) ==
    [type |-> "relationship", relationship |-> r, all |-> all, e |-> e]
Not(e) == [type |-> "not", e |-> e]
ListOf(op, es) == [type |-> op, es |-> es]

Comparisons == {"=", "!=", "~=", "<", "<=", ">", ">="}
OID == "object-id"

-----------------------------------------------------------------------------
(* From text to expression and back. *)

RECURSIVE CreateExpression(_, _)
CreateExpression(c, item) ==
    LET list == IF item.kind = "bracket" THEN item.items ELSE <<item>>
        first == list[1]
        rest == Tail(list)
        parts == SelectSeq([n \in DOMAIN rest |-> CreateExpression(c, rest[n])],
                           LAMBDA e : e # Nil)
    IN  CASE list = <<>> \/ first.kind # "word" -> Nil
          [] first.word \in {"and", "or"} ->
                 IF Len(rest) < 2 THEN Nil ELSE ListOf(first.word, parts)
          [] first.word = "not" ->
                 IF Len(rest) # 1 THEN Nil ELSE Not(CreateExpression(c, rest[1]))
          [] OTHER ->
                 IF Len(rest) # 2 THEN Nil
                 ELSE IF rest[1] \in {Word("some"), Word("all")}
                 THEN IF first.word \notin Relationship[c] THEN Nil
                      ELSE LET e == CreateExpression(Target[first.word], rest[2])
                           IN  IF e = Nil THEN Nil
                               ELSE RelationshipExpression(first.word, rest[1] = Word("all"), e)
                 ELSE IF \/ first.word \notin Attribute \cup {OID}
                         \/ rest[2] \notin {Word(f) : f \in Comparisons}
                 THEN Nil
                 ELSE Comparator(first.word, rest[1], rest[2].word)

\* Mutant: one part of an and or an or is enough.
RECURSIVE BuggyCheckSyntax(_)
BuggyCheckSyntax(e) ==
    CASE e.type = "comparator" -> TRUE
      [] e.type \in {"relationship", "not"} -> e.e # Nil /\ BuggyCheckSyntax(e.e)
      [] e.type \in {"and", "or"} ->
             e.es # <<>> /\ \A n \in DOMAIN e.es : BuggyCheckSyntax(e.es[n])
      [] OTHER -> FALSE

\* OksQueryExpression::CheckSyntax
RECURSIVE CheckSyntax(_)
CheckSyntax(e) ==
    CASE e.type = "comparator" -> TRUE
      [] e.type \in {"relationship", "not"} -> e.e # Nil /\ CheckSyntax(e.e)
      [] e.type \in {"and", "or"} ->
             Len(e.es) >= 2 /\ \A n \in DOMAIN e.es : CheckSyntax(e.es[n])
      [] OTHER -> FALSE

Quantifier(e) == Word(IF e.all THEN "all" ELSE "some")

\* operator<< of an expression that CheckSyntax accepts
RECURSIVE Text(_)
Text(e) ==
    Bracket(CASE e.type = "comparator" -> <<Word(e.attribute), e.value, Word(e.cmp)>>
              [] e.type = "relationship" ->
                     <<Word(e.relationship), Quantifier(e), Text(e.e)>>
              [] e.type = "not" -> <<Word("not"), Text(e.e)>>
              [] OTHER -> <<Word(e.type)>> \o [n \in DOMAIN e.es |-> Text(e.es[n])])

NoQuery == [good |-> FALSE, all |-> FALSE, e |-> Nil]

\* OksQuery(c, text): "(all (...))" or "(this-class (...))"
CreateQuery(c, item) ==
    IF \/ item.kind # "bracket" \/ Len(item.items) # 2
       \/ item.items[1] \notin {Word("all"), Word("this-class")}
       \/ item.items[2].kind # "bracket"
    THEN NoQuery
    ELSE LET e == CreateExpression(c, item.items[2])
         IN  [good |-> e # Nil, all |-> item.items[1] = Word("all"), e |-> e]

QueryText(q) ==
    Bracket(<<Word(IF q.all THEN "all" ELSE "this-class"), Text(q.e)>>)

-----------------------------------------------------------------------------
(* Evaluation.  A reference is Null, an object, or the name of an object   *)
(* that is not loaded.                                                     *)

Loaded(o) == [kind |-> "object", o |-> o]

\* The first decisive outcome of a sequence, or a default
Decided(outcomes, decisive, default) ==
    LET found == {n \in DOMAIN outcomes : outcomes[n] \in decisive}
    IN  IF found = {} THEN default ELSE outcomes[FirstOf(found)]

\* Comparison of a value with the item of the query
Compare(a, v, item, f) ==
    LET d == item.number
    IN  CASE f \in {"=", "~="} -> v = d
          [] f = "!=" -> v # d
          [] f = "<" -> Less(a, v, d)
          [] f = "<=" -> LessOrEqual(a, v, d)
          [] f = ">" -> Less(a, d, v)
          [] f = ">=" -> LessOrEqual(a, d, v)

Truth(b) == IF b THEN "true" ELSE "false"

\* OksObject::SatisfiesQueryExpression: "error" is an exception, "undefined"
\* the use of a name of class and object as a pointer to an object.
RECURSIVE Satisfies(_, _)
Satisfies(o, e) ==
    LET refs == ref[o][e.relationship]
        Each == [n \in DOMAIN refs |->
                    CASE refs[n] = Null -> IF e.all THEN "false" ELSE "next"
                      [] refs[n].kind = "object" -> Satisfies(refs[n].o, e.e)
                      [] refs[n].kind = "uid" -> "undefined"
                      [] OTHER -> "error"]
        Parts == [n \in DOMAIN e.es |-> Satisfies(o, e.es[n])]
    IN  CASE e.type = "comparator" ->
                 IF e.attribute = OID THEN Truth(e.value = Word(o))
                 ELSE Truth(Compare(e.attribute, value[o][e.attribute], e.value, e.cmp))
          [] e.type = "relationship" /\ e.relationship \in ManyValues ->
                 IF e.all
                 THEN Decided(Each, {"false", "error", "undefined"}, Truth(refs # <<>>))
                 ELSE Decided(Each, {"true", "error", "undefined"}, "false")
          [] e.type = "relationship" ->
                 IF refs[1] = Null THEN "false"
                 ELSE IF refs[1].kind = "object" THEN Satisfies(refs[1].o, e.e)
                 ELSE "error"
          [] e.type = "not" -> LET r == Satisfies(o, e.e)
                               IN  IF r \in {"true", "false"} THEN Truth(r = "false") ELSE r
          [] e.type = "and" -> Decided(Parts, {"false", "error", "undefined"}, "true")
          [] e.type = "or" -> Decided(Parts, {"true", "error", "undefined"}, "false")

Matching(S, e) == {o \in S : Satisfies(o, e) = "true"}

\* The index an expression on class c is answered from
IsSimple(e) == e.type = "comparator" /\ e.attribute \in Attribute
UsableIndex(c, e) ==
    CASE IsSimple(e) -> indices[c][e.attribute]
      [] e.type \in {"and", "or"} /\ Len(e.es) = 2 ->
             IF IsSimple(e.es[1]) /\ IsSimple(e.es[2]) /\ e.es[1].attribute = e.es[2].attribute
             THEN indices[c][e.es[1].attribute] ELSE NoIndex
      [] OTHER -> NoIndex

FromIndex(x, e) ==
    IF e.type = "comparator" THEN FindAll(x, e.value.number, e.cmp)
    ELSE FindAllOfTwo(x, e.type = "and", e.es[1].value.number, e.es[1].cmp,
                                         e.es[2].value.number, e.es[2].cmp)

\* OksClass::execute_query of a query that CheckSyntax accepts
ExecuteQuery(c, q) ==
    LET x == UsableIndex(c, q.e)
        own == CASE Instances(c) = {} -> <<>>
                 [] x # NoIndex -> FromIndex(x, q.e)
                 [] OTHER -> SetToSeq(Matching(Instances(c), q.e))
        others == UNION {Matching(Instances(d), q.e) : d \in SubClasses[c]}
    IN  IF q.all THEN own \o SetToSeq(others) ELSE own

-----------------------------------------------------------------------------
(* Path queries: a path expression is a sequence of levels, each with the  *)
(* names of relationships and whether to go on through nested objects.     *)

Level(nested, rels) == [nested |-> nested, rels |-> rels]

\* QueryPathExpression(text): the part in brackets, when there is one, ends
\* the expression; every other item but the first names a relationship.
NoPath == <<>>

RECURSIVE CreatePath(_)
CreatePath(item) ==
    LET list == item.items
        names == SelectSeq(Tail(list), LAMBDA i : i.kind = "word")
        nested == SelectSeq(list, LAMBDA i : i.kind = "bracket")
        level == Level(list[1] = Word("nested"), [n \in DOMAIN names |-> names[n].word])
    IN  IF \/ item.kind # "bracket" \/ list = <<>> \/ names = <<>>
           \/ list[1] \notin {Word("direct"), Word("nested")}
        THEN NoPath
        ELSE IF nested = <<>> THEN <<level>>
        ELSE LET next == CreatePath(nested[1])
             IN  IF next = NoPath THEN NoPath ELSE <<level>> \o next

RECURSIVE PathText(_)
PathText(p) ==
    LET l == Head(p)
    IN  Bracket(<<Word(IF l.nested THEN "nested" ELSE "direct")>>
                \o [n \in DOMAIN l.rels |-> Word(l.rels[n])]
                \o IF Len(p) = 1 THEN <<>> ELSE <<PathText(Tail(p))>>)

\* The objects relationship r of o refers to, in order; none when the class
\* of o has no such relationship.
Referenced(o, r) ==
    IF r \notin Relationship[class[o]] THEN <<>>
    ELSE LET found == SelectSeq(ref[o][r], LAMBDA x : x # Null /\ x.kind = "object")
         IN  [n \in DOMAIN found |-> found[n].o]

Found(path) == [found |-> TRUE, path |-> path]
NotFound(path) == [found |-> FALSE, path |-> path]

\* The object stays in the path.
BuggyLeave(path) == NotFound(path)

\* The end of a failing satisfies: the object leaves the path.
Leave(path) == NotFound(Front(path))

\* OksObject::satisfies(goal, p, path) and its two loops: the relationships
\* of the level from number i on, the objects of a sequence.
RECURSIVE Search(_, _, _, _), Along(_, _, _, _, _), AnyOf(_, _, _, _)
Search(goal, p, o, path) ==
    IF o \in ToSet(path) THEN NotFound(path)
    ELSE Along(goal, p, o, 1, Append(path, o))

Along(goal, p, o, i, path) ==
    LET r == Head(p).rels[i]
        objects == Referenced(o, r)
        next == Along(goal, p, o, i + 1, path)
    IN  CASE i > Len(Head(p).rels) -> Leave(path)
          [] r \notin Relationship[class[o]] -> next
          [] goal \in ToSet(objects) -> Found(path)
          [] Len(p) = 1 -> next
          [] Head(p).nested ->
                 LET direct == Search(goal, Tail(p), o, Front(path))
                     nested == AnyOf(goal, p, objects, Append(direct.path, o))
                 IN  IF direct.found THEN direct
                     ELSE IF nested.found THEN nested
                     ELSE Along(goal, p, o, i + 1, nested.path)
          [] OTHER ->
                 LET deeper == AnyOf(goal, Tail(p), objects, path)
                 IN  IF deeper.found THEN deeper
                     ELSE Along(goal, p, o, i + 1, deeper.path)

AnyOf(goal, p, objects, path) ==
    IF objects = <<>> THEN NotFound(path)
    ELSE LET first == Search(goal, p, Head(objects), path)
         IN  IF first.found THEN first
             ELSE AnyOf(goal, p, Tail(objects), first.path)

FindPath(goal, p, o) == Search(goal, p, o, <<>>)
-----------------------------------------------------------------------------
(* Parsing and evaluating change no object.  Bounds: texts are parsed      *)
(* before there are objects, references are set when all objects exist.    *)

NoRefs == [o \in Object |-> [r \in DOMAIN Target |-> IF r \in ManyValues THEN <<>> ELSE <<Null>>]]
Unasked == [text |-> Nil]
Idle == query = Unasked /\ careless = {} /\ index = [x \in Index |-> NoIndex]

Init == IndexInit /\ ref = NoRefs /\ query = Unasked

ParseQuery(c, t) ==
    /\ Idle /\ Existing = {} /\ ref = NoRefs
    /\ query' = [text |-> t, class |-> c, query |-> CreateQuery(c, t)]
    /\ UNCHANGED <<vars, ref>>

\* The values of relationships, none of them twice in a list
Refs(r) == IF r \in ManyValues THEN {[n \in DOMAIN s |-> Loaded(s[n])] :
                                         s \in UNION {SetToSeqs(S) : S \in SUBSET Object}}
           ELSE {<<Null>>} \cup {<<Loaded(o)>> : o \in Object}

NumberOfRefs ==
    FoldSet(LAMBDA x, n : n + Len(SelectSeq(ref[x[1]][x[2]], LAMBDA v : v # Null)), 0,
            Object \X DOMAIN Target)

SetReference(o, r, v) ==
    /\ Idle /\ Existing = Object /\ value = [x \in Object |-> NoValues]
    /\ r \in Relationship[class[o]] /\ ref[o][r] = NoRefs[o][r]
    /\ ref' = [ref EXCEPT ![o][r] = v]
    /\ NumberOfRefs' <= MaxRefs
    /\ UNCHANGED <<vars, query>>

Next ==
    \/ ref = NoRefs /\ query = Unasked /\ IndexNext /\ UNCHANGED <<ref, query>>
    \/ \E c \in Class, t \in Texts : ParseQuery(c, t)
    \/ \E o \in Object, r \in DOMAIN Target : \E v \in Refs(r) : SetReference(o, r, v)

Spec == Init /\ [][Next]_queryVars

-----------------------------------------------------------------------------
(* Properties. *)

Queries == [c \in Class |-> {q \in {CreateQuery(c, t) : t \in SearchTexts} :
                                  q.good /\ CheckSyntax(q.e)}]

\* The answers depend on values and indices only.
Asking == careless = {} /\ ref = NoRefs /\ query = Unasked

Scope(c, q) == Instances(c) \cup IF q.all THEN UNION {Instances(d) : d \in SubClasses[c]} ELSE {}

Comparators(e) == IF e.type = "comparator" THEN {e.cmp}
                  ELSE IF e.type = "not" THEN {e.e.cmp}
                  ELSE {e.es[n].cmp : n \in DOMAIN e.es}

AnswerIsExact(c, q) ==
    LET answer == ExecuteQuery(c, q)
    IN  IsInjective(answer) /\ ToSet(answer) = Matching(Scope(c, q), q.e)

\* A query about ranges of values has the same answer with and without an
\* index: every matching object once, nothing else (execute_query).
SearchIsExact ==
    Asking => \A c \in Class : \A q \in Queries[c] :
        Comparators(q.e) \subseteq {"=", "<", "<=", ">", ">="} => AnswerIsExact(c, q)

\* What may stand for an expression on class c.
RECURSIVE IsExpression(_, _)
IsExpression(c, item) ==
    /\ item.kind = "bracket" /\ Len(item.items) >= 2
    /\ LET s == item.items
           quantified == s[2] \in {Word("some"), Word("all")}
       IN  \/ /\ Len(s) = 3 /\ ~quantified
              /\ \E a \in Attribute \cup {OID} : s[1] = Word(a)
              /\ \E f \in Comparisons : s[3] = Word(f)
           \/ /\ Len(s) = 3 /\ quantified
              /\ \E r \in Relationship[c] : s[1] = Word(r) /\ IsExpression(Target[r], s[3])
           \/ Len(s) = 2 /\ s[1] = Word("not") /\ IsExpression(c, s[2])
           \/ /\ Len(s) > 2 /\ s[1] \in {Word("and"), Word("or")}
              /\ \A n \in 2..Len(s) : IsExpression(c, s[n])

\* Text t is text s, except that an and or an or has lost parts that are no
\* expressions; the others are in the same order.
RECURSIVE Says(_, _, _)
Says(c, t, s) ==
    \/ t = s
    \/ /\ t.kind = "bracket" /\ s.kind = "bracket"
       /\ 2 <= Len(t.items) /\ Len(t.items) <= Len(s.items) /\ t.items[1] = s.items[1]
       /\ \/ /\ s.items[1] \in {Word("and"), Word("or")}
             /\ \E kept \in SUBSET (2..Len(s.items)) :
                    LET old == SetToSortSeq(kept, <)
                    IN  /\ Len(old) = Len(t.items) - 1
                        /\ \A n \in DOMAIN old : Says(c, t.items[n + 1], s.items[old[n]])
                        /\ \A n \in (2..Len(s.items)) \ kept : ~ IsExpression(c, s.items[n])
          \/ /\ Len(s.items) = Len(t.items) /\ Front(s.items) = Front(t.items)
             /\ \/ s.items[1] = Word("not") /\ Says(c, Last(t.items), Last(s.items))
                \/ \E r \in Relationship[c] :
                      s.items[1] = Word(r) /\ Says(Target[r], Last(t.items), Last(s.items))

\* A query whose text is an expression is accepted.  A query that is accepted
\* is the one that was written, except for parts of an and or an or that are no
\* expressions: create_expression leaves these out (query.cpp:319-331), as long
\* as two others remain.  Its printed text is an expression, which is parsed to
\* the same query.  So a text without such parts is printed as it was written.
QueryIsItsText ==
    query # Unasked =>
        LET q == query.query
            c == query.class
            written == query.text.items
            accepted == q.good /\ CheckSyntax(q.e)
            printed == QueryText(q)
        IN  /\ written[1] \in {Word("all"), Word("this-class")} /\ IsExpression(c, written[2])
                   => accepted
            /\ accepted => /\ printed.items[1] = written[1]
                           /\ IsExpression(c, printed.items[2])
                           /\ Says(c, printed.items[2], written[2])
                           /\ CreateQuery(c, printed) = q

\* The chains of different objects a path expression allows: a step follows
\* a relationship of the level of its first object; the next object is on
\* the next level, or on the same one when that is nested; from a nested
\* level an object may go down without a step if its class has one of the
\* relationships of that level.
Deeper(p, o, l, m) ==
    l <= m /\ \A n \in l..m - 1 : p[n].nested /\ ToSet(p[n].rels) \cap Relationship[class[o]] # {}

IsChain(goal, p, start, path) ==
    LET Linked(o, l, t) == \E n \in DOMAIN p[l].rels : t \in ToSet(Referenced(o, p[l].rels[n]))
    IN  /\ path # <<>> /\ path[1] = start /\ IsInjective(path)
        /\ \E level \in [DOMAIN path -> DOMAIN p] :
            /\ Deeper(p, start, 1, level[1])
            /\ \A n \in 1..Len(path) - 1 :
                   /\ Linked(path[n], level[n], path[n + 1])
                   /\ level[n] < Len(p)
                   /\ Deeper(p, path[n + 1], IF p[level[n]].nested THEN level[n] ELSE level[n] + 1,
                             level[n + 1])
            /\ Linked(path[Len(path)], level[Len(path)], goal)

\* find_path finds a chain of references from the start to the goal when
\* there is one, and what it returns is one.
PathIsFound ==
    ref # NoRefs => \A t \in PathTexts, start, goal \in Object :
        LET p == CreatePath(t)
            result == FindPath(goal, p, start)
        IN  p # NoPath =>
            /\ PathText(p) = t
            /\ IF result.found THEN IsChain(goal, p, start, result.path)
               ELSE ~ \E S \in SUBSET Object : \E path \in SetToSeqs(S) :
                          IsChain(goal, p, start, path)
=============================================================================
