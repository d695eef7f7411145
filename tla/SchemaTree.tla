----------------------------- MODULE SchemaTree -----------------------------
(***************************************************************************)
(* The schemas the comparators look at, and where SchemaHas says it is.    *)
(*                                                                         *)
(* A schema is a function from the paths below its root to the attributes  *)
(* found there.  A path is a sequence of steps, one per call of            *)
(* schemaHasRecurse; a step is the kind of nesting and its key: an index   *)
(* for the list kinds, a name for the map kinds, 0 for the others.         *)
(* Names are sequences of segments, because a property called a.b prints   *)
(* like the property b of the property a.                                  *)
(***************************************************************************)
EXTENDS Naturals, Sequences, FiniteSets, SequencesExt

(***************************************************************************)
(* The order of the loops in SchemaHas.                                    *)
(***************************************************************************)
Kinds == <<"items", "jsonSchemas", "allOf", "anyOf", "oneOf", "not", "properties",
           "additionalProperties", "patternProperties", "additionalItems",
           "definitions", "dependencies">>

\* Mutant of MapKinds: the branches of an anyOf are kept in a map.
MapKindsWithAnyOf == {"properties", "patternProperties", "definitions", "dependencies", "anyOf"}

MapKinds == {"properties", "patternProperties", "definitions", "dependencies"}

KindRank(kind) == CHOOSE i \in DOMAIN Kinds : Kinds[i] = kind

\* What one step adds to simpleLocation: a name, [*], an index in
\* brackets or nothing.
LocationOf(step) ==
    CASE step.kind \in {"items", "additionalProperties"} -> <<"[*]">>
      [] step.kind = "jsonSchemas" -> <<"[" \o ToString(step.key) \o "]">>
      [] step.kind = "properties" -> step.key
      [] OTHER -> <<>>

\* simpleLocation.String() of the schema at a path; the root, "^", is <<>>.
SimpleLocation(path) ==
    LET upTo[n \in 0..Len(path)] == IF n = 0 THEN <<>> ELSE upTo[n - 1] \o LocationOf(path[n])
    IN  upTo[Len(path)]

Locations(schema) == {SimpleLocation(p) : p \in DOMAIN schema}

PathsAt(schema, loc) == {p \in DOMAIN schema : SimpleLocation(p) = loc}

-----------------------------------------------------------------------------
(***************************************************************************)
(* The order of a walk.  Loops run in the order of Kinds, lists by index,  *)
(* maps in an order Go draws anew for every range: draw gives map entries  *)
(* their position among the entries of their map.                          *)
(***************************************************************************)
MapEntries(schema) ==
    {p \in DOMAIN schema : p # <<>> /\ Last(p).kind \in MapKinds}

\* The map entries whose order decides which of two schemas at one location is visited
\* last; the order of the others shows nowhere.
Contested(schema) ==
    {p \in MapEntries(schema) : \E a, b \in DOMAIN schema :
        /\ a # b
        /\ SimpleLocation(a) = SimpleLocation(b)
        /\ IsPrefix(p, a) /\ ~IsPrefix(p, b)
        /\ IsStrictPrefix(Front(p), b) /\ b[Len(p)].kind = Last(p).kind}

\* The contested entries of the map a map entry belongs to.
EntriesWith(schema, p) ==
    {q \in Contested(schema) : Front(q) = Front(p) /\ Last(q).kind = Last(p).kind}

Draws(schema) ==
    IF Cardinality(Locations(schema)) = Cardinality(DOMAIN schema) THEN {<<>>}
    ELSE LET entries == [p \in Contested(schema) |-> EntriesWith(schema, p)]
             Fair(draw) == \A p \in DOMAIN entries :
                              {draw[q] : q \in entries[p]} = 1..Cardinality(entries[p])
         IN  {draw \in [DOMAIN entries -> 1..Max({Cardinality(entries[p]) : p \in DOMAIN entries} \cup {1})] :
                Fair(draw)}

\* A schema is visited before what is nested in it, and otherwise in the order of
\* the first step in which two paths differ.
Before(draw, p, q) ==
    \/ IsStrictPrefix(p, q)
    \/ \E i \in 1..(IF Len(p) < Len(q) THEN Len(p) ELSE Len(q)) :
          LET pi == SubSeq(p, 1, i)
              qi == SubSeq(q, 1, i)
          IN  /\ Front(pi) = Front(qi)
              /\ p[i] # q[i]
              /\ \/ KindRank(p[i].kind) < KindRank(q[i].kind)
                 \/ /\ p[i].kind = q[i].kind
                    /\ IF p[i].kind \in MapKinds THEN draw[pi] < draw[qi]
                                                 ELSE p[i].key < q[i].key

\* The schema whose visit is the last one at a location.
LastAt(schema, draw, loc) ==
    CHOOSE p \in PathsAt(schema, loc) :
        \A q \in PathsAt(schema, loc) : p = q \/ Before(draw, q, p)
=============================================================================
