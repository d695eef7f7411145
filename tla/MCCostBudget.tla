---------------------------- MODULE MCCostBudget ----------------------------
(***************************************************************************)
(* CRDs for the cost budget: rules below objects, lists and maps, bounded  *)
(* and not, of costs around the limit and beyond the width of an integer.  *)
(***************************************************************************)
EXTENDS CostBudget, TLC

Plain == [type |-> "object", open |-> FALSE, max |-> Unbounded, enum |-> FALSE, present |-> FALSE,
          rules |-> <<>>, broken |-> FALSE, compiles |-> TRUE]
RuleOf(cost) == [cost |-> cost, times |-> 7, error |-> FALSE, message |-> "none", messageCost |-> 0]
Ruled(s, rules) == [s EXCEPT !.present = TRUE, !.rules = rules]
String == [Plain EXCEPT !.type = "string"]

Field(name) == [kind |-> "properties", key |-> name]
Items == [kind |-> "items", key |-> 0]
Values == [kind |-> "additionalProperties", key |-> 0]
List(max) == [Plain EXCEPT !.type = "array", !.max = max]
Map(max) == [Plain EXCEPT !.open = TRUE, !.max = max]

\* A field with a container and what it contains.
Nested(name, container, step, inner) ==
    (<<>> :> Plain) @@ (<<Field(name)>> :> container) @@ (<<Field(name), step>> :> inner)

Lists == {Nested(<<"l">>, List(max), Items, Ruled(String, <<RuleOf(cost)>>)) :
            max \in {Unbounded, 0, 3, 40}, cost \in {0, 2, 3, 300}}
Dotted == {Nested(<<"l", "x">>, List(Unbounded), Items, Ruled(String, <<RuleOf(1)>>))}
Maps == {Nested(<<"m">>, Map(max), Values, Ruled(String, <<RuleOf(cost)>>)) :
           max \in {Unbounded, 3}, cost \in {1, 4}}

\* A second rule, on the list itself: rules that are dear only together.
Both == {Nested(<<"l">>, Ruled(List(max), <<RuleOf(9), RuleOf(cost)>>), Items, Ruled(String, <<RuleOf(3)>>)) :
           max \in {2, 3}, cost \in {1, 2, 9}}

\* Two fields, in an order Go draws, and a branch that prints like one of them.
Siblings == {(<<>> :> Plain) @@ (<<Field(<<"l">>)>> :> Ruled(String, <<RuleOf(l)>>))
               @@ (<<Field(<<"k">>)>> :> Ruled(String, <<RuleOf(k)>>))
               @@ (<<Field(<<"k">>), [kind |-> "anyOf", key |-> 0]>> :> Ruled(String, <<RuleOf(branch)>>)) :
               l \in {2, 12}, k \in {3, 12}, branch \in {3, 12, 900}}

\* Lists in lists, whose cardinality alone is beyond an integer.
Deep == {(<<>> :> Plain) @@ (<<Field(<<"l">>)>> :> List(max)) @@ (<<Field(<<"l">>), Items>> :> List(32))
           @@ (<<Field(<<"l">>), Items, Items>> :> Ruled(String, <<RuleOf(cost)>>)) :
           max \in {0, 32}, cost \in {0, 1}}

\* Rules and schemas the library cannot deal with, and message expressions.
Troubled ==
    {Nested(<<"l">>, Ruled(List(3), <<RuleOf(2)>>), Items, inner) :
       inner \in {Ruled([String EXCEPT !.broken = TRUE], <<RuleOf(4)>>),
                  Ruled([String EXCEPT !.compiles = FALSE], <<RuleOf(4)>>),
                  Ruled([String EXCEPT !.enum = TRUE], <<>>),
                  Ruled([String EXCEPT !.max = 8], <<[RuleOf(0) EXCEPT !.error = TRUE], RuleOf(4)>>),
                  Ruled(String, <<[RuleOf(2) EXCEPT !.message = "invalid"]>>),
                  Ruled(String, <<[RuleOf(2) EXCEPT !.message = "valid", !.messageCost = 18]>>)}}
      \cup {Nested(<<"l">>, Ruled([List(3) EXCEPT !.broken = TRUE], <<RuleOf(2)>>), Items, Ruled(String, <<RuleOf(4)>>))}

Version(schema) == [converts |-> TRUE, schema |-> schema]
Schemas == Lists \cup Dotted \cup Maps \cup Both \cup Siblings \cup Deep \cup Troubled
Cheap == Nested(<<"l">>, List(3), Items, Ruled(String, <<RuleOf(2)>>))
Dear == Nested(<<"l">>, List(40), Items, Ruled(String, <<RuleOf(3)>>))

MCCRDs == {<<>>} \cup {<<Version(schema)>> : schema \in Schemas}
            \cup {<<Version(Cheap), Version(Dear)>>, <<Version(Dear), Version(Cheap)>>,
                  <<[Version(Dear) EXCEPT !.converts = FALSE], Version(Cheap)>>}
=============================================================================
