----------------------------- MODULE Conditions -----------------------------
(***************************************************************************)
(* The rule ConditionsMustHaveProperSSATags: every list below something    *)
(* named conditions has to look like a list of metav1.Condition.           *)
(*                                                                         *)
(* What a validator expects of an attribute (a pattern, a length, a value  *)
(* of an enum, a format) is a check; the schema of an attribute carries    *)
(* wrong, the checks it fails, and unset, the limits it leaves out.  The   *)
(* validators read a limit through its pointer without a look, so a limit  *)
(* that is left out ends the process instead of failing its check.         *)
(***************************************************************************)
EXTENDS SchemaTree

Attributes == {"type", "reason", "status", "observedGeneration", "lastTransitionTime", "message"}

Checks(attribute) ==
    CASE attribute \in {"type", "reason"} -> {"pattern", "maxLength"}
      [] attribute = "status" -> {"enum length", "True", "False", "Unknown"}
      [] attribute = "observedGeneration" -> {"minimum"}
      [] attribute = "lastTransitionTime" -> {"type", "format"}
      [] attribute = "message" -> {"maxLength"}

\* The limits that are pointers.
Pointers == {"maxLength", "minimum"}

\* The location contains .conditions: a name in it begins that way.
ConditionsNames == {"conditions"}
IsConditions(schema, p) ==
    schema[p].type = "array" /\ ToSet(SimpleLocation(p)) \cap ConditionsNames # {}

ConditionsLists(schema) == {p \in DOMAIN schema : IsConditions(schema, p)}

ItemsOf(p) == Append(p, [kind |-> "items", key |-> 0])
AttributeOf(p, name) == Append(ItemsOf(p), [kind |-> "properties", key |-> <<name>>])

Missing(schema, p) == {a \in Attributes : AttributeOf(p, a) \notin DOMAIN schema}

\* Mutant of validateConditionProperties: the attributes are not asked for.
validatePresentProperties(schema, p) ==
    IF Missing(schema, p) # {} THEN {}
    ELSE UNION {{<<a, check>> : check \in schema[AttributeOf(p, a)].wrong \cap Checks(a)} : a \in Attributes}

\* An attribute that is missing hides what is wrong with the others.
validateConditionProperties(schema, p) ==
    IF Missing(schema, p) # {} THEN {<<a, "missing">> : a \in Missing(schema, p)}
    ELSE UNION {{<<a, check>> : check \in schema[AttributeOf(p, a)].wrong \cap Checks(a)} : a \in Attributes}

\* A nil pointer on the way: no schema for the items, or a limit that is left out
\* while every attribute is there.
Panics(schema, p) ==
    \/ ItemsOf(p) \notin DOMAIN schema
    \/ /\ Missing(schema, p) = {}
       /\ \E a \in Attributes : schema[AttributeOf(p, a)].unset \cap Pointers \cap Checks(a) # {}

\* What is reported of one version, as location and text.  Faulty attributes are all
\* reported for one field, ^.status.condition, wherever their list is.
ConditionFaults(schema) ==
    LET lists == ConditionsLists(schema)
        WithoutMap == {p \in lists : schema[p].listType # "map"}
        WithoutKey == {p \in lists : schema[p].mapKeys # {"type"}}
    IN  (UNION {{<<<<"status", "condition">>, fault>> :
                   fault \in validateConditionProperties(schema, p)} : p \in lists})
          \cup {<<SimpleLocation(p), <<"list", "type">>>> : p \in WithoutMap}
          \cup {<<SimpleLocation(p), <<"list", "map keys">>>> : p \in WithoutKey}

ConditionsPanic(schema) == \E p \in ConditionsLists(schema) : Panics(schema, p)
=============================================================================
