--------------------------- MODULE RequiredFields ---------------------------
(***************************************************************************)
(* The rule NoNewRequiredFields: what the schema of a version requires and *)
(* its predecessor did not, unless it sits in something new that is itself *)
(* optional.                                                               *)
(*                                                                         *)
(* The schemas carry, beside their type, required (a set of names) and     *)
(* minLength (0 when unset).  A fldPath stands for the path it prints:     *)
(* they differ only below definitions and patternProperties, which no CRD  *)
(* may have.                                                               *)
(***************************************************************************)
EXTENDS SchemaTree

\* The steps whose fldPath ends in a bracket, where lastIndexOrKeyRegexp finds a name.
Bracketed == {"properties", "patternProperties", "jsonSchemas", "allOf", "anyOf", "oneOf"}

\* What it finds there: the name of a property, but the index of a branch as well.
lastStep(p) ==
    IF Last(p).kind \in {"properties", "patternProperties"} THEN Last(p).key
    ELSE <<ToString(Last(p).key)>>

RequiredByParent(schema, p) == lastStep(p) \in schema[Front(p)].required

\* The two ways of being optional that the rule knows: not required by the parent ...
NotRequired(schema, p) == p # <<>> /\ Last(p).kind \in Bracketed /\ ~RequiredByParent(schema, p)

\* ... and a list that may be empty.
isFieldOptional(schema, p) ==
    \/ schema[p].type = "array" /\ schema[p].minLength = 0
    \/ NotRequired(schema, p)

isAnyAncestorNewAndNullable(old, new, p) ==
    \E q \in {SubSeq(p, 1, i) : i \in 0..(Len(p) - 1)} :
        /\ isFieldOptional(new, q)
        /\ q \notin DOMAIN old
        /\ q = <<>> \/ NotRequired(new, q)

\* A list that has to have elements counts as required, whether it is new or not.
RequiredArrays(old, new) ==
    {SimpleLocation(p) : p \in {q \in DOMAIN new :
        /\ new[q].type = "array"
        /\ new[q].minLength > 0
        /\ ~isAnyAncestorNewAndNullable(old, new, q)}}

\* Mutant of NewNames: being optional will do, new or not.
NewNamesUnlessOptional(old, new, p) ==
    IF \/ new[p].type = "array"
       \/ isFieldOptional(new, p)
       \/ isAnyAncestorNewAndNullable(old, new, p)
    THEN {}
    ELSE new[p].required \ (IF p \in DOMAIN old THEN old[p].required ELSE {})

\* The names required at p that were not, unless p is new and optional itself.
NewNames(old, new, p) ==
    IF \/ new[p].type = "array"
       \/ p \notin DOMAIN old /\ isFieldOptional(new, p)
       \/ isAnyAncestorNewAndNullable(old, new, p)
    THEN {}
    ELSE new[p].required \ (IF p \in DOMAIN old THEN old[p].required ELSE {})

\* The locations that are reported of one version.
NewlyRequired(old, new) ==
    RequiredArrays(old, new)
      \cup UNION {{SimpleLocation(p) \o name : name \in NewNames(old, new, p)} : p \in DOMAIN new}
=============================================================================
