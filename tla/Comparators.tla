---------------------------- MODULE Comparators ----------------------------
(***************************************************************************)
(* Comparators of pkg/manifestcomparators as operators on CRDs.            *)
(*                                                                         *)
(* A CRD maps the names of its versions to a schema and to whether the     *)
(* version has a status subresource.  A message is the rule that speaks,   *)
(* the version, the location and what else its text shows; two messages    *)
(* have the same text iff these are equal, so a list of messages is the    *)
(* set of them.  Every schema carries the attributes                       *)
(*   type, format, listType ("" when unset), enum (a set of values) and    *)
(*   open (additionalProperties is present, as a schema or as true),       *)
(* mapKeys (x-kubernetes-list-map-keys) and those that RequiredFields and  *)
(* Conditions describe.                                                    *)
(***************************************************************************)
EXTENDS RequiredFields, Conditions

CONSTANT NoCRD      \* the nil *CustomResourceDefinition

Message(rule, v, loc, detail) == [rule |-> rule, version |-> v, at |-> loc, detail |-> detail]

-----------------------------------------------------------------------------
(***************************************************************************)
(* Rules that look at one CRD, the SingleCRDValidators.                    *)
(***************************************************************************)
NoBools(s) == s.type = "boolean"
NoFloats(s) == s.type = "number"
NoUints(s) == s.format = "uint"
NoMaps(s) == s.type = "object" /\ s.open
ListsMustHaveSSATags(s) == s.type = "array" /\ s.listType = ""

\* The rules that a schema breaks by itself.
Broken(s) ==
    {rule \in {"NoBools", "NoFloats", "NoUints", "NoMaps", "ListsMustHaveSSATags"} :
        CASE rule = "NoBools" -> NoBools(s)
          [] rule = "NoFloats" -> NoFloats(s)
          [] rule = "NoUints" -> NoUints(s)
          [] rule = "NoMaps" -> NoMaps(s)
          [] rule = "ListsMustHaveSSATags" -> ListsMustHaveSSATags(s)}

BrokenIn(v, schema) ==
    UNION {{Message(rule, v, SimpleLocation(p), "") : rule \in Broken(schema[p])} : p \in DOMAIN schema}

\* The walk stops at the first ^.status; whether it met one is all that is told.
MustHaveStatus(crd) ==
    {Message("MustHaveStatus", v, <<"status">>, "") :
        v \in {u \in DOMAIN crd : ~crd[u].statusSubresource /\ <<"status">> \in Locations(crd[u].schema)}}

ConditionsMustHaveProperSSATags(crd) ==
    UNION {{Message("ConditionsMustHaveProperSSATags", v, fault[1], fault[2]) :
              fault \in ConditionFaults(crd[v].schema)} : v \in DOMAIN crd}

Validate(crd) ==
    (UNION {BrokenIn(v, crd[v].schema) : v \in DOMAIN crd})
      \cup MustHaveStatus(crd)
      \cup ConditionsMustHaveProperSSATags(crd)

\* Validating a CRD ends the process.
Crashes(crd) == crd # NoCRD /\ \E v \in DOMAIN crd : ConditionsPanic(crd[v].schema)

\* Mutant of RatchetCompare: stringDiff with its arguments swapped.
RatchetSwapped(existingCRD, newCRD) ==
    (IF existingCRD = NoCRD THEN {} ELSE Validate(existingCRD)) \ Validate(newCRD)

\* Mutant of RatchetCompare: without an existing CRD there is nothing to report, as
\* in the rules that compare.
RatchetSkipsCreate(existingCRD, newCRD) ==
    IF existingCRD = NoCRD THEN {} ELSE Validate(newCRD) \ Validate(existingCRD)

\* stringDiff of the new messages and the old ones.
RatchetCompare(existingCRD, newCRD) ==
    Validate(newCRD) \ (IF existingCRD = NoCRD THEN {} ELSE Validate(existingCRD))

-----------------------------------------------------------------------------
(***************************************************************************)
(* Rules that compare two CRDs, version by version.                        *)
(***************************************************************************)
\* GetVersionByName(existingCRD, v) is not nil.
GetVersionByName(existingCRD, v) == existingCRD # NoCRD /\ v \in DOMAIN existingCRD

Shared(existingCRD, newCRD) == {v \in DOMAIN newCRD : GetVersionByName(existingCRD, v)}

\* Mutant of NoFieldRemoval: the difference taken the other way round.
NoFieldAddition(existingCRD, newCRD) ==
    UNION {{Message("NoFieldRemoval", v, loc, "") :
              loc \in Locations(newCRD[v].schema) \ Locations(existingCRD[v].schema)} :
           v \in Shared(existingCRD, newCRD)}

NoFieldRemoval(existingCRD, newCRD) ==
    UNION {{Message("NoFieldRemoval", v, loc, "") :
              loc \in Locations(existingCRD[v].schema) \ Locations(newCRD[v].schema)} :
           v \in Shared(existingCRD, newCRD)}

getEnums(schema) ==
    [loc \in {SimpleLocation(p) : p \in {q \in DOMAIN schema : schema[q].enum # {}}} |->
        UNION {schema[p].enum : p \in PathsAt(schema, loc)}]

removedEnums(old, new) ==
    UNION {{[at |-> loc, value |-> e] : e \in old[loc] \ new[loc]} :
           loc \in DOMAIN old \cap DOMAIN new}

NoEnumRemoval(existingCRD, newCRD) ==
    UNION {{Message("NoEnumRemoval", v, r.at, r.value) :
              r \in removedEnums(getEnums(existingCRD[v].schema), getEnums(newCRD[v].schema))} :
           v \in Shared(existingCRD, newCRD)}

\* One entry per location: each visit overwrites what the one before it wrote.
getFieldsAndTypes(schema, draw) ==
    [loc \in Locations(schema) |-> schema[LastAt(schema, draw, loc)].type]

\* What the walks of one run may find out about the types of a CRD.
Readings(crd) ==
    LET possible == [v \in DOMAIN crd |->
                       {getFieldsAndTypes(crd[v].schema, draw) : draw \in Draws(crd[v].schema)}]
    IN  {r \in [DOMAIN crd -> UNION {possible[v] : v \in DOMAIN crd}] :
            \A v \in DOMAIN crd : r[v] \in possible[v]}

\* Mutant of getChangedTypes: only the top level is compared.
getChangedTypesTop(old, new) ==
    {loc \in DOMAIN old \cap DOMAIN new : Len(loc) <= 1 /\ old[loc] # new[loc]}

getChangedTypes(old, new) == {loc \in DOMAIN old \cap DOMAIN new : old[loc] # new[loc]}

\* The types as read by two walks per version.
NoDataTypeChange(existingTypes, newTypes) ==
    UNION {{Message("NoDataTypeChange", v, loc, <<existingTypes[v][loc], newTypes[v][loc]>>) :
              loc \in getChangedTypes(existingTypes[v], newTypes[v])} :
           v \in DOMAIN existingTypes \cap DOMAIN newTypes}

\* What it may report, depending on what the walks of the run find out.
TypeChanges(existingCRD, newCRD) ==
    {NoDataTypeChange(old, new) : old \in Readings(existingCRD), new \in Readings(newCRD)}

NoNewRequiredFields(existingCRD, newCRD) ==
    UNION {{Message("NoNewRequiredFields", v, loc, "") :
              loc \in NewlyRequired(existingCRD[v].schema, newCRD[v].schema)} :
           v \in Shared(existingCRD, newCRD)}

-----------------------------------------------------------------------------
\* The errors that do not depend on the order of the walks.
StableErrors(existingCRD, newCRD) ==
    RatchetCompare(existingCRD, newCRD)
      \cup NoFieldRemoval(existingCRD, newCRD)
      \cup NoEnumRemoval(existingCRD, newCRD)
      \cup NoNewRequiredFields(existingCRD, newCRD)

\* The outcome of a run that a panic ends, in place of its errors.
Panic == {Message("panic", "", <<>>, "")}

\* The ratchet validates both CRDs, the existing one first.
EndsInPanic(existingCRD, newCRD) == Crashes(existingCRD) \/ Crashes(newCRD)

\* The errors of a run of these comparators, one set for each order its walks take.
Verdicts(existingCRD, newCRD) ==
    LET stable == StableErrors(existingCRD, newCRD)
    IN  IF EndsInPanic(existingCRD, newCRD) THEN {Panic}
        ELSE IF existingCRD = NoCRD THEN {stable}
        ELSE {stable \cup changes : changes \in TypeChanges(existingCRD, newCRD)}

\* A run of these comparators may report no error: {} \in Verdicts(existingCRD, newCRD).
Accepted(existingCRD, newCRD) ==
    /\ ~EndsInPanic(existingCRD, newCRD)
    /\ StableErrors(existingCRD, newCRD) = {}
    /\ existingCRD # NoCRD => {} \in TypeChanges(existingCRD, newCRD)
=============================================================================
