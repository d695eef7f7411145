--------------------------- MODULE MCCRDEvolution ---------------------------
(***************************************************************************)
(* Small sets of CRDs for CRDEvolution.  Every schema has an object at the *)
(* root with a property spec; spec may have a mode (a scalar) and tags (a  *)
(* list or a map); the root may have a status.                             *)
(***************************************************************************)
EXTENDS CRDEvolution

P(name) == [kind |-> "properties", key |-> <<name>>]
Of(kind) == [kind |-> kind, key |-> 0]

Plain(type) == [type |-> type, format |-> "", listType |-> "", mapKeys |-> {}, enum |-> {},
                open |-> FALSE, required |-> {}, minLength |-> 0, wrong |-> {}, unset |-> {}]

spec == <<P("spec")>>
mode == <<P("spec"), P("mode")>>
tags == <<P("spec"), P("tags")>>
status == <<P("status")>>

Base == <<>> :> Plain("object") @@ spec :> Plain("object")

Mode(s) == mode :> s
Integer == Mode(Plain("integer"))
Uint == Mode([Plain("integer") EXCEPT !.format = "uint"])
Bool == Mode(Plain("boolean"))
Choice(values) == Mode([Plain("string") EXCEPT !.enum = values])

List(type, listType) ==
    tags :> [Plain("array") EXCEPT !.listType = listType]
    @@ Append(tags, Of("items")) :> Plain(type)
MapOf(type) ==
    tags :> [Plain("object") EXCEPT !.open = TRUE]
    @@ Append(tags, Of("additionalProperties")) :> Plain(type)

Schemas ==
    {Base @@ m @@ t : m \in {<<>>, Integer, Uint, Bool, Choice({"a", "b"})},
                      t \in {<<>>, List("string", "set"), List("number", ""), MapOf("string")}}
    \cup {Base @@ Integer @@ status :> Plain("object")}

Versioned(schema, sub) == [schema |-> schema, statusSubresource |-> sub]

\* One version with any schema, beside a second one that comes and goes.
PlainCRDs ==
    {"v1" :> Versioned(s, FALSE) : s \in Schemas}
    \cup {"v1" :> Versioned(s, FALSE) @@ "v2" :> Versioned(t, TRUE) :
             s \in Schemas, t \in {Base @@ Integer, Base @@ Bool, Base @@ Integer @@ status :> Plain("object")}}

(***************************************************************************)
(* Schemas with logical branches: mode and spec may have an anyOf or a not *)
(* that restricts them.  They are structural, as the API server requires:  *)
(* a field inside a branch is also there outside of it, and a branch sets  *)
(* no type, except in the pattern of an int-or-string.                     *)
(***************************************************************************)
AnyOf(path, i) == Append(path, [kind |-> "anyOf", key |-> i])

Branches ==
    {<<>>,
     AnyOf(mode, 0) :> Plain("") @@ AnyOf(mode, 1) :> Plain(""),
     AnyOf(spec, 0) :> Plain("") @@ Append(AnyOf(spec, 0), P("mode")) :> [Plain("") EXCEPT !.enum = {"a"}],
     Append(mode, Of("not")) :> [Plain("") EXCEPT !.enum = {"c"}]}

IntOrString == Mode(Plain("")) @@ AnyOf(mode, 0) :> Plain("integer") @@ AnyOf(mode, 1) :> Plain("string")

BranchedSchemas ==
    {Base @@ m @@ b : m \in {Integer, Choice({"a"}), Choice({"a", "b"}), Mode(Plain("string"))},
                      b \in Branches}
    \cup {Base, Base @@ IntOrString}

BranchedCRDs == {"v1" :> Versioned(s, FALSE) : s \in BranchedSchemas}

\* A list or a map, restricted by a branch.
MaskedCRDs ==
    {"v1" :> Versioned(Base @@ t @@ AnyOf(tags, 0) :> Plain(""), FALSE) :
        t \in {List("string", "set"), MapOf("string")}}

(***************************************************************************)
(* Schemas that require something: spec a mode or a top, top its thingy,   *)
(* the elements of a list their name.                                      *)
(***************************************************************************)
Requiring(path, type, names) == path :> [Plain(type) EXCEPT !.required = {<<n>> : n \in names}]

top == <<P("spec"), P("top")>>
thingy == Append(top, P("thingy")) :> Plain("string")
Top(names) == Requiring(top, "object", names) @@ thingy

ListOf(minLength, names) ==
    tags :> [Plain("array") EXCEPT !.listType = "atomic", !.minLength = minLength]
    @@ Requiring(Append(tags, Of("items")), "object", names)
    @@ Append(Append(tags, Of("items")), P("name")) :> Plain("string")

RequiringSchemas ==
    {Requiring(spec, "object", {}) @@ Base @@ t : t \in {<<>>, Top({}), Top({"thingy"})}}
    \cup {Requiring(spec, "object", {"top"}) @@ Base @@ t : t \in {Top({}), Top({"thingy"})}}
    \cup {Requiring(spec, "object", {"mode"}) @@ Base @@ Integer}
    \cup {Base @@ Integer @@ ListOf(n, names) : n \in {0, 1}, names \in {{}, {"name"}}}
    \cup {Requiring(spec, "object", {"tags"}) @@ Base @@ Integer @@ ListOf(0, {"name"})}
    \cup {Base @@ Top({}) @@ Append(top, P("inner")) :> Plain("object")
             @@ Append(Append(top, P("inner")), P("leaf")) :> Plain("string"),
           Base @@ Top({}) @@ Requiring(Append(top, P("inner")), "object", {"leaf"})
             @@ Append(Append(top, P("inner")), P("leaf")) :> Plain("string"),
           Base @@ Top({"inner"}) @@ Requiring(Append(top, P("inner")), "object", {"leaf"})
             @@ Append(Append(top, P("inner")), P("leaf")) :> Plain("string")}

RequiringCRDs == {"v1" :> Versioned(s, FALSE) : s \in RequiringSchemas}

\* A spec with branches, one of which may require the mode.
AllOf(path, i) == Append(path, [kind |-> "allOf", key |-> i])

BranchRequiringCRDs ==
    {"v1" :> Versioned(Base @@ Integer @@ b, FALSE) :
        b \in {<<>>,
               AllOf(spec, 0) :> Plain(""),
               Requiring(AllOf(spec, 0), "", {"mode"}),
               AllOf(spec, 0) :> Plain("") @@ Requiring(AllOf(spec, 1), "", {"mode"})}}

(***************************************************************************)
(* Schemas with conditions: standard ones, and ones with one thing wrong.  *)
(***************************************************************************)
conditions == <<P("spec"), P("conditions")>>
ConditionsList(listType, mapKeys) ==
    conditions :> [Plain("array") EXCEPT !.listType = listType, !.mapKeys = mapKeys]
Standard ==
    ItemsOf(conditions) :> Plain("object")
    @@ [p \in {AttributeOf(conditions, a) : a \in Attributes} |-> Plain("string")]
Without(schema, p) == [q \in DOMAIN schema \ {p} |-> schema[q]]

reason == AttributeOf(conditions, "reason")
ConditionsSchemas ==
    {Base @@ c @@ ConditionsList("map", {"type"}) :
        c \in {<<>>, Standard, Without(Standard, reason),
               reason :> [Plain("string") EXCEPT !.wrong = {"pattern"}] @@ Standard,
               reason :> [Plain("string") EXCEPT !.unset = {"maxLength"}] @@ Standard}}
    \cup {Base @@ Standard @@ ConditionsList("set", {"type"}),
          Base @@ Standard @@ ConditionsList("map", {"type", "reason"})}

ConditionsCRDs == {"v1" :> Versioned(s, FALSE) : s \in ConditionsSchemas}

(***************************************************************************)
(* Schemas with a property "net.port" beside a property net with a         *)
(* property port: the two print alike, and Go visits them in either order. *)
(***************************************************************************)
net == <<P("net")>>
port == <<P("net"), P("port")>>
dotted == <<[kind |-> "properties", key |-> <<"net", "port">>]>>

DottedCRDs ==
    {"v1" :> Versioned(Base @@ net :> Plain("object") @@ port :> Plain("integer") @@ dotted :> Plain(type),
                       FALSE) : type \in {"integer", "string"}}

StructCRDs == PlainCRDs \cup BranchedCRDs \cup RequiringCRDs \cup ConditionsCRDs
AllCRDs == StructCRDs \cup DottedCRDs

\* The hypotheses of the theorems about what users of the API rely on hold of the CRDs
\* without dotted names.
ASSUME AllStructural ==
    StructuralCRDs(StructCRDs) /\ UnmaskedCRDs(StructCRDs) /\ RequiringByFields(StructCRDs)

\* They need the second of them: where a branch masks types, an accepted update replaces
\* the values of a map by the elements of a list, which print alike.
ASSUME MaskedFieldLost ==
    \E old, new \in MaskedCRDs :
        /\ Accepted(old, new)
        /\ ~(Fields(old["v1"].schema) \subseteq Fields(new["v1"].schema))

\* Where two properties print alike and differ in type, which type is read there depends
\* on how the maps are walked: two walks of one unchanged CRD may disagree.
ASSUME DottedTypesFlicker ==
    \E c \in DottedCRDs : \E r1, r2 \in Readings(c) : r1 # r2
=============================================================================
