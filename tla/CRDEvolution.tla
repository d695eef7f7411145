---------------------------- MODULE CRDEvolution ----------------------------
(***************************************************************************)
(* The life of one CRD behind the checker: it is created, or was there     *)
(* before the checker was, and then every update the comparators report no *)
(* error for replaces it.  The comparators compare two CRDs; what users of *)
(* the API rely on is the whole chain of them.                             *)
(***************************************************************************)
EXTENDS Comparators

CONSTANTS
    CRD,        \* the CRDs somebody may propose
    Legacy      \* the CRDs that may predate the checker

ASSUME CRDAssumption == NoCRD \notin CRD /\ Legacy \subseteq CRD

\* A schema is a finite tree, and what an attribute of a condition fails or leaves out
\* is something its validator looks at.
ASSUME SchemaAssumption ==
    \A c \in CRD : \A v \in DOMAIN c :
        LET schema == c[v].schema IN
        /\ IsFiniteSet(DOMAIN schema)
        /\ \A p \in DOMAIN schema :
              /\ p \in Seq(ToSet(p))
              /\ \A i \in 0..(Len(p) - 1) : SubSeq(p, 1, i) \in DOMAIN schema
        /\ \A p \in ConditionsLists(schema), a \in Attributes :
              AttributeOf(p, a) \in DOMAIN schema =>
                /\ schema[AttributeOf(p, a)].wrong \subseteq Checks(a)
                /\ schema[AttributeOf(p, a)].unset \subseteq Checks(a) \cap Pointers

VARIABLES
    crd,        \* the CRD in the cluster
    origin,     \* the CRD the chain of updates started from
    baseline,   \* the rules it broke before the checker was there
    kept,       \* the versions every CRD of the chain had
    enums       \* per version, what getEnums found, added up over the chain

vars == <<crd, origin, baseline, kept, enums>>

EnumsOf(c) == [v \in DOMAIN c |-> getEnums(c[v].schema)]

Init ==
    \/ /\ crd \in Legacy
       /\ origin = crd
       /\ baseline = Validate(crd) \cup (IF Crashes(crd) THEN Panic ELSE {})
       /\ kept = DOMAIN crd
       /\ enums = EnumsOf(crd)
    \/ /\ crd = NoCRD
       /\ origin = NoCRD
       /\ baseline = {}
       /\ kept = {}
       /\ enums = <<>>

\* The CRD that Validate of the admission hook decodes when there is no old object.
EmptyCRD == [v \in {} |-> NoCRD]

\* A create that the CLI (no existing file) or the hook reports no error for.
Create(new) ==
    /\ crd = NoCRD
    /\ \E existing \in {NoCRD, EmptyCRD} : Accepted(existing, new)
    /\ crd' = new
    /\ origin' = new
    /\ kept' = DOMAIN new
    /\ enums' = EnumsOf(new)
    /\ UNCHANGED baseline

\* The values ever listed for a field while its version stayed in the CRD.
AddUp(seen, c) ==
    LET In(f, loc) == IF loc \in DOMAIN f THEN f[loc] ELSE {}
        Sum(f, g) == [loc \in DOMAIN f \cup DOMAIN g |-> In(f, loc) \cup In(g, loc)]
    IN  [v \in DOMAIN c |-> IF v \in DOMAIN seen THEN Sum(seen[v], getEnums(c[v].schema))
                                                 ELSE getEnums(c[v].schema)]

\* An update that the checker reports no error for.
Update(new) ==
    /\ crd # NoCRD
    /\ Accepted(crd, new)
    /\ crd' = new
    /\ kept' = kept \cap DOMAIN new
    /\ enums' = AddUp(enums, new)
    /\ UNCHANGED <<origin, baseline>>

\* A CRD whose validation ends in a panic: the ratchet validates it first in every
\* update, so none is accepted, not even one that repairs it.
Stuck == Crashes(crd) /\ UNCHANGED vars

Next == Stuck \/ \E new \in CRD : Create(new) \/ Update(new)

Spec == Init /\ [][Next]_vars

-----------------------------------------------------------------------------
\* Ratcheting (RatchetCompare) holds over any chain of updates, versions dropped
\* and added again included: a CRD created through the checker breaks no rule, one
\* that predates it breaks none that it did not break on the first day.
RatchetOnlyShrinks == crd # NoCRD => Validate(crd) \subseteq baseline

(***************************************************************************)
(* What users of the API rely on, said without locations: the fields of a  *)
(* schema are the paths of properties, items and map values, outside every *)
(* logical branch.                                                         *)
(***************************************************************************)
IsFieldStep(step) == step.kind \in {"properties", "items", "additionalProperties"}
IsField(p) == \A i \in DOMAIN p : IsFieldStep(p[i])
Fields(schema) == {p \in DOMAIN schema : IsField(p)}

\* The field that the schema at a path constrains.
FieldOf(p) ==
    LET upTo[n \in 0..Len(p)] ==
          IF n = 0 THEN <<>>
          ELSE IF IsFieldStep(p[n]) THEN Append(upTo[n - 1], p[n]) ELSE upTo[n - 1]
    IN  upTo[Len(p)]

\* Over any chain of accepted updates, a version that is never dropped still prints
\* every location it printed at the start, whatever is found there now
\* (comp_no_field_removal.go:36-74).
LocationsKept ==
    \A v \in kept : Locations(origin[v].schema) \subseteq Locations(crd[v].schema)

\* Over any chain of accepted updates, a version that is never dropped keeps every
\* field it had at the start (NoFieldRemoval compares printed locations, in which
\* items and map values look alike and branches do not show).
FieldsKept ==
    \A v \in kept : Fields(origin[v].schema) \subseteq Fields(crd[v].schema)

\* Over any chain of accepted updates, no field of such a version changes its type
\* (NoDataTypeChange keeps one type per printed location, the last one visited).
TypesKept ==
    \A v \in kept : \A p \in Fields(origin[v].schema) :
        p \in DOMAIN crd[v].schema => crd[v].schema[p].type = origin[v].schema[p].type

\* The same where it can be told from the printed locations: for the fields that share
\* theirs with nothing else, the branches below them included.
LoneTypesKept ==
    LET Alone(schema, p) == PathsAt(schema, SimpleLocation(p)) = {p}
    IN  \A v \in kept : \A p \in Fields(origin[v].schema) :
           /\ p \in DOMAIN crd[v].schema
           /\ Alone(origin[v].schema, p)
           /\ Alone(crd[v].schema, p)
           => crd[v].schema[p].type = origin[v].schema[p].type

(***************************************************************************)
(* What clients wrote before.  An object is the set of the fields it has,  *)
(* one element standing for the elements of a list.  It is valid when what *)
(* is required where it has something is there too; the branches of an     *)
(* allOf all require, those of an anyOf or a oneOf as alternatives.        *)
(***************************************************************************)
Objects(schema) ==
    {o \in SUBSET Fields(schema) : <<>> \in o /\ \A p \in o \ {<<>>} : Front(p) \in o}

Satisfies(o, schema, p) ==
    FieldOf(p) \in o =>
        \A name \in schema[p].required : Append(FieldOf(p), [kind |-> "properties", key |-> name]) \in o

BranchesOf(schema, p, kind) == {q \in DOMAIN schema : q # <<>> /\ Front(q) = p /\ Last(q).kind = kind}

Valid(o, schema) ==
    \A p \in Fields(schema) :
        /\ Satisfies(o, schema, p)
        /\ \A q \in BranchesOf(schema, p, "allOf") : Satisfies(o, schema, q)
        /\ \A kind \in {"anyOf", "oneOf"} :
             LET branches == BranchesOf(schema, p, kind)
             IN  branches # {} => \E q \in branches : Satisfies(o, schema, q)

\* Whatever a client of a version could write at the start of the chain it can write
\* at its end: nothing it may leave out has become required, in any number of accepted
\* updates (comp_no_new_required_fields.go:54-215).
ObjectsStayValid ==
    \A v \in kept : \A o \in Objects(origin[v].schema) :
        Valid(o, origin[v].schema) => Valid(o, crd[v].schema)

\* In a CRD that entered the cluster clean every list below conditions is a list of
\* standard conditions with the key type, and stays one: all six attributes are there,
\* none fails a check or leaves a limit out
\* (comp_conditions_must_have_proper_ssa_tags.go:29-145).
ConditionsSound ==
    crd # NoCRD /\ baseline = {} =>
        \A v \in DOMAIN crd : LET schema == crd[v].schema IN
            \A p \in ConditionsLists(schema) :
                /\ schema[p].listType = "map" /\ schema[p].mapKeys = {"type"}
                /\ \A a \in Attributes : /\ AttributeOf(p, a) \in DOMAIN schema
                                         /\ schema[AttributeOf(p, a)].wrong = {}
                                         /\ schema[AttributeOf(p, a)].unset = {}

\* Applying the CRD that is already there reports nothing: nothing in it is new, and the
\* rules that compare speak of what is new or changed ("A new array cannot be required
\* unless it's ancestor is new", comp_no_new_required_fields.go:106).
ReapplyClean == crd # NoCRD => Verdicts(crd, crd) = {{}}

\* The lists that have to have elements.
NonEmptyLists(schema) ==
    {p \in DOMAIN schema : schema[p].type = "array" /\ schema[p].minLength > 0}

\* Schemas that print alike and that Go may visit in either order, because they are
\* below two entries of one map, have the same type.
MapEntriesAgree(schema) ==
    \A p, q \in DOMAIN schema : \A i \in DOMAIN p \cap DOMAIN q :
        /\ SubSeq(p, 1, i - 1) = SubSeq(q, 1, i - 1)
        /\ p[i] # q[i]
        /\ p[i].kind = q[i].kind
        /\ p[i].kind \in {"properties", "patternProperties", "definitions", "dependencies"}
        /\ SimpleLocation(p) = SimpleLocation(q)
        => schema[p].type = schema[q].type

\* The same of the CRDs of which it is true: applied again they get no error, whatever
\* order each of the two walks takes through every map and whatever branches restrict a
\* field, if validating them does not end in a panic, none of their lists has to have
\* elements and map order does not decide what is found (comp_no_data_type_change.go:28-90,
\* comp_no_new_required_fields.go:54-165, racheting_validator.go:25-53).
ReapplyQuiet ==
    /\ crd # NoCRD
    /\ ~Crashes(crd)
    /\ \A v \in DOMAIN crd : NonEmptyLists(crd[v].schema) = {} /\ MapEntriesAgree(crd[v].schema)
    => Verdicts(crd, crd) = {{}}

\* The hook, which compares a new CRD with an empty one, and the CLI, which
\* compares it with none, reach the same verdict.
CreateParity == crd # NoCRD => Verdicts(NoCRD, crd) = Verdicts(EmptyCRD, crd)

(***************************************************************************)
(* The CRDs of which the properties above hold that look through printed   *)
(* locations; TLC finds counterexamples among the others.                  *)
(***************************************************************************)
\* A step whose name, if it has one, does not print like something else.
PlainStep(step) ==
    \/ /\ step.kind = "properties"
       /\ step = [kind |-> "properties", key |-> <<step.key[1]>>]
       /\ step.key[1] \in STRING \ {"[*]"}
    \/ step \in [kind : {"items", "additionalProperties"}, key : {0}]
    \/ step \in [kind : {"allOf", "anyOf", "oneOf", "not"}, key : Nat]

\* The kinds of nesting an API server stores; a field that occurs in a branch occurs
\* outside of it too; only lists have items and only maps have values.
Structural(schema) ==
    /\ \A p \in DOMAIN schema : FieldOf(p) \in DOMAIN schema /\ \A i \in DOMAIN p : PlainStep(p[i])
    /\ \A p \in Fields(schema) \ {<<>>} :
          LET parent == schema[Front(p)] IN
          /\ Last(p).kind = "items" => parent.type = "array"
          /\ Last(p).kind = "additionalProperties" => parent.type = "object" /\ parent.open

\* No branch below a list or a map overwrites its type.
Unmasked(schema) ==
    \A p \in Fields(schema) \ {<<>>} :
        Last(p).kind # "properties" => PathsAt(schema, SimpleLocation(Front(p))) = {Front(p)}

\* Only schemas of objects require anything, and no branch does.
RequiresByFields(schema) ==
    \A p \in DOMAIN schema :
        schema[p].required # {} => IsField(p) /\ schema[p].type # "array"

StructuralCRDs(S) == \A c \in S : \A v \in DOMAIN c : Structural(c[v].schema)
UnmaskedCRDs(S) == \A c \in S : \A v \in DOMAIN c : Unmasked(c[v].schema)
RequiringByFields(S) == \A c \in S : \A v \in DOMAIN c : RequiresByFields(c[v].schema)

\* A value once listed for a field stays allowed while the version stays: the list
\* may be dropped, but a list that is there has every value it ever had
\* (NoEnumRemoval compares lists only when both CRDs have one).
EnumsOnlyGrow ==
    \A v \in DOMAIN enums :
        LET now == getEnums(crd[v].schema)
        IN  \A loc \in DOMAIN now : enums[v][loc] \subseteq now[loc]
=============================================================================
