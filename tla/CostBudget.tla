------------------------------ MODULE CostBudget ------------------------------
(***************************************************************************)
(* The rule MustNotExceedCostBudget: Validate walks the schemas of every   *)
(* version, asks the CEL library what each x-kubernetes-validations rule   *)
(* costs at worst, and adds the costs up in unsigned integers of one       *)
(* width; RatchetCompare then forgives the messages that validating the    *)
(* existing CRD gives as well.                                             *)
(*                                                                         *)
(* A CRD is the list of its versions, <<>> when there is none.  A schema   *)
(* carries                                                                 *)
(*   type, open (additionalProperties is present), max (maxItems,          *)
(*   maxProperties or maxLength), enum (it has values),                    *)
(*   present (x-kubernetes-validations is not nil), rules,                 *)
(*   broken (no CEL type for it), compiles (the library could try),        *)
(* and a rule what cel.Compile says of it: cost, times (how often it runs  *)
(* if nothing bounds that), error, and message, messageCost for its        *)
(* messageExpression.                                                      *)
(*                                                                         *)
(* A message is a tuple of what its text shows.  Errors name the fldPath,  *)
(* which is the path, the others the simpleLocation; none names the        *)
(* version.                                                                *)
(***************************************************************************)
EXTENDS SchemaTree, Integers

CONSTANTS
    MaxUint,    \* the largest uint64
    Limit,      \* StaticEstimatedCostLimit
    CRDLimit,   \* StaticEstimatedCRDCostLimit
    Unbounded,  \* nil, for a limit that is not set and for what follows from it
    CRDs        \* CRDs to compare

\* 10^7 and 10^8 are far below 2^64.
ASSUME LimitsAssumption ==
    /\ MaxUint \in Nat /\ Limit \in Nat \ {0} /\ CRDLimit \in Nat
    /\ 100 * Limit <= MaxUint
    /\ Limit <= CRDLimit /\ CRDLimit < MaxUint
    /\ Unbounded \notin Nat

\* How often a rule runs at most and what it costs are uint64.
Rule == [cost : 0..MaxUint, times : 0..MaxUint, error : BOOLEAN,
         message : {"none", "invalid", "valid"}, messageCost : 0..MaxUint]

VARIABLES
    existing, new,      \* the CRDs
    side,               \* the one that is being validated
    pc,
    v,                  \* index of the version at hand
    visited,            \* the schemas of it that the walk has been to
    at, rule,           \* the schema and the rule of it that is being judged
    total,              \* rootCELContext.TotalCost.Total
    results,            \* results[side]: what Validate has appended so far
    reported            \* what RatchetCompare returns

inputs == <<existing, new>>
vars == <<inputs, side, pc, v, visited, at, rule, total, results, reported>>

CRDOf(s) == IF s = "existing" THEN existing ELSE new
crd == CRDOf(side)
current == crd[v].schema

NoResults == [errors |-> {}, warnings |-> {}, infos |-> {}]

When(condition, message) == IF condition THEN {message} ELSE {}

Append3(errors, warnings, infos) ==
    results' = [results EXCEPT ![side] =
                  [errors |-> @.errors \cup errors,
                   warnings |-> @.warnings \cup warnings,
                   infos |-> @.infos \cup infos]]

Init ==
    /\ existing \in CRDs
    /\ new \in CRDs
    /\ side = "existing"
    /\ pc = "convert"
    /\ v = 1
    /\ visited = {}
    /\ at = <<>> /\ rule = 0
    /\ total = 0
    /\ results = [s \in {"existing", "new"} |-> NoResults]
    /\ reported = NoResults

-----------------------------------------------------------------------------
\* Mutant of multiplyWithOverflowGuard: the product of two uint64.
multiplyWrapping(baseCost, cardinality) == (baseCost * cardinality) % (MaxUint + 1)

multiplyWithOverflowGuard(baseCost, cardinality) ==
    IF baseCost = 0 THEN 0
    ELSE IF MaxUint \div baseCost < cardinality THEN MaxUint
    ELSE baseCost * cardinality

\* TotalCost.ObserveExpressionCost, of the library.
ObserveExpressionCost(sum, cost) == IF MaxUint - sum < cost THEN MaxUint ELSE sum + cost

\* extractMaxElements and childContext, of the library: how many values there may be
\* at a path, by the limits of the schemas above it.
MaxElements(s) == IF s.type = "array" \/ (s.type = "object" /\ s.open) THEN s.max ELSE 1

Ancestry(p) == [i \in 1..Len(p) |-> SubSeq(p, 1, i - 1)]

LimitsAbove(schema, p) == [i \in 1..Len(p) |-> MaxElements(schema[SubSeq(p, 1, i - 1)])]

GuardedProduct(limits) ==
    LET upTo[i \in 0..Len(limits)] ==
          IF i = 0 THEN 1 ELSE multiplyWithOverflowGuard(upTo[i - 1], limits[i])
    IN  upTo[Len(limits)]

MaxCardinality(schema, p) ==
    IF \E q \in ToSet(Ancestry(p)) : MaxElements(schema[q]) = Unbounded THEN Unbounded
    ELSE GuardedProduct(LimitsAbove(schema, p))

getExpressionCost(cr, cardinality) ==
    multiplyWithOverflowGuard(cr.cost, IF cardinality # Unbounded THEN cardinality ELSE cr.times)

\* a/b rounded to a number of decimals.
Rounded(a, b, decimals) == (2 * a * 10^decimals + b) \div (2 * b)

\* The factor in a message about costs: beyond 100 it is not told, up to 1.5 to the
\* sixth decimal, and between them to the first.
Factor(cost, limit) ==
    IF cost > 100 * limit THEN <<"more than">>
    ELSE IF 2 * cost < 3 * limit THEN <<"%f", Rounded(cost, limit, 6)>>
    ELSE <<"%.1f", Rounded(cost, limit, 1)>>

CostError(costName, p, cost, limit) == <<costName, p, Factor(cost, limit)>>

-----------------------------------------------------------------------------
\* Mutant of isUnboundedCardinality: lists are bounded.
isUnboundedMap(s) == s.type = "object" /\ s.open /\ s.max = Unbounded

isUnboundedCardinality(s) ==
    \/ s.type = "object" /\ s.open /\ s.max = Unbounded
    \/ s.type = "array" /\ s.max = Unbounded

\* The parts that one step of a fldPath leaves when it is split at its dots.
PathParts(step) ==
    CASE step.kind \in {"jsonSchemas", "additionalProperties", "additionalItems", "dependencies"} -> 2
      [] step.kind = "properties" -> Len(step.key)
      [] OTHER -> 1

CleanPathParts(p) ==
    LET upTo[i \in 0..Len(p)] == IF i = 0 THEN 1 ELSE upTo[i - 1] + PathParts(p[i])
    IN  upTo[Len(p)]

Mismatch(p) == Len(p) + 1 # CleanPathParts(p)

\* Nothing is named when the parts of the path are not one for each ancestor.
getUnboundedParentFields(schema, p) ==
    IF Mismatch(p) THEN {} ELSE {q \in ToSet(Ancestry(p)) : isUnboundedCardinality(schema[q])}

\* CELSchemaContext.TypeInfo, of the library: rules here or above need the CEL types
\* of all schemas from the first rule on.
WithinScope(schema, q) == \E i \in 0..Len(q) : schema[SubSeq(q, 1, i)].rules # <<>>
TypeInfoFails(schema, p) ==
    \E i \in 0..Len(p) :
        LET q == SubSeq(p, 1, i) IN WithinScope(schema, q) /\ schema[q].broken

\* A schema is a finite tree of limits and rules ...
WellFormed(schema) ==
    /\ IsFiniteSet(DOMAIN schema)
    /\ \A p \in DOMAIN schema :
         /\ Len(p) \in Nat /\ DOMAIN p = 1..Len(p)
         /\ \A i \in DOMAIN p : /\ PathParts(p[i]) \in Nat \ {0}
                                /\ SubSeq(p, 1, i - 1) \in DOMAIN schema
         /\ schema[p].max \in Nat \cup {Unbounded}
         /\ schema[p].rules \in Seq(Rule)
         /\ schema[p].rules # <<>> => schema[p].present

\* ... and a CRD a list of versions with one each.
ASSUME CRDsAssumption ==
    \A c \in CRDs :
        /\ Len(c) \in Nat /\ DOMAIN c = 1..Len(c)
        /\ \A k \in DOMAIN c : c[k].converts \in BOOLEAN /\ WellFormed(c[k].schema)

\* The schemas whose size inspectSchema tells, or warns about.
Sized(s) == s.type = "array" \/ (s.type = "string" /\ ~s.enum)

\* Mutant of Percent: the budget is that of the CRD.
PercentOfTotal(cost) == Rounded((cost * 100) % (MaxUint + 1), CRDLimit, 2)

\* The share of the budget that an info shows; the product is one of uint64.
Percent(cost) == Rounded((cost * 100) % (MaxUint + 1), Limit, 2)

\* 100.00%, as Percent gives it.
WholeBudget == 10000

-----------------------------------------------------------------------------
\* A version whose schema cannot be converted is given up; none of its parts would
\* fail to convert later.
Convert ==
    /\ pc = "convert"
    /\ v <= Len(crd)
    /\ IF crd[v].converts
         THEN pc' = "walk" /\ Append3({}, {}, {}) /\ UNCHANGED v
         ELSE v' = v + 1 /\ Append3({<<"conversion">>}, {}, {}) /\ UNCHANGED pc
    /\ visited' = {}
    /\ total' = 0
    /\ UNCHANGED <<inputs, side, at, rule, reported>>

\* The predicate up to its loop; a schema comes after the one it is nested in.
Pred(p) ==
    /\ pc = "walk"
    /\ p \notin visited
    /\ \A q \in ToSet(Ancestry(p)) : q \in visited
    /\ visited' = visited \cup {p}
    /\ LET s == current[p]
           inspected == s.present /\ ~s.broken
           typed == s.present /\ ~TypeInfoFails(current, p)
       IN  /\ Append3(When(s.present /\ (s.broken \/ TypeInfoFails(current, p)), <<"declType">>)
                        \cup When(typed /\ s.rules # <<>> /\ ~s.compiles, <<"compile", p>>),
                      When(inspected /\ Sized(s) /\ s.max = Unbounded, <<"size", SimpleLocation(p), s.type>>),
                      When(inspected /\ Sized(s) /\ s.max # Unbounded, <<"size", SimpleLocation(p), s.type, s.max>>))
           /\ IF typed /\ s.compiles /\ s.rules # <<>>
                THEN pc' = "rules" /\ at' = p /\ rule' = 1
                ELSE UNCHANGED <<pc, at, rule>>
    /\ UNCHANGED <<inputs, side, v, total, reported>>

\* Mutant of Advance: one rule too many.
AdvancePast ==
    IF rule <= Len(current[at].rules)
      THEN rule' = rule + 1 /\ UNCHANGED pc
      ELSE rule' = 0 /\ pc' = "walk"

Advance ==
    IF rule < Len(current[at].rules)
      THEN rule' = rule + 1 /\ UNCHANGED pc
      ELSE rule' = 0 /\ pc' = "walk"

\* One turn of the loop over compResults.  The cost of a message
\* expression is added to the context that was made for this schema alone, and is lost
\* with it.
CheckRule ==
    /\ pc = "rules"
    /\ LET cr == current[at].rules[rule]
           cardinality == MaxCardinality(current, at)
           cost == getExpressionCost(cr, cardinality)
           here == SimpleLocation(at)
       IN  /\ Append3(When(cardinality = Unbounded /\ Mismatch(at), <<"mismatch">>)
                        \cup When(cost > Limit, CostError("estimated rule cost", at, cost, Limit))
                        \cup When(cr.error, <<"invalid", at, cr>>)
                        \cup When(cr.message = "invalid", <<"messageExpression", at, cr>>)
                        \cup When(cr.message = "valid" /\ cr.messageCost > Limit,
                                  CostError("estimated messageExpression cost", at, cr.messageCost, Limit)),
                      When(cardinality = Unbounded,
                           <<"unbounded", here, getUnboundedParentFields(current, at), cr.times>>),
                      When(cardinality # Unbounded, <<"cardinality", here, cardinality>>)
                        \cup When(~cr.error, <<"cost", here, rule, cr.cost, cost, Percent(cost)>>))
           /\ total' = ObserveExpressionCost(total, cost)
    /\ Advance
    /\ UNCHANGED <<inputs, side, v, visited, at, reported>>

\* What Validate does with a version once the walk is over.
Total ==
    /\ pc = "walk"
    /\ visited = DOMAIN current
    /\ Append3(When(total > CRDLimit, CostError("total CRD cost", <<>>, total, CRDLimit)), {}, {})
    /\ pc' = "convert"
    /\ v' = v + 1
    /\ UNCHANGED <<inputs, side, visited, at, rule, total, reported>>

\* RatchetCompare goes on to the new CRD ...
ExistingDone ==
    /\ pc = "convert" /\ side = "existing"
    /\ v = Len(crd) + 1
    /\ side' = "new"
    /\ v' = 1
    /\ UNCHANGED <<inputs, pc, visited, at, rule, total, results, reported>>

\* Mutant of stringDiff: what the new CRD no longer says.
stringDiffSwapped(s1, s2) == s2 \ s1

stringDiff(s1, s2) == s1 \ s2

\* ... and returns what is new in its results.
Ratchet ==
    /\ pc = "convert" /\ side = "new"
    /\ v = Len(crd) + 1
    /\ pc' = "done"
    /\ reported' = [kind \in DOMAIN NoResults |-> stringDiff(results["new"][kind], results["existing"][kind])]
    /\ UNCHANGED <<inputs, side, v, visited, at, rule, total, results>>

Done == pc = "done" /\ UNCHANGED vars

Next ==
    \/ Convert
    \/ pc = "walk" /\ \E p \in DOMAIN current : Pred(p)
    \/ CheckRule
    \/ Total
    \/ ExistingDone
    \/ Ratchet
    \/ Done

Spec == Init /\ [][Next]_vars

-----------------------------------------------------------------------------
(***************************************************************************)
(* What the rules of a CRD cost in integers that do not overflow.          *)
(***************************************************************************)
\* The schemas of a CRD that are looked into, and their rules that are judged.
SchemasOf(s) == {CRDOf(s)[k].schema : k \in {j \in DOMAIN CRDOf(s) : CRDOf(s)[j].converts}}

Judged(schema) ==
    UNION {{<<p, i>> : i \in DOMAIN schema[p].rules} :
             p \in {q \in DOMAIN schema : ~TypeInfoFails(schema, q) /\ schema[q].compiles}}

UnboundedAbove(schema, p) == {q \in ToSet(Ancestry(p)) : MaxElements(schema[q]) = Unbounded}

Product(limits) ==
    LET upTo[i \in 0..Len(limits)] == IF i = 0 THEN 1 ELSE upTo[i - 1] * limits[i]
    IN  upTo[Len(limits)]

TrueCost(schema, p, i) ==
    schema[p].rules[i].cost *
        IF UnboundedAbove(schema, p) # {} THEN schema[p].rules[i].times
        ELSE Product(LimitsAbove(schema, p))

OverBudget(s, p) ==
    \E schema \in SchemasOf(s) : \E j \in Judged(schema) :
        j[1] = p /\ TrueCost(schema, p, j[2]) > Limit

\* What rules cost together, unit by unit: of a rule that is over the limit of a CRD by
\* itself, as many units as it takes to be over it.
Units(schema, judged) ==
    UNION {LET cost == TrueCost(schema, j[1], j[2])
           IN  {<<j, unit>> : unit \in 1..(IF cost > CRDLimit THEN CRDLimit + 1 ELSE cost)} : j \in judged}

TotalOverBudget(s) ==
    \E schema \in SchemasOf(s) : Cardinality(Units(schema, Judged(schema))) > CRDLimit

Paths == UNION {DOMAIN schema : schema \in SchemasOf("existing") \cup SchemasOf("new")}

Blamed(errors, costName) == {e[2] : e \in {x \in errors : x[1] = costName}}

Sides == {"existing", "new"}

-----------------------------------------------------------------------------
\* The variables keep their types; a total is a uint64.
TypeOK ==
    /\ side \in Sides
    /\ pc \in {"convert", "walk", "rules", "done"}
    /\ v \in 1..(Len(crd) + 1)
    /\ pc \in {"walk", "rules"} => visited \subseteq DOMAIN current
    /\ pc = "rules" => at \in visited /\ rule \in 1..Len(current[at].rules)
    /\ total \in 0..MaxUint
    /\ DOMAIN results = Sides

\* Validate blames exactly the schemas whose rules are over budget, and the CRD exactly
\* when the rules of one of its versions are together, in numbers that neither saturate
\* nor wrap.  Message expressions do not count towards the sum
\* (comp_must_not_exceed_cost_budget.go:115-123, 142-144, 151-154, 173-191).
CostsSound ==
    pc = "done" => \A s \in Sides :
        /\ Blamed(results[s].errors, "estimated rule cost") = {p \in Paths : OverBudget(s, p)}
        /\ Blamed(results[s].errors, "total CRD cost") # {} <=> TotalOverBudget(s)

\* A new CRD with a rule over budget at a path where the existing CRD had none is told
\* so, and likewise for the cost of the whole: the ratchet compares texts that name
\* neither the version nor the rule, and still forgives nothing of another field
\* (comp_must_not_exceed_cost_budget.go:119, racheting_validator.go:33).
RaisedReported ==
    pc = "done" =>
        /\ \A p \in Paths : OverBudget("new", p) /\ ~OverBudget("existing", p) =>
              p \in Blamed(reported.errors, "estimated rule cost")
        /\ TotalOverBudget("new") /\ ~TotalOverBudget("existing") =>
              Blamed(reported.errors, "total CRD cost") # {}

\* Of each rule that compiles and is within budget the infos show the true share of the
\* budget.  The share of one that is not may have wrapped to anything, but where it
\* looks harmless there is an error beside it (comp_must_not_exceed_cost_budget.go:132).
PercentHonest ==
    pc = "done" => \A s \in Sides :
        /\ \A schema \in SchemasOf(s) : \A j \in Judged(schema) :
              LET cost == TrueCost(schema, j[1], j[2])
                  cr == schema[j[1]].rules[j[2]]
              IN  cost <= Limit /\ ~cr.error =>
                    <<"cost", SimpleLocation(j[1]), j[2], cr.cost, cost, Rounded(cost * 100, Limit, 2)>>
                        \in results[s].infos
        /\ \A info \in results[s].infos :
              info[1] = "cost" /\ info[6] <= WholeBudget /\ info[5] > Limit =>
                 \E p \in Blamed(results[s].errors, "estimated rule cost") : SimpleLocation(p) = info[2]

\* A rule whose cost rests on the guess of the library comes with a warning that names
\* all parents without a limit.  The exception is a path that prints in more parts than
\* it has steps: such a rule, below an unbounded map for one, is an error of the CRD
\* (comp_must_not_exceed_cost_budget.go:100-105, 233-240).
UnboundedExplained ==
    pc = "done" => \A s \in Sides :
        /\ \A schema \in SchemasOf(s) : \A j \in Judged(schema) :
              UnboundedAbove(schema, j[1]) # {} =>
                 \E named \in {UnboundedAbove(schema, j[1]), {}} :
                    /\ <<"unbounded", SimpleLocation(j[1]), named, schema[j[1]].rules[j[2]].times>>
                          \in results[s].warnings
                    /\ named = {} => <<"mismatch">> \in results[s].errors
        /\ <<"mismatch">> \in results[s].errors <=>
              \E schema \in SchemasOf(s) : \E j \in Judged(schema) :
                 /\ UnboundedAbove(schema, j[1]) # {}
                 /\ \E i \in DOMAIN j[1] : PathParts(j[1][i]) # 1
=============================================================================
