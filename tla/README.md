# crd-schema-checker in TLA+

A model of crd-schema-checker, the tool that compares an old and a new
CustomResourceDefinition (CRD) and reports changes that break clients or go
against API conventions. TLC checks the modules on small instances; TLAPS proves
every safety property of the passing runs for all instances, some of them for CRDs
of a stated kind. Paths below are relative to `src/`.

## The system

| Part | Code | State | Operations |
|---|---|---|---|
| schema walk | `pkg/manifestcomparators/helpers.go` | process-wide `schemaPool`; per walk the call stack and the arrays behind the ancestry slices | `SchemaHas`, `schemaHasRecurse` |
| rules on one CRD | `comp_no_bools.go`, `comp_no_floats.go`, `comp_no_uints.go`, `comp_no_maps.go`, `comp_lists_must_have_ssa_tags.go`, `comp_must_have_status.go`, `comp_conditions_…`, `comp_must_not_exceed_cost_budget.go` | none between calls | `Validate`, `Compare` |
| ratchet | `racheting_validator.go` | none | `RatchetCompare` |
| rules on two CRDs | `comp_no_field_removal.go`, `comp_no_enum_removal.go`, `comp_no_data_type_change.go`, `comp_no_new_required_fields.go` | per call, the map from schema pointer to path | `Compare` |
| registry and flags | `registry.go`, `pkg/defaultcomparators`, `pkg/cmd/options` | the registered comparators, the two lists of names | `Validate`, `Complete`, `Compare` |
| check-manifests | `pkg/cmd/checkmanifests` | one run | `Validate`, `Complete`, `Run`, exit code |
| admission hook | `pkg/admissionevaluator`, `pkg/cmd/checkadmission` | the hook's `ComparatorConfig`; one goroutine per request | startup, `Initialize`, `Validate` |
| test harness | `simple_tester.go`, `admission_tester.go` | one test | `TestInDir`, `Test`; builds a request and reads the response back |

The two front ends (a command and an admission server) build a
`ComparatorConfig` from the same flags and call `Registry.Compare`, which calls
the selected comparators one after the other. Each comparator walks the schema of
each version, once or twice, with `SchemaHas` and a predicate of its own. The
walks of all requests share the pool.

What is hard here:

* **Shared memory in the walk.** Copies of schemas come from a `sync.Pool` that
  every goroutine uses, the predicate gets pointers to them, and the ancestry is
  grown with `append`, so calls write into each other's arrays. One comparator
  keys a map with these pointers, another appends to the slice it was given.
* **Chains of updates.** Every rule sees two CRDs. Users rely on the sequence of
  all of them, in which versions come and go.
* **Locations are not paths.** Rules compare printed locations; branches, pattern
  properties, definitions and dependencies print like the schema around them, and
  maps are walked in random order.
* **Arithmetic at the limit.** Costs are multiplied along a path and added up in
  uint64, some guarded, some not, and the ratchet compares the rounded texts.
* **Pointers that may be nil.** The rule for conditions reads limits without a
  look, and the ratchet runs it on the CRD that is already there.
* **Two front ends.** Order of startup, treatment of failures and reports are
  written twice.

## Modules

| Module | Models | How state and actions correspond to the code |
|---|---|---|
| `SchemaWalk` | `helpers.go:34-121` on many goroutines | `stack[w]` is the Go stack of one walk, a frame per active `SchemaHas`; `schemaPool`, `heap` are the pool and what its cells hold; a slice is the call that allocated its array and a length. `SchemaHas` starts a walk, `PredTrue`, `PredFalseInPlace`, `PredFalseGrow` are the call of the predicate with the append after it, `PredAppends` the append of the cost predicate, `schemaHasRecurse` and `Return` enter and leave a nested call, `PoolDrop` is the garbage collector |
| `SchemaVisit` | what callers of `SchemaHas` rely on | a depth-first visit with no memory in it; `SchemaWalk` implements it (`ImplementsVisit`), the visited chain being read through slices and cells |
| `SchemaTree` | locations and order of a walk | a schema is a function from paths to attributes; `Draws` are the orders Go may take through its maps |
| `RequiredFields` | `comp_no_new_required_fields.go` | what one version requires that its predecessor did not, with the optionality the code derives from paths |
| `Conditions` | `comp_conditions_must_have_proper_ssa_tags.go` | the faults of the lists named conditions, and when looking for them panics |
| `Comparators` | the other rules, all of them together, and the ratchet, as operators | a list of messages is a set of records; `Verdicts` has one element per possible order |
| `CRDEvolution` | one CRD behind the checker | `Create` and `Update` replace the CRD when the rules report no error, `Stuck` is a CRD whose validation panics; the other variables record the history the properties speak of |
| `CostBudget` | `comp_must_not_exceed_cost_budget.go` between `RatchetCompare`'s two calls | `Convert` starts a version, `Pred` is the predicate up to its loop, `CheckRule` a turn of the loop, `Total` the end of a version, `ExistingDone` and `Ratchet` the rest of `RatchetCompare` |
| `ComparatorOptions` | registry and flags | constants and operators that both front ends use |
| `CheckManifests` | the command | one action per phase, one per comparator called |
| `AdmissionServer` | startup and requests | `phase` is the startup, `pc[r]` the goroutine of a request |
| `TestHarness` | `simple_tester.go` | the verdict of a directory test, as operators on lists of results |
| `CheckerParity` | both front ends, and the directory tests through both, on the same input | composes `CheckManifests` and `AdmissionServer` with INSTANCE |
| `MC…` | constants for TLC | |
| `…Proofs` | proofs about the module before `Proofs`; `SchemaVisitProofs` those about `SchemaWalk` as a visit | see Proofs below |
| `LeastNumber` | induction over the naturals, for the proofs | |

Definitions named "Mutant of X" are plausible bugs; each shows that some property
notices them when they take the place of X. No specification uses them.

### Abstractions

* `SchemaWalk`: a schema is a node, its content the node's name. The loops of
  `SchemaHas` are the ranks of children; entries of one map share a rank and so
  come in any order. The predicate is any predicate: it answers true or false
  nondeterministically. What it notes is the path map of `NoNewRequiredFields`.
  The properties are about the recursion, its memory and its early returns: a loop
  that is missing or doubled in the source would show in none of them.
* `sync.Pool` hands out any free cell or a new one. A cell that the garbage
  collector took may come back under the same address; the model allows that for
  every cell no active call uses, even while a map key still names it, which is
  more than Go does.
* `append` beyond capacity allocates any capacity from what is needed to `Slack`
  more.
* `Comparators` carries the attributes that the modelled rules read. Two messages
  are equal iff their texts are. The CRD's name is fixed: both CRDs are the same
  object. `Verdicts` has every rule but MustNotExceedCostBudget, which is modelled
  apart in `CostBudget`, so `CRDEvolution` accepts more than the full registry does
  and what it shows of all accepted updates holds of those too. `Crashes` are the
  panics of the rule for conditions; a version without any schema, which the rules
  dereference as well, is not modelled.
* `Conditions`: what a validator expects of an attribute is a check, an attribute
  carries the checks it fails and the limits it leaves out. A list is one of
  conditions if a part of its location is called conditions; the code looks for
  `.conditions` anywhere in the text and so takes conditionsLog for one too. The map
  keys of a list are a set.
* `CostBudget`: what `cel.Compile` says of a rule, and whether a schema converts,
  has a CEL type and compiles, are inputs. `MaxUint`, `Limit` and `CRDLimit` are
  constants; the assumption relates them as 2^64, 10^7 and 10^8 are. The factor
  and the percentage of a message are the rounded numbers it shows. The errors of
  finding the CEL type of a schema are one message, whatever step failed. Once the
  schema of a version has converted, so do its parts, so the later checks of the
  same conversion never fail. The total of the context that is made for one
  schema is not state: nothing reads it. Schemas are visited in any order that
  puts parents first. `CRDsAssumption` says what a CRD and a schema are: finite
  trees in which a schema comes with those around it, and rules whose costs are
  uint64. The reference for costs does not share code with the model: `Product`
  multiplies without a guard, and `Units` counts what rules cost together unit by
  unit (as many of a rule as it takes to be over the limit of a CRD).
* `SchemaAssumption` of `CRDEvolution`: schemas are finite trees of paths that are
  sequences, and what an attribute of a condition fails or leaves out is something its
  validator reads.
  `ReviewAssumption` of `AdmissionServer`: reviews are requests the API defines.
* `TestHarness`: a message is its rank in the order of sort.Strings, which is
  external and modelled by what it returns: the same messages, each as often, in
  order. `TestAssumption` of `CheckerParity`: an expected.yaml is a list of results,
  each a name and three lists of messages, and a comparator that has messages of a
  kind has at least one.
* `ComparatorOptions`: every list of names the program keeps is the `List()` of a
  `sets.String`, sorted and without duplicates, so it is modelled by its set;
  whoever calls the comparators takes the `First` of those left in the order of the
  registry. `NameAssumption`: no comparator is called EvaluationError, the type the
  hook gives causes of its own.
* `AdmissionServer`: the `message` of a cause is told apart by the comparator whose
  text it is. Its `type` is the comparator's name for an error of a comparator, and
  EvaluationError for an evaluation error, which is sent without any name: the client
  can tell one evaluation error from another, not who had it.
* In the front ends, what a comparator says is an input: any kinds of message, an
  evaluation error or a panic. A file is unset, unreadable, undecodable or good;
  the two decoders (`resourceread`, `json.Unmarshal`) are taken to accept the
  same CRDs. They do not for another apiVersion or kind, which only the first looks
  at; another kind of the same API group, on which `resourceread` panics, counts as
  undecodable.
* External: `append`, `sync.Pool`, the cardinality, CEL types and `TotalCost` of
  the apiextensions library, and the generic API server, which runs
  `Initialize` after it began to listen and answers a panicking request with 500.

## Runs

| Run | Bounds | Shows |
|---|---|---|
| `walk` | 2 goroutines, 3 cells, 4 schemas 3 deep, `Slack` 1; symmetric in cells and goroutines | cells are exclusive, ancestry and paths are exact, each schema is visited once, a walk that returns false has seen all, the walk implements the abstract visit, every step of a walk brings it closer to its end |
| `evolution` | about 120 CRDs: 21 plain schemas in 1 or 2 versions, 18 with anyOf and not, 13 that require fields, 7 with conditions, 2 with a dot in a name; all of them possible legacies | the ratchet only shrinks; locations, fields, types at a location of their own and the objects clients wrote are kept; conditions of CRDs that entered clean are standard; a CRD that is applied again gets no error (with the hypotheses below); creates are judged alike |
| `types_masked`, `enums_shrink` | the 18 schemas with anyOf and not | violations, see below |
| `required_in_branch` | 4 schemas with allOf | violation, see below |
| `reapply_reported` | the 13 schemas that require fields | violation, see below |
| `check_manifests` | 2 comparators, 1 unknown name, all flags, files and findings | exit code 0 means checked and clean; nothing is lost; disabled means not run unless nothing is left; it ends |
| `disable_all` | same | violation, see below |
| `admission` | 2 requests, one of 7 kinds and with any findings, the other an update that is clean, fails or panics; 2 comparators, 1 unknown name, 5 settings of the flags | every request is answered and fails only for its own reasons; faults are denied, with a cause that names who objects or says that somebody failed; the client reads back what the registry returned |
| `clean_allowed` | 1 request, 2 comparators, all flags | violation, see below |
| `parity` | 2 comparators, 1 unknown name, 6 pairs of files; 85 expected.yaml and an errors.txt, lists in two orders | same verdict, same flags, same report but for what the hook drops; a directory test passes, directly and through the hook, iff it lists what the command prints |
| `cost_budget` | pairs of 54 CRDs with 1 or 2 versions; `MaxUint` 1023, `Limit` 10, `CRDLimit` 20 | budget errors are those of exact arithmetic, the ratchet hides no field that went over budget, percentages within the budget are true, guesses are explained |

Why the bounds are enough: two goroutines and three cells make cells move between
walks and between siblings; depth three with one spare slot makes arrays that are
shared, full and allocated anew; two entries of one map come in both orders. In
the evolution runs chains have any length, and their CRDs include versions that
leave and return, lists that become maps, fields that come back, and objects that
are optional at first and required later. In `cost_budget` the costs lie below,
at and above each limit, products reach and pass `MaxUint` (32 lists of 32 wrap to
0), and a cost of 900 has a percentage that wraps to one below 100. `evolution`
leaves out the schemas of `required_in_branch` and the `MaskedCRDs`, with which
`ObjectsStayValid` and `FieldsKept` fail; the assumption `AllStructural` of its module
says that its CRDs but the two `DottedCRDs` are those the theorems on fields and
objects are about. The `DottedCRDs` have a property `net.port` beside a property
`net` with a property `port`: the two print alike and Go visits them in either order.
They share no names with the other CRDs, because a field can disappear behind one
whose name, with a dot, prints like it. If the two have different types the checker
answers an unchanged CRD at random (the assumption `DottedTypesFlicker`). Two
comparators are the fewest with which one can hide or outlive the other. The
schemas with anyOf and not are structural, as the API server requires of
every CRD it stores: a field that occurs in a branch also occurs outside of it.
Without that restriction a field could disappear behind its copy in a branch.
Pattern properties, definitions and dependencies, which an API server refuses too,
are in `SchemaTree` and in no run: their entries print like their parent and are
visited in random order, so an unchanged manifest that has two of them with
different types may be reported by check-manifests as a change of type.

Fairness: the command and the startup of the server never wait for anything, and
the Go scheduler keeps running the goroutine of every request; their steps are weakly
fair, and nothing is assumed of when a request comes. The walk needs no fairness:
`WalkAdvances` bounds the steps a walk takes, three per schema, and is a safety
property.

### What the violations show

* `types_masked`: a branch under a field is visited after the field and prints
  like it, so the field's own type is overwritten before types are compared
  (`comp_no_data_type_change.go:28`). A field can disappear in the same way: the
  values of a map print like the elements of a list (`helpers.go:46`, `:79`), and
  when a branch masks the type that tells them apart, a map of a CRD that predates
  the checker becomes a list unreported. The assumption `MaskedFieldLost` of
  `MCCRDEvolution`, which every evolution run evaluates, has such an update. Of a CRD
  that entered clean this cannot happen (`CleanFieldsNeverLost`).
* `enums_shrink`: dropping an enum list is accepted, adding a smaller one back is
  too (`comp_no_enum_removal.go:67`).
* `required_in_branch`: a new branch of an allOf is taken for an optional field
  called 0, so what it requires is accepted (`comp_no_new_required_fields.go:172`).
* `reapply_reported`: an array with a minLength is reported as new and required
  every time the CRD is applied, also when nothing changed, because nothing asks
  whether the array was there before (`comp_no_new_required_fields.go:105-119`). Such
  a CRD can be created and then passes no update that keeps the array so. The code
  asks for minLength, which restricts strings; minItems is not looked at.
* `disable_all`: no names means all comparators (`registry.go:56`).
* `clean_allowed`: the hook never sets `Allowed` for a CRD write
  (`admission_evaluator.go:41`); its client logs the value and does not check it
  (`admission_tester.go:99`).

### What passing properties say that one may not expect

* `ReapplyQuiet` says what `ReapplyClean`, the property of `reapply_reported`, says
  of every CRD, of those that do not panic, have no array with a minLength, and give
  the same type to schemas that print alike below two entries of one map
  (`MapEntriesAgree`). Branches may print like their field with any type.
* The action `Stuck`: conditions with all six attributes, one of
  which leaves its limit out, panic (`comp_conditions_must_have_proper_ssa_tags.go:155`,
  `:170`, `:218`, `:228`); `RatchetCompare` validates the existing CRD first, so
  such a CRD can never be updated, not even to repair it.
* `TestVouches`: a test directory with an errors.txt never passes
  (`simple_tester.go:225`).
* `CostsSound`: message expressions have a limit each and no part in the total
  (`comp_must_not_exceed_cost_budget.go:142`).
* `UnboundedExplained`: a rule below a map without maxProperties, or below an
  unbounded list with a dot in its name, is an error, "ancestry and field path do
  not match", whatever it costs (`comp_must_not_exceed_cost_budget.go:237`). The
  text names no field, so the ratchet forgives the next one.
* `PercentHonest`: the percentage of a rule over budget may have wrapped to less
  than 100 (`comp_must_not_exceed_cost_budget.go:132`); the error is beside it.

## Proofs

Each theorem holds for every value of the constants that satisfies the named
assumptions. Apart from the assumptions listed under Abstractions these are
`TreeAssumption` (schemas are finitely many, each with at most one parent; `Nil` is
none of them),
`CellAssumption` (a pooled cell is not one of the decoded schemas),
`SlackAssumption`, `LimitsAssumption` (the limits fit a uint64 with a factor of
100 to spare), `RegistryAssumption` (names are registered once) and
`CRDAssumption`. TLC evaluates all of them in the runs.

| Module | Theorem | States |
|---|---|---|
| `SchemaWalkProofs` | `TypeCorrect`, `PoolExclusive`, `PredicateSeesAncestry`, `PathsExact` | `TypeOK`, `CellsExclusive`, `AncestryExact`, `PathsOfAncestors` |
| `SchemaVisitProofs` | `EachSchemaOnce`, `FalseLookedEverywhere`, `WalkImplementsVisit`, `WalksAdvance` | `PredOnce`, `FalseMeansAll`, the refinement `ImplementsVisit`, the action property `WalkAdvances` |
| `CheckManifestsProofs` | `CLITypeCorrect`, `ZeroVouches`, `EverythingPrinted`, `DisabledStayOut` | `TypeOK`, `ZeroMeansChecked`, `NothingSwallowed`, `DisabledNotRunIfAnyLeft` |
| `AdmissionServerProofs` | `ServerTypeCorrect`, `FaultsAreDenied`, `ClientReadsResults`, `OnlyOwnErrors` | `TypeOK`, `FaultsDenied`, `RoundTrip`, `ErrorsAreOwn` |
| `CheckerParityProofs` | `VerdictsAgree`, `FlagsAgree`, `ReportsAgree`, `TestsAlwaysAgree`, `TestsAlwaysVouch` | `SameVerdict`, `SameFlags`, `SameReport`, `TestsAgree`, `TestVouches` |
| `CRDEvolutionProofs` | `RatchetHolds`, `LocationsNeverLost`, `ConditionsStaySound`, `CreateVerdictsAgree` | `RatchetOnlyShrinks`, `LocationsKept`, `ConditionsSound`, `CreateParity` |
| | `LoneTypesKeptByUpdates` | an action property: no accepted update changes the type of a field that shares its location with nothing |
| | `LoneTypesNeverChange` | `LoneTypesKept`, if no map order decides which type is read last |
| | `ReapplyIsClean`, `ReapplyAlwaysClean` | `ReapplyQuiet` of every such CRD; hence of all structural ones |
| | `TypesNeverChange` | `TypesKept`, if no two parts of a schema print alike |
| | `FieldsNeverLost` | `FieldsKept`, of structural schemas in which no branch masks the type of a list or a map |
| | `CleanFieldsNeverLost` | `FieldsKept` of CRDs that entered clean, of structural schemas |
| | `ObjectsAlwaysValid`, `CleanObjectsAlwaysValid` | `ObjectsStayValid`, as the two above, if only fields that are not lists require anything |
| `CostBudgetProofs` | `BudgetTypeCorrect`, `BudgetIsKept`, `RaisedIsReported`, `PercentIsHonest`, `GuessesAreExplained` | `TypeOK`, `CostsSound`, `RaisedReported`, `PercentHonest`, `UnboundedExplained` |

The arguments:

* **Walk.** `AncestryExact` is not inductive, because the next call is handed a
  slice of an array that any enclosing call may have allocated. `IndInv` says of
  every active call that its `ancestry`, and once its predicate has run its
  `nextAncestry`, lies in an array of an enclosing call that holds the pointers of
  all the calls around it, that its cell still holds its schema, and that its path
  is noted under its pointer. The core of the proof is append in place
  (`InPlaceCalls`): the slot it writes lies behind every slice of an enclosing
  call, so nobody who can still look at the array looks at that slot. Cells are
  kept by `CellsExclusive`: `Get` returns a cell that no active call uses, so
  filling it changes no enclosing schema and no noted path of one.
* **Visit.** `VisitInv` relates the stack to what the predicate has seen: parents
  of seen schemas are seen, a child of an active call is seen, or is the next call,
  iff the loops of the call have come to it, and a seen schema has unseen children
  only while its call is active. With `IndInv` the chain read through slices and
  cells is the chain of active schemas, so each step of the walk is a step of
  `SchemaVisit` or leaves it alone. The proof is about safety, as `Visit!Spec` is.
  `StepsLeft` is three times the schemas not yet seen and what the active calls still
  have to do; that the predicate gets a new schema each time (`TopUnseen`) makes every
  step lower it.
* **Command.** `CLIInv` says that only selected comparators have been called, that
  a run that reported called them all and printed what they said, and that one that
  did not exits with the code of the phase it stopped in.
* **Hook.** `HookInv` says that the hook has its configuration before a request can
  reach it, that a request has called only what the flags select and met no panic
  in it, and that the answer to a request is a function of its own review and
  findings. The last part is what makes concurrent requests independent.
* **Parity.** `ParityInv` is the two invariants side by side, instantiated as
  `CheckerParity` instantiates the components; the theorems compare what each
  answer is a function of.
* **Tests.** That a list can be sorted at all, by ranking its places
  (`RankExists`, an induction on how many there are), makes the CHOOSE of
  `SortStrings` mean something; that sorting gives equal lists exactly if the lists
  were the same as bags (`SortedSame`) is an argument about the first place at which
  two sorted lists differ. `PassesMeans` says with these what the two loops of `Test`
  accept, whatever results come in whatever order. The registry returns the results
  of all comparators and the hook only of those that have something to say;
  `AllReturned` and `TestedFacts` show that the two lists agree for `PassesMeans`.
* **Chains.** `ChainInv` adds to the ratchet and the kept locations that a CRD
  that entered clean never panics (`Sober`), since a panic would hide its faults, and
  that the CRD the chain started from has the versions that were kept (`Rooted`), and
  that the history speaks of versions that are there (`HistoryOK`).
  The proofs about types and about reapplying need that a walk has an order at
  all (`DrawsExist`), and that it reads the last visited type at each location.
* **Types.** `LoneTypesKept` is not inductive: the location may be shared for some
  updates in between, and then says nothing. What is kept is what `NoDataTypeChange`
  reads at the location, shared or not (`ReadingsKept`), provided that every order
  of a walk reads the same there (`Settled`).
* **Fields.** `SimpleLocation` is a recursive function along a path, so two paths
  that print alike are compared step by step (`SamePrint`, by induction on their
  length): the first difference is `items` in one and `additionalProperties` in the
  other, under the same field. In a structural schema that field is a list in one CRD
  and a map in the other. If no branch masks it, it is alone at its location and its
  type is kept (`SameField`); if the CRD entered clean, `NoMaps` has left no map in it
  (`CleanHasNoMaps`), now or at the start (`OriginInvariant`). A location is always
  that of a field too (`FieldOfFacts`), so keeping locations keeps fields.
* **Objects.** The invariant is `ObjectsStayValid` together with `FieldsKept`: an
  object that lacks something newly required has the field it is missing from, and
  that field was in the CRD before, where `NoNewRequiredFields` saw that nothing
  required it and reported it.
* **Budget.** `GuardSaturates` and `GuardedProductSaturates` show that the guarded
  product is the true one cut off at `MaxUint`, in whatever factor it overflows, so
  `Cost` decides like `TrueCost` (`CostIsTrue`). `BudgetInv` says, of the rules
  judged so far on either side, that each error, warning and info they give reason
  for is there (`AllTold`), that no other is (`AllMeant`), that the total agrees
  with `Units` as far as the limit of a CRD can tell (`TotalSoFar`), and that a
  version that is through is named iff it is too expensive (`TotalsTold`). At the
  end all rules have been judged.

Induction over data: the provers cannot use an induction theorem with an operator
parameter. `LeastNumber` derives induction from the well-foundedness of the
naturals for sets instead of predicates (`UpToInduction`, `StepByStep`) and from it
that a recursion on an interval has a solution (`BuildUp`). So the recursive
functions the properties rest on are shown to exist and to satisfy their equations:
`SimpleLocation`, `FieldOf`, `Returned`, and in `CostBudget` `Product`,
`GuardedProduct` and `PathParts`.

The hypotheses of the theorems on fields, types and objects are as weak as TLC let
them be:

* `Structural` is what an API server asks of a schema it stores: a field that
  occurs in a branch occurs outside of it, only lists have items and only maps have
  values, no pattern properties, definitions, dependencies or lists of item
  schemas. Besides, no property is called `[*]` or has a dot in its name, which
  would print like something else. Without it a field can hide behind its copy in a
  branch.
* `Unmasked`: a list or a map shares its printed location with nothing, so no branch
  stands below it. Without it `FieldsKept` fails (`MaskedFieldLost`); CRDs that
  entered clean do not need it.
* `RequiresByFields`: no branch and no array requires anything. With branches that do
  `ObjectsStayValid` fails (`required_in_branch`); on an array `required` means nothing.
* `PrintedApart`: without it `TypesKept` fails (`types_masked`).
* `Settled`: every order of a walk reads the same type. Names with a dot, pattern
  properties, definitions and dependencies can break it.

Only model-checked: liveness (`Terminates`, `EveryRequestAnswered`), which TLAPS does
not treat, and `ReapplyQuiet` where names have a dot in them and the types agree.

## Not modelled

* `AllTestsInDir` and the wrappers that hand its tests to the testing package
  (`simple_tester.go:15-116`): they look for leaf directories and keep no state.
* `main.go`: it adds the two commands to a root command.
* The CEL library, the conversion of schemas and the HTTP client of the admission
  test: their outcomes are inputs.
* The imports of `pkg/dependencymagnet`; vendored libraries; the wording of
  messages beyond what makes two of them equal.

## Plan

1. Done: the walk and its proofs; all rules, the ratchet and their composition over
   time; the cost budget; flags, registry and both front ends; their parity and
   what the directory tests vouch for.
2. Done: proofs of every safety property of the passing runs, with the refinement of
   `SchemaVisit`; those about fields, types and objects for structural CRDs.
3. Left: `ObjectsStayValid` for branches that require something, with a hypothesis on
   how a new one may appear; the theorems on fields for names with a dot in them;
   `ReapplyQuiet` from its own hypotheses instead of `Settled`.
