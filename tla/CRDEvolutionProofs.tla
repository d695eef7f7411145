------------------------- MODULE CRDEvolutionProofs -------------------------
(***************************************************************************)
(* What the checker guarantees over every chain of updates it accepts, for *)
(* all CRDs anybody may propose.  The first half looks into no location:   *)
(* its facts hold whatever SimpleLocation prints.  The second half is      *)
(* about what a location tells of the fields behind it.                    *)
(***************************************************************************)
EXTENDS CRDEvolution, LeastNumber, FiniteSetTheorems, FunctionTheorems, SequenceTheorems

-----------------------------------------------------------------------------
\* The CRD the hook compares with when nothing is there breaks no rule, has no version
\* and ends no run (admission_evaluator.go:54-55).
LEMMA EmptyIsClean ==
    /\ Validate(EmptyCRD) = {}
    /\ ~Crashes(EmptyCRD)
    /\ \A new : Shared(EmptyCRD, new) = {} /\ Shared(NoCRD, new) = {}
<1>1. DOMAIN EmptyCRD = {}
  BY DEF EmptyCRD
<1>2. Validate(EmptyCRD) = {}
  BY <1>1 DEF Validate, MustHaveStatus, ConditionsMustHaveProperSSATags
<1>3. QED
  BY <1>1, <1>2 DEF Crashes, Shared, GetVersionByName

\* What an accepted run says of the two CRDs.
LEMMA AcceptedFacts ==
    ASSUME NEW old, NEW new, Accepted(old, new)
    PROVE  /\ ~Crashes(old) /\ ~Crashes(new)
           /\ Validate(new) \subseteq (IF old = NoCRD THEN {} ELSE Validate(old))
           /\ \A v \in Shared(old, new) : Locations(old[v].schema) \subseteq Locations(new[v].schema)
<1>1. RatchetCompare(old, new) = {} /\ NoFieldRemoval(old, new) = {}
  BY DEF Accepted, StableErrors
<1>2. ~Crashes(old) /\ ~Crashes(new)
  BY DEF Accepted, EndsInPanic
<1>3. Validate(new) \subseteq (IF old = NoCRD THEN {} ELSE Validate(old))
  BY <1>1 DEF RatchetCompare
<1>4. ASSUME NEW v \in Shared(old, new), NEW loc \in Locations(old[v].schema)
      PROVE  loc \in Locations(new[v].schema)
  <2>1. SUFFICES ASSUME loc \notin Locations(new[v].schema)
                 PROVE  FALSE
    OBVIOUS
  <2>2. Message("NoFieldRemoval", v, loc, "") \in NoFieldRemoval(old, new)
    <3> DEFINE Removed(u) == {Message("NoFieldRemoval", u, l, "") :
                                l \in Locations(old[u].schema) \ Locations(new[u].schema)}
    <3>1. Message("NoFieldRemoval", v, loc, "") \in Removed(v)
      BY <2>1
    <3>2. NoFieldRemoval(old, new) = UNION {Removed(u) : u \in Shared(old, new)}
      BY DEF NoFieldRemoval
    <3> HIDE DEF Removed
    <3>3. QED
      BY <3>1, <3>2
  <2>3. QED
    BY <1>1, <2>2
<1>5. QED
  BY <1>2, <1>3, <1>4

-----------------------------------------------------------------------------
(***************************************************************************)
(* The invariant of a chain.  RatchetOnlyShrinks is inductive by itself;   *)
(* what the conditions of a clean CRD look like needs besides that no run  *)
(* ended in a panic before it could report them.                           *)
(***************************************************************************)
\* The history is about CRDs somebody proposed and versions that are there.
HistoryOK ==
    /\ crd \in CRD \cup {NoCRD}
    /\ origin \in CRD \cup {NoCRD}
    /\ kept \subseteq (IF crd = NoCRD THEN {} ELSE DOMAIN crd)
    /\ DOMAIN enums = (IF crd = NoCRD THEN {} ELSE DOMAIN crd)

Sober == crd # NoCRD /\ baseline = {} => ~Crashes(crd)

\* The chain started from a CRD that had the versions it still has.
Rooted == crd # NoCRD => origin # NoCRD /\ kept \subseteq DOMAIN origin

ChainInv == HistoryOK /\ RatchetOnlyShrinks /\ Sober /\ Rooted /\ LocationsKept

LEMMA InitChain == Init => ChainInv
<1> SUFFICES ASSUME Init PROVE ChainInv
  OBVIOUS
<1>1. CASE /\ crd \in Legacy
           /\ origin = crd
           /\ baseline = Validate(crd) \cup (IF Crashes(crd) THEN Panic ELSE {})
           /\ kept = DOMAIN crd
           /\ enums = EnumsOf(crd)
  <2>1. crd \in CRD /\ crd # NoCRD
    BY <1>1, CRDAssumption
  <2>2. Panic # {}
    BY DEF Panic
  <2>3. HistoryOK
    BY <1>1, <2>1 DEF HistoryOK, EnumsOf
  <2>4. RatchetOnlyShrinks /\ Sober /\ Rooted
    BY <1>1, <2>1, <2>2 DEF RatchetOnlyShrinks, Sober, Rooted
  <2>5. QED
    BY <1>1, <2>3, <2>4 DEF ChainInv, LocationsKept
<1>2. CASE crd = NoCRD /\ origin = NoCRD /\ baseline = {} /\ kept = {} /\ enums = <<>>
  BY <1>2 DEF ChainInv, HistoryOK, RatchetOnlyShrinks, Sober, Rooted, LocationsKept
<1>3. QED
  BY <1>1, <1>2 DEF Init

LEMMA CreateChain ==
    ASSUME ChainInv, NEW new \in CRD, Create(new)
    PROVE  ChainInv'
<1>1. /\ new # NoCRD
      /\ crd' = new /\ origin' = new /\ kept' = DOMAIN new /\ enums' = EnumsOf(new)
      /\ baseline' = baseline
  BY CRDAssumption DEF Create
<1>2. Validate(new) = {} /\ ~Crashes(new)
  <2>1. PICK old \in {NoCRD, EmptyCRD} : Accepted(old, new)
    BY DEF Create
  <2>2. QED
    BY <2>1, AcceptedFacts, EmptyIsClean
<1>3. HistoryOK'
  BY <1>1 DEF HistoryOK, EnumsOf
<1>4. RatchetOnlyShrinks' /\ Sober' /\ Rooted'
  BY <1>1, <1>2 DEF RatchetOnlyShrinks, Sober, Rooted
<1>5. QED
  BY <1>1, <1>3, <1>4 DEF ChainInv, LocationsKept

LEMMA UpdateChain ==
    ASSUME ChainInv, NEW new \in CRD, Update(new)
    PROVE  ChainInv'
<1>1. /\ new # NoCRD /\ crd # NoCRD /\ Accepted(crd, new)
      /\ crd' = new /\ origin' = origin /\ kept' = kept \cap DOMAIN new
      /\ enums' = AddUp(enums, new) /\ baseline' = baseline
  BY CRDAssumption DEF Update
<1>2. HistoryOK /\ RatchetOnlyShrinks /\ Sober /\ Rooted /\ LocationsKept
  BY DEF ChainInv
<1>3. HistoryOK'
  BY <1>1, <1>2 DEF HistoryOK, AddUp
<1>4. RatchetOnlyShrinks' /\ Sober' /\ Rooted'
  BY <1>1, <1>2, AcceptedFacts DEF RatchetOnlyShrinks, Sober, Rooted
<1>5. LocationsKept'
  <2>1. kept' \subseteq Shared(crd, new)
    BY <1>1, <1>2 DEF HistoryOK, Shared, GetVersionByName
  <2>2. QED
    BY <1>1, <1>2, <2>1, AcceptedFacts DEF LocationsKept
<1>6. QED
  BY <1>3, <1>4, <1>5 DEF ChainInv

\* The invariant holds along every chain of accepted updates, whoever proposes what.
THEOREM ChainInvariant == Spec => []ChainInv
<1>1. ChainInv /\ [Next]_vars => ChainInv'
  <2> SUFFICES ASSUME ChainInv, [Next]_vars PROVE ChainInv'
    OBVIOUS
  <2>1. CASE \E new \in CRD : Create(new) \/ Update(new)
    BY <2>1, CreateChain, UpdateChain
  <2>2. CASE UNCHANGED vars
    BY <2>2 DEF vars, ChainInv, HistoryOK, RatchetOnlyShrinks, Sober, Rooted, LocationsKept
  <2>3. QED
    BY <2>1, <2>2 DEF Next, Stuck
<1>2. QED
  BY InitChain, <1>1, PTL DEF Spec

\* Over any chain of updates, versions dropped and added again included, a CRD breaks no
\* rule that it did not break before the checker was there (racheting_validator.go:7-53).
THEOREM RatchetHolds == Spec => []RatchetOnlyShrinks
<1>1. ChainInv => RatchetOnlyShrinks
  BY DEF ChainInv
<1>2. QED
  BY <1>1, ChainInvariant, PTL

\* A version that is never dropped goes on printing every location it ever started with
\* (comp_no_field_removal.go:36-74).
THEOREM LocationsNeverLost == Spec => []LocationsKept
<1>1. ChainInv => LocationsKept
  BY DEF ChainInv
<1>2. QED
  BY <1>1, ChainInvariant, PTL

-----------------------------------------------------------------------------
LEMMA EmptyUnion ==
    ASSUME NEW A, NEW B, NEW C, (A \cup B) \cup C = {}
    PROVE  A = {} /\ B = {} /\ C = {}
  OBVIOUS

\* A CRD that validates clean and ends no run has standard conditions only.
LEMMA CleanConditions ==
    ASSUME NEW c \in CRD, Validate(c) = {}, ~Crashes(c), NEW v \in DOMAIN c,
           NEW p \in ConditionsLists(c[v].schema)
    PROVE  LET schema == c[v].schema IN
           /\ schema[p].listType = "map" /\ schema[p].mapKeys = {"type"}
           /\ \A a \in Attributes : /\ AttributeOf(p, a) \in DOMAIN schema
                                    /\ schema[AttributeOf(p, a)].wrong = {}
                                    /\ schema[AttributeOf(p, a)].unset = {}
<1> DEFINE schema == c[v].schema
           faults == ConditionFaults(schema)
           Told(u) == {Message("ConditionsMustHaveProperSSATags", u, fault[1], fault[2]) :
                         fault \in ConditionFaults(c[u].schema)}
<1>1. faults = {}
  <2>1. ConditionsMustHaveProperSSATags(c) = UNION {Told(u) : u \in DOMAIN c}
    BY DEF ConditionsMustHaveProperSSATags
  <2>2. ConditionsMustHaveProperSSATags(c) = {}
    <3>1. ((UNION {BrokenIn(u, c[u].schema) : u \in DOMAIN c}) \cup MustHaveStatus(c))
             \cup ConditionsMustHaveProperSSATags(c) = {}
      BY Zenon DEF Validate
    <3>2. QED
      BY <3>1, EmptyUnion, Zenon
  <2>3. Told(v) = {}
    BY <2>1, <2>2
  <2>4. QED
    BY <2>3
<1>2. c # NoCRD /\ ~Panics(schema, p)
  BY CRDAssumption DEF Crashes, ConditionsPanic
<1> HIDE DEF schema
<1>3. /\ schema[p].listType = "map" /\ schema[p].mapKeys = {"type"}
      /\ validateConditionProperties(schema, p) = {}
  <2> DEFINE Faulty(q) == {<<<<"status", "condition">>, fault>> :
                             fault \in validateConditionProperties(schema, q)}
             lists == ConditionsLists(schema)
             untyped == {q \in lists : schema[q].listType # "map"}
             unkeyed == {q \in lists : schema[q].mapKeys # {"type"}}
  <2>1. p \in lists
    BY DEF schema
  <2>2. /\ UNION {Faulty(q) : q \in lists} = {}
        /\ {<<SimpleLocation(q), <<"list", "type">>>> : q \in untyped} = {}
        /\ {<<SimpleLocation(q), <<"list", "map keys">>>> : q \in unkeyed} = {}
    <3>1. ((UNION {Faulty(q) : q \in lists})
             \cup {<<SimpleLocation(q), <<"list", "type">>>> : q \in untyped})
             \cup {<<SimpleLocation(q), <<"list", "map keys">>>> : q \in unkeyed} = {}
      BY <1>1, Zenon DEF ConditionFaults
    <3>2. QED
      BY <3>1, EmptyUnion, Zenon
  <2> HIDE DEF lists
  <2>3. p \notin untyped /\ p \notin unkeyed
    <3> HIDE DEF untyped, unkeyed
    <3>1. /\ p \in untyped => <<SimpleLocation(p), <<"list", "type">>>>
                                 \in {<<SimpleLocation(q), <<"list", "type">>>> : q \in untyped}
          /\ p \in unkeyed => <<SimpleLocation(p), <<"list", "map keys">>>>
                                 \in {<<SimpleLocation(q), <<"list", "map keys">>>> : q \in unkeyed}
      BY Zenon
    <3>2. QED
      BY <2>2, <3>1, Zenon
  <2>4. Faulty(p) = {}
    <3> HIDE DEF Faulty
    <3>1. QED
      BY <2>1, <2>2
  <2>5. validateConditionProperties(schema, p) = {}
    BY <2>4
  <2>6. QED
    BY <2>1, <2>3, <2>5
<1>4. Missing(schema, p) = {}
  BY <1>3 DEF validateConditionProperties
<1>5. ASSUME NEW a \in Attributes
      PROVE  /\ AttributeOf(p, a) \in DOMAIN schema
             /\ schema[AttributeOf(p, a)].wrong = {}
             /\ schema[AttributeOf(p, a)].unset = {}
  <2> DEFINE attribute == schema[AttributeOf(p, a)]
  <2>1. AttributeOf(p, a) \in DOMAIN schema
    BY <1>4 DEF Missing
  <2>2. attribute.wrong \subseteq Checks(a) /\ attribute.unset \subseteq Checks(a) \cap Pointers
    BY <2>1, SchemaAssumption DEF schema
  <2>3. attribute.unset \cap Pointers \cap Checks(a) = {}
    BY <1>2, <1>4 DEF Panics
  <2>4. attribute.wrong \cap Checks(a) = {}
    <3> DEFINE Wrong(b) == {<<b, check>> : check \in schema[AttributeOf(p, b)].wrong \cap Checks(b)}
    <3>1. UNION {Wrong(b) : b \in Attributes} = {}
      BY <1>3, <1>4 DEF validateConditionProperties
    <3>2. Wrong(a) = {}
      BY <3>1
    <3>3. QED
      BY <3>2
  <2>5. QED
    BY <2>1, <2>2, <2>3, <2>4
<1>6. QED
  BY <1>3, <1>5 DEF schema

\* In a CRD that entered the cluster clean every list below conditions is, and through
\* all its updates stays, a list of standard conditions with the key type
\* (comp_conditions_must_have_proper_ssa_tags.go:29-145).
THEOREM ConditionsStaySound == Spec => []ConditionsSound
<1>1. ChainInv => ConditionsSound
  <2> SUFFICES ASSUME ChainInv, crd # NoCRD, baseline = {},
                      NEW v \in DOMAIN crd, NEW p \in ConditionsLists(crd[v].schema)
               PROVE  LET schema == crd[v].schema IN
                      /\ schema[p].listType = "map" /\ schema[p].mapKeys = {"type"}
                      /\ \A a \in Attributes : /\ AttributeOf(p, a) \in DOMAIN schema
                                               /\ schema[AttributeOf(p, a)].wrong = {}
                                               /\ schema[AttributeOf(p, a)].unset = {}
    BY DEF ConditionsSound
  <2>1. crd \in CRD /\ Validate(crd) = {} /\ ~Crashes(crd)
    BY DEF ChainInv, HistoryOK, RatchetOnlyShrinks, Sober
  <2>2. QED
    BY <2>1, CleanConditions
<1>2. QED
  BY <1>1, ChainInvariant, PTL

-----------------------------------------------------------------------------
(***************************************************************************)
(* There is always an order for a walk to take, so that a run that ends    *)
(* has a verdict.                                                          *)
(***************************************************************************)
\* The elements of a finite set can be numbered.
Numbering(S) == CHOOSE f \in [S -> 1..Cardinality(S)] : {f[x] : x \in S} = 1..Cardinality(S)

LEMMA NumberingExists ==
    ASSUME NEW S, IsFiniteSet(S)
    PROVE  /\ Cardinality(S) \in Nat
           /\ Numbering(S) \in [S -> 1..Cardinality(S)]
           /\ {Numbering(S)[x] : x \in S} = 1..Cardinality(S)
<1>1. Cardinality(S) \in Nat /\ ExistsBijection(1..Cardinality(S), S)
  BY FS_CardinalityType
<1>2. ExistsBijection(S, 1..Cardinality(S))
  BY <1>1, Fun_ExistsBijSymmetric
<1>3. PICK f \in [S -> 1..Cardinality(S)] : \A n \in 1..Cardinality(S) : \E x \in S : f[x] = n
  BY <1>2 DEF ExistsBijection, Bijection, Surjection, Injection
<1>4. {f[x] : x \in S} = 1..Cardinality(S)
  BY <1>3
<1>5. QED
  BY <1>1, <1>4, ZenonT(60) DEF Numbering

\* Go can draw an order for every range over a map (helpers.go:73-120).
LEMMA DrawsExist ==
    ASSUME NEW schema, IsFiniteSet(DOMAIN schema)
    PROVE  Draws(schema) # {}
<1>1. CASE Cardinality(Locations(schema)) = Cardinality(DOMAIN schema)
  BY <1>1 DEF Draws
<1>2. CASE Cardinality(Locations(schema)) # Cardinality(DOMAIN schema)
  <2> DEFINE C == Contested(schema)
             E(p) == EntriesWith(schema, p)
             entries == [p \in C |-> E(p)]
             sizes == {Cardinality(entries[p]) : p \in DOMAIN entries} \cup {1}
             draw == [p \in C |-> Numbering(E(p))[p]]
             Fair(d) == \A p \in DOMAIN entries :
                           {d[q] : q \in entries[p]} = 1..Cardinality(entries[p])
  <2>1. Draws(schema) = {d \in [DOMAIN entries -> 1..Max(sizes)] : Fair(d)}
    BY <1>2 DEF Draws
  <2>2. C \subseteq DOMAIN schema
    BY DEF Contested, MapEntries
  <2>3. /\ \A p : E(p) \subseteq C
        /\ \A p \in C : p \in E(p)
        /\ \A p \in C : \A q \in E(p) : E(q) = E(p)
    BY DEF EntriesWith
  <2> HIDE DEF C, E
  <2>4. IsFiniteSet(C) /\ Cardinality(C) \in Nat
    BY <2>2, FS_Subset, FS_CardinalityType
  <2>5. \A p \in C : /\ IsFiniteSet(E(p)) /\ Cardinality(E(p)) \in Nat
                     /\ Cardinality(E(p)) <= Cardinality(C)
    BY <2>3, <2>4, FS_Subset, FS_CardinalityType
  <2>6. \A n \in sizes : Max(sizes) \in Nat /\ n \in Nat /\ n <= Max(sizes)
    <3>1. sizes \subseteq Nat /\ sizes # {} /\ \A n \in sizes : n <= Cardinality(C) + 1
      BY <2>4, <2>5
    <3> HIDE DEF sizes
    <3>2. Cardinality(C) + 1 \in Nat
      BY <2>4
    <3>3. Max(sizes) \in sizes /\ \A y \in sizes : Max(sizes) >= y
      BY <3>1, <3>2, MaxOfBounded
    <3>4. QED
      BY <3>1, <3>3
  <2>7. ASSUME NEW p \in C
        PROVE  /\ draw[p] \in 1..Max(sizes)
               /\ {draw[q] : q \in E(p)} = 1..Cardinality(E(p))
    <3>1. /\ Numbering(E(p)) \in [E(p) -> 1..Cardinality(E(p))]
          /\ {Numbering(E(p))[x] : x \in E(p)} = 1..Cardinality(E(p))
      BY <2>5, NumberingExists
    <3>2. \A q \in E(p) : draw[q] = Numbering(E(p))[q]
      BY <2>3
    <3>3. {draw[q] : q \in E(p)} = {Numbering(E(p))[q] : q \in E(p)}
      BY <3>2
    <3>4. draw[p] \in 1..Cardinality(E(p))
      BY <2>3, <3>1, <3>2
    <3>5. Cardinality(E(p)) \in sizes
      OBVIOUS
    <3>6. /\ Max(sizes) \in Nat /\ Cardinality(E(p)) \in Nat
          /\ Cardinality(E(p)) <= Max(sizes)
      BY <2>6, <3>5
    <3> HIDE DEF sizes, draw
    <3>7. draw[p] \in 1..Max(sizes)
      BY <3>4, <3>6
    <3>8. QED
      BY <3>1, <3>3, <3>7
  <2>8. draw \in [DOMAIN entries -> 1..Max(sizes)]
    <3> HIDE DEF sizes
    <3>1. QED
      BY <2>7
  <2>9. Fair(draw)
    <3> HIDE DEF draw
    <3>1. QED
      BY <2>7
  <2> HIDE DEF entries, draw, sizes, Fair
  <2>10. QED
    BY <2>1, <2>8, <2>9
<1>3. QED
  BY <1>1, <1>2

LEMMA ReadingsExist ==
    ASSUME NEW c, \A v \in DOMAIN c : IsFiniteSet(DOMAIN c[v].schema)
    PROVE  Readings(c) # {}
<1> DEFINE possible == [v \in DOMAIN c |->
                          {getFieldsAndTypes(c[v].schema, draw) : draw \in Draws(c[v].schema)}]
           reading == [v \in DOMAIN c |-> CHOOSE types \in possible[v] : TRUE]
<1>1. \A v \in DOMAIN c : reading[v] \in possible[v]
  BY DrawsExist
<1>2. Readings(c) = {r \in [DOMAIN c -> UNION {possible[v] : v \in DOMAIN c}] :
                        \A v \in DOMAIN c : r[v] \in possible[v]}
  BY DEF Readings
<1>3. DOMAIN reading = DOMAIN c /\ reading = [v \in DOMAIN c |-> reading[v]]
  OBVIOUS
<1> HIDE DEF possible, reading
<1>4. reading \in [DOMAIN c -> UNION {possible[v] : v \in DOMAIN c}]
  BY <1>1, <1>3
<1>5. QED
  BY <1>1, <1>2, <1>4

\* A CRD without a schema that walks can read in two ways is read in one way.
LEMMA SameReading ==
    ASSUME NEW c, \A v \in DOMAIN c : Contested(c[v].schema) = {},
           NEW r1 \in Readings(c), NEW r2 \in Readings(c)
    PROVE  r1 = r2
<1> DEFINE possible == [v \in DOMAIN c |->
                          {getFieldsAndTypes(c[v].schema, draw) : draw \in Draws(c[v].schema)}]
<1>1. Readings(c) = {r \in [DOMAIN c -> UNION {possible[v] : v \in DOMAIN c}] :
                        \A v \in DOMAIN c : r[v] \in possible[v]}
  BY DEF Readings
<1>2. ASSUME NEW v \in DOMAIN c
      PROVE  \A d1, d2 \in Draws(c[v].schema) : d1 = d2
  <2> DEFINE schema == c[v].schema
             entries == [p \in Contested(schema) |-> EntriesWith(schema, p)]
  <2>1. \A T : \A d1, d2 \in [{} -> T] : d1 = d2
    OBVIOUS
  <2>2. DOMAIN entries = {}
    OBVIOUS
  <2>3. QED
    BY <2>1, <2>2 DEF Draws
<1>3. \A v \in DOMAIN c : \A a, b \in possible[v] : a = b
  BY <1>2
<1> HIDE DEF possible
<1>4. QED
  BY <1>1, <1>3

-----------------------------------------------------------------------------
\* To compare a CRD with an empty one or with none makes no difference.
LEMMA SameOnCreate ==
    ASSUME NEW c \in CRD
    PROVE  Verdicts(NoCRD, c) = Verdicts(EmptyCRD, c)
<1>1. CASE EmptyCRD = NoCRD
  BY <1>1
<1>2. CASE EmptyCRD # NoCRD
  <2>1. StableErrors(NoCRD, c) = StableErrors(EmptyCRD, c)
    <3>1. RatchetCompare(NoCRD, c) = RatchetCompare(EmptyCRD, c)
      BY <1>2, EmptyIsClean DEF RatchetCompare
    <3>2. \A old \in {NoCRD, EmptyCRD} : /\ NoFieldRemoval(old, c) = {}
                                         /\ NoEnumRemoval(old, c) = {}
                                         /\ NoNewRequiredFields(old, c) = {}
      BY EmptyIsClean DEF NoFieldRemoval, NoEnumRemoval, NoNewRequiredFields
    <3>3. QED
      BY <3>1, <3>2 DEF StableErrors
  <2>2. EndsInPanic(NoCRD, c) <=> EndsInPanic(EmptyCRD, c)
    BY EmptyIsClean DEF EndsInPanic, Crashes
  <2>3. \A old \in Readings(EmptyCRD) : \A new : NoDataTypeChange(old, new) = {}
    <3>1. \A old \in Readings(EmptyCRD) : DOMAIN old = {}
      BY DEF Readings, EmptyCRD
    <3>2. QED
      BY <3>1 DEF NoDataTypeChange
  <2>4. Readings(EmptyCRD) # {} /\ Readings(c) # {}
    <3>1. DOMAIN EmptyCRD = {}
      BY DEF EmptyCRD
    <3>2. QED
      BY <3>1, ReadingsExist, SchemaAssumption
  <2> DEFINE stable == StableErrors(EmptyCRD, c)
  <2>5. TypeChanges(EmptyCRD, c) = {{}}
    BY <2>3, <2>4 DEF TypeChanges
  <2>6. {stable \cup changes : changes \in TypeChanges(EmptyCRD, c)} = {stable}
    <3> HIDE DEF stable
    <3>1. QED
      BY <2>5
  <2>7. Verdicts(NoCRD, c) = IF EndsInPanic(NoCRD, c) THEN {Panic} ELSE {StableErrors(NoCRD, c)}
    BY DEF Verdicts
  <2>8. Verdicts(EmptyCRD, c) =
          IF EndsInPanic(EmptyCRD, c) THEN {Panic}
          ELSE {stable \cup changes : changes \in TypeChanges(EmptyCRD, c)}
    BY <1>2, Zenon DEF Verdicts
  <2>9. QED
    BY <2>1, <2>2, <2>6, <2>7, <2>8, Zenon
<1>3. QED
  BY <1>1, <1>2

\* The hook, which compares a new CRD with an empty one, and the CLI, which compares it
\* with none, reach the same verdict on every CRD that is ever in the cluster
\* (admission_evaluator.go:54-67, check_manifests.go:86-127).
THEOREM CreateVerdictsAgree == Spec => []CreateParity
<1>1. ChainInv => CreateParity
  BY SameOnCreate DEF ChainInv, HistoryOK, CreateParity
<1>2. QED
  BY <1>1, ChainInvariant, PTL

-----------------------------------------------------------------------------
\* No order that Go draws for a map decides which schema a walk sees last anywhere.
Settled(c) == \A v \in DOMAIN c : Contested(c[v].schema) = {}

\* Applied to itself, a CRD without lists that must have elements gets no error from the
\* rules that do not depend on map order.
LEMMA StableReapply ==
    ASSUME NEW c \in CRD, \A v \in DOMAIN c : NonEmptyLists(c[v].schema) = {}
    PROVE  StableErrors(c, c) = {}
<1>1. c # NoCRD /\ Shared(c, c) = DOMAIN c
  BY CRDAssumption DEF Shared, GetVersionByName
<1>2. RatchetCompare(c, c) = {}
  BY <1>1 DEF RatchetCompare
<1>3. NoFieldRemoval(c, c) = {}
  BY DEF NoFieldRemoval
<1>4. NoEnumRemoval(c, c) = {}
  <2>1. \A f : removedEnums(f, f) = {}
    BY DEF removedEnums
  <2>2. QED
    BY <2>1 DEF NoEnumRemoval
<1>5. ASSUME NEW v \in DOMAIN c
      PROVE  NewlyRequired(c[v].schema, c[v].schema) = {}
  <2> DEFINE s == c[v].schema
  <2>1. RequiredArrays(s, s) = {}
    BY DEF NonEmptyLists, RequiredArrays
  <2>2. \A p \in DOMAIN s : NewNames(s, s, p) = {}
    BY DEF NewNames
  <2>3. UNION {{SimpleLocation(p) \o name : name \in NewNames(s, s, p)} : p \in DOMAIN s} = {}
    BY <2>2
  <2>4. QED
    BY <2>1, <2>3 DEF NewlyRequired
<1>6. NoNewRequiredFields(c, c) = {}
  BY <1>1, <1>5 DEF NoNewRequiredFields
<1>7. QED
  BY <1>2, <1>3, <1>4, <1>6 DEF StableErrors

\* Applying again a CRD that is there reports no error, if no list has to have elements
\* and no map order decides what the walks of NoDataTypeChange see last
\* (comp_no_data_type_change.go:24-52, comp_no_new_required_fields.go:54-165).
THEOREM ReapplyIsClean == Spec => [](Settled(crd) => ReapplyQuiet)
<1>1. ChainInv => (Settled(crd) => ReapplyQuiet)
  <2> SUFFICES ASSUME ChainInv, Settled(crd), crd # NoCRD, ~Crashes(crd),
                      \A v \in DOMAIN crd : NonEmptyLists(crd[v].schema) = {}
               PROVE  Verdicts(crd, crd) = {{}}
    BY DEF ReapplyQuiet
  <2>1. crd \in CRD
    BY DEF ChainInv, HistoryOK
  <2>2. Readings(crd) # {}
    BY <2>1, ReadingsExist, SchemaAssumption
  <2>3. \A old, new \in Readings(crd) : NoDataTypeChange(old, new) = {}
    <3>1. \A old, new \in Readings(crd) : old = new
      BY SameReading DEF Settled
    <3>2. \A f : getChangedTypes(f, f) = {}
      BY DEF getChangedTypes
    <3>3. \A r : NoDataTypeChange(r, r) = {}
      BY <3>2 DEF NoDataTypeChange
    <3>4. QED
      BY <3>1, <3>3
  <2>4. TypeChanges(crd, crd) = {{}}
    BY <2>2, <2>3 DEF TypeChanges
  <2>5. StableErrors(crd, crd) = {} /\ ~EndsInPanic(crd, crd)
    BY <2>1, StableReapply DEF EndsInPanic
  <2>6. Verdicts(crd, crd) = {{} \cup changes : changes \in TypeChanges(crd, crd)}
    BY <2>5, Zenon DEF Verdicts
  <2>7. QED
    BY <2>4, <2>6
<1>2. QED
  BY <1>1, ChainInvariant, PTL

-----------------------------------------------------------------------------
\* Acceptance is what it is said to be: the run has an order of walks in which it
\* reports nothing.
LEMMA AcceptedMeans ==
    ASSUME NEW old, NEW new
    PROVE  Accepted(old, new) <=> {} \in Verdicts(old, new)
<1> DEFINE stable == StableErrors(old, new)
           Changed == {stable \cup changes : changes \in TypeChanges(old, new)}
<1>1. Verdicts(old, new) = IF EndsInPanic(old, new) THEN {Panic}
                           ELSE IF old = NoCRD THEN {stable} ELSE Changed
  BY Zenon DEF Verdicts
<1>2. Panic # {}
  BY DEF Panic
<1>3. {} \in Changed <=> stable = {} /\ {} \in TypeChanges(old, new)
  <2> HIDE DEF stable
  <2>1. \A changes : {} = stable \cup changes <=> stable = {} /\ changes = {}
    OBVIOUS
  <2>2. QED
    BY <2>1
<1> HIDE DEF Changed
<1>4. QED
  BY <1>1, <1>2, <1>3 DEF Accepted

\* What an update does to a field that is alone at its location before and after.
LoneTypeStep ==
    crd # NoCRD /\ crd' # NoCRD =>
        \A v \in DOMAIN crd \cap DOMAIN crd' : \A p \in DOMAIN crd[v].schema :
            /\ PathsAt(crd[v].schema, SimpleLocation(p)) = {p}
            /\ PathsAt(crd'[v].schema, SimpleLocation(p)) = {p}
            => crd'[v].schema[p].type = crd[v].schema[p].type

\* What any walk reads at a location of one schema only.
LEMMA LoneReading ==
    ASSUME NEW c, NEW v \in DOMAIN c, NEW p \in DOMAIN c[v].schema,
           PathsAt(c[v].schema, SimpleLocation(p)) = {p}, NEW r \in Readings(c)
    PROVE  /\ v \in DOMAIN r /\ SimpleLocation(p) \in DOMAIN r[v]
           /\ r[v][SimpleLocation(p)] = c[v].schema[p].type
<1> DEFINE schema == c[v].schema
           loc == SimpleLocation(p)
<1>1. /\ DOMAIN r = DOMAIN c
      /\ r[v] \in {getFieldsAndTypes(schema, draw) : draw \in Draws(schema)}
  BY DEF Readings
<1>2. PICK draw : r[v] = getFieldsAndTypes(schema, draw)
  BY <1>1
<1>3. LastAt(schema, draw, loc) = p
  BY DEF LastAt
<1>4. loc \in Locations(schema)
  BY DEF Locations
<1>5. QED
  BY <1>1, <1>2, <1>3, <1>4 DEF getFieldsAndTypes

\* Two readings in which NoDataTypeChange sees no change agree wherever both have a type.
LEMMA UnchangedTypes ==
    ASSUME NEW r1, NEW r2, NoDataTypeChange(r1, r2) = {}
    PROVE  \A v \in DOMAIN r1 \cap DOMAIN r2 : \A loc \in DOMAIN r1[v] \cap DOMAIN r2[v] :
              r1[v][loc] = r2[v][loc]
<1> SUFFICES ASSUME NEW v \in DOMAIN r1 \cap DOMAIN r2
             PROVE  getChangedTypes(r1[v], r2[v]) = {}
  BY DEF getChangedTypes
<1> DEFINE Told(u) == {Message("NoDataTypeChange", u, l, <<r1[u][l], r2[u][l]>>) :
                         l \in getChangedTypes(r1[u], r2[u])}
<1>1. NoDataTypeChange(r1, r2) = UNION {Told(u) : u \in DOMAIN r1 \cap DOMAIN r2}
  BY Zenon DEF NoDataTypeChange
<1>2. Told(v) = {}
  <2> HIDE DEF Told
  <2>1. QED
    BY <1>1
<1>3. QED
  BY <1>2

\* A field that shares its printed location with nothing else, neither before an update
\* nor after it, keeps its type in the update: whatever order the two walks take, each
\* reads the type of that field there (comp_no_data_type_change.go:24-90).
THEOREM LoneTypesKeptByUpdates == Spec => [][LoneTypeStep]_vars
<1>1. [Next]_vars => [LoneTypeStep]_vars
  <2> SUFFICES ASSUME Next, crd # NoCRD, crd' # NoCRD,
                      NEW v \in DOMAIN crd \cap DOMAIN crd',
                      NEW p \in DOMAIN crd[v].schema,
                      PathsAt(crd[v].schema, SimpleLocation(p)) = {p},
                      PathsAt(crd'[v].schema, SimpleLocation(p)) = {p}
               PROVE  crd'[v].schema[p].type = crd[v].schema[p].type
    BY DEF LoneTypeStep
  <2>1. CASE Stuck
    BY <2>1 DEF Stuck, vars
  <2>2. ASSUME NEW new \in CRD, Update(new)
        PROVE  crd'[v].schema[p].type = crd[v].schema[p].type
    <3> DEFINE loc == SimpleLocation(p)
    <3>1. crd' = new /\ {} \in TypeChanges(crd, new)
      BY <2>2 DEF Update, Accepted
    <3>2. PICK r1 \in Readings(crd), r2 \in Readings(new) : NoDataTypeChange(r1, r2) = {}
      BY <3>1 DEF TypeChanges
    <3>3. p \in DOMAIN new[v].schema
      BY <3>1 DEF PathsAt
    <3>4. /\ v \in DOMAIN r1 \cap DOMAIN r2
          /\ loc \in DOMAIN r1[v] \cap DOMAIN r2[v]
          /\ r1[v][loc] = crd[v].schema[p].type /\ r2[v][loc] = new[v].schema[p].type
      BY <3>1, <3>3, LoneReading, SMTT(30)
    <3>5. QED
      BY <3>1, <3>2, <3>4, UnchangedTypes
  <2>3. QED
    BY <2>1, <2>2 DEF Next, Create
<1>2. QED
  BY <1>1, PTL DEF Spec

-----------------------------------------------------------------------------
\* A reading has a type for every location of every version.
LEMMA ReadingShape ==
    ASSUME NEW c, NEW r \in Readings(c)
    PROVE  DOMAIN r = DOMAIN c /\ \A v \in DOMAIN c : DOMAIN r[v] = Locations(c[v].schema)
<1>1. /\ DOMAIN r = DOMAIN c
      /\ \A v \in DOMAIN c :
            r[v] \in {getFieldsAndTypes(c[v].schema, draw) : draw \in Draws(c[v].schema)}
  BY DEF Readings
<1>2. QED
  BY <1>1 DEF getFieldsAndTypes

\* The CRDs all of whose schemas walks read in one way only.
SettledCRDs == \A c \in CRD : Settled(c)

\* What the walks read in the CRD of the first day is what they read there now.
ReadingsKept ==
    \A v \in kept : \A r1 \in Readings(origin), r2 \in Readings(crd) :
        \A loc \in Locations(origin[v].schema) : r2[v][loc] = r1[v][loc]

\* An accepted update changes no type that is read: the walks see what they saw.
LEMMA ReadingsStep ==
    ASSUME SettledCRDs, ChainInv, ChainInv', ReadingsKept, [Next]_vars
    PROVE  ReadingsKept'
<1>1. CASE UNCHANGED vars
  BY <1>1 DEF vars, ReadingsKept
<1>2. ASSUME NEW new \in CRD, Create(new) PROVE ReadingsKept'
  <2>1. crd' = new /\ origin' = new
    BY <1>2 DEF Create
  <2>2. QED
    BY <2>1, SameReading DEF SettledCRDs, Settled, ReadingsKept
<1>3. ASSUME NEW new \in CRD, Update(new) PROVE ReadingsKept'
  <2>1. /\ crd # NoCRD /\ Accepted(crd, new)
        /\ crd' = new /\ origin' = origin /\ kept' = kept \cap DOMAIN new
    BY <1>3 DEF Update
  <2>2. crd \in CRD /\ kept \subseteq DOMAIN crd
    BY <2>1 DEF ChainInv, HistoryOK
  <2>3. {} \in TypeChanges(crd, new)
    BY <2>1 DEF Accepted
  <2>4. PICK a \in Readings(crd), b \in Readings(new) : NoDataTypeChange(a, b) = {}
    BY <2>3 DEF TypeChanges
  <2>5. \A r \in Readings(new) : r = b
    BY SameReading DEF SettledCRDs, Settled
  <2>6. ASSUME NEW v \in kept', NEW r1 \in Readings(origin), NEW loc \in Locations(origin[v].schema)
        PROVE  b[v][loc] = r1[v][loc]
    <3>1. v \in kept /\ v \in DOMAIN crd /\ v \in DOMAIN new
      BY <2>1, <2>2
    <3>2. loc \in Locations(crd[v].schema) /\ loc \in Locations(new[v].schema)
      BY <2>1, <3>1 DEF ChainInv, LocationsKept
    <3>3. /\ DOMAIN a = DOMAIN crd /\ DOMAIN b = DOMAIN new
          /\ loc \in DOMAIN a[v] /\ loc \in DOMAIN b[v]
      BY <3>1, <3>2, ReadingShape
    <3>4. a[v][loc] = b[v][loc]
      BY <2>4, <3>1, <3>3, UnchangedTypes
    <3>5. a[v][loc] = r1[v][loc]
      BY <3>1 DEF ReadingsKept
    <3>6. QED
      BY <3>4, <3>5
  <2>7. QED
    BY <2>1, <2>5, <2>6 DEF ReadingsKept
<1>4. QED
  BY <1>1, <1>2, <1>3 DEF Next, Stuck

\* While a version stays, what the walks read where its first CRD had something never
\* changes: the second invariant of a chain, on top of ChainInv
\* (comp_no_data_type_change.go:24-90).
THEOREM ReadingsNeverChange ==
    ASSUME SettledCRDs
    PROVE  Spec => [](ChainInv /\ ReadingsKept)
<1>1. Init => ReadingsKept
  <2> SUFFICES ASSUME Init PROVE ReadingsKept
    OBVIOUS
  <2>1. kept = {} \/ (origin = crd /\ crd \in CRD)
    BY CRDAssumption DEF Init
  <2>2. QED
    BY <2>1, SameReading DEF SettledCRDs, Settled, ReadingsKept
<1>2. ChainInv /\ ChainInv' /\ ReadingsKept /\ [Next]_vars => ReadingsKept'
  BY ReadingsStep
<1>3. QED
  BY <1>1, <1>2, ChainInvariant, PTL DEF Spec

\* Over any chain of accepted updates a field that shares its printed location with
\* nothing else, on the first day and now, has the type it had, whatever shared the
\* location in between: the type read there never changed, and where the field is alone
\* it is the type of the field (comp_no_data_type_change.go:24-90).
THEOREM LoneTypesNeverChange ==
    ASSUME SettledCRDs
    PROVE  Spec => []LoneTypesKept
<1>1. ChainInv /\ ReadingsKept => LoneTypesKept
  <2> SUFFICES ASSUME ChainInv, ReadingsKept, NEW v \in kept, NEW p \in Fields(origin[v].schema),
                      p \in DOMAIN crd[v].schema,
                      PathsAt(origin[v].schema, SimpleLocation(p)) = {p},
                      PathsAt(crd[v].schema, SimpleLocation(p)) = {p}
               PROVE  crd[v].schema[p].type = origin[v].schema[p].type
    BY DEF LoneTypesKept
  <2>1. /\ crd \in CRD /\ v \in DOMAIN crd
        /\ origin \in CRD /\ v \in DOMAIN origin
    BY DEF ChainInv, HistoryOK, Rooted
  <2>2. PICK r1 \in Readings(origin), r2 \in Readings(crd) : TRUE
    BY <2>1, ReadingsExist, SchemaAssumption
  <2>3. p \in DOMAIN origin[v].schema /\ SimpleLocation(p) \in Locations(origin[v].schema)
    BY DEF Fields, Locations
  <2>4. /\ r1[v][SimpleLocation(p)] = origin[v].schema[p].type
        /\ r2[v][SimpleLocation(p)] = crd[v].schema[p].type
    BY <2>1, <2>3, LoneReading
  <2>5. QED
    BY <2>2, <2>3, <2>4 DEF ReadingsKept
<1>2. QED
  BY <1>1, ReadingsNeverChange, PTL

\* No two schemas of a version print alike.
PrintedApart(schema) == \A p \in DOMAIN schema : PathsAt(schema, SimpleLocation(p)) = {p}

\* Where no two schemas of a version print alike, no field ever changes its type over a
\* chain of accepted updates: that branches share the location of what they restrict is
\* all that keeps NoDataTypeChange from it (comp_no_data_type_change.go:54-90).
THEOREM TypesNeverChange ==
    ASSUME \A c \in CRD : \A v \in DOMAIN c : PrintedApart(c[v].schema)
    PROVE  Spec => []TypesKept
<1>1. \A c \in CRD : \A v \in DOMAIN c : \A a, b \in DOMAIN c[v].schema :
        SimpleLocation(a) = SimpleLocation(b) => a = b
  BY DEF PrintedApart, PathsAt
<1>2. SettledCRDs
  BY <1>1 DEF SettledCRDs, Settled, Contested
<1>3. ChainInv /\ LoneTypesKept => TypesKept
  <2> SUFFICES ASSUME ChainInv, LoneTypesKept, NEW v \in kept, NEW p \in Fields(origin[v].schema),
                      p \in DOMAIN crd[v].schema
               PROVE  crd[v].schema[p].type = origin[v].schema[p].type
    BY DEF TypesKept
  <2>1. /\ crd \in CRD /\ v \in DOMAIN crd
        /\ origin \in CRD /\ v \in DOMAIN origin
    BY DEF ChainInv, HistoryOK, Rooted
  <2>2. /\ PathsAt(origin[v].schema, SimpleLocation(p)) = {p}
        /\ PathsAt(crd[v].schema, SimpleLocation(p)) = {p}
    BY <2>1 DEF PrintedApart, Fields
  <2>3. QED
    BY <2>2 DEF LoneTypesKept
<1>4. QED
  BY <1>2, <1>3, ChainInvariant, LoneTypesNeverChange, PTL

-----------------------------------------------------------------------------
(***************************************************************************)
(* What a location tells.  Along a path without unusual names every field  *)
(* step prints one segment and every branch none; a segment gives a        *)
(* property away, but not whether it was a list or a map.                  *)
(***************************************************************************)
\* A path of plain steps.
PlainPath(p) == p \in Seq(ToSet(p)) /\ \A i \in DOMAIN p : PlainStep(p[i])

\* What a location is put together from.
Segment == STRING \cup {"[*]"}

LEMMA SingleSeq == ASSUME NEW S, NEW x \in S PROVE <<x>> \in Seq(S)
  OBVIOUS

\* The beginning of a path is a path.
LEMMA PlainPrefix ==
    ASSUME NEW p, PlainPath(p), NEW k \in 0..Len(p)
    PROVE  /\ PlainPath(SubSeq(p, 1, k))
           /\ Len(SubSeq(p, 1, k)) = k
           /\ \A i \in 1..k : SubSeq(p, 1, k)[i] = p[i]
<1> DEFINE q == SubSeq(p, 1, k)
<1>1. Len(p) \in Nat /\ DOMAIN p = 1..Len(p)
  BY DEF PlainPath
<1>2. Len(q) = k /\ DOMAIN q = 1..k /\ \A i \in 1..k : q[i] = p[i]
  BY <1>1 DEF PlainPath
<1>3. \A i \in 1..k : p[i] \in ToSet(q)
  BY <1>2 DEF ToSet
<1>4. 1 \in Int /\ k \in Int
  BY <1>1
<1>5. q \in Seq(ToSet(q))
  <2> DEFINE S == ToSet(q)
  <2> HIDE DEF S
  <2>1. \A i \in 1..k : p[i] \in S
    BY <1>3 DEF S
  <2>2. SubSeq(p, 1, k) \in Seq(S)
    BY <1>4, <2>1, SubSeqProperties
  <2>3. QED
    BY <2>2 DEF S
<1>6. \A i \in DOMAIN q : PlainStep(q[i])
  BY <1>1, <1>2 DEF PlainPath
<1>7. QED
  BY <1>2, <1>5, <1>6 DEF PlainPath

\* What the steps of a plain path print.
LEMMA PlainPrint ==
    ASSUME NEW step, PlainStep(step)
    PROVE  /\ step.kind = "properties" =>
                /\ step = [kind |-> "properties", key |-> LocationOf(step)]
                /\ LocationOf(step) = <<LocationOf(step)[1]>> /\ LocationOf(step)[1] # "[*]"
           /\ step.kind \in {"items", "additionalProperties"} =>
                LocationOf(step) = <<"[*]">> /\ step = [kind |-> step.kind, key |-> 0]
           /\ ~IsFieldStep(step) => LocationOf(step) = <<>>
           /\ LocationOf(step) \in Seq(Segment)
<1>1. CASE step.kind = "properties"
  <2>1. /\ step = [kind |-> "properties", key |-> <<step.key[1]>>]
        /\ step.key[1] \in STRING /\ step.key[1] # "[*]"
    BY <1>1 DEF PlainStep
  <2>2. LocationOf(step) = step.key
    BY <1>1 DEF LocationOf
  <2>3. step.key = <<step.key[1]>>
    BY <2>1
  <2>4. <<step.key[1]>> \in Seq(Segment)
    BY <2>1, SingleSeq DEF Segment
  <2>5. step.kind \notin {"items", "additionalProperties"} /\ IsFieldStep(step)
    BY <1>1 DEF IsFieldStep
  <2>6. QED
    BY <1>1, <2>1, <2>2, <2>3, <2>4, <2>5, Zenon
<1>2. CASE step \in [kind : {"items", "additionalProperties"}, key : {0}]
  <2>1. /\ step.kind \in {"items", "additionalProperties"} /\ step.kind # "properties"
        /\ IsFieldStep(step) /\ step = [kind |-> step.kind, key |-> 0]
    BY <1>2 DEF IsFieldStep
  <2>2. LocationOf(step) = <<"[*]">>
    BY <2>1, Zenon DEF LocationOf
  <2>3. <<"[*]">> \in Seq(Segment)
    BY SingleSeq DEF Segment
  <2>4. QED
    BY <2>1, <2>2, <2>3, Zenon
<1>3. CASE step \in [kind : {"allOf", "anyOf", "oneOf", "not"}, key : Nat]
  <2>1. step.kind \in {"allOf", "anyOf", "oneOf", "not"}
    BY <1>3
  <2>2. step.kind \notin {"items", "additionalProperties", "jsonSchemas", "properties"}
    BY <2>1
  <2>3. LocationOf(step) = <<>>
    BY <2>2, Zenon DEF LocationOf
  <2>4. <<>> \in Seq(Segment)
    OBVIOUS
  <2>5. QED
    BY <2>2, <2>3, <2>4, Zenon
<1>4. QED
  BY <1>1, <1>2, <1>3 DEF PlainStep

\* The definition of SimpleLocation, step by step.
LEMMA LocationUnfolds ==
    ASSUME NEW p, PlainPath(p)
    PROVE  \E f \in [0..Len(p) -> Seq(Segment)] :
              /\ f[0] = <<>> /\ \A i \in 1..Len(p) : f[i] = f[i - 1] \o LocationOf(p[i])
              /\ SimpleLocation(p) = f[Len(p)]
<1> DEFINE n == Len(p)
           X == Seq(Segment)
           Next1(g) == [i \in 0..n |-> IF i = 0 THEN <<>> ELSE g[i - 1] \o LocationOf(p[i])]
           h == [x \in X \X (1..n) |-> x[1] \o LocationOf(p[x[2]])]
<1>1. n \in Nat /\ DOMAIN p = 1..n
  BY DEF PlainPath
<1>2. \A i \in 1..n : LocationOf(p[i]) \in X
  BY <1>1, PlainPrint DEF PlainPath
<1>3. <<>> \in X /\ \A a \in X, i \in 1..n : a \o LocationOf(p[i]) \in X
  BY <1>2
<1> HIDE DEF n, X
<1>4. Builds(X, n, h) /\ \A a \in X, i \in 1..n : h[<<a, i>>] = a \o LocationOf(p[i])
  BY <1>3 DEF Builds
<1> HIDE DEF h
<1>5. Built(X, n, <<>>, h)
  BY <1>1, <1>3, <1>4, BuildUp
<1>6. PICK g \in [0..n -> X] : g[0] = <<>> /\ \A i \in 1..n : g[i] = h[<<g[i - 1], i>>]
  BY <1>5 DEF Built
<1>7. \A i \in 1..n : i - 1 \in 0..n /\ i \in 0..n
  BY <1>1
<1>8. g = Next1(g)
  <2>1. \A i \in 1..n : g[i] = g[i - 1] \o LocationOf(p[i])
    BY <1>4, <1>6, <1>7
  <2>2. \A i \in 0..n : i = 0 \/ i \in 1..n
    BY <1>1
  <2>3. QED
    BY <1>6, <2>1, <2>2
<1> DEFINE f == CHOOSE x : x = Next1(x)
<1>9. SimpleLocation(p) = f[n]
  BY DEF SimpleLocation, n
<1>10. f = Next1(f)
  BY <1>8, Zenon
<1> HIDE DEF f
<1>11. DOMAIN f = 0..n /\ f[0] = <<>> /\ \A i \in 1..n : f[i] = f[i - 1] \o LocationOf(p[i])
  BY <1>1, <1>10
<1>12. \A i \in 0..n : f[i] \in X
  <2> DEFINE S == {i \in 0..n : f[i] \in X}
  <2>1. 0 \in S
    BY <1>1, <1>3, <1>11
  <2>2. \A i \in 1..n : i - 1 \in S => i \in S
    BY <1>3, <1>7, <1>11
  <2>3. 0..n \subseteq S
    <3> HIDE DEF S
    <3>1. QED
      BY <1>1, <2>1, <2>2, UpToInduction
  <2>4. QED
    BY <2>3
<1>13. f \in [0..n -> X]
  BY <1>10, <1>11, <1>12
<1>14. QED
  BY <1>9, <1>11, <1>13 DEF n, X

\* A path that is one step longer prints what that step prints in addition.
LEMMA LocationSteps ==
    ASSUME NEW p, PlainPath(p)
    PROVE  /\ SimpleLocation(p) \in Seq(Segment)
           /\ SimpleLocation(SubSeq(p, 1, 0)) = <<>>
           /\ \A i \in 0..Len(p) : SimpleLocation(SubSeq(p, 1, i)) \in Seq(Segment)
           /\ \A i \in 1..Len(p) :
                 SimpleLocation(SubSeq(p, 1, i)) = SimpleLocation(SubSeq(p, 1, i - 1)) \o LocationOf(p[i])
<1> DEFINE n == Len(p)
<1>1. n \in Nat /\ DOMAIN p = 1..n
  BY DEF PlainPath
<1>2. PICK f \in [0..n -> Seq(Segment)] :
         /\ f[0] = <<>> /\ \A i \in 1..n : f[i] = f[i - 1] \o LocationOf(p[i])
         /\ SimpleLocation(p) = f[n]
  BY LocationUnfolds
<1>3. ASSUME NEW k \in 0..n
      PROVE  SimpleLocation(SubSeq(p, 1, k)) = f[k]
  <2> DEFINE q == SubSeq(p, 1, k)
  <2>1. PlainPath(q) /\ Len(q) = k /\ \A i \in 1..k : q[i] = p[i]
    BY PlainPrefix
  <2> HIDE DEF q
  <2>2. PICK g \in [0..k -> Seq(Segment)] :
           /\ g[0] = <<>> /\ \A i \in 1..k : g[i] = g[i - 1] \o LocationOf(q[i])
           /\ SimpleLocation(q) = g[k]
    BY <2>1, LocationUnfolds
  <2> DEFINE S == {i \in 0..k : g[i] = f[i]}
  <2>3. 0 \in S
    BY <1>1, <1>2, <2>2
  <2>4. ASSUME NEW i \in 1..k, i - 1 \in S PROVE i \in S
    <3>1. i \in 1..n /\ i \in 0..k
      BY <1>1
    <3>2. g[i] = g[i - 1] \o LocationOf(p[i]) /\ f[i] = f[i - 1] \o LocationOf(p[i])
      BY <1>2, <2>1, <2>2, <3>1
    <3>3. QED
      BY <2>4, <3>1, <3>2
  <2>5. 0..k \subseteq S
    <3> HIDE DEF S
    <3>1. k \in Nat
      BY <1>1
    <3>2. QED
      BY <2>3, <2>4, <3>1, UpToInduction
  <2>6. QED
    BY <1>1, <2>2, <2>5 DEF q
<1>4. \A i \in 1..n : i - 1 \in 0..n /\ i \in 0..n
  BY <1>1
<1>5. n \in 0..n /\ 0 \in 0..n
  BY <1>1
<1> HIDE DEF n
<1>6. QED
  BY <1>2, <1>3, <1>4, <1>5 DEF n

\* The location of an ancestor is how the location of a schema begins.
LEMMA LocationPrefix ==
    ASSUME NEW p, PlainPath(p), NEW i \in 0..Len(p)
    PROVE  LET here == SimpleLocation(SubSeq(p, 1, i))
               there == SimpleLocation(p)
           IN  Len(here) <= Len(there) /\ \A k \in 1..Len(here) : here[k] = there[k]
<1> DEFINE n == Len(p)
           Loc(j) == SimpleLocation(SubSeq(p, 1, j))
           Begins(j) == Len(Loc(i)) <= Len(Loc(j)) /\ \A k \in 1..Len(Loc(i)) : Loc(i)[k] = Loc(j)[k]
           S == {j \in 0..n : j < i \/ Begins(j)}
<1>1. n \in Nat
  BY DEF PlainPath
<1>2. \A j \in 0..n : Loc(j) \in Seq(Segment)
  BY LocationSteps
<1>3. \A j \in 1..n : Loc(j) = Loc(j - 1) \o LocationOf(p[j]) /\ LocationOf(p[j]) \in Seq(Segment)
  <2>1. \A j \in 1..n : PlainStep(p[j])
    BY DEF PlainPath
  <2>2. QED
    BY <2>1, LocationSteps, PlainPrint
<1>4. Loc(n) = SimpleLocation(p)
  <2>1. SubSeq(p, 1, n) = p
    BY DEF PlainPath
  <2>2. QED
    BY <2>1
<1> HIDE DEF Loc
<1>5. Begins(i)
  BY <1>1, <1>2
<1>6. 0 \in S
  BY <1>1, <1>5
<1>7. ASSUME NEW j \in 1..n, j - 1 \in S PROVE j \in S
  <2>1. j \in 0..n /\ j - 1 \in 0..n
    BY <1>1
  <2>2. CASE j < i
    BY <2>1, <2>2
  <2>3. CASE j = i
    BY <1>5, <2>1, <2>3
  <2>4. CASE j > i
    <3>1. Begins(j - 1)
      BY <1>7, <2>1, <2>4
    <3>2. Loc(j) = Loc(j - 1) \o LocationOf(p[j])
      BY <1>3
    <3>3. Loc(j - 1) \in Seq(Segment) /\ LocationOf(p[j]) \in Seq(Segment) /\ Loc(i) \in Seq(Segment)
      BY <1>2, <1>3, <2>1
    <3>4. Begins(j)
      BY <3>1, <3>2, <3>3
    <3>5. QED
      BY <2>1, <3>4
  <2>5. QED
    BY <2>1, <2>2, <2>3, <2>4
<1>8. 0..n \subseteq S
  <2> HIDE DEF S, n
  <2>1. QED
    BY <1>1, <1>6, <1>7, UpToInduction
<1>9. n \in S
  BY <1>1, <1>8
<1>10. Begins(n)
  BY <1>9
<1>11. QED
  BY <1>4, <1>10 DEF Loc

\* Paths are what their steps are.
LEMMA SamePath ==
    ASSUME NEW p, NEW q, PlainPath(p), PlainPath(q), Len(p) = Len(q), \A i \in 1..Len(p) : p[i] = q[i]
    PROVE  p = q
<1>1. p = [i \in 1..Len(p) |-> p[i]] /\ q = [i \in 1..Len(q) |-> q[i]]
  BY DEF PlainPath
<1>2. QED
  BY <1>1

LEMMA PrefixMeans ==
    ASSUME NEW p, NEW q, PlainPath(p), PlainPath(q)
    PROVE  IsPrefix(p, q) <=> Len(p) <= Len(q) /\ \A i \in 1..Len(p) : p[i] = q[i]
<1>1. Len(p) \in Nat /\ Len(q) \in Nat
  BY DEF PlainPath
<1>2. SubSeq(p, 1, Len(p)) = p
  BY DEF PlainPath
<1>3. ASSUME Len(p) <= Len(q)
      PROVE  p = SubSeq(q, 1, Len(p)) <=> \A i \in 1..Len(p) : p[i] = q[i]
  <2> DEFINE s == SubSeq(q, 1, Len(p))
  <2>1. PlainPath(s) /\ Len(s) = Len(p) /\ \A i \in 1..Len(p) : s[i] = q[i]
    BY <1>1, <1>3, PlainPrefix
  <2> HIDE DEF s
  <2>2. (\A i \in 1..Len(p) : p[i] = q[i]) => p = s
    BY <2>1, SamePath
  <2>3. QED
    BY <2>1, <2>2 DEF s
<1>4. QED
  BY <1>2, <1>3 DEF IsPrefix

\* No order that Go draws for a map decides anything if names print unlike each other.
LEMMA PlainIsSettled ==
    ASSUME NEW schema, \A p \in DOMAIN schema : PlainPath(p)
    PROVE  Contested(schema) = {}
<1> SUFFICES ASSUME NEW p \in MapEntries(schema), NEW a \in DOMAIN schema, NEW b \in DOMAIN schema,
                    SimpleLocation(a) = SimpleLocation(b),
                    IsPrefix(p, a), ~IsPrefix(p, b),
                    IsStrictPrefix(Front(p), b), b[Len(p)].kind = Last(p).kind
             PROVE  FALSE
  BY DEF Contested
<1> DEFINE k == Len(p)
<1>1. PlainPath(p) /\ PlainPath(a) /\ PlainPath(b) /\ p # <<>>
  BY DEF MapEntries
<1>2. /\ k \in Nat \ {0} /\ DOMAIN p = 1..k
      /\ Len(a) \in Nat /\ DOMAIN a = 1..Len(a) /\ Len(b) \in Nat /\ DOMAIN b = 1..Len(b)
  BY <1>1 DEF PlainPath
<1>3. k <= Len(a) /\ \A i \in 1..k : a[i] = p[i]
  BY <1>1, PrefixMeans
<1>4. k <= Len(b) /\ \A i \in 1..(k - 1) : b[i] = p[i]
  <2> DEFINE q == SubSeq(p, 1, k - 1)
  <2>1. PlainPath(q) /\ Len(q) = k - 1 /\ \A i \in 1..(k - 1) : q[i] = p[i]
    BY <1>1, <1>2, PlainPrefix
  <2>2. Front(p) = q
    BY DEF Front
  <2> HIDE DEF q
  <2>3. IsPrefix(q, b) /\ q # b
    BY <2>2 DEF IsStrictPrefix
  <2>4. k - 1 <= Len(b) /\ \A i \in 1..(k - 1) : b[i] = q[i]
    BY <1>1, <2>1, <2>3, PrefixMeans
  <2>5. k - 1 # Len(b)
    BY <1>1, <2>1, <2>3, <2>4, SamePath
  <2>6. QED
    <3> HIDE DEF k
    <3>1. QED
      BY <1>2, <2>1, <2>4, <2>5
<1>5. p[k].kind = "properties" /\ b[k].kind = "properties"
  <2>1. p[k].kind \in MapKinds /\ b[k].kind = p[k].kind /\ PlainStep(p[k])
    BY <1>1, <1>2 DEF PlainPath, MapEntries, Last
  <2>2. QED
    BY <2>1 DEF PlainStep, MapKinds
<1>6. b[k] # p[k]
  <2>1. ~(k <= Len(b) /\ \A i \in 1..k : p[i] = b[i])
    BY <1>1, PrefixMeans
  <2>2. \A i \in 1..k : i = k \/ i \in 1..(k - 1)
    <3> HIDE DEF k
    <3>1. QED
      BY <1>2
  <2>3. QED
    BY <1>4, <2>1, <2>2
<1>7. LocationOf(p[k])[1] # LocationOf(b[k])[1] /\ Len(LocationOf(p[k])) = 1 /\ Len(LocationOf(b[k])) = 1
  <2>1. PlainStep(p[k]) /\ PlainStep(b[k])
    BY <1>1, <1>2, <1>4 DEF PlainPath
  <2> DEFINE x == LocationOf(p[k])
             y == LocationOf(b[k])
  <2>2. /\ p[k] = [kind |-> "properties", key |-> x] /\ x = <<x[1]>>
        /\ b[k] = [kind |-> "properties", key |-> y] /\ y = <<y[1]>>
    BY <1>5, <2>1, PlainPrint
  <2> HIDE DEF x, y
  <2>3. x # y
    BY <1>6, <2>2
  <2>4. x[1] # y[1] /\ Len(x) = 1 /\ Len(y) = 1
    BY <2>2, <2>3
  <2>5. QED
    BY <2>4 DEF x, y
<1> DEFINE front == SimpleLocation(SubSeq(p, 1, k - 1))
           m == Len(front) + 1
<1>8. ASSUME NEW c, PlainPath(c), k <= Len(c), \A i \in 1..(k - 1) : c[i] = p[i],
             Len(LocationOf(c[k])) = 1
      PROVE  m <= Len(SimpleLocation(c)) /\ SimpleLocation(c)[m] = LocationOf(c[k])[1]
  <2> DEFINE here == SimpleLocation(SubSeq(c, 1, k))
  <2>1. Len(c) \in Nat /\ k - 1 \in 0..Len(c) /\ k \in 0..Len(c) /\ k \in 1..Len(c) /\ k - 1 \in 0..k
    BY <1>2, <1>8 DEF PlainPath
  <2>2. SubSeq(c, 1, k - 1) = SubSeq(p, 1, k - 1)
    <3>1. PlainPath(SubSeq(c, 1, k - 1)) /\ PlainPath(SubSeq(p, 1, k - 1))
      BY <1>1, <1>8, <2>1, PlainPrefix
    <3>2. /\ Len(SubSeq(c, 1, k - 1)) = k - 1 /\ Len(SubSeq(p, 1, k - 1)) = k - 1
          /\ \A i \in 1..(k - 1) : SubSeq(c, 1, k - 1)[i] = SubSeq(p, 1, k - 1)[i]
      BY <1>1, <1>8, <2>1, PlainPrefix
    <3>3. QED
      BY <3>1, <3>2, SamePath
  <2>3. here = front \o LocationOf(c[k])
    BY <1>8, <2>1, <2>2, LocationSteps
  <2>4. front \in Seq(Segment) /\ LocationOf(c[k]) \in Seq(Segment)
    <3>1. PlainStep(c[k])
      BY <1>8, <2>1 DEF PlainPath
    <3>2. QED
      BY <1>8, <2>1, <2>2, <3>1, LocationSteps, PlainPrint
  <2> HIDE DEF front
  <2>5. Len(here) = m /\ here[m] = LocationOf(c[k])[1] /\ m \in Nat /\ m \in 1..m
    BY <1>8, <2>3, <2>4
  <2>6. Len(here) <= Len(SimpleLocation(c)) /\ \A i \in 1..Len(here) : here[i] = SimpleLocation(c)[i]
    BY <1>8, <2>1, LocationPrefix
  <2>7. QED
    BY <2>5, <2>6
<1>9. SimpleLocation(a)[m] = LocationOf(p[k])[1]
  <2>1. a[k] = p[k] /\ \A i \in 1..(k - 1) : a[i] = p[i]
    BY <1>2, <1>3
  <2>2. QED
    BY <1>1, <1>3, <1>7, <1>8, <2>1
<1>10. SimpleLocation(b)[m] = LocationOf(b[k])[1]
  BY <1>1, <1>4, <1>7, <1>8
<1>11. QED
  BY <1>7, <1>9, <1>10

-----------------------------------------------------------------------------
\* A path with one more step.
LEMMA PlainAppend ==
    ASSUME NEW p, PlainPath(p), NEW step, PlainStep(step)
    PROVE  /\ PlainPath(Append(p, step))
           /\ SimpleLocation(Append(p, step)) = SimpleLocation(p) \o LocationOf(step)
<1> DEFINE q == Append(p, step)
           n == Len(p)
<1>1. n \in Nat /\ DOMAIN p = 1..n /\ p \in Seq(ToSet(p))
  BY DEF PlainPath
<1>2. /\ Len(q) = n + 1 /\ DOMAIN q = 1..(n + 1) /\ q[n + 1] = step
      /\ \A i \in 1..n : q[i] = p[i]
  BY <1>1
<1>3. \A i \in 1..(n + 1) : i \in 1..n \/ i = n + 1
  <2> HIDE DEF n
  <2>1. QED
    BY <1>1
<1>4. PlainPath(q)
  <2>1. \A i \in DOMAIN q : PlainStep(q[i])
    BY <1>1, <1>2, <1>3 DEF PlainPath
  <2>2. step \in ToSet(q) /\ ToSet(p) \subseteq ToSet(q)
    BY <1>1, <1>2 DEF ToSet
  <2> DEFINE S == ToSet(q)
  <2> HIDE DEF S
  <2>3. step \in S /\ p \in Seq(S)
    BY <1>1, <2>2, SeqMonotonic DEF S
  <2>4. q \in Seq(S)
    BY <2>3
  <2>5. QED
    BY <2>1, <2>4 DEF PlainPath, S
<1>5. SubSeq(q, 1, n + 1) = q /\ SubSeq(q, 1, n) = p
  <2>1. n \in 0..Len(q) /\ n + 1 \in 0..Len(q)
    <3> HIDE DEF n, q
    <3>1. QED
      BY <1>1, <1>2
  <2>2. n = Len(p)
    OBVIOUS
  <2> HIDE DEF q, n
  <2>3. PlainPath(SubSeq(q, 1, n)) /\ Len(SubSeq(q, 1, n)) = n
        /\ \A i \in 1..n : SubSeq(q, 1, n)[i] = q[i]
    BY <1>4, <2>1, PlainPrefix
  <2>4. PlainPath(SubSeq(q, 1, n + 1)) /\ Len(SubSeq(q, 1, n + 1)) = n + 1
        /\ \A i \in 1..(n + 1) : SubSeq(q, 1, n + 1)[i] = q[i]
    BY <1>4, <2>1, PlainPrefix
  <2>5. SubSeq(q, 1, n) = p
    BY <1>2, <2>2, <2>3, SamePath
  <2>6. QED
    BY <1>2, <1>4, <2>4, <2>5, SamePath
<1>6. SimpleLocation(SubSeq(q, 1, n + 1)) = SimpleLocation(SubSeq(q, 1, n)) \o LocationOf(q[n + 1])
  <2>1. n + 1 \in 1..Len(q) /\ (n + 1) - 1 = n
    BY <1>1, <1>2
  <2> HIDE DEF q, n
  <2>2. QED
    BY <1>4, <2>1, LocationSteps
<1>7. QED
  BY <1>2, <1>4, <1>5, <1>6

LEMMA EmptyPath == PlainPath(<<>>) /\ IsField(<<>>) /\ SimpleLocation(<<>>) = <<>>
<1>1. PlainPath(<<>>) /\ IsField(<<>>)
  BY DEF PlainPath, IsField
<1>2. SubSeq(<<>>, 1, 0) = <<>>
  OBVIOUS
<1>3. QED
  BY <1>1, <1>2, LocationSteps

\* The definition of FieldOf, step by step.
LEMMA FieldOfUnfolds ==
    ASSUME NEW p, PlainPath(p)
    PROVE  \E f :
              /\ f[0] = <<>>
              /\ \A i \in 1..Len(p) : f[i] = IF IsFieldStep(p[i]) THEN Append(f[i - 1], p[i]) ELSE f[i - 1]
              /\ FieldOf(p) = f[Len(p)]
<1> DEFINE n == Len(p)
           X == Seq(ToSet(p))
           Longer(t, i) == IF IsFieldStep(p[i]) THEN Append(t, p[i]) ELSE t
           Next1(g) == [i \in 0..n |-> IF i = 0 THEN <<>> ELSE Longer(g[i - 1], i)]
           h == [x \in X \X (1..n) |-> Longer(x[1], x[2])]
<1>1. n \in Nat /\ DOMAIN p = 1..n
  BY DEF PlainPath
<1>2. <<>> \in X /\ \A a \in X, i \in 1..n : Longer(a, i) \in X
  <2>1. \A i \in 1..n : p[i] \in ToSet(p)
    BY <1>1 DEF ToSet
  <2>2. QED
    BY <2>1
<1> HIDE DEF n, X, Longer
<1>3. Builds(X, n, h) /\ \A a \in X, i \in 1..n : h[<<a, i>>] = Longer(a, i)
  BY <1>2 DEF Builds
<1> HIDE DEF h
<1>4. Built(X, n, <<>>, h)
  BY <1>1, <1>2, <1>3, BuildUp
<1>5. PICK g \in [0..n -> X] : g[0] = <<>> /\ \A i \in 1..n : g[i] = h[<<g[i - 1], i>>]
  BY <1>4 DEF Built
<1>6. \A i \in 1..n : i - 1 \in 0..n /\ i \in 0..n
  BY <1>1
<1>7. g = Next1(g)
  <2>1. \A i \in 1..n : g[i] = Longer(g[i - 1], i)
    BY <1>3, <1>5, <1>6
  <2>2. \A i \in 0..n : i = 0 \/ i \in 1..n
    BY <1>1
  <2>3. QED
    BY <1>5, <2>1, <2>2
<1> DEFINE f == CHOOSE x : x = Next1(x)
<1>8. FieldOf(p) = f[n]
  BY DEF FieldOf, n, Longer
<1>9. f = Next1(f)
  BY <1>7, Zenon
<1> HIDE DEF f
<1>10. f[0] = <<>> /\ \A i \in 1..n : f[i] = Longer(f[i - 1], i)
  BY <1>1, <1>9
<1>11. QED
  BY <1>8, <1>10 DEF n, Longer

\* The field that a schema constrains prints like the schema.
LEMMA FieldOfFacts ==
    ASSUME NEW p, PlainPath(p)
    PROVE  /\ PlainPath(FieldOf(p)) /\ IsField(FieldOf(p))
           /\ SimpleLocation(FieldOf(p)) = SimpleLocation(p)
           /\ IsField(p) => FieldOf(p) = p
<1> DEFINE n == Len(p)
           Loc(i) == SimpleLocation(SubSeq(p, 1, i))
<1>1. n \in Nat /\ DOMAIN p = 1..n /\ \A i \in 1..n : PlainStep(p[i])
  BY DEF PlainPath
<1>2. PICK f : /\ f[0] = <<>>
               /\ \A i \in 1..n : f[i] = IF IsFieldStep(p[i]) THEN Append(f[i - 1], p[i]) ELSE f[i - 1]
               /\ FieldOf(p) = f[n]
  BY FieldOfUnfolds
<1>3. /\ Loc(0) = <<>> /\ \A i \in 1..n : Loc(i) = Loc(i - 1) \o LocationOf(p[i])
      /\ \A i \in 0..n : Loc(i) \in Seq(Segment)
  BY LocationSteps
<1>4. SubSeq(p, 1, n) = p /\ SubSeq(p, 1, 0) = <<>>
  BY <1>1 DEF PlainPath
<1>5. \A i \in 1..n : SubSeq(p, 1, i) = Append(SubSeq(p, 1, i - 1), p[i])
  BY <1>1 DEF PlainPath
<1> DEFINE Good(i) == PlainPath(f[i]) /\ IsField(f[i]) /\ SimpleLocation(f[i]) = Loc(i)
                      /\ (IsField(p) => f[i] = SubSeq(p, 1, i))
           S == {i \in 0..n : Good(i)}
<1>6. 0 \in S
  BY <1>1, <1>2, <1>3, <1>4, EmptyPath
<1>7. ASSUME NEW i \in 1..n, i - 1 \in S PROVE i \in S
  <2>1. Good(i - 1) /\ i \in 0..n /\ i - 1 \in 0..n
    BY <1>1, <1>7
  <2>2. CASE IsFieldStep(p[i])
    <3>1. f[i] = Append(f[i - 1], p[i])
      BY <1>2, <2>2
    <3>2. PlainPath(f[i]) /\ SimpleLocation(f[i]) = Loc(i)
      <4> HIDE DEF Loc
      <4>1. QED
        BY <1>1, <1>3, <2>1, <3>1, PlainAppend
    <3>3. IsField(f[i])
      <4>1. \A q : PlainPath(q) => q \in Seq(ToSet(q))
        BY DEF PlainPath
      <4>2. f[i - 1] \in Seq(ToSet(f[i - 1]))
        BY <2>1, <4>1
      <4>3. QED
        BY <2>1, <2>2, <3>1, <4>2 DEF IsField
    <3>4. IsField(p) => f[i] = SubSeq(p, 1, i)
      BY <1>5, <2>1, <3>1
    <3>5. QED
      BY <2>1, <3>2, <3>3, <3>4
  <2>3. CASE ~IsFieldStep(p[i])
    <3>1. f[i] = f[i - 1] /\ ~IsField(p)
      BY <1>1, <1>2, <2>3 DEF IsField
    <3>2. LocationOf(p[i]) = <<>>
      BY <1>1, <2>3, PlainPrint
    <3>3. Loc(i) = Loc(i - 1)
      <4>1. Loc(i - 1) \in Seq(Segment) /\ Loc(i) = Loc(i - 1) \o <<>>
        BY <1>3, <2>1, <3>2
      <4> HIDE DEF Loc
      <4>2. QED
        BY <4>1, ConcatEmptySeq
    <3>4. QED
      BY <2>1, <3>1, <3>3
  <2>4. QED
    BY <2>2, <2>3
<1>8. 0..n \subseteq S
  <2> HIDE DEF S, n
  <2>1. QED
    BY <1>1, <1>6, <1>7, UpToInduction
<1>9. Good(n)
  BY <1>1, <1>8
<1>10. QED
  BY <1>2, <1>4, <1>9

\* Every step of a field prints one segment.
LEMMA FieldPrint ==
    ASSUME NEW p, PlainPath(p), IsField(p)
    PROVE  /\ Len(SimpleLocation(p)) = Len(p)
           /\ \A k \in 1..Len(p) : SimpleLocation(p)[k] = LocationOf(p[k])[1]
<1> DEFINE n == Len(p)
           Loc(i) == SimpleLocation(SubSeq(p, 1, i))
           Good(i) == Len(Loc(i)) = i /\ \A k \in 1..i : Loc(i)[k] = LocationOf(p[k])[1]
           S == {i \in 0..n : Good(i)}
<1>1. n \in Nat /\ DOMAIN p = 1..n /\ SubSeq(p, 1, n) = p
  BY DEF PlainPath
<1>2. /\ Loc(0) = <<>> /\ \A i \in 1..n : Loc(i) = Loc(i - 1) \o LocationOf(p[i])
      /\ \A i \in 0..n : Loc(i) \in Seq(Segment)
  BY LocationSteps
<1>3. \A i \in 1..n : LocationOf(p[i]) = <<LocationOf(p[i])[1]>>
  <2> SUFFICES ASSUME NEW i \in 1..n PROVE LocationOf(p[i]) = <<LocationOf(p[i])[1]>>
    OBVIOUS
  <2>1. PlainStep(p[i]) /\ p[i].kind \in {"properties", "items", "additionalProperties"}
    BY <1>1 DEF PlainPath, IsField, IsFieldStep
  <2>2. QED
    BY <2>1, PlainPrint
<1>4. 0 \in S
  BY <1>1, <1>2
<1>5. ASSUME NEW i \in 1..n, i - 1 \in S PROVE i \in S
  <2> DEFINE before == Loc(i - 1)
             now == Loc(i)
             x == LocationOf(p[i])[1]
  <2>1. /\ i \in 0..n /\ i - 1 \in 0..n /\ Len(before) = i - 1
        /\ \A k \in 1..(i - 1) : before[k] = LocationOf(p[k])[1]
    BY <1>1, <1>5
  <2>2. before \in Seq(Segment) /\ now = before \o <<x>>
    BY <1>2, <1>3, <2>1
  <2>3. LocationOf(p[i])[1] = x
    OBVIOUS
  <2> HIDE DEF before, now, x
  <2>4. Len(now) = i /\ now[i] = x /\ \A k \in 1..(i - 1) : now[k] = before[k]
    BY <2>1, <2>2
  <2>5. \A k \in 1..i : k \in 1..(i - 1) \/ k = i
    OBVIOUS
  <2>6. Len(now) = i /\ \A k \in 1..i : now[k] = LocationOf(p[k])[1]
    BY <2>1, <2>3, <2>4, <2>5
  <2>7. QED
    BY <2>1, <2>6 DEF now
<1>6. 0..n \subseteq S
  <2> HIDE DEF S, n
  <2>1. QED
    BY <1>1, <1>4, <1>5, UpToInduction
<1>7. Good(n)
  BY <1>1, <1>6
<1>8. QED
  BY <1>1, <1>7

\* Two fields that print alike differ at most in what is a list and what is a map.
LEMMA SamePrint ==
    ASSUME NEW p, NEW q, PlainPath(p), PlainPath(q), IsField(p), IsField(q),
           SimpleLocation(p) = SimpleLocation(q)
    PROVE  /\ Len(p) = Len(q)
           /\ \A k \in 1..Len(p) :
                 \/ p[k] = q[k]
                 \/ p[k].kind = "items" /\ q[k].kind = "additionalProperties"
                 \/ p[k].kind = "additionalProperties" /\ q[k].kind = "items"
<1>1. Len(p) = Len(q)
  BY FieldPrint
<1>2. /\ Len(p) \in Nat /\ DOMAIN p = 1..Len(p) /\ DOMAIN q = 1..Len(p)
  BY <1>1 DEF PlainPath
<1>3. ASSUME NEW k \in 1..Len(p)
      PROVE  \/ p[k] = q[k]
             \/ p[k].kind = "items" /\ q[k].kind = "additionalProperties"
             \/ p[k].kind = "additionalProperties" /\ q[k].kind = "items"
  <2>1. LocationOf(p[k])[1] = LocationOf(q[k])[1]
    BY <1>1, <1>3, FieldPrint
  <2>2. PlainStep(p[k]) /\ PlainStep(q[k]) /\ IsFieldStep(p[k]) /\ IsFieldStep(q[k])
    BY <1>2, <1>3 DEF PlainPath, IsField
  <2>3. \A s : PlainStep(s) /\ IsFieldStep(s) =>
           \/ /\ s.kind = "properties"
              /\ s = [kind |-> "properties", key |-> <<LocationOf(s)[1]>>] /\ LocationOf(s)[1] # "[*]"
           \/ /\ s.kind \in {"items", "additionalProperties"}
              /\ s = [kind |-> s.kind, key |-> 0] /\ LocationOf(s)[1] = "[*]"
    <3> SUFFICES ASSUME NEW s, PlainStep(s), IsFieldStep(s)
                 PROVE  \/ /\ s.kind = "properties"
                           /\ s = [kind |-> "properties", key |-> <<LocationOf(s)[1]>>]
                           /\ LocationOf(s)[1] # "[*]"
                        \/ /\ s.kind \in {"items", "additionalProperties"}
                           /\ s = [kind |-> s.kind, key |-> 0] /\ LocationOf(s)[1] = "[*]"
      OBVIOUS
    <3>1. CASE s.kind = "properties"
      BY <3>1, PlainPrint
    <3>2. CASE s.kind \in {"items", "additionalProperties"}
      <4>1. LocationOf(s) = <<"[*]">> /\ s = [kind |-> s.kind, key |-> 0]
        BY <3>2, PlainPrint
      <4>2. QED
        BY <3>2, <4>1
    <3>3. QED
      BY <3>1, <3>2 DEF IsFieldStep
  <2>4. QED
    BY <2>1, <2>2, <2>3
<1>4. QED
  BY <1>1, <1>3

-----------------------------------------------------------------------------
\* The paths of a schema: every beginning of one is one.
Tree(schema) ==
    \A p \in DOMAIN schema :
        PlainPath(p) /\ \A i \in 0..(Len(p) - 1) : SubSeq(p, 1, i) \in DOMAIN schema

\* The paths of structural schemas are plain ...
LEMMA StructuralIsTree ==
    ASSUME StructuralCRDs(CRD), NEW c \in CRD, NEW v \in DOMAIN c
    PROVE  Tree(c[v].schema)
  BY SchemaAssumption DEF StructuralCRDs, Structural, Tree, PlainPath

\* ... so that every walk reads them alike.
LEMMA StructuralIsSettled == ASSUME StructuralCRDs(CRD) PROVE SettledCRDs
  BY StructuralIsTree, PlainIsSettled DEF Tree, SettledCRDs, Settled

\* The first k steps of p lead to a field of the schema, and so does all but the last of them.
BeginsField(schema, p, k) ==
    /\ SubSeq(p, 1, k) \in Fields(schema) \ {<<>>}
    /\ Front(SubSeq(p, 1, k)) = SubSeq(p, 1, k - 1)
    /\ SubSeq(p, 1, k - 1) \in Fields(schema)
    /\ Last(SubSeq(p, 1, k)) = p[k]

\* The beginnings of a field are fields.
LEMMA FieldPrefix ==
    ASSUME NEW schema, Tree(schema), NEW p \in Fields(schema), NEW k \in 1..Len(p)
    PROVE  BeginsField(schema, p, k)
<1> DEFINE n == Len(p)
           a == SubSeq(p, 1, k)
           f == SubSeq(p, 1, k - 1)
<1>1. /\ p \in DOMAIN schema /\ PlainPath(p) /\ IsField(p)
      /\ \A i \in 0..(n - 1) : SubSeq(p, 1, i) \in DOMAIN schema
  BY DEF Fields, Tree
<1>2. n \in Nat /\ DOMAIN p = 1..n /\ SubSeq(p, 1, n) = p
  BY <1>1 DEF PlainPath
<1>3. k \in 0..n /\ k - 1 \in 0..n /\ k \in Nat /\ k >= 1
  <2> HIDE DEF n
  <2>1. QED
    BY <1>2 DEF n
<1>4. \A i \in 0..n : SubSeq(p, 1, i) \in DOMAIN schema
  <2>1. \A i \in 0..n : i \in 0..(n - 1) \/ i = n
    <3> HIDE DEF n
    <3>1. QED
      BY <1>2
  <2>2. QED
    BY <1>1, <1>2, <2>1
<1>5. /\ PlainPath(a) /\ Len(a) = k /\ \A i \in 1..k : a[i] = p[i]
      /\ PlainPath(f) /\ Len(f) = k - 1 /\ \A i \in 1..(k - 1) : f[i] = p[i]
  BY <1>1, <1>3, PlainPrefix
<1>6. DOMAIN a = 1..k /\ DOMAIN f = 1..(k - 1)
  <2>1. \A q : PlainPath(q) => DOMAIN q = 1..Len(q)
    BY DEF PlainPath
  <2>2. QED
    BY <1>5, <2>1
<1> HIDE DEF n, a, f
<1>7. IsField(a) /\ IsField(f)
  BY <1>1, <1>2, <1>3, <1>5, <1>6 DEF IsField
<1>8. a \in Fields(schema) /\ f \in Fields(schema)
  BY <1>3, <1>4, <1>7 DEF Fields, a, f
<1>9. a # <<>>
  <2>1. Len(<<>>) = 0
    OBVIOUS
  <2>2. QED
    BY <1>3, <1>5, <2>1
<1>10. Last(a) = p[k]
  BY <1>3, <1>5 DEF Last
<1>11. Front(a) = f
  <2>1. Front(a) = SubSeq(a, 1, k - 1)
    BY <1>5 DEF Front
  <2>2. k - 1 \in 0..Len(a)
    BY <1>3, <1>5
  <2>3. /\ PlainPath(SubSeq(a, 1, k - 1)) /\ Len(SubSeq(a, 1, k - 1)) = k - 1
        /\ \A i \in 1..(k - 1) : SubSeq(a, 1, k - 1)[i] = a[i]
    BY <1>5, <2>2, PlainPrefix
  <2>4. \A i \in 1..(k - 1) : a[i] = f[i]
    BY <1>3, <1>5
  <2>5. SubSeq(a, 1, k - 1) = f
    BY <1>5, <2>3, <2>4, SamePath
  <2>6. QED
    BY <2>1, <2>5
<1>12. QED
  BY <1>8, <1>9, <1>10, <1>11 DEF a, f, BeginsField

\* The fields that are alone at their locations have the same types in two schemas.
SameLoneTypes(s1, s2) ==
    \A f \in Fields(s1) :
        /\ f \in DOMAIN s2
        /\ PathsAt(s1, SimpleLocation(f)) = {f}
        /\ PathsAt(s2, SimpleLocation(f)) = {f}
        => s2[f].type = s1[f].type

\* Fields of two schemas that print alike are the same field, if nothing that is a list
\* in one is a map in the other.
LEMMA SameField ==
    ASSUME NEW s1, NEW s2, Tree(s1), Tree(s2),
           Structural(s1), Structural(s2), Unmasked(s1), Unmasked(s2),
           SameLoneTypes(s1, s2),
           NEW p \in Fields(s1), NEW q \in Fields(s2), SimpleLocation(p) = SimpleLocation(q)
    PROVE  p = q
<1> DEFINE n == Len(p)
           T == {k \in 1..n : p[k] # q[k]}
<1>1. PlainPath(p) /\ PlainPath(q) /\ IsField(p) /\ IsField(q)
  BY DEF Fields, Tree
<1>2. /\ n \in Nat /\ Len(q) = n
      /\ \A k \in T : \/ p[k].kind = "items" /\ q[k].kind = "additionalProperties"
                      \/ p[k].kind = "additionalProperties" /\ q[k].kind = "items"
  <2>1. n \in Nat
    BY <1>1 DEF PlainPath
  <2>2. QED
    BY <1>1, <2>1, SamePrint
<1>3. SUFFICES ASSUME T # {} PROVE FALSE
  BY <1>1, <1>2, SamePath
<1>4. PICK m \in T : \A y \in T : m <= y
  <2>1. T \subseteq Nat
    BY <1>2
  <2> HIDE DEF T
  <2>2. QED
    BY <1>3, <2>1, LeastNat
<1> DEFINE f == SubSeq(p, 1, m - 1)
<1>5. m \in 1..n /\ m \in 1..Len(q) /\ m - 1 \in 0..n /\ m - 1 \in 0..Len(q)
  BY <1>2, <1>4
<1>6. f = SubSeq(q, 1, m - 1)
  <2>1. \A i \in 1..(m - 1) : i \in 1..n /\ i \notin T
    BY <1>2, <1>4
  <2>2. \A i \in 1..(m - 1) : p[i] = q[i]
    BY <2>1
  <2>3. /\ PlainPath(f) /\ Len(f) = m - 1 /\ \A i \in 1..(m - 1) : f[i] = p[i]
    BY <1>1, <1>5, PlainPrefix
  <2>4. /\ PlainPath(SubSeq(q, 1, m - 1)) /\ Len(SubSeq(q, 1, m - 1)) = m - 1
        /\ \A i \in 1..(m - 1) : SubSeq(q, 1, m - 1)[i] = q[i]
    BY <1>1, <1>5, PlainPrefix
  <2> HIDE DEF f
  <2>5. QED
    BY <2>2, <2>3, <2>4, SamePath
<1> DEFINE a == SubSeq(p, 1, m)
           b == SubSeq(q, 1, m)
<1>7. /\ a \in Fields(s1) \ {<<>>} /\ Front(a) = f /\ f \in Fields(s1) /\ Last(a) = p[m]
  <2> HIDE DEF T, n, f
  <2>1. BeginsField(s1, p, m)
    BY <1>5, FieldPrefix DEF n
  <2>2. QED
    BY <2>1 DEF BeginsField, f
<1>8. /\ b \in Fields(s2) \ {<<>>} /\ Front(b) = f /\ f \in Fields(s2) /\ Last(b) = q[m]
  <2> HIDE DEF T, n, f
  <2>1. BeginsField(s2, q, m)
    BY <1>5, FieldPrefix
  <2>2. QED
    BY <1>6, <2>1 DEF BeginsField
<1> HIDE DEF a, b, f
<1>9. Last(a).kind # "properties" /\ Last(b).kind # "properties"
  BY <1>2, <1>4, <1>7, <1>8
<1>10. PathsAt(s1, SimpleLocation(f)) = {f} /\ PathsAt(s2, SimpleLocation(f)) = {f}
  BY <1>7, <1>8, <1>9 DEF Unmasked
<1>11. s2[f].type = s1[f].type
  BY <1>7, <1>8, <1>10 DEF Fields, SameLoneTypes
<1>12. /\ p[m].kind = "items" => s1[f].type = "array"
       /\ p[m].kind = "additionalProperties" => s1[f].type = "object"
  BY <1>7 DEF Structural
<1>13. /\ q[m].kind = "items" => s2[f].type = "array"
       /\ q[m].kind = "additionalProperties" => s2[f].type = "object"
  BY <1>8 DEF Structural
<1>14. QED
  BY <1>2, <1>4, <1>11, <1>12, <1>13

\* Over any chain of accepted updates a version that is never dropped keeps every field
\* it had, though NoFieldRemoval compares printed locations only: of two fields that
\* print alike the first difference is below a list in one and a map in the other, and
\* NoDataTypeChange does not let one become the other where no branch hides its type
\* (comp_no_field_removal.go:36-74, comp_no_data_type_change.go:24-90).
THEOREM FieldsNeverLost ==
    ASSUME StructuralCRDs(CRD), UnmaskedCRDs(CRD)
    PROVE  Spec => []FieldsKept
<1>1. SettledCRDs
  BY StructuralIsSettled
<1>2. ChainInv /\ LoneTypesKept => FieldsKept
  <2> SUFFICES ASSUME ChainInv, LoneTypesKept, NEW v \in kept, NEW p \in Fields(origin[v].schema)
               PROVE  p \in Fields(crd[v].schema)
    BY DEF FieldsKept
  <2> DEFINE s1 == origin[v].schema
             s2 == crd[v].schema
  <2>1. /\ crd \in CRD /\ v \in DOMAIN crd
        /\ origin \in CRD /\ v \in DOMAIN origin
    BY DEF ChainInv, HistoryOK, Rooted
  <2>2. /\ Tree(s1) /\ Tree(s2) /\ Structural(s1) /\ Structural(s2)
        /\ Unmasked(s1) /\ Unmasked(s2)
    BY <2>1, StructuralIsTree DEF StructuralCRDs, UnmaskedCRDs
  <2>3. p \in DOMAIN s1 /\ SimpleLocation(p) \in Locations(s2)
    BY DEF Fields, Locations, ChainInv, LocationsKept
  <2>4. PICK r \in DOMAIN s2 : SimpleLocation(r) = SimpleLocation(p)
    BY <2>3 DEF Locations
  <2>5. FieldOf(r) \in Fields(s2) /\ SimpleLocation(FieldOf(r)) = SimpleLocation(p)
    BY <2>2, <2>4, FieldOfFacts DEF Tree, Structural, Fields
  <2>6. SameLoneTypes(s1, s2)
    BY DEF LoneTypesKept, SameLoneTypes
  <2> HIDE DEF s1, s2
  <2>7. p = FieldOf(r)
    BY <2>2, <2>5, <2>6, SameField DEF s1
  <2>8. QED
    BY <2>5, <2>7 DEF s2
<1>3. QED
  BY <1>1, <1>2, ChainInvariant, LoneTypesNeverChange, PTL

\* Above the values of a map is a map.
LEMMA ValuesHaveMap ==
    ASSUME NEW s, Tree(s), Structural(s), NEW p \in Fields(s), NEW k \in 1..Len(p),
           p[k].kind = "additionalProperties"
    PROVE  \E f \in DOMAIN s : NoMaps(s[f])
<1> DEFINE a == SubSeq(p, 1, k)
<1>1. a \in Fields(s) \ {<<>>} /\ Front(a) \in Fields(s) /\ Last(a) = p[k]
  <2>1. BeginsField(s, p, k)
    BY FieldPrefix
  <2>2. QED
    BY <2>1 DEF BeginsField
<1> HIDE DEF a
<1>2. NoMaps(s[Front(a)]) /\ Front(a) \in DOMAIN s
  BY <1>1 DEF Structural, Fields, NoMaps
<1>3. QED
  BY <1>2

\* A schema that breaks no rule has no map.
LEMMA CleanHasNoMaps ==
    ASSUME NEW c, Validate(c) = {}, NEW v \in DOMAIN c, Structural(c[v].schema), Tree(c[v].schema),
           NEW p \in Fields(c[v].schema), NEW k \in 1..Len(p)
    PROVE  p[k].kind # "additionalProperties"
<1> DEFINE s == c[v].schema
<1> SUFFICES ASSUME p[k].kind = "additionalProperties" PROVE FALSE
  OBVIOUS
<1>1. PICK f \in DOMAIN s : NoMaps(s[f])
  BY ValuesHaveMap
<1>2. "NoMaps" \in Broken(s[f])
  BY <1>1 DEF Broken
<1> DEFINE Told(q) == {Message(rule, v, SimpleLocation(q), "") : rule \in Broken(s[q])}
<1>3. Told(f) # {}
  BY <1>2
<1>4. BrokenIn(v, s) = UNION {Told(q) : q \in DOMAIN s}
  BY Zenon DEF BrokenIn
<1> HIDE DEF Told
<1>5. BrokenIn(v, s) # {}
  BY <1>3, <1>4
<1>6. BrokenIn(v, s) \subseteq Validate(c)
  BY DEF Validate
<1>7. QED
  BY <1>5, <1>6

\* The CRD the chain started from broke nothing but the baseline.
OriginBroke == crd # NoCRD => Validate(origin) \subseteq baseline

\* The CRD of the first day is measured by the same baseline.
LEMMA OriginInvariant == Spec => []OriginBroke
<1>1. Init => OriginBroke
  BY DEF Init, OriginBroke
<1>2. ChainInv' /\ OriginBroke /\ [Next]_vars => OriginBroke'
  <2> SUFFICES ASSUME ChainInv', OriginBroke, [Next]_vars PROVE OriginBroke'
    OBVIOUS
  <2>1. CASE UNCHANGED vars
    BY <2>1 DEF vars, OriginBroke
  <2>2. ASSUME NEW new \in CRD, Create(new) PROVE OriginBroke'
    BY <2>2 DEF Create, ChainInv, RatchetOnlyShrinks, OriginBroke
  <2>3. ASSUME NEW new \in CRD, Update(new) PROVE OriginBroke'
    BY <2>3 DEF Update, OriginBroke
  <2>4. QED
    BY <2>1, <2>2, <2>3 DEF Next, Stuck
<1>3. QED
  BY <1>1, <1>2, ChainInvariant, PTL DEF Spec

\* In a CRD that entered the cluster clean no field is ever lost, hidden types or not:
\* NoMaps and the ratchet keep maps out, so that [*] can only stand for a list
\* (comp_no_maps.go:27-64, comp_no_field_removal.go:36-74).
THEOREM CleanFieldsNeverLost ==
    ASSUME StructuralCRDs(CRD)
    PROVE  Spec => [](baseline = {} => FieldsKept)
<1>1. ChainInv /\ OriginBroke => (baseline = {} => FieldsKept)
  <2> SUFFICES ASSUME ChainInv, OriginBroke, baseline = {},
                      NEW v \in kept, NEW p \in Fields(origin[v].schema)
               PROVE  p \in Fields(crd[v].schema)
    BY DEF FieldsKept
  <2> DEFINE s1 == origin[v].schema
             s2 == crd[v].schema
  <2>1. /\ crd \in CRD /\ v \in DOMAIN crd /\ crd # NoCRD
        /\ origin \in CRD /\ v \in DOMAIN origin
    BY CRDAssumption DEF ChainInv, HistoryOK, Rooted
  <2>2. Tree(s1) /\ Tree(s2) /\ Structural(s1) /\ Structural(s2)
    BY <2>1, StructuralIsTree DEF StructuralCRDs
  <2>3. Validate(origin) = {} /\ Validate(crd) = {}
    BY <2>1 DEF ChainInv, RatchetOnlyShrinks, OriginBroke
  <2>4. p \in DOMAIN s1 /\ SimpleLocation(p) \in Locations(s2)
    BY DEF Fields, Locations, ChainInv, LocationsKept
  <2>5. PICK r \in DOMAIN s2 : SimpleLocation(r) = SimpleLocation(p)
    BY <2>4 DEF Locations
  <2> DEFINE q == FieldOf(r)
  <2>6. q \in Fields(s2) /\ SimpleLocation(q) = SimpleLocation(p)
    BY <2>2, <2>5, FieldOfFacts DEF Tree, Structural, Fields
  <2>7. PlainPath(p) /\ IsField(p) /\ PlainPath(q) /\ IsField(q)
    BY <2>2, <2>4, <2>6 DEF Tree, Fields
  <2> HIDE DEF q
  <2>8. \A k \in 1..Len(p) : p[k].kind # "additionalProperties"
    BY <2>1, <2>2, <2>3, CleanHasNoMaps
  <2>9. \A k \in 1..Len(q) : q[k].kind # "additionalProperties"
    BY <2>1, <2>2, <2>3, <2>6, CleanHasNoMaps
  <2> HIDE DEF s1, s2
  <2>10. Len(p) = Len(q) /\ \A k \in 1..Len(p) : p[k] = q[k]
    BY <2>6, <2>7, <2>8, <2>9, SamePrint
  <2>11. p = q
    BY <2>7, <2>10, SamePath
  <2>12. QED
    BY <2>6, <2>11 DEF s2
<1>2. QED
  BY <1>1, ChainInvariant, OriginInvariant, PTL

-----------------------------------------------------------------------------
\* An accepted update requires nothing new of a field that was there.
LEMMA AcceptedRequired ==
    ASSUME NEW old, NEW new, Accepted(old, new), NEW v \in Shared(old, new),
           NEW p \in DOMAIN new[v].schema
    PROVE  NewNames(old[v].schema, new[v].schema, p) = {}
<1> DEFINE Told(u) == {Message("NoNewRequiredFields", u, loc, "") :
                         loc \in NewlyRequired(old[u].schema, new[u].schema)}
           s1 == old[v].schema
           s2 == new[v].schema
           At(q) == {SimpleLocation(q) \o name : name \in NewNames(s1, s2, q)}
<1>1. NoNewRequiredFields(old, new) = {}
  BY DEF Accepted, StableErrors
<1>2. NoNewRequiredFields(old, new) = UNION {Told(u) : u \in Shared(old, new)}
  BY Zenon DEF NoNewRequiredFields
<1>3. Told(v) = {}
  <2> HIDE DEF Told
  <2>1. QED
    BY <1>1, <1>2
<1>4. NewlyRequired(s1, s2) = {}
  BY <1>3
<1> HIDE DEF Told
<1>5. NewlyRequired(s1, s2) = RequiredArrays(s1, s2) \cup UNION {At(q) : q \in DOMAIN s2}
  BY Zenon DEF NewlyRequired
<1>6. At(p) = {}
  <2> HIDE DEF At
  <2>1. QED
    BY <1>4, <1>5
<1> HIDE DEF s1, s2
<1>7. QED
  BY <1>6 DEF s1, s2

\* An object that a version takes, it takes after an accepted update.
LEMMA AcceptedObject ==
    ASSUME StructuralCRDs(CRD), RequiringByFields(CRD),
           NEW old \in CRD, NEW new \in CRD, Accepted(old, new), NEW v \in Shared(old, new),
           NEW o, o \subseteq Fields(old[v].schema), Valid(o, old[v].schema)
    PROVE  Valid(o, new[v].schema)
<1> DEFINE s1 == old[v].schema
           s2 == new[v].schema
<1>1. v \in DOMAIN old /\ v \in DOMAIN new
  BY DEF Shared, GetVersionByName
<1>2. Tree(s1) /\ Tree(s2) /\ RequiresByFields(s2)
  BY <1>1, StructuralIsTree DEF RequiringByFields
<1>3. \A p \in DOMAIN s2 : NewNames(s1, s2, p) = {}
  BY AcceptedRequired
<1> HIDE DEF s1, s2
<1>4. ASSUME NEW p \in Fields(s2) PROVE Satisfies(o, s2, p)
  <2>1. p \in DOMAIN s2 /\ PlainPath(p) /\ IsField(p)
    BY <1>2 DEF Fields, Tree
  <2>2. FieldOf(p) = p
    BY <2>1, FieldOfFacts
  <2> SUFFICES ASSUME p \in o, NEW name \in s2[p].required
               PROVE  Append(p, [kind |-> "properties", key |-> name]) \in o
    BY <2>2 DEF Satisfies
  <2>3. p \in Fields(s1) /\ p \in DOMAIN s1
    BY DEF Fields, s1
  <2>4. ~isAnyAncestorNewAndNullable(s1, s2, p)
    BY <1>2, <2>3 DEF isAnyAncestorNewAndNullable, Tree
  <2>5. s2[p].type # "array"
    BY <1>2, <2>1 DEF RequiresByFields
  <2>6. s2[p].required \ s1[p].required = {}
    BY <1>3, <2>1, <2>3, <2>4, <2>5 DEF NewNames
  <2>7. name \in s1[p].required
    BY <2>6
  <2>8. Satisfies(o, s1, p)
    BY <2>3 DEF Valid, s1
  <2>9. QED
    BY <2>2, <2>7, <2>8 DEF Satisfies
<1>5. ASSUME NEW p \in Fields(s2), NEW kind \in {"allOf", "anyOf", "oneOf"},
             NEW q \in BranchesOf(s2, p, kind)
      PROVE  Satisfies(o, s2, q)
  <2>1. q \in DOMAIN s2 /\ q # <<>> /\ q[Len(q)].kind = kind
    BY DEF BranchesOf, Last
  <2>2. Len(q) \in DOMAIN q
    BY <1>2, <2>1 DEF Tree, PlainPath
  <2>3. ~IsField(q)
    BY <2>1, <2>2 DEF IsField, IsFieldStep
  <2>4. s2[q].required = {}
    BY <1>2, <2>1, <2>3 DEF RequiresByFields
  <2>5. QED
    BY <2>4 DEF Satisfies
<1>6. Valid(o, s2)
  BY <1>4, <1>5 DEF Valid
<1>7. QED
  BY <1>6 DEF s2

\* An accepted update keeps the objects of the first day valid.
LEMMA ObjectsStep ==
    ASSUME StructuralCRDs(CRD), RequiringByFields(CRD),
           ChainInv, FieldsKept, ObjectsStayValid, NEW new \in CRD, Update(new)
    PROVE  ObjectsStayValid'
<1>1. /\ crd # NoCRD /\ Accepted(crd, new)
      /\ crd' = new /\ origin' = origin /\ kept' = kept \cap DOMAIN new
  BY DEF Update
<1>2. crd \in CRD /\ kept \subseteq DOMAIN crd
  BY <1>1 DEF ChainInv, HistoryOK
<1>3. ASSUME NEW v \in kept', NEW o \in Objects(origin[v].schema), Valid(o, origin[v].schema)
      PROVE  Valid(o, new[v].schema)
  <2>1. v \in kept /\ v \in Shared(crd, new)
    BY <1>1, <1>2 DEF Shared, GetVersionByName
  <2>2. o \subseteq Fields(crd[v].schema)
    BY <2>1 DEF Objects, FieldsKept
  <2>3. Valid(o, crd[v].schema)
    BY <1>3, <2>1 DEF ObjectsStayValid
  <2>4. QED
    BY <1>1, <1>2, <2>1, <2>2, <2>3, AcceptedObject
<1>4. QED
  BY <1>1, <1>3 DEF ObjectsStayValid

LEMMA ObjectsStart ==
    /\ Init => ObjectsStayValid
    /\ \A new \in CRD : Create(new) => ObjectsStayValid'
    /\ ObjectsStayValid /\ UNCHANGED vars => ObjectsStayValid'
<1>1. Init => ObjectsStayValid
  BY DEF Init, ObjectsStayValid
<1>2. \A new \in CRD : Create(new) => ObjectsStayValid'
  BY DEF Create, ObjectsStayValid
<1>3. ObjectsStayValid /\ UNCHANGED vars => ObjectsStayValid'
  BY DEF vars, ObjectsStayValid
<1>4. QED
  BY <1>1, <1>2, <1>3

\* Whatever a client of a version could write at the start of a chain of accepted updates
\* it can write at its end (comp_no_new_required_fields.go:54-215): a field that was there
\* is not new, so what becomes required there is reported, and it stays where it was.
THEOREM ObjectsAlwaysValid ==
    ASSUME StructuralCRDs(CRD), UnmaskedCRDs(CRD), RequiringByFields(CRD)
    PROVE  Spec => []ObjectsStayValid
<1>1. ChainInv /\ FieldsKept /\ ObjectsStayValid /\ [Next]_vars => ObjectsStayValid'
  BY ObjectsStart, ObjectsStep DEF Next, Stuck
<1>2. Init => ObjectsStayValid
  BY ObjectsStart
<1>3. QED
  BY <1>1, <1>2, ChainInvariant, FieldsNeverLost, PTL DEF Spec

\* The same of a CRD that entered the cluster clean, hidden types or not
\* (comp_no_new_required_fields.go:54-215).
THEOREM CleanObjectsAlwaysValid ==
    ASSUME StructuralCRDs(CRD), RequiringByFields(CRD)
    PROVE  Spec => [](baseline = {} => ObjectsStayValid)
<1>1. ASSUME ChainInv, baseline = {} => FieldsKept, baseline = {} => ObjectsStayValid, [Next]_vars,
             (baseline = {})'
      PROVE  ObjectsStayValid'
  <2>1. baseline = {}
    BY <1>1 DEF Next, Stuck, Create, Update, vars
  <2>2. QED
    BY <1>1, <2>1, ObjectsStart, ObjectsStep DEF Next, Stuck
<1>2. Init => ObjectsStayValid
  BY ObjectsStart
<1>3. QED
  BY <1>1, <1>2, ChainInvariant, CleanFieldsNeverLost, PTL DEF Spec

\* Applying again a CRD that is there reports no error, if none of its lists has to have
\* elements, whatever order the maps are walked in: without names that print like two,
\* entries of one map never print alike (comp_no_data_type_change.go:24-52,
\* helpers.go:73-77).
THEOREM ReapplyAlwaysClean ==
    ASSUME StructuralCRDs(CRD)
    PROVE  Spec => []ReapplyQuiet
<1>1. ChainInv /\ (Settled(crd) => ReapplyQuiet) => ReapplyQuiet
  BY StructuralIsSettled DEF ChainInv, HistoryOK, SettledCRDs, ReapplyQuiet
<1>2. QED
  BY <1>1, ReapplyIsClean, ChainInvariant, PTL
=============================================================================
