------------------------- MODULE CostBudgetProofs -------------------------
(***************************************************************************)
(* That the cost budget is judged as in numbers that never overflow, for   *)
(* every width of the integers, all limits, all CRDs and every order in    *)
(* which the maps of a schema are walked.                                  *)
(***************************************************************************)
EXTENDS CostBudget, LeastNumber, FiniteSetTheorems

-----------------------------------------------------------------------------
(***************************************************************************)
(* Arithmetic.  What the code computes is the true number, cut off at the  *)
(* largest uint64.                                                         *)
(***************************************************************************)
Sat(n) == IF n > MaxUint THEN MaxUint ELSE n

LEMMA Limits ==
    /\ MaxUint \in Nat /\ Limit \in Nat /\ CRDLimit \in Nat
    /\ 1 <= Limit /\ Limit < MaxUint /\ CRDLimit < MaxUint /\ 100 * Limit <= MaxUint
  BY LimitsAssumption

\* The guard of the product loses nothing below the largest uint64
\* (comp_must_not_exceed_cost_budget.go:171-181).
LEMMA GuardSaturates ==
    ASSUME NEW a \in Nat, NEW b \in Nat
    PROVE  multiplyWithOverflowGuard(a, b) = Sat(a * b)
<1>1. MaxUint \in Nat /\ a * b \in Nat
  BY Limits
<1>2. CASE a = 0
  BY <1>1, <1>2 DEF multiplyWithOverflowGuard, Sat
<1>3. CASE a # 0
  <2> DEFINE q == MaxUint \div a
  <2>1. q \in Nat /\ a * q <= MaxUint /\ MaxUint < a * (q + 1)
    BY <1>1, <1>3
  <2>2. multiplyWithOverflowGuard(a, b) = IF q < b THEN MaxUint ELSE a * b
    BY <1>3 DEF multiplyWithOverflowGuard
  <2> HIDE DEF q
  <2>3. CASE q < b
    <3>1. a * (q + 1) <= a * b
      BY <2>1, <2>3
    <3>2. QED
      BY <1>1, <2>1, <2>2, <2>3, <3>1 DEF Sat
  <2>4. CASE ~(q < b)
    <3>1. a * b <= a * q
      BY <2>1, <2>4
    <3>2. QED
      BY <1>1, <2>1, <2>2, <2>4, <3>1 DEF Sat
  <2>5. QED
    BY <2>3, <2>4
<1>4. QED
  BY <1>2, <1>3

LEMMA SatFacts ==
    ASSUME NEW a \in Nat, NEW b \in Nat
    PROVE  /\ Sat(a) \in 0..MaxUint
           /\ Sat(Sat(a) * b) = Sat(a * b)
<1>1. MaxUint \in Nat
  BY Limits
<1>2. Sat(a) \in 0..MaxUint
  BY <1>1 DEF Sat
<1>3. CASE a <= MaxUint
  BY <1>1, <1>3 DEF Sat
<1>4. CASE a > MaxUint /\ b = 0
  BY <1>1, <1>4 DEF Sat
<1>5. CASE a > MaxUint /\ b # 0
  <2>1. a * b \in Nat /\ a * b >= a /\ MaxUint * b \in Nat /\ MaxUint * b >= MaxUint
    BY <1>1, <1>5
  <2>2. Sat(a) = MaxUint
    BY <1>5 DEF Sat
  <2>3. Sat(a * b) = MaxUint /\ Sat(MaxUint * b) = MaxUint
    BY <1>1, <1>5, <2>1 DEF Sat
  <2>4. QED
    BY <1>2, <2>2, <2>3
<1>6. QED
  BY <1>1, <1>2, <1>3, <1>4, <1>5

-----------------------------------------------------------------------------
(***************************************************************************)
(* The recursive definitions compute what they say.                        *)
(***************************************************************************)
LEMMA Between ==
    ASSUME NEW n \in Nat
    PROVE  /\ \A i \in 1..n : i - 1 \in 0..n /\ i \in 0..n /\ i # 0
           /\ \A i \in 0..n : i = 0 \/ i \in 1..n
  OBVIOUS

LEMMA ProductUnfolds ==
    ASSUME NEW s, Len(s) \in Nat, \A i \in 1..Len(s) : s[i] \in Nat
    PROVE  \E f \in [0..Len(s) -> Nat] :
              /\ f[0] = 1 /\ \A i \in 1..Len(s) : f[i] = f[i - 1] * s[i]
              /\ Product(s) = f[Len(s)]
<1> DEFINE n == Len(s)
           Next1(g) == [i \in 0..n |-> IF i = 0 THEN 1 ELSE g[i - 1] * s[i]]
           h == [x \in Nat \X (1..n) |-> x[1] * s[x[2]]]
<1>1. h \in [Nat \X (1..n) -> Nat] /\ \A a \in Nat, i \in 1..n : h[<<a, i>>] = a * s[i]
  OBVIOUS
<1> HIDE DEF h
<1>2. PICK g \in [0..n -> Nat] : g[0] = 1 /\ \A i \in 1..n : g[i] = h[<<g[i - 1], i>>]
  <2>1. n \in Nat /\ 1 \in Nat
    OBVIOUS
  <2> HIDE DEF n
  <2>2. QED
    BY <1>1, <2>1, StepByStep, ZenonT(60)
<1>3. \A i \in 1..n : g[i] = g[i - 1] * s[i]
  BY <1>1, <1>2, Between
<1>4. g = Next1(g)
  BY <1>2, <1>3, Between
<1> DEFINE f == CHOOSE x : x = Next1(x)
<1>5. Product(s) = f[n]
  BY DEF Product
<1>6. f = Next1(f)
  BY <1>4, Zenon
<1> HIDE DEF f
<1>7. DOMAIN f = 0..n /\ f[0] = 1 /\ \A i \in 1..n : f[i] = f[i - 1] * s[i]
  BY <1>6
<1>8. \A i \in 0..n : f[i] \in Nat
  <2> DEFINE S == {i \in 0..n : f[i] \in Nat}
  <2>1. 0 \in S
    BY <1>7
  <2>2. \A i \in 1..n : i - 1 \in S => i \in S
    BY <1>7
  <2>3. 0..n \subseteq S
    <3> HIDE DEF S
    <3>1. QED
      BY <2>1, <2>2, UpToInduction
  <2>4. QED
    BY <2>3
<1>9. f \in [0..n -> Nat]
  BY <1>6, <1>7, <1>8
<1>10. QED
  BY <1>5, <1>7, <1>9

LEMMA GuardedProductUnfolds ==
    ASSUME NEW s, Len(s) \in Nat, \A i \in 1..Len(s) : s[i] \in Nat
    PROVE  \E f \in [0..Len(s) -> Nat] :
              /\ f[0] = 1 /\ \A i \in 1..Len(s) : f[i] = Sat(f[i - 1] * s[i])
              /\ GuardedProduct(s) = f[Len(s)]
<1> DEFINE n == Len(s)
           Next1(g) == [i \in 0..n |-> IF i = 0 THEN 1 ELSE multiplyWithOverflowGuard(g[i - 1], s[i])]
           h == [x \in Nat \X (1..n) |-> Sat(x[1] * s[x[2]])]
<1>1. h \in [Nat \X (1..n) -> Nat] /\ \A a \in Nat, i \in 1..n : h[<<a, i>>] = Sat(a * s[i])
  BY Limits DEF Sat
<1> HIDE DEF h
<1>2. PICK g \in [0..n -> Nat] : g[0] = 1 /\ \A i \in 1..n : g[i] = h[<<g[i - 1], i>>]
  <2>1. n \in Nat /\ 1 \in Nat
    OBVIOUS
  <2> HIDE DEF n
  <2>2. QED
    BY <1>1, <2>1, StepByStep, ZenonT(60)
<1>3. ASSUME NEW i \in 1..n
      PROVE  g[i] = multiplyWithOverflowGuard(g[i - 1], s[i])
  <2>1. g[i - 1] \in Nat /\ s[i] \in Nat
    BY <1>2, Between
  <2>2. g[i] = Sat(g[i - 1] * s[i])
    BY <1>1, <1>2, <2>1
  <2>3. QED
    BY <2>1, <2>2, GuardSaturates
<1>4. g = Next1(g)
  BY <1>2, <1>3, Between
<1> DEFINE f == CHOOSE x : x = Next1(x)
<1>5. GuardedProduct(s) = f[n]
  BY DEF GuardedProduct
<1>6. f = Next1(f)
  BY <1>4, Zenon
<1> HIDE DEF f
<1>7. DOMAIN f = 0..n /\ f[0] = 1 /\ \A i \in 1..n : f[i] = multiplyWithOverflowGuard(f[i - 1], s[i])
  BY <1>6
<1>8. \A i \in 0..n : f[i] \in Nat
  <2> DEFINE S == {i \in 0..n : f[i] \in Nat}
  <2>1. 0 \in S
    BY <1>7
  <2>2. \A i \in 1..n : i - 1 \in S => i \in S
    <3> TAKE i \in 1..n
    <3> HAVE i - 1 \in S
    <3>1. f[i - 1] \in Nat /\ s[i] \in Nat
      OBVIOUS
    <3>2. f[i] = Sat(f[i - 1] * s[i])
      BY <1>7, <3>1, GuardSaturates
    <3>3. f[i] \in Nat
      BY <3>1, <3>2, SatFacts, Limits DEF Sat
    <3>4. QED
      BY <3>3, Between
  <2>3. 0..n \subseteq S
    <3> HIDE DEF S
    <3>1. QED
      BY <2>1, <2>2, UpToInduction
  <2>4. QED
    BY <2>3
<1>9. f \in [0..n -> Nat]
  BY <1>6, <1>7, <1>8
<1>10. \A i \in 1..n : f[i] = Sat(f[i - 1] * s[i])
  BY <1>7, <1>8, Between, GuardSaturates
<1>11. QED
  BY <1>5, <1>7, <1>9, <1>10

\* However many limits are multiplied, and in whatever step the product leaves the range
\* of a uint64, the guarded product is the true one, cut off.
LEMMA GuardedProductSaturates ==
    ASSUME NEW s, Len(s) \in Nat, \A i \in 1..Len(s) : s[i] \in Nat
    PROVE  Product(s) \in Nat /\ GuardedProduct(s) = Sat(Product(s))
<1> DEFINE n == Len(s)
<1>1. PICK f \in [0..n -> Nat] :
         /\ f[0] = 1 /\ \A i \in 1..n : f[i] = f[i - 1] * s[i]
         /\ Product(s) = f[n]
  BY ProductUnfolds
<1>2. PICK g \in [0..n -> Nat] :
         /\ g[0] = 1 /\ \A i \in 1..n : g[i] = Sat(g[i - 1] * s[i])
         /\ GuardedProduct(s) = g[n]
  BY GuardedProductUnfolds
<1> DEFINE S == {i \in 0..n : g[i] = Sat(f[i])}
<1>3. 0 \in S
  BY <1>1, <1>2, Limits DEF Sat
<1>4. ASSUME NEW i \in 1..n, i - 1 \in S
      PROVE  i \in S
  <2>1. g[i - 1] = Sat(f[i - 1]) /\ f[i - 1] \in Nat
    BY <1>1, <1>4, Between
  <2>2. g[i] = Sat(Sat(f[i - 1]) * s[i])
    BY <1>2, <2>1
  <2>3. s[i] \in Nat /\ f[i] = f[i - 1] * s[i]
    BY <1>1
  <2>4. g[i] = Sat(f[i])
    BY <2>1, <2>2, <2>3, SatFacts
  <2>5. QED
    BY <2>4, Between
<1>5. 0..n \subseteq S
  <2> HIDE DEF S
  <2>1. QED
    BY <1>3, <1>4, UpToInduction
<1>6. QED
  BY <1>1, <1>2, <1>5

LEMMA PathPartsUnfold ==
    ASSUME NEW p, Len(p) \in Nat, \A i \in 1..Len(p) : PathParts(p[i]) \in Nat
    PROVE  \E f \in [0..Len(p) -> Nat] :
              /\ f[0] = 1 /\ \A i \in 1..Len(p) : f[i] = f[i - 1] + PathParts(p[i])
              /\ CleanPathParts(p) = f[Len(p)]
<1> DEFINE n == Len(p)
           Next1(g) == [i \in 0..n |-> IF i = 0 THEN 1 ELSE g[i - 1] + PathParts(p[i])]
           h == [x \in Nat \X (1..n) |-> x[1] + PathParts(p[x[2]])]
<1>1. h \in [Nat \X (1..n) -> Nat] /\ \A a \in Nat, i \in 1..n : h[<<a, i>>] = a + PathParts(p[i])
  OBVIOUS
<1> HIDE DEF h
<1>2. PICK g \in [0..n -> Nat] : g[0] = 1 /\ \A i \in 1..n : g[i] = h[<<g[i - 1], i>>]
  <2>1. n \in Nat /\ 1 \in Nat
    OBVIOUS
  <2> HIDE DEF n
  <2>2. QED
    BY <1>1, <2>1, StepByStep, ZenonT(60)
<1>3. \A i \in 1..n : g[i] = g[i - 1] + PathParts(p[i])
  BY <1>1, <1>2, Between
<1>4. g = Next1(g)
  BY <1>2, <1>3, Between
<1> DEFINE f == CHOOSE x : x = Next1(x)
<1>5. CleanPathParts(p) = f[n]
  BY DEF CleanPathParts
<1>6. f = Next1(f)
  BY <1>4, Zenon
<1> HIDE DEF f
<1>7. DOMAIN f = 0..n /\ f[0] = 1 /\ \A i \in 1..n : f[i] = f[i - 1] + PathParts(p[i])
  BY <1>6
<1>8. \A i \in 0..n : f[i] \in Nat
  <2> DEFINE S == {i \in 0..n : f[i] \in Nat}
  <2>1. 0 \in S
    BY <1>7
  <2>2. \A i \in 1..n : i - 1 \in S => i \in S
    BY <1>7
  <2>3. 0..n \subseteq S
    <3> HIDE DEF S
    <3>1. QED
      BY <2>1, <2>2, UpToInduction
  <2>4. QED
    BY <2>3
<1>9. f \in [0..n -> Nat]
  BY <1>6, <1>7, <1>8
<1>10. QED
  BY <1>5, <1>7, <1>9

\* The parts of a path are as many as its ancestors iff every step prints as one part.
LEMMA MismatchMeans ==
    ASSUME NEW p, Len(p) \in Nat, \A i \in 1..Len(p) : PathParts(p[i]) \in Nat \ {0}
    PROVE  Mismatch(p) <=> \E i \in 1..Len(p) : PathParts(p[i]) # 1
<1> DEFINE n == Len(p)
<1>1. PICK f \in [0..n -> Nat] :
         /\ f[0] = 1 /\ \A i \in 1..n : f[i] = f[i - 1] + PathParts(p[i])
         /\ CleanPathParts(p) = f[n]
  BY PathPartsUnfold
<1> DEFINE Single(i) == \A j \in 1..i : PathParts(p[j]) = 1
           S == {i \in 0..n : f[i] >= i + 1 /\ (f[i] = i + 1 <=> Single(i))}
<1>2. 0 \in S
  BY <1>1
<1>3. ASSUME NEW i \in 1..n, i - 1 \in S
      PROVE  i \in S
  <2>1. f[i - 1] \in Nat /\ PathParts(p[i]) \in Nat \ {0} /\ i - 1 \in 0..n
    BY <1>1, Between
  <2>2. f[i - 1] >= i /\ (f[i - 1] = i <=> Single(i - 1))
    BY <1>3
  <2>3. Single(i) <=> Single(i - 1) /\ PathParts(p[i]) = 1
    <3>1. 1..i = (1..(i - 1)) \cup {i}
      OBVIOUS
    <3>2. QED
      BY <3>1
  <2>4. f[i] = f[i - 1] + PathParts(p[i])
    BY <1>1
  <2> HIDE DEF Single
  <2>5. f[i] >= i + 1 /\ (f[i] = i + 1 <=> Single(i))
    BY <2>1, <2>2, <2>3, <2>4
  <2>6. QED
    BY <2>5, Between
<1>4. n \in S
  <2>1. n \in 0..n
    OBVIOUS
  <2> HIDE DEF S
  <2>2. QED
    BY <1>2, <1>3, <2>1, UpToInduction
<1>5. QED
  BY <1>1, <1>4 DEF Mismatch

-----------------------------------------------------------------------------
(***************************************************************************)
(* What is computed of one rule.                                           *)
(***************************************************************************)
Cost(schema, p, i) == getExpressionCost(schema[p].rules[i], MaxCardinality(schema, p))

LEMMA RuleFacts ==
    ASSUME NEW schema, WellFormed(schema), NEW p \in DOMAIN schema, NEW i \in DOMAIN schema[p].rules
    PROVE  /\ i \in 1..Len(schema[p].rules) /\ Len(schema[p].rules) \in Nat
           /\ schema[p].rules # <<>> /\ schema[p].present
           /\ schema[p].rules[i].cost \in Nat /\ schema[p].rules[i].times \in Nat
<1>1. schema[p].rules \in Seq(Rule) /\ (schema[p].rules # <<>> => schema[p].present)
  BY DEF WellFormed
<1> DEFINE rules == schema[p].rules
<1> HIDE DEF rules
<1>2. rules \in Seq(Rule) /\ i \in DOMAIN rules
  BY <1>1 DEF rules
<1>3. Len(rules) \in Nat /\ i \in 1..Len(rules) /\ rules # <<>> /\ rules[i] \in Rule
  BY <1>2
<1>4. rules[i].cost \in 0..MaxUint /\ rules[i].times \in 0..MaxUint
  BY <1>3 DEF Rule
<1>5. QED
  BY <1>1, <1>3, <1>4, Limits DEF rules

\* What Validate takes a rule to cost is what it costs, cut off at the largest uint64.
LEMMA CostIsTrue ==
    ASSUME NEW schema, WellFormed(schema), NEW p \in DOMAIN schema, NEW i \in DOMAIN schema[p].rules
    PROVE  /\ MaxCardinality(schema, p) = Unbounded <=> UnboundedAbove(schema, p) # {}
           /\ TrueCost(schema, p, i) \in Nat
           /\ Cost(schema, p, i) = Sat(TrueCost(schema, p, i))
<1> DEFINE cr == schema[p].rules[i]
           limits == LimitsAbove(schema, p)
<1>1. cr.cost \in Nat /\ cr.times \in Nat
  BY RuleFacts
<1> HIDE DEF cr
<1>2. /\ Len(p) \in Nat /\ Len(limits) = Len(p)
      /\ ToSet(Ancestry(p)) = {SubSeq(p, 1, k - 1) : k \in 1..Len(p)}
  <2>1. Len(p) \in Nat
    BY DEF WellFormed
  <2>2. ToSet(Ancestry(p)) = {SubSeq(p, 1, k - 1) : k \in 1..Len(p)}
    BY DEF Ancestry, ToSet
  <2>3. Len(limits) = Len(p)
    BY <2>1 DEF LimitsAbove
  <2>4. QED
    BY <2>1, <2>2, <2>3
<1>3. CASE UnboundedAbove(schema, p) # {}
  <2>1. MaxCardinality(schema, p) = Unbounded
    BY <1>3 DEF MaxCardinality, UnboundedAbove
  <2>2. Cost(schema, p, i) = multiplyWithOverflowGuard(cr.cost, cr.times)
    BY <2>1 DEF Cost, getExpressionCost, cr
  <2>3. TrueCost(schema, p, i) = cr.cost * cr.times
    BY <1>3 DEF TrueCost, cr
  <2>4. QED
    BY <1>1, <1>3, <2>1, <2>2, <2>3, GuardSaturates
<1>4. CASE UnboundedAbove(schema, p) = {}
  <2>1. \A k \in 1..Len(p) : limits[k] \in Nat
    <3> TAKE k \in 1..Len(p)
    <3> DEFINE q == SubSeq(p, 1, k - 1)
    <3>1. q \in ToSet(Ancestry(p)) /\ limits[k] = MaxElements(schema[q])
      BY <1>2 DEF LimitsAbove
    <3>2. q \in DOMAIN schema /\ schema[q].max \in Nat \cup {Unbounded}
      BY DEF WellFormed
    <3>3. MaxElements(schema[q]) # Unbounded
      BY <1>4, <3>1 DEF UnboundedAbove
    <3>4. QED
      BY <3>1, <3>2, <3>3 DEF MaxElements
  <2>2. Product(limits) \in Nat /\ GuardedProduct(limits) = Sat(Product(limits))
    BY <1>2, <2>1, GuardedProductSaturates
  <2>3. MaxCardinality(schema, p) = Sat(Product(limits)) /\ MaxCardinality(schema, p) # Unbounded
    <3>1. MaxCardinality(schema, p) = GuardedProduct(limits)
      BY <1>4 DEF MaxCardinality, UnboundedAbove
    <3>2. Sat(Product(limits)) \in Nat
      BY <2>2, SatFacts, Limits
    <3>3. QED
      BY <2>2, <3>1, <3>2, LimitsAssumption
  <2>4. Cost(schema, p, i) = multiplyWithOverflowGuard(cr.cost, Sat(Product(limits)))
    BY <2>3 DEF Cost, getExpressionCost, cr
  <2>5. TrueCost(schema, p, i) = cr.cost * Product(limits)
    BY <1>4 DEF TrueCost, cr
  <2> DEFINE product == Product(limits)
  <2> HIDE DEF product, limits
  <2>6. Sat(product) \in Nat
    BY <2>2, SatFacts, Limits DEF product
  <2>7. multiplyWithOverflowGuard(cr.cost, Sat(product)) = Sat(cr.cost * product)
    <3>1. multiplyWithOverflowGuard(cr.cost, Sat(product)) = Sat(cr.cost * Sat(product))
      BY <1>1, <2>6, GuardSaturates
    <3>2. Sat(Sat(product) * cr.cost) = Sat(product * cr.cost)
      BY <1>1, <2>2, SatFacts DEF product
    <3>3. cr.cost * Sat(product) = Sat(product) * cr.cost /\ cr.cost * product = product * cr.cost
      BY <1>1, <2>2, <2>6 DEF product
    <3>4. QED
      BY <3>1, <3>2, <3>3
  <2>8. QED
    BY <1>1, <1>4, <2>2, <2>3, <2>4, <2>5, <2>7 DEF product
<1>5. QED
  BY <1>3, <1>4

-----------------------------------------------------------------------------
(***************************************************************************)
(* The control of Validate.                                                *)
(***************************************************************************)
LEMMA JudgedMeans ==
    ASSUME NEW schema
    PROVE  /\ \A p, i : <<p, i>> \in Judged(schema) <=>
                          /\ p \in DOMAIN schema /\ i \in DOMAIN schema[p].rules
                          /\ ~TypeInfoFails(schema, p) /\ schema[p].compiles
           /\ \A j \in Judged(schema) : j = <<j[1], j[2]>>
<1> DEFINE good == {q \in DOMAIN schema : ~TypeInfoFails(schema, q) /\ schema[q].compiles}
           Of(p) == {<<p, i>> : i \in DOMAIN schema[p].rules}
<1>1. Judged(schema) = UNION {Of(p) : p \in good}
  BY Zenon DEF Judged
<1>2. \A p, i, q : <<p, i>> \in Of(q) <=> p = q /\ i \in DOMAIN schema[q].rules
  OBVIOUS
<1>3. \A q : \A j \in Of(q) : j = <<j[1], j[2]>>
  OBVIOUS
<1> HIDE DEF Of
<1>4. QED
  BY <1>1, <1>2, <1>3

Control ==
    /\ existing \in CRDs /\ new \in CRDs
    /\ pc \in {"walk", "rules"} => v \in 1..Len(crd) /\ crd[v].converts
    /\ pc = "rules" => <<at, rule>> \in Judged(current)
    /\ pc = "done" =>
         /\ side = "new" /\ v = Len(crd) + 1
         /\ reported = [kind \in DOMAIN NoResults |->
                          stringDiff(results["new"][kind], results["existing"][kind])]

LEMMA CRDFacts ==
    ASSUME Control
    PROVE  \A s : /\ Len(CRDOf(s)) \in Nat /\ DOMAIN CRDOf(s) = 1..Len(CRDOf(s))
                  /\ \A k \in DOMAIN CRDOf(s) : WellFormed(CRDOf(s)[k].schema)
  BY CRDsAssumption DEF Control, CRDOf

\* The schema and the rules at hand.
LEMMA CurrentFacts ==
    ASSUME Control, pc \in {"walk", "rules"}
    PROVE  WellFormed(current) /\ v \in 1..Len(crd) /\ Len(crd) \in Nat /\ crd[v].converts
  BY CRDFacts DEF Control, crd, current

LEMMA InitControl == Init => TypeOK /\ Control
<1> SUFFICES ASSUME Init PROVE TypeOK /\ Control
  OBVIOUS
<1>1. Len(crd) \in Nat
  BY CRDsAssumption DEF Init, crd, CRDOf
<1>2. QED
  BY <1>1, Limits DEF Init, TypeOK, Control, Sides

\* CRDOf, crd and current are about the same CRD as before.
LEMMA SameCRD ==
    /\ UNCHANGED inputs => \A s : CRDOf(s)' = CRDOf(s)
    /\ UNCHANGED <<inputs, side>> => crd' = crd
    /\ UNCHANGED <<inputs, side, v>> => current' = current
  BY DEF inputs, CRDOf, crd, current

LEMMA Appending ==
    ASSUME DOMAIN results = Sides, side \in Sides, NEW E, NEW W, NEW I, Append3(E, W, I)
    PROVE  /\ DOMAIN results' = Sides
           /\ results'[side].errors = results[side].errors \cup E
           /\ results'[side].warnings = results[side].warnings \cup W
           /\ results'[side].infos = results[side].infos \cup I
           /\ \A s \in Sides : s # side => results'[s] = results[s]
  BY DEF Append3

LEMMA ConvertControl == TypeOK /\ Control /\ Convert => TypeOK' /\ Control'
<1> SUFFICES ASSUME TypeOK, Control, Convert PROVE TypeOK' /\ Control'
  OBVIOUS
<1>1. /\ crd' = crd /\ side' = side /\ existing' = existing /\ new' = new
      /\ pc = "convert" /\ v <= Len(crd) /\ visited' = {} /\ total' = 0
  BY SameCRD DEF Convert, inputs
<1>2. v \in 1..Len(crd) /\ Len(crd) \in Nat
  BY <1>1, CRDFacts DEF TypeOK, crd
<1>3. DOMAIN results' = Sides
  <2>1. PICK E, W, I : Append3(E, W, I)
    BY DEF Convert
  <2>2. QED
    BY <2>1, Appending DEF TypeOK
<1>4. CASE crd[v].converts
  <2>1. pc' = "walk" /\ v' = v
    BY <1>4 DEF Convert
  <2>2. QED
    BY <1>1, <1>2, <1>3, <1>4, <2>1, Limits DEF TypeOK, Control
<1>5. CASE ~crd[v].converts
  <2>1. pc' = "convert" /\ v' = v + 1
    BY <1>1, <1>5 DEF Convert
  <2>2. QED
    BY <1>1, <1>2, <1>3, <2>1, Limits DEF TypeOK, Control
<1>6. QED
  BY <1>4, <1>5

LEMMA PredControl ==
    ASSUME TypeOK, Control, pc = "walk", NEW p \in DOMAIN current, Pred(p)
    PROVE  TypeOK' /\ Control'
<1>1. /\ crd' = crd /\ current' = current /\ side' = side /\ v' = v /\ total' = total
      /\ existing' = existing /\ new' = new /\ visited' = visited \cup {p}
  BY SameCRD DEF Pred, inputs
<1>2. WellFormed(current) /\ v \in 1..Len(crd) /\ Len(crd) \in Nat /\ crd[v].converts
  BY CurrentFacts
<1>3. DOMAIN results' = Sides
  <2>1. PICK E, W, I : Append3(E, W, I)
    BY DEF Pred
  <2>2. QED
    BY <2>1, Appending DEF TypeOK
<1>4. visited' \subseteq DOMAIN current
  BY <1>1 DEF TypeOK
<1> DEFINE typed == current[p].present /\ ~TypeInfoFails(current, p)
<1>5. CASE typed /\ current[p].compiles /\ current[p].rules # <<>>
  <2>1. pc' = "rules" /\ at' = p /\ rule' = 1
    BY <1>5 DEF Pred
  <2>2. current[p].rules \in Seq(Rule)
    BY <1>2 DEF WellFormed
  <2>3. /\ Len(current[p].rules) \in Nat /\ 1 \in 1..Len(current[p].rules)
        /\ DOMAIN current[p].rules = 1..Len(current[p].rules)
    BY <1>5, <2>2
  <2>4. <<p, 1>> \in Judged(current)
    BY <1>5, <2>3, JudgedMeans
  <2>5. QED
    BY <1>1, <1>2, <1>3, <1>4, <2>1, <2>3, <2>4 DEF TypeOK, Control
<1>6. CASE ~(typed /\ current[p].compiles /\ current[p].rules # <<>>)
  <2>1. UNCHANGED <<pc, at, rule>>
    BY <1>6 DEF Pred
  <2>2. QED
    BY <1>1, <1>2, <1>3, <1>4, <2>1 DEF TypeOK, Control
<1>7. QED
  BY <1>5, <1>6

\* The rule at hand, and what its turn of the loop adds to the total.
LEMMA RuleAtHand ==
    ASSUME TypeOK, Control, pc = "rules"
    PROVE  /\ WellFormed(current) /\ at \in DOMAIN current /\ at \in visited
           /\ rule \in DOMAIN current[at].rules /\ rule \in 1..Len(current[at].rules)
           /\ DOMAIN current[at].rules = 1..Len(current[at].rules) /\ Len(current[at].rules) \in Nat
           /\ ~TypeInfoFails(current, at) /\ current[at].compiles
<1>1. WellFormed(current)
  BY CurrentFacts
<1>2. /\ at \in DOMAIN current /\ rule \in DOMAIN current[at].rules
      /\ ~TypeInfoFails(current, at) /\ current[at].compiles
  BY JudgedMeans DEF Control
<1>3. current[at].rules \in Seq(Rule)
  BY <1>1, <1>2 DEF WellFormed
<1>4. DOMAIN current[at].rules = 1..Len(current[at].rules) /\ Len(current[at].rules) \in Nat
  BY <1>3
<1>5. QED
  BY <1>1, <1>2, <1>4 DEF TypeOK

LEMMA CheckRuleControl == TypeOK /\ Control /\ CheckRule => TypeOK' /\ Control'
<1> SUFFICES ASSUME TypeOK, Control, CheckRule PROVE TypeOK' /\ Control'
  OBVIOUS
<1>1. /\ crd' = crd /\ current' = current /\ side' = side /\ v' = v /\ at' = at
      /\ existing' = existing /\ new' = new /\ visited' = visited /\ pc = "rules"
  BY SameCRD DEF CheckRule, inputs
<1>2. /\ WellFormed(current) /\ at \in DOMAIN current /\ at \in visited
      /\ rule \in DOMAIN current[at].rules /\ rule \in 1..Len(current[at].rules)
      /\ DOMAIN current[at].rules = 1..Len(current[at].rules) /\ Len(current[at].rules) \in Nat
      /\ ~TypeInfoFails(current, at) /\ current[at].compiles
  BY <1>1, RuleAtHand
<1>3. v \in 1..Len(crd) /\ Len(crd) \in Nat /\ crd[v].converts
  BY <1>1, CurrentFacts
<1>4. DOMAIN results' = Sides
  <2>1. PICK E, W, I : Append3(E, W, I)
    BY DEF CheckRule
  <2>2. QED
    BY <2>1, Appending DEF TypeOK
<1>5. total' \in 0..MaxUint
  <2> DEFINE cost == Cost(current, at, rule)
  <2>1. total' = ObserveExpressionCost(total, cost)
    BY DEF CheckRule, Cost
  <2>2. cost \in 0..MaxUint
    BY <1>2, CostIsTrue, SatFacts
  <2> HIDE DEF cost
  <2>3. QED
    BY <2>1, <2>2, Limits DEF ObserveExpressionCost, TypeOK
<1>6. CASE rule < Len(current[at].rules)
  <2>1. rule' = rule + 1 /\ pc' = "rules"
    BY <1>1, <1>6 DEF CheckRule, Advance
  <2>2. rule + 1 \in 1..Len(current[at].rules)
    BY <1>2, <1>6
  <2>3. <<at, rule + 1>> \in Judged(current)
    BY <1>2, <2>2, JudgedMeans
  <2>4. QED
    BY <1>1, <1>2, <1>3, <1>4, <1>5, <2>1, <2>2, <2>3 DEF TypeOK, Control
<1>7. CASE ~(rule < Len(current[at].rules))
  <2>1. rule' = 0 /\ pc' = "walk"
    BY <1>7 DEF CheckRule, Advance
  <2>2. QED
    BY <1>1, <1>2, <1>3, <1>4, <1>5, <2>1 DEF TypeOK, Control
<1>8. QED
  BY <1>6, <1>7

LEMMA TotalControl == TypeOK /\ Control /\ Total => TypeOK' /\ Control'
<1> SUFFICES ASSUME TypeOK, Control, Total PROVE TypeOK' /\ Control'
  OBVIOUS
<1>1. /\ crd' = crd /\ side' = side /\ v' = v + 1 /\ total' = total
      /\ existing' = existing /\ new' = new /\ pc = "walk" /\ pc' = "convert"
  BY SameCRD DEF Total, inputs
<1>2. v \in 1..Len(crd) /\ Len(crd) \in Nat
  BY <1>1, CurrentFacts
<1>3. DOMAIN results' = Sides
  <2>1. PICK E, W, I : Append3(E, W, I)
    BY DEF Total
  <2>2. QED
    BY <2>1, Appending DEF TypeOK
<1>4. QED
  BY <1>1, <1>2, <1>3 DEF TypeOK, Control

LEMMA ExistingDoneControl == TypeOK /\ Control /\ ExistingDone => TypeOK' /\ Control'
<1> SUFFICES ASSUME TypeOK, Control, ExistingDone PROVE TypeOK' /\ Control'
  OBVIOUS
<1>1. /\ side' = "new" /\ v' = 1 /\ total' = total /\ results' = results
      /\ existing' = existing /\ new' = new /\ pc' = "convert"
  BY DEF ExistingDone, inputs
<1>2. Len(crd') \in Nat
  BY <1>1, CRDsAssumption DEF Control, crd, CRDOf
<1>3. QED
  BY <1>1, <1>2 DEF TypeOK, Control, Sides

LEMMA RatchetControl == TypeOK /\ Control /\ Ratchet => TypeOK' /\ Control'
<1> SUFFICES ASSUME TypeOK, Control, Ratchet PROVE TypeOK' /\ Control'
  OBVIOUS
<1>1. /\ side' = side /\ side = "new" /\ v' = v /\ total' = total /\ results' = results
      /\ existing' = existing /\ new' = new /\ pc' = "done" /\ crd' = crd
      /\ v = Len(crd) + 1
      /\ reported' = [kind \in DOMAIN NoResults |->
                        stringDiff(results["new"][kind], results["existing"][kind])]
  BY SameCRD DEF Ratchet, inputs
<1>2. QED
  BY <1>1 DEF TypeOK, Control

LEMMA StutterControl == TypeOK /\ Control /\ UNCHANGED vars => TypeOK' /\ Control'
  BY SameCRD DEF TypeOK, Control, vars, inputs

\* The variables keep their types, for CRDs of any shape and integers of any width: a
\* total stays a uint64, and the loop over the rules stays within them.
THEOREM BudgetTypeCorrect == Spec => []TypeOK
<1>1. TypeOK /\ Control /\ [Next]_vars => TypeOK' /\ Control'
  BY ConvertControl, PredControl, CheckRuleControl, TotalControl, ExistingDoneControl,
     RatchetControl, StutterControl DEF Next, Done
<1>2. QED
  BY InitControl, <1>1, PTL DEF Spec

-----------------------------------------------------------------------------
(***************************************************************************)
(* How far Validate has come: the versions it is through with, and the     *)
(* rules of a version that it has judged.                                  *)
(***************************************************************************)
Through(s, k) == (s = "existing" /\ side = "new") \/ (s = side /\ k < v)

Passed(p, i) == p \in visited /\ ~(pc = "rules" /\ p = at /\ i >= rule)

AtHand(s, k) == s = side /\ k = v /\ pc \in {"walk", "rules"}

JudgedSoFar(s, k) ==
    {j \in Judged(CRDOf(s)[k].schema) :
        Through(s, k) \/ (AtHand(s, k) /\ Passed(j[1], j[2]))}

Converting(s) == {k \in DOMAIN CRDOf(s) : CRDOf(s)[k].converts}

\* What a step does to them: most steps leave them alone, ...
NothingJudged ==
    \A s \in Sides : /\ CRDOf(s)' = CRDOf(s)
                     /\ \A k \in Converting(s) : JudgedSoFar(s, k)' = JudgedSoFar(s, k)

LEMMA ConvertJudges == TypeOK /\ Control /\ Convert => NothingJudged
<1> SUFFICES ASSUME TypeOK, Control, Convert, NEW s \in Sides, NEW k \in Converting(s)
             PROVE  JudgedSoFar(s, k)' = JudgedSoFar(s, k)
  BY SameCRD DEF NothingJudged, Convert
<1>1. CRDOf(s)' = CRDOf(s) /\ side' = side /\ pc = "convert" /\ visited' = {}
  BY SameCRD DEF Convert
<1>2. k \in Nat /\ v \in Nat
  BY CRDFacts DEF Converting, TypeOK, crd
<1>3. CASE crd[v].converts
  <2>1. v' = v /\ pc' = "walk"
    BY <1>3 DEF Convert
  <2>2. QED
    BY <1>1, <2>1 DEF JudgedSoFar, Through, AtHand, Passed
<1>4. CASE ~crd[v].converts
  <2>1. v' = v + 1 /\ pc' = "convert"
    BY <1>1, <1>4 DEF Convert
  <2>2. s = side => k # v
    BY <1>4 DEF Converting, crd
  <2>3. Through(s, k)' <=> Through(s, k)
    BY <1>1, <1>2, <2>1, <2>2 DEF Through
  <2>4. QED
    BY <1>1, <2>1, <2>3 DEF JudgedSoFar, AtHand
<1>5. QED
  BY <1>3, <1>4

LEMMA PredJudges ==
    ASSUME TypeOK, Control, pc = "walk", NEW p \in DOMAIN current, Pred(p)
    PROVE  NothingJudged
<1> SUFFICES ASSUME NEW s \in Sides, NEW k \in Converting(s)
             PROVE  JudgedSoFar(s, k)' = JudgedSoFar(s, k)
  BY SameCRD DEF NothingJudged, Pred
<1>1. /\ CRDOf(s)' = CRDOf(s) /\ side' = side /\ v' = v /\ visited' = visited \cup {p}
      /\ p \notin visited /\ WellFormed(current)
  BY SameCRD, CurrentFacts DEF Pred
<1>2. /\ Through(s, k)' <=> Through(s, k)
      /\ AtHand(s, k)' <=> AtHand(s, k)
  BY <1>1 DEF Through, AtHand, Pred
<1>3. ASSUME AtHand(s, k), NEW j \in Judged(CRDOf(s)[k].schema)
      PROVE  Passed(j[1], j[2])' <=> Passed(j[1], j[2])
  <2>1. CRDOf(s)[k].schema = current
    BY <1>3 DEF AtHand, current, crd
  <2>2. /\ j[1] \in DOMAIN current /\ j[2] \in DOMAIN current[j[1]].rules
        /\ ~TypeInfoFails(current, j[1]) /\ current[j[1]].compiles
    BY <2>1, JudgedMeans
  <2>3. j[2] \in 1..Len(current[j[1]].rules) /\ current[j[1]].rules # <<>> /\ current[j[1]].present
    BY <1>1, <2>2, RuleFacts
  <2>4. CASE j[1] = p
    <3>1. pc' = "rules" /\ at' = p /\ rule' = 1
      BY <2>2, <2>3, <2>4 DEF Pred
    <3>2. j[2] >= 1
      BY <2>3
    <3>3. QED
      BY <1>1, <2>4, <3>1, <3>2 DEF Passed
  <2>5. CASE j[1] # p
    <3>1. at' = p \/ pc' = "walk"
      BY DEF Pred
    <3>2. QED
      BY <1>1, <2>5, <3>1 DEF Passed
  <2>6. QED
    BY <2>4, <2>5
<1>4. QED
  BY <1>1, <1>2, <1>3 DEF JudgedSoFar

LEMMA TotalJudges == TypeOK /\ Control /\ Total => NothingJudged
<1> SUFFICES ASSUME TypeOK, Control, Total, NEW s \in Sides, NEW k \in Converting(s)
             PROVE  JudgedSoFar(s, k)' = JudgedSoFar(s, k)
  BY SameCRD DEF NothingJudged, Total
<1>1. /\ CRDOf(s)' = CRDOf(s) /\ side' = side /\ pc = "walk" /\ pc' = "convert"
      /\ v' = v + 1 /\ visited = DOMAIN current
  BY SameCRD DEF Total
<1>2. k \in Nat /\ v \in Nat
  BY CRDFacts DEF Converting, TypeOK, crd
<1>3. CASE AtHand(s, k)
  <2>1. CRDOf(s)[k].schema = current
    BY <1>3 DEF AtHand, current, crd
  <2>2. \A j \in Judged(current) : Passed(j[1], j[2])
    BY <1>1, JudgedMeans DEF Passed
  <2>3. Through(s, k)'
    BY <1>1, <1>2, <1>3 DEF Through, AtHand
  <2>4. QED
    BY <1>1, <1>3, <2>1, <2>2, <2>3 DEF JudgedSoFar
<1>4. CASE ~AtHand(s, k)
  <2>1. Through(s, k)' <=> Through(s, k)
    BY <1>1, <1>2, <1>4 DEF Through, AtHand
  <2>2. QED
    BY <1>1, <1>4, <2>1 DEF JudgedSoFar, AtHand
<1>5. QED
  BY <1>3, <1>4

LEMMA ExistingDoneJudges == TypeOK /\ Control /\ ExistingDone => NothingJudged
<1> SUFFICES ASSUME TypeOK, Control, ExistingDone, NEW s \in Sides, NEW k \in Converting(s)
             PROVE  JudgedSoFar(s, k)' = JudgedSoFar(s, k)
  BY SameCRD DEF NothingJudged, ExistingDone
<1>1. /\ CRDOf(s)' = CRDOf(s) /\ side = "existing" /\ side' = "new" /\ pc = "convert"
      /\ pc' = "convert" /\ v = Len(crd) + 1 /\ v' = 1
  BY SameCRD DEF ExistingDone
<1>2. Len(CRDOf(s)) \in Nat /\ k \in 1..Len(CRDOf(s))
  BY CRDFacts DEF Converting
<1>3. Through(s, k)' <=> Through(s, k)
  BY <1>1, <1>2 DEF Through, Sides, crd
<1>4. QED
  BY <1>1, <1>3 DEF JudgedSoFar, AtHand

LEMMA RatchetJudges == TypeOK /\ Control /\ Ratchet => NothingJudged
<1> SUFFICES ASSUME TypeOK, Control, Ratchet, NEW s \in Sides, NEW k \in Converting(s)
             PROVE  JudgedSoFar(s, k)' = JudgedSoFar(s, k)
  BY SameCRD DEF NothingJudged, Ratchet
<1>1. /\ CRDOf(s)' = CRDOf(s) /\ side' = side /\ pc = "convert" /\ pc' = "done" /\ v' = v
  BY SameCRD DEF Ratchet
<1>2. QED
  BY <1>1 DEF JudgedSoFar, Through, AtHand

\* ... and a turn of the loop adds the rule at hand.
LEMMA CheckRuleJudges ==
    ASSUME TypeOK, Control, CheckRule
    PROVE  \A s \in Sides :
             /\ CRDOf(s)' = CRDOf(s)
             /\ \A k \in Converting(s) :
                  /\ ~AtHand(s, k) => JudgedSoFar(s, k)' = JudgedSoFar(s, k)
                  /\ AtHand(s, k) => /\ JudgedSoFar(s, k)' = JudgedSoFar(s, k) \cup {<<at, rule>>}
                                     /\ <<at, rule>> \notin JudgedSoFar(s, k)
<1> SUFFICES ASSUME NEW s \in Sides, NEW k \in Converting(s)
             PROVE  /\ ~AtHand(s, k) => JudgedSoFar(s, k)' = JudgedSoFar(s, k)
                    /\ AtHand(s, k) => /\ JudgedSoFar(s, k)' = JudgedSoFar(s, k) \cup {<<at, rule>>}
                                       /\ <<at, rule>> \notin JudgedSoFar(s, k)
  BY SameCRD DEF CheckRule
<1>1. /\ CRDOf(s)' = CRDOf(s) /\ side' = side /\ v' = v /\ visited' = visited /\ at' = at
      /\ pc = "rules"
  BY SameCRD DEF CheckRule
<1>2. /\ at \in visited /\ rule \in 1..Len(current[at].rules) /\ Len(current[at].rules) \in Nat
      /\ <<at, rule>> \in Judged(current) /\ WellFormed(current)
  BY <1>1, RuleAtHand DEF Control
<1>3. \/ pc' = "rules" /\ rule' = rule + 1
      \/ pc' = "walk" /\ rule = Len(current[at].rules)
  <2>1. Advance
    BY DEF CheckRule
  <2>2. CASE rule < Len(current[at].rules)
    BY <1>1, <2>1, <2>2 DEF Advance
  <2>3. CASE ~(rule < Len(current[at].rules))
    <3>1. rule = Len(current[at].rules)
      BY <1>2, <2>3
    <3>2. QED
      BY <2>1, <2>3, <3>1 DEF Advance
  <2>4. QED
    BY <2>2, <2>3
<1>4. /\ Through(s, k)' <=> Through(s, k)
      /\ AtHand(s, k)' <=> AtHand(s, k)
  BY <1>1, <1>3 DEF Through, AtHand
<1>5. CASE ~AtHand(s, k)
  BY <1>1, <1>4, <1>5 DEF JudgedSoFar
<1>6. CASE AtHand(s, k)
  <2>1. CRDOf(s)[k].schema = current /\ ~Through(s, k)
    <3>1. v \in Nat
      BY CRDFacts DEF TypeOK, crd
    <3>2. QED
      BY <1>6, <3>1 DEF AtHand, current, crd, Through
  <2>2. ASSUME NEW j \in Judged(current)
        PROVE  Passed(j[1], j[2])' <=> Passed(j[1], j[2]) \/ j = <<at, rule>>
    <3>1. j = <<j[1], j[2]>> /\ j[1] \in DOMAIN current /\ j[2] \in DOMAIN current[j[1]].rules
      BY JudgedMeans
    <3>2. j[2] \in 1..Len(current[j[1]].rules)
      BY <1>2, <3>1, RuleFacts
    <3>3. j = <<at, rule>> <=> j[1] = at /\ j[2] = rule
      BY <3>1
    <3> HIDE DEF Passed
    <3>4. CASE j[1] = at
      BY <1>1, <1>2, <1>3, <3>2, <3>3, <3>4 DEF Passed
    <3>5. CASE j[1] # at
      BY <1>1, <1>3, <3>3, <3>5 DEF Passed
    <3>6. QED
      BY <3>4, <3>5
  <2>3. ~Passed(at, rule)
    BY <1>1, <1>2 DEF Passed
  <2>4. JudgedSoFar(s, k) = {j \in Judged(current) : Passed(j[1], j[2])}
    BY <1>6, <2>1 DEF JudgedSoFar
  <2>5. JudgedSoFar(s, k)' = {j \in Judged(current) : Passed(j[1], j[2])'}
    BY <1>1, <1>4, <1>6, <2>1 DEF JudgedSoFar
  <2>6. JudgedSoFar(s, k)' = JudgedSoFar(s, k) \cup {<<at, rule>>}
    BY <1>2, <2>2, <2>4, <2>5
  <2>7. <<at, rule>> \notin JudgedSoFar(s, k)
    BY <2>3, <2>4
  <2>8. QED
    BY <1>6, <2>6, <2>7
<1>7. QED
  BY <1>5, <1>6

-----------------------------------------------------------------------------
(***************************************************************************)
(* What the results say of the rules that have been judged.                *)
(***************************************************************************)
RC == "estimated rule cost"

Told(res, schema, p, i) ==
    LET cr == schema[p].rules[i]
        cost == Cost(schema, p, i)
    IN  /\ cost > Limit => p \in Blamed(res.errors, RC)
        /\ ~cr.error => <<"cost", SimpleLocation(p), i, cr.cost, cost, Percent(cost)>> \in res.infos
        /\ MaxCardinality(schema, p) = Unbounded =>
             /\ <<"unbounded", SimpleLocation(p), getUnboundedParentFields(schema, p), cr.times>>
                   \in res.warnings
             /\ Mismatch(p) => <<"mismatch">> \in res.errors

AllTold ==
    \A s \in Sides : \A k \in Converting(s) : \A j \in JudgedSoFar(s, k) :
        Told(results[s], CRDOf(s)[k].schema, j[1], j[2])

\* And that nothing is said that no rule gives a reason for.
Meant(s) ==
    /\ \A p \in Blamed(results[s].errors, RC) :
         \E k \in Converting(s) : \E j \in Judged(CRDOf(s)[k].schema) :
            j[1] = p /\ Cost(CRDOf(s)[k].schema, p, j[2]) > Limit
    /\ <<"mismatch">> \in results[s].errors =>
         \E k \in Converting(s) : \E j \in Judged(CRDOf(s)[k].schema) :
            MaxCardinality(CRDOf(s)[k].schema, j[1]) = Unbounded /\ Mismatch(j[1])
    /\ \A info \in results[s].infos :
         info[1] = "cost" /\ info[5] > Limit =>
            \E p \in Blamed(results[s].errors, RC) : SimpleLocation(p) = info[2]

AllMeant == \A s \in Sides : Meant(s)

LEMMA BlamedMeans ==
    ASSUME NEW E, NEW name
    PROVE  \A p : p \in Blamed(E, name) <=> \E e \in E : e[1] = name /\ e[2] = p
  BY DEF Blamed

\* Messages are only ever added.
Grows ==
    \A s \in Sides : /\ results[s].errors \subseteq results'[s].errors
                     /\ results[s].warnings \subseteq results'[s].warnings
                     /\ results[s].infos \subseteq results'[s].infos

LEMMA AppendGrows ==
    ASSUME TypeOK, NEW E, NEW W, NEW I, Append3(E, W, I)
    PROVE  Grows
<1>1. DOMAIN results = Sides /\ side \in Sides
  BY DEF TypeOK
<1>2. QED
  BY <1>1, Appending DEF Grows

LEMMA ToldGrows ==
    ASSUME Grows, NEW s \in Sides, NEW schema, NEW p, NEW i, Told(results[s], schema, p, i)
    PROVE  Told(results'[s], schema, p, i)
<1>1. Blamed(results[s].errors, RC) \subseteq Blamed(results'[s].errors, RC)
  BY BlamedMeans DEF Grows
<1>2. /\ results[s].errors \subseteq results'[s].errors
      /\ results[s].warnings \subseteq results'[s].warnings
      /\ results[s].infos \subseteq results'[s].infos
  BY DEF Grows
<1>3. QED
  BY <1>1, <1>2 DEF Told

LEMMA AllToldKept ==
    ASSUME AllTold, NothingJudged, Grows
    PROVE  AllTold'
<1> SUFFICES ASSUME NEW s \in Sides, NEW k \in Converting(s)', NEW j \in JudgedSoFar(s, k)'
             PROVE  Told(results'[s], CRDOf(s)'[k].schema, j[1], j[2])
  BY DEF AllTold, Told, Sides
<1>1. CRDOf(s)' = CRDOf(s) /\ k \in Converting(s)
  BY DEF NothingJudged, Converting
<1>2. j \in JudgedSoFar(s, k)
  BY <1>1 DEF NothingJudged
<1>3. QED
  BY <1>1, <1>2, ToldGrows DEF AllTold

\* Messages about something else give nothing away.
LEMMA QuietMeant ==
    ASSUME TypeOK, AllMeant, UNCHANGED inputs, NEW E, NEW W, NEW I, Append3(E, W, I),
           \A e \in E : e[1] \notin {RC, "mismatch"}, \A x \in I : x[1] # "cost"
    PROVE  AllMeant'
<1> SUFFICES ASSUME NEW s \in Sides PROVE Meant(s)'
  BY DEF AllMeant, Sides
<1>1. CRDOf(s)' = CRDOf(s) /\ Converting(s)' = Converting(s)
  BY SameCRD DEF Converting
<1>2. Meant(s)
  BY DEF AllMeant
<1>3. DOMAIN results = Sides /\ side \in Sides
  BY DEF TypeOK
<1>4. CASE s # side
  <2>1. results'[s] = results[s]
    BY <1>3, <1>4, Appending
  <2>2. QED
    BY <1>1, <1>2, <2>1 DEF Meant
<1>5. CASE s = side
  <2>1. results'[s].errors = results[s].errors \cup E /\ results'[s].infos = results[s].infos \cup I
    BY <1>3, <1>5, Appending
  <2>2. Blamed(results'[s].errors, RC) = Blamed(results[s].errors, RC)
    <3> DEFINE old == results[s].errors
    <3>1. \A e \in E : e[1] # RC
      OBVIOUS
    <3> HIDE DEF old
    <3>2. Blamed(old \cup E, RC) = Blamed(old, RC)
      <4>1. {x \in old \cup E : x[1] = RC} = {x \in old : x[1] = RC}
        BY <3>1
      <4>2. QED
        BY <4>1, Zenon DEF Blamed
    <3>3. QED
      BY <2>1, <3>2 DEF old
  <2>3. <<"mismatch">> \in results'[s].errors => <<"mismatch">> \in results[s].errors
    <3>1. <<"mismatch">>[1] = "mismatch"
      OBVIOUS
    <3>2. QED
      BY <2>1, <3>1
  <2>4. \A info \in results'[s].infos : info[1] = "cost" => info \in results[s].infos
    BY <2>1
  <2>5. QED
    BY <1>1, <1>2, <2>2, <2>3, <2>4 DEF Meant
<1>6. QED
  BY <1>4, <1>5

TC == "total CRD cost"

\* What a turn of the loop over the rules appends.
RuleSays(E, W, I) ==
    LET cr == current[at].rules[rule]
        cost == Cost(current, at, rule)
    IN  /\ cost > Limit => \E e \in E : e[1] = RC /\ e[2] = at
        /\ \A e \in E : /\ e[1] = RC => e[2] = at /\ cost > Limit
                        /\ e[1] = "mismatch" => MaxCardinality(current, at) = Unbounded /\ Mismatch(at)
                        /\ e[1] # TC
        /\ ~cr.error => <<"cost", SimpleLocation(at), rule, cr.cost, cost, Percent(cost)>> \in I
        /\ \A x \in I : x[1] = "cost" => x[2] = SimpleLocation(at) /\ x[5] = cost
        /\ MaxCardinality(current, at) = Unbounded =>
             /\ <<"unbounded", SimpleLocation(at), getUnboundedParentFields(current, at), cr.times>> \in W
             /\ Mismatch(at) => <<"mismatch">> \in E

LEMMA CheckRuleSays ==
    ASSUME CheckRule
    PROVE  \E E, W, I : Append3(E, W, I) /\ RuleSays(E, W, I)
<1> DEFINE cr == current[at].rules[rule]
           cardinality == MaxCardinality(current, at)
           cost == Cost(current, at, rule)
           here == SimpleLocation(at)
           E1 == When(cardinality = Unbounded /\ Mismatch(at), <<"mismatch">>)
           E2 == When(cost > Limit, CostError("estimated rule cost", at, cost, Limit))
           E3 == When(cr.error, <<"invalid", at, cr>>)
           E4 == When(cr.message = "invalid", <<"messageExpression", at, cr>>)
           E5 == When(cr.message = "valid" /\ cr.messageCost > Limit,
                      CostError("estimated messageExpression cost", at, cr.messageCost, Limit))
           W == When(cardinality = Unbounded, <<"unbounded", here, getUnboundedParentFields(current, at), cr.times>>)
           I1 == When(cardinality # Unbounded, <<"cardinality", here, cardinality>>)
           I2 == When(~cr.error, <<"cost", here, rule, cr.cost, cost, Percent(cost)>>)
           E == E1 \cup E2 \cup E3 \cup E4 \cup E5
           I == I1 \cup I2
<1>1. Append3(E, W, I)
  BY DEF CheckRule, Cost
<1> HIDE DEF cost, cardinality, here, cr
<1>2. /\ \A e \in E1 : e[1] = "mismatch" /\ cardinality = Unbounded /\ Mismatch(at)
      /\ cardinality = Unbounded /\ Mismatch(at) => <<"mismatch">> \in E1
  BY DEF When
<1>3. /\ \A e \in E2 : e[1] = RC /\ e[2] = at /\ cost > Limit
      /\ cost > Limit => \E e \in E2 : e[1] = RC /\ e[2] = at
  <2> DEFINE factor == Factor(cost, Limit)
             m == <<"estimated rule cost", at, factor>>
  <2>0. CostError("estimated rule cost", at, cost, Limit) = m
    BY DEF CostError
  <2> HIDE DEF factor
  <2>1. m[1] = RC /\ m[2] = at
    BY DEF RC
  <2> HIDE DEF m
  <2>2. E2 = IF cost > Limit THEN {m} ELSE {}
    BY <2>0 DEF When
  <2>3. QED
    BY <2>1, <2>2
<1>4. /\ \A e \in E3 : e[1] = "invalid"
      /\ \A e \in E4 : e[1] = "messageExpression"
      /\ \A e \in E5 : e[1] = "estimated messageExpression cost"
  <2>1. /\ \A e \in E3 : e[1] = "invalid"
        /\ \A e \in E4 : e[1] = "messageExpression"
    BY DEF When
  <2>2. ASSUME NEW e \in E5 PROVE e[1] = "estimated messageExpression cost"
    <3> DEFINE factor == Factor(cr.messageCost, Limit)
               m == <<"estimated messageExpression cost", at, factor>>
    <3>1. CostError("estimated messageExpression cost", at, cr.messageCost, Limit) = m
      BY DEF CostError
    <3> HIDE DEF factor
    <3>2. m[1] = "estimated messageExpression cost"
      OBVIOUS
    <3> HIDE DEF m
    <3>3. \A x \in E5 : x = m
      BY <3>1 DEF When
    <3>4. QED
      BY <3>2, <3>3
  <2>3. QED
    BY <2>1, <2>2
<1>5. cardinality = Unbounded =>
         <<"unbounded", here, getUnboundedParentFields(current, at), cr.times>> \in W
  BY DEF When
<1>6. /\ \A x \in I1 : x[1] = "cardinality"
      /\ \A x \in I2 : x[2] = here /\ x[5] = cost
      /\ ~cr.error => <<"cost", here, rule, cr.cost, cost, Percent(cost)>> \in I2
  BY DEF When
<1> HIDE DEF E1, E2, E3, E4, E5, W, I1, I2
<1>7. /\ cost > Limit => \E e \in E : e[1] = RC /\ e[2] = at
      /\ \A e \in E : /\ e[1] = RC => e[2] = at /\ cost > Limit
                      /\ e[1] = "mismatch" => cardinality = Unbounded /\ Mismatch(at)
                      /\ e[1] # TC
      /\ cardinality = Unbounded /\ Mismatch(at) => <<"mismatch">> \in E
  <2>1. cost > Limit => \E e \in E : e[1] = RC /\ e[2] = at
    BY <1>3
  <2>2. ASSUME NEW e \in E
        PROVE  /\ e[1] = RC => e[2] = at /\ cost > Limit
               /\ e[1] = "mismatch" => cardinality = Unbounded /\ Mismatch(at)
               /\ e[1] # TC
    BY <1>2, <1>3, <1>4 DEF RC, TC
  <2>3. QED
    BY <1>2, <2>1, <2>2
<1>8. /\ \A x \in I : x[1] = "cost" => x[2] = here /\ x[5] = cost
      /\ ~cr.error => <<"cost", here, rule, cr.cost, cost, Percent(cost)>> \in I
  BY <1>6
<1> HIDE DEF E, I
<1>9. RuleSays(E, W, I)
  BY <1>5, <1>7, <1>8, Zenon DEF RuleSays, cr, cost, cardinality, here
<1>10. QED
  BY <1>1, <1>9

LEMMA CheckRuleTells ==
    ASSUME TypeOK, Control, AllTold, AllMeant, CheckRule
    PROVE  AllTold' /\ AllMeant'
<1>1. PICK E, W, I : Append3(E, W, I) /\ RuleSays(E, W, I)
  BY CheckRuleSays
<1>2. DOMAIN results = Sides /\ side \in Sides
  BY DEF TypeOK
<1>3. Grows
  BY <1>1, AppendGrows
<1>4. /\ results'[side].errors = results[side].errors \cup E
      /\ results'[side].warnings = results[side].warnings \cup W
      /\ results'[side].infos = results[side].infos \cup I
      /\ \A s \in Sides : s # side => results'[s] = results[s]
  BY <1>1, <1>2, Appending
<1>5. /\ \A s \in Sides : CRDOf(s)' = CRDOf(s) /\ Converting(s)' = Converting(s)
      /\ v \in Converting(side) /\ CRDOf(side)[v].schema = current /\ <<at, rule>> \in Judged(current)
  <2>1. UNCHANGED inputs /\ pc = "rules"
    BY DEF CheckRule
  <2>2. v \in DOMAIN CRDOf(side) /\ CRDOf(side)[v].converts
    BY <2>1, CRDFacts DEF Control, crd
  <2>3. QED
    BY <2>1, <2>2, SameCRD DEF Converting, Control, crd, current
<1> DEFINE cost == Cost(current, at, rule)
           cr == current[at].rules[rule]
<1>6. /\ cost > Limit => at \in Blamed(results'[side].errors, RC)
      /\ Told(results'[side], current, at, rule)
  <2>1. /\ E \subseteq results'[side].errors /\ W \subseteq results'[side].warnings
        /\ I \subseteq results'[side].infos
    BY <1>4
  <2>2. cost > Limit => at \in Blamed(results'[side].errors, RC)
    <3>1. cost > Limit => \E e \in E : e[1] = RC /\ e[2] = at
      BY <1>1, Zenon DEF RuleSays
    <3> HIDE DEF cost
    <3>2. QED
      BY <2>1, <3>1, BlamedMeans
  <2>3. ~cr.error => <<"cost", SimpleLocation(at), rule, cr.cost, cost, Percent(cost)>> \in results'[side].infos
    <3>1. ~cr.error => <<"cost", SimpleLocation(at), rule, cr.cost, cost, Percent(cost)>> \in I
      BY <1>1, Zenon DEF RuleSays
    <3>2. QED
      BY <2>1, <3>1, Zenon
  <2>4. MaxCardinality(current, at) = Unbounded =>
          /\ <<"unbounded", SimpleLocation(at), getUnboundedParentFields(current, at), cr.times>>
                \in results'[side].warnings
          /\ Mismatch(at) => <<"mismatch">> \in results'[side].errors
    <3>1. MaxCardinality(current, at) = Unbounded =>
             /\ <<"unbounded", SimpleLocation(at), getUnboundedParentFields(current, at), cr.times>> \in W
             /\ Mismatch(at) => <<"mismatch">> \in E
      BY <1>1, Zenon DEF RuleSays
    <3>2. QED
      BY <2>1, <3>1, Zenon
  <2>5. QED
    BY <2>2, <2>3, <2>4, Zenon DEF Told
<1>7. AllTold'
  <2> SUFFICES ASSUME NEW s \in Sides, NEW k \in Converting(s)', NEW j \in JudgedSoFar(s, k)'
               PROVE  Told(results'[s], CRDOf(s)'[k].schema, j[1], j[2])
    BY DEF AllTold, Told, Sides
  <2>1. CRDOf(s)' = CRDOf(s) /\ k \in Converting(s)
    BY <1>5
  <2>2. CASE j \in JudgedSoFar(s, k)
    BY <1>3, <2>1, <2>2, ToldGrows DEF AllTold
  <2>3. CASE j \notin JudgedSoFar(s, k)
    <3>1. AtHand(s, k) /\ j = <<at, rule>>
      BY <2>1, <2>3, CheckRuleJudges
    <3>2. s = side /\ CRDOf(s)[k].schema = current /\ j[1] = at /\ j[2] = rule
      BY <1>5, <3>1 DEF AtHand
    <3>3. QED
      BY <1>6, <2>1, <3>2
  <2>4. QED
    BY <2>2, <2>3
<1>8. ASSUME NEW s \in Sides
      PROVE  Meant(s)'
  <2>1. CRDOf(s)' = CRDOf(s) /\ Converting(s)' = Converting(s)
    BY <1>5
  <2>2. Meant(s)
    BY DEF AllMeant
  <2>3. CASE s # side
    <3>1. results'[s] = results[s]
      BY <1>4, <2>3
    <3>2. QED
      BY <2>1, <2>2, <3>1 DEF Meant
  <2>4. CASE s = side
    <3>1. /\ \A e \in E : e[1] = RC => e[2] = at /\ Cost(current, at, rule) > Limit
          /\ \A e \in E : e[1] = "mismatch" => MaxCardinality(current, at) = Unbounded /\ Mismatch(at)
      BY <1>1, Zenon DEF RuleSays
    <3>2. \A x \in I : x[1] = "cost" => x[2] = SimpleLocation(at) /\ x[5] = cost
      BY <1>1, Zenon DEF RuleSays
    <3>3. v \in Converting(s) /\ CRDOf(s)[v].schema = current /\ <<at, rule>> \in Judged(current)
      BY <1>5, <2>4
    <3>4. ASSUME NEW p \in Blamed(results'[s].errors, RC)
          PROVE  \E k \in Converting(s) : \E j \in Judged(CRDOf(s)[k].schema) :
                    j[1] = p /\ Cost(CRDOf(s)[k].schema, p, j[2]) > Limit
      <4>1. PICK e \in results'[s].errors : e[1] = RC /\ e[2] = p
        BY BlamedMeans
      <4>2. CASE e \in results[s].errors
        <5>1. p \in Blamed(results[s].errors, RC)
          BY <4>1, <4>2, BlamedMeans
        <5>2. QED
          BY <2>2, <5>1, Zenon DEF Meant
      <4>3. CASE e \in E
        <5>1. p = at /\ Cost(current, at, rule) > Limit
          BY <3>1, <4>1, <4>3, Zenon
        <5>2. <<at, rule>>[1] = p /\ <<at, rule>>[2] = rule
          BY <5>1
        <5>3. QED
          BY <3>3, <5>1, <5>2
      <4>4. QED
        BY <1>4, <2>4, <4>2, <4>3
    <3>5. ASSUME <<"mismatch">> \in results'[s].errors
          PROVE  \E k \in Converting(s) : \E j \in Judged(CRDOf(s)[k].schema) :
                    MaxCardinality(CRDOf(s)[k].schema, j[1]) = Unbounded /\ Mismatch(j[1])
      <4>1. CASE <<"mismatch">> \in results[s].errors
        BY <2>2, <4>1, Zenon DEF Meant
      <4>2. CASE <<"mismatch">> \in E
        <5>1. MaxCardinality(current, at) = Unbounded /\ Mismatch(at)
          <6>1. <<"mismatch">>[1] = "mismatch"
            OBVIOUS
          <6>2. QED
            BY <3>1, <4>2, <6>1, Zenon
        <5>2. <<at, rule>>[1] = at
          OBVIOUS
        <5>3. QED
          BY <3>3, <5>1, <5>2
      <4>3. QED
        BY <1>4, <2>4, <3>5, <4>1, <4>2
    <3>6. ASSUME NEW info \in results'[s].infos, info[1] = "cost", info[5] > Limit
          PROVE  \E p \in Blamed(results'[s].errors, RC) : SimpleLocation(p) = info[2]
      <4>1. CASE info \in results[s].infos
        <5>1. \E p \in Blamed(results[s].errors, RC) : SimpleLocation(p) = info[2]
          BY <2>2, <3>6, <4>1, Zenon DEF Meant
        <5>2. Blamed(results[s].errors, RC) \subseteq Blamed(results'[s].errors, RC)
          BY <1>3, BlamedMeans DEF Grows
        <5>3. QED
          BY <5>1, <5>2
      <4>2. CASE info \in I
        BY <1>6, <2>4, <3>2, <3>6, <4>2, Zenon
      <4>3. QED
        BY <1>4, <2>4, <4>1, <4>2
    <3>7. QED
      BY <2>1, <3>4, <3>5, <3>6 DEF Meant
  <2>5. QED
    BY <2>3, <2>4
<1>9. QED
  BY <1>7, <1>8 DEF AllMeant, Sides

-----------------------------------------------------------------------------
(***************************************************************************)
(* The total.  Units counts what the rules cost together up to the limit   *)
(* of a CRD, and so does the sum, whether or not it saturates beyond that. *)
(***************************************************************************)
Cap(n) == IF n > CRDLimit THEN CRDLimit + 1 ELSE n

LEMMA CapFacts ==
    ASSUME NEW a \in Nat, NEW b \in Nat
    PROVE  /\ Cap(a) \in Nat
           /\ Cap(a + b) = Cap(a + Cap(b))
           /\ Cap(a + b) = Cap(Cap(a) + Cap(b))
           /\ Cap(a) > CRDLimit <=> a > CRDLimit
  BY Limits DEF Cap

LEMMA ObserveCap ==
    ASSUME NEW sum \in 0..MaxUint, NEW exact \in Nat
    PROVE  Cap(ObserveExpressionCost(sum, Sat(exact))) = Cap(sum + exact)
  BY Limits DEF Cap, Sat, ObserveExpressionCost

UnitsOf(schema, j) == {<<j, unit>> : unit \in 1..Cap(TrueCost(schema, j[1], j[2]))}

LEMMA UnitsMeans ==
    ASSUME NEW schema, NEW J
    PROVE  Units(schema, J) = UNION {UnitsOf(schema, j) : j \in J}
  BY Zenon DEF Units, UnitsOf, Cap

LEMMA UnitsOfCount ==
    ASSUME NEW schema, NEW j, TrueCost(schema, j[1], j[2]) \in Nat
    PROVE  /\ IsFiniteSet(UnitsOf(schema, j))
           /\ Cardinality(UnitsOf(schema, j)) = Cap(TrueCost(schema, j[1], j[2]))
<1> DEFINE n == Cap(TrueCost(schema, j[1], j[2]))
           f == [unit \in 1..n |-> <<j, unit>>]
           U == {<<j, unit>> : unit \in 1..n}
<1>1. n \in Nat /\ UnitsOf(schema, j) = U
  BY CapFacts DEF UnitsOf
<1> HIDE DEF n
<1>2. f \in Bijection(1..n, U)
  <2>1. f \in [1..n -> U]
    OBVIOUS
  <2>2. \A a, b \in 1..n : f[a] = f[b] => a = b
    OBVIOUS
  <2>3. \A u \in U : \E a \in 1..n : f[a] = u
    OBVIOUS
  <2> HIDE DEF f, U
  <2>4. QED
    BY <2>1, <2>2, <2>3 DEF Bijection, Injection, Surjection, IsInjective
<1>3. ExistsBijection(1..n, U)
  BY <1>2 DEF ExistsBijection
<1>4. IsFiniteSet(1..n) /\ Cardinality(1..n) = n
  BY <1>1, FS_Interval
<1> HIDE DEF U
<1>5. IsFiniteSet(U) /\ Cardinality(U) = n
  BY <1>3, <1>4, FS_Bijection
<1>6. QED
  BY <1>1, <1>5 DEF n

\* Each further rule adds as many units as it costs.
LEMMA UnitsAdd ==
    ASSUME NEW schema, NEW J, NEW j, j \notin J, TrueCost(schema, j[1], j[2]) \in Nat,
           IsFiniteSet(Units(schema, J))
    PROVE  /\ IsFiniteSet(Units(schema, J \cup {j}))
           /\ Cardinality(Units(schema, J \cup {j})) =
                Cardinality(Units(schema, J)) + Cap(TrueCost(schema, j[1], j[2]))
<1> DEFINE A == Units(schema, J)
           B == UnitsOf(schema, j)
<1>1. Units(schema, J \cup {j}) = A \cup B
  BY UnitsMeans
<1>2. A \cap B = {}
  <2> SUFFICES ASSUME NEW x \in A, x \in B PROVE FALSE
    OBVIOUS
  <2>1. PICK i \in J : x \in UnitsOf(schema, i)
    BY UnitsMeans
  <2>2. x[1] = i
    BY <2>1 DEF UnitsOf
  <2>3. x[1] = j
    BY DEF UnitsOf
  <2>4. QED
    BY <2>2, <2>3
<1>3. IsFiniteSet(B) /\ Cardinality(B) = Cap(TrueCost(schema, j[1], j[2]))
  BY UnitsOfCount
<1> HIDE DEF A, B
<1>4. IsFiniteSet(A)
  BY DEF A
<1>5. IsFiniteSet(A \cup B) /\ Cardinality(A \cup B) = Cardinality(A) + Cardinality(B) - Cardinality(A \cap B)
  BY <1>3, <1>4, FS_Union
<1>6. Cardinality(A) \in Nat /\ Cardinality(B) \in Nat /\ Cardinality(A \cap B) = 0
  BY <1>2, <1>3, <1>4, FS_CardinalityType, FS_EmptySet
<1>7. IsFiniteSet(A \cup B) /\ Cardinality(A \cup B) = Cardinality(A) + Cap(TrueCost(schema, j[1], j[2]))
  BY <1>3, <1>5, <1>6
<1>8. QED
  BY <1>1, <1>7 DEF A

\* The total is that of the rules that have been judged ...
TotalSoFar ==
    pc \in {"walk", "rules"} =>
        /\ IsFiniteSet(Units(current, JudgedSoFar(side, v)))
        /\ Cap(total) = Cap(Cardinality(Units(current, JudgedSoFar(side, v))))

\* ... and the results name it for each version that is too expensive.
Over(s, k) == Cardinality(Units(CRDOf(s)[k].schema, Judged(CRDOf(s)[k].schema))) > CRDLimit

TotalsTold ==
    \A s \in Sides : (\E e \in results[s].errors : e[1] = TC) <=>
                     \E k \in Converting(s) : Through(s, k) /\ Over(s, k)

ThroughKept ==
    \A s \in Sides : /\ CRDOf(s)' = CRDOf(s)
                     /\ \A k \in Converting(s) : Through(s, k)' <=> Through(s, k)

LEMMA TotalsToldKept ==
    ASSUME ThroughKept, TotalsTold,
           \A s \in Sides : (\E e \in results'[s].errors : e[1] = TC) <=>
                            (\E e \in results[s].errors : e[1] = TC)
    PROVE  TotalsTold'
<1> SUFFICES ASSUME NEW s \in Sides
             PROVE  ((\E e \in results[s].errors : e[1] = TC) <=>
                       \E k \in Converting(s) : Through(s, k) /\ Over(s, k))'
  BY DEF TotalsTold, Sides
<1>1. CRDOf(s)' = CRDOf(s)
  BY DEF ThroughKept
<1>2. Converting(s)' = Converting(s) /\ \A k : Over(s, k)' = Over(s, k)
  BY <1>1 DEF Converting, Over
<1>3. \A k \in Converting(s) : Through(s, k)' <=> Through(s, k)
  BY DEF ThroughKept
<1>4. (\E e \in results[s].errors : e[1] = TC) <=> \E k \in Converting(s) : Through(s, k) /\ Over(s, k)
  BY DEF TotalsTold
<1>5. QED
  BY <1>2, <1>3, <1>4

LEMMA OtherErrors ==
    ASSUME TypeOK, NEW E, NEW W, NEW I, Append3(E, W, I), \A e \in E : e[1] # TC
    PROVE  \A s \in Sides : (\E e \in results'[s].errors : e[1] = TC) <=>
                            (\E e \in results[s].errors : e[1] = TC)
<1> TAKE s \in Sides
<1>1. DOMAIN results = Sides /\ side \in Sides
  BY DEF TypeOK
<1>2. CASE s = side
  <2>1. results'[s].errors = results[s].errors \cup E
    BY <1>1, <1>2, Appending
  <2>2. QED
    BY <2>1
<1>3. CASE s # side
  <2>1. results'[s] = results[s]
    BY <1>1, <1>3, Appending
  <2>2. QED
    BY <2>1
<1>4. QED
  BY <1>2, <1>3

LEMMA CheckRuleTotal ==
    ASSUME TypeOK, Control, TotalSoFar, TotalsTold, CheckRule
    PROVE  TotalSoFar' /\ TotalsTold'
<1>1. /\ pc = "rules" /\ side' = side /\ v' = v /\ current' = current
      /\ \A s \in Sides : CRDOf(s)' = CRDOf(s)
  BY SameCRD DEF CheckRule
<1>2. TotalsTold'
  <2>1. ThroughKept
    BY <1>1 DEF ThroughKept, Through
  <2>2. PICK E, W, I : Append3(E, W, I) /\ RuleSays(E, W, I)
    BY CheckRuleSays
  <2>3. \A e \in E : e[1] # TC
    BY <2>2, Zenon DEF RuleSays
  <2>4. QED
    BY <2>1, <2>2, <2>3, OtherErrors, TotalsToldKept
<1> DEFINE J == JudgedSoFar(side, v)
           exact == TrueCost(current, at, rule)
           j == <<at, rule>>
<1>3. J' = J \cup {j} /\ j \notin J
  <2>1. v \in Converting(side) /\ side \in Sides
    BY <1>1, CRDFacts DEF Control, TypeOK, Converting, crd
  <2>2. AtHand(side, v)
    BY <1>1 DEF AtHand
  <2>3. JudgedSoFar(side, v)' = JudgedSoFar(side, v) \cup {<<at, rule>>} /\ <<at, rule>> \notin JudgedSoFar(side, v)
    <3>1. PICK s \in Sides : s = side
      BY <2>1
    <3>2. PICK k \in Converting(s) : k = v
      BY <2>1, <3>1
    <3>3. AtHand(s, k)
      BY <2>2, <3>1, <3>2
    <3>4. JudgedSoFar(s, k)' = JudgedSoFar(s, k) \cup {<<at, rule>>} /\ <<at, rule>> \notin JudgedSoFar(s, k)
      BY <3>3, CheckRuleJudges
    <3>5. JudgedSoFar(side, v)' = JudgedSoFar(s, k)'
      <4>1. side' = s /\ v' = k
        BY <1>1, <3>1, <3>2
      <4>2. QED
        BY <4>1 DEF JudgedSoFar
    <3>6. QED
      BY <3>1, <3>2, <3>4, <3>5
  <2>4. QED
    BY <2>3
<1>4. exact \in Nat /\ Cost(current, at, rule) = Sat(exact)
  BY <1>1, RuleAtHand, CostIsTrue
<1>5. total' = ObserveExpressionCost(total, Sat(exact))
  <2>1. total' = ObserveExpressionCost(total, Cost(current, at, rule))
    BY DEF CheckRule, Cost
  <2>2. QED
    BY <1>4, <2>1
<1>6. IsFiniteSet(Units(current, J)) /\ Cap(total) = Cap(Cardinality(Units(current, J)))
  BY <1>1 DEF TotalSoFar
<1>7. TrueCost(current, j[1], j[2]) = exact
  OBVIOUS
<1> HIDE DEF J, exact, j
<1>8. /\ IsFiniteSet(Units(current, J \cup {j}))
      /\ Cardinality(Units(current, J \cup {j})) = Cardinality(Units(current, J)) + Cap(exact)
  BY <1>3, <1>4, <1>6, <1>7, UnitsAdd
<1> DEFINE n == Cardinality(Units(current, J))
<1>9. n \in Nat /\ total \in 0..MaxUint /\ total \in Nat
  BY <1>6, FS_CardinalityType, Limits DEF TypeOK
<1> HIDE DEF n
<1>10. Cap(total') = Cap(n + Cap(exact))
  <2>1. Cap(total') = Cap(total + exact)
    BY <1>4, <1>5, <1>9, ObserveCap
  <2>2. Cap(total + exact) = Cap(Cap(total) + Cap(exact))
    BY <1>4, <1>9, CapFacts
  <2>3. Cap(n + exact) = Cap(Cap(n) + Cap(exact)) /\ Cap(n + exact) = Cap(n + Cap(exact))
    BY <1>4, <1>9, CapFacts
  <2>4. Cap(total) = Cap(n)
    BY <1>6 DEF n
  <2>5. QED
    BY <2>1, <2>2, <2>3, <2>4
<1>11. TotalSoFar'
  <2>1. JudgedSoFar(side, v)' = J \cup {j}
    BY <1>3 DEF J
  <2>2. Cap(total)' = Cap(total')
    BY DEF Cap
  <2>3. QED
    BY <1>1, <1>8, <1>10, <2>1, <2>2 DEF TotalSoFar, n
<1>12. QED
  BY <1>2, <1>11

-----------------------------------------------------------------------------
(***************************************************************************)
(* The inductive invariant and the other steps.                            *)
(***************************************************************************)
Sound == AllTold /\ AllMeant /\ TotalSoFar /\ TotalsTold

BudgetInv == TypeOK /\ Control /\ Sound

LEMMA InitSound == Init => Sound
<1> SUFFICES ASSUME Init PROVE Sound
  OBVIOUS
<1>1. \A s \in Sides : results[s] = NoResults
  BY DEF Init, Sides
<1>2. \A s \in Sides : results[s].errors = {} /\ results[s].infos = {}
  BY <1>1 DEF NoResults
<1>3. ASSUME NEW s \in Sides, NEW k \in Converting(s)
      PROVE  ~Through(s, k) /\ JudgedSoFar(s, k) = {}
  <2>1. side = "existing" /\ v = 1 /\ pc = "convert"
    BY DEF Init
  <2>2. DOMAIN CRDOf(s) = 1..Len(CRDOf(s)) /\ Len(CRDOf(s)) \in Nat
    BY InitControl, CRDFacts
  <2>3. ~(k < 1)
    BY <2>2 DEF Converting
  <2>4. ~Through(s, k)
    BY <2>1, <2>3 DEF Through
  <2>5. QED
    BY <2>1, <2>4 DEF JudgedSoFar, AtHand
<1>4. AllTold
  BY <1>3 DEF AllTold
<1>5. \A s \in Sides : Blamed(results[s].errors, RC) = {}
  BY <1>2, BlamedMeans
<1>6. AllMeant
  BY <1>2, <1>5 DEF AllMeant, Meant
<1>7. TotalSoFar
  BY DEF Init, TotalSoFar
<1>8. TotalsTold
  BY <1>2, <1>3 DEF TotalsTold
<1>9. QED
  BY <1>4, <1>6, <1>7, <1>8 DEF Sound

LEMMA ConvertSound == BudgetInv /\ Convert => Sound'
<1> SUFFICES ASSUME TypeOK, Control, Sound, Convert PROVE Sound'
  BY DEF BudgetInv
<1>1. /\ pc = "convert" /\ side' = side /\ total' = 0 /\ visited' = {} /\ UNCHANGED inputs
      /\ \A s \in Sides : CRDOf(s)' = CRDOf(s)
  BY SameCRD DEF Convert
<1>2. PICK E : /\ Append3(E, {}, {})
               /\ \A e \in E : e[1] = "conversion"
  BY DEF Convert
<1>3. AllTold'
  BY <1>2, AppendGrows, ConvertJudges, AllToldKept DEF Sound
<1>4. AllMeant'
  <2>1. \A e \in E : e[1] \notin {RC, "mismatch"}
    BY <1>2 DEF RC
  <2>2. \A x \in {} : x[1] # "cost"
    OBVIOUS
  <2>3. QED
    BY <1>1, <1>2, <2>1, <2>2, QuietMeant DEF Sound
<1>5. ASSUME NEW s \in Sides, NEW k \in Converting(s)
      PROVE  Through(s, k)' <=> Through(s, k)
  <2>1. k \in Nat /\ v \in Nat
    BY CRDFacts DEF Converting, TypeOK, crd
  <2>2. CASE crd[v].converts
    <3>1. v' = v
      BY <2>2 DEF Convert
    <3>2. QED
      BY <1>1, <3>1 DEF Through
  <2>3. CASE ~crd[v].converts
    <3>1. v' = v + 1
      BY <2>3 DEF Convert
    <3>2. s = side => k # v
      BY <2>3 DEF Converting, crd
    <3>3. QED
      BY <1>1, <2>1, <3>1, <3>2 DEF Through
  <2>4. QED
    BY <2>2, <2>3
<1>6. TotalsTold'
  <2>1. \A e \in E : e[1] # TC
    BY <1>2 DEF TC
  <2>2. ThroughKept
    BY <1>1, <1>5 DEF ThroughKept
  <2>3. QED
    BY <1>2, <2>1, <2>2, OtherErrors, TotalsToldKept DEF Sound
<1>7. TotalSoFar'
  <2>1. CASE crd[v].converts
    <3>1. v' = v /\ pc' = "walk" /\ v \in Nat
      BY <2>1, CRDFacts DEF Convert, TypeOK, crd
    <3>2. JudgedSoFar(side, v)' = {}
      <4>1. ~Through(side, v)'
        BY <1>1, <3>1 DEF Through
      <4>2. \A p, i : ~Passed(p, i)'
        BY <1>1 DEF Passed
      <4>3. QED
        BY <4>1, <4>2 DEF JudgedSoFar
    <3>3. Units(current', {}) = {}
      BY UnitsMeans
    <3>4. IsFiniteSet({}) /\ Cardinality({}) = 0
      BY FS_EmptySet
    <3>5. QED
      BY <1>1, <3>2, <3>3, <3>4 DEF TotalSoFar, Cap
  <2>2. CASE ~crd[v].converts
    <3>1. pc' = "convert"
      BY <1>1, <2>2 DEF Convert
    <3>2. QED
      BY <3>1 DEF TotalSoFar
  <2>3. QED
    BY <2>1, <2>2
<1>8. QED
  BY <1>3, <1>4, <1>6, <1>7 DEF Sound

LEMMA PredSays ==
    ASSUME NEW p, Pred(p)
    PROVE  \E E, W, I : /\ Append3(E, W, I)
                        /\ \A e \in E : e[1] \in {"declType", "compile"}
                        /\ \A x \in I : x[1] = "size"
<1> DEFINE s == current[p]
           inspected == s.present /\ ~s.broken
           typed == s.present /\ ~TypeInfoFails(current, p)
           E1 == When(s.present /\ (s.broken \/ TypeInfoFails(current, p)), <<"declType">>)
           E2 == When(typed /\ s.rules # <<>> /\ ~s.compiles, <<"compile", p>>)
           W == When(inspected /\ Sized(s) /\ s.max = Unbounded, <<"size", SimpleLocation(p), s.type>>)
           I == When(inspected /\ Sized(s) /\ s.max # Unbounded, <<"size", SimpleLocation(p), s.type, s.max>>)
<1>1. Append3(E1 \cup E2, W, I)
  BY DEF Pred
<1>2. \A e \in E1 : e[1] = "declType"
  BY DEF When
<1>3. \A e \in E2 : e[1] = "compile"
  BY DEF When
<1>4. \A x \in I : x[1] = "size"
  <2> DEFINE m == <<"size", SimpleLocation(p), s.type, s.max>>
  <2>1. m[1] = "size"
    OBVIOUS
  <2>2. \A x \in I : x = m
    BY DEF When
  <2> HIDE DEF m
  <2>3. QED
    BY <2>1, <2>2
<1> HIDE DEF E1, E2, W, I
<1>5. \A e \in E1 \cup E2 : e[1] \in {"declType", "compile"}
  BY <1>2, <1>3
<1>6. QED
  BY <1>1, <1>4, <1>5

LEMMA PredSound ==
    ASSUME BudgetInv, pc = "walk", NEW p \in DOMAIN current, Pred(p)
    PROVE  Sound'
<1>1. TypeOK /\ Control /\ Sound
  BY DEF BudgetInv
<1>2. PICK E, W, I : /\ Append3(E, W, I)
                     /\ \A e \in E : e[1] \in {"declType", "compile"}
                     /\ \A x \in I : x[1] = "size"
  BY PredSays
<1>3. /\ side' = side /\ v' = v /\ total' = total /\ current' = current /\ UNCHANGED inputs
      /\ \A s \in Sides : CRDOf(s)' = CRDOf(s)
  BY SameCRD DEF Pred
<1>4. NothingJudged
  BY <1>1, PredJudges
<1>5. AllTold'
  BY <1>1, <1>2, <1>4, AppendGrows, AllToldKept DEF Sound
<1>6. AllMeant'
  <2>1. /\ \A e \in E : e[1] \notin {RC, "mismatch"}
        /\ \A x \in I : x[1] # "cost"
    BY <1>2 DEF RC
  <2>2. QED
    BY <1>1, <1>2, <1>3, <2>1, QuietMeant DEF Sound
<1>7. TotalsTold'
  <2>1. \A e \in E : e[1] # TC
    BY <1>2 DEF TC
  <2>2. ThroughKept
    BY <1>3 DEF ThroughKept, Through
  <2>3. QED
    BY <1>1, <1>2, <2>1, <2>2, OtherErrors, TotalsToldKept DEF Sound
<1>8. TotalSoFar'
  <2>1. PICK s \in Sides : s = side
    BY <1>1 DEF TypeOK
  <2>2. v \in Converting(s)
    BY <1>1, <2>1, CRDFacts DEF Control, TypeOK, Converting, crd
  <2>3. PICK k \in Converting(s) : k = v
    BY <2>2
  <2>4. JudgedSoFar(s, k)' = JudgedSoFar(s, k)
    BY <1>4 DEF NothingJudged
  <2>5. JudgedSoFar(side, v)' = JudgedSoFar(s, k)'
    <3>1. side' = s /\ v' = k
      BY <1>3, <2>1, <2>3
    <3>2. QED
      BY <3>1 DEF JudgedSoFar
  <2>6. JudgedSoFar(side, v)' = JudgedSoFar(side, v)
    BY <2>1, <2>3, <2>4, <2>5
  <2>7. QED
    BY <1>1, <1>3, <2>6 DEF Sound, TotalSoFar, Cap
<1>9. QED
  BY <1>5, <1>6, <1>7, <1>8 DEF Sound

LEMMA TotalSays ==
    ASSUME Total
    PROVE  \E E : /\ Append3(E, {}, {})
                  /\ \A e \in E : e[1] = TC
                  /\ (E # {}) <=> total > CRDLimit
<1> DEFINE factor == Factor(total, CRDLimit)
           m == <<"total CRD cost", <<>>, factor>>
           E == When(total > CRDLimit, CostError("total CRD cost", <<>>, total, CRDLimit))
<1>1. CostError("total CRD cost", <<>>, total, CRDLimit) = m
  BY DEF CostError
<1>2. Append3(E, {}, {})
  BY DEF Total
<1>3. E = IF total > CRDLimit THEN {m} ELSE {}
  BY <1>1 DEF When
<1> HIDE DEF factor, E
<1>4. m[1] = TC
  BY DEF TC
<1> HIDE DEF m
<1>5. QED
  BY <1>2, <1>3, <1>4

LEMMA TotalSound == BudgetInv /\ Total => Sound'
<1> SUFFICES ASSUME TypeOK, Control, Sound, Total PROVE Sound'
  BY DEF BudgetInv
<1>1. /\ pc = "walk" /\ pc' = "convert" /\ side' = side /\ v' = v + 1 /\ UNCHANGED inputs
      /\ visited = DOMAIN current /\ \A s \in Sides : CRDOf(s)' = CRDOf(s)
  BY SameCRD DEF Total
<1>2. PICK E : /\ Append3(E, {}, {})
               /\ \A e \in E : e[1] = TC
               /\ (E # {}) <=> total > CRDLimit
  BY TotalSays
<1>3. AllTold'
  BY <1>2, AppendGrows, TotalJudges, AllToldKept DEF Sound
<1>4. AllMeant'
  <2>1. \A e \in E : e[1] \notin {RC, "mismatch"}
    BY <1>2 DEF RC, TC
  <2>2. \A x \in {} : x[1] # "cost"
    OBVIOUS
  <2>3. QED
    BY <1>1, <1>2, <2>1, <2>2, QuietMeant DEF Sound
<1>5. TotalSoFar'
  BY <1>1 DEF TotalSoFar
<1>6. total > CRDLimit <=> Over(side, v)
  <2>1. JudgedSoFar(side, v) = Judged(current)
    <3>1. CRDOf(side)[v].schema = current /\ AtHand(side, v)
      BY <1>1 DEF current, crd, AtHand
    <3>2. \A j \in Judged(current) : Passed(j[1], j[2])
      BY <1>1, JudgedMeans DEF Passed
    <3>3. QED
      BY <3>1, <3>2 DEF JudgedSoFar
  <2> DEFINE n == Cardinality(Units(current, Judged(current)))
  <2>2. IsFiniteSet(Units(current, Judged(current))) /\ Cap(total) = Cap(n)
    BY <1>1, <2>1 DEF Sound, TotalSoFar
  <2>3. n \in Nat /\ total \in Nat
    BY <2>2, FS_CardinalityType, Limits DEF TypeOK
  <2>4. Over(side, v) <=> n > CRDLimit
    BY DEF Over, current, crd
  <2> HIDE DEF n
  <2>5. total > CRDLimit <=> n > CRDLimit
    BY <2>2, <2>3, CapFacts
  <2>6. QED
    BY <2>4, <2>5
<1>7. v \in Converting(side) /\ v \in Nat
  BY <1>1, CRDFacts DEF Control, Converting, crd, TypeOK
<1>8. TotalsTold'
  <2> SUFFICES ASSUME NEW s \in Sides
               PROVE  ((\E e \in results[s].errors : e[1] = TC) <=>
                         \E k \in Converting(s) : Through(s, k) /\ Over(s, k))'
    BY DEF TotalsTold, Sides
  <2>1. Converting(s)' = Converting(s) /\ \A k : Over(s, k)' = Over(s, k)
    <3>1. CRDOf(s)' = CRDOf(s)
      BY <1>1
    <3>2. QED
      BY <3>1 DEF Converting, Over
  <2>2. (\E e \in results[s].errors : e[1] = TC) <=> \E k \in Converting(s) : Through(s, k) /\ Over(s, k)
    BY DEF Sound, TotalsTold
  <2>3. \A k \in Converting(s) : k \in Nat
    BY CRDFacts DEF Converting
  <2>4. DOMAIN results = Sides /\ side \in Sides
    BY DEF TypeOK
  <2>5. CASE s # side
    <3>1. results'[s] = results[s]
      BY <1>2, <2>4, <2>5, Appending
    <3>2. \A k \in Converting(s) : Through(s, k)' <=> Through(s, k)
      BY <1>1, <2>5 DEF Through
    <3>3. QED
      BY <2>1, <2>2, <3>1, <3>2
  <2>6. CASE s = side
    <3>1. results'[s].errors = results[s].errors \cup E
      BY <1>2, <2>4, <2>6, Appending
    <3>2. (\E e \in results'[s].errors : e[1] = TC) <=>
            (\E e \in results[s].errors : e[1] = TC) \/ total > CRDLimit
      BY <1>2, <3>1
    <3>3. \A k \in Converting(s) : Through(s, k)' <=> Through(s, k) \/ k = v
      BY <1>1, <1>7, <2>3, <2>6 DEF Through
    <3>4. (\E k \in Converting(s) : Through(s, k)' /\ Over(s, k)) <=>
            (\E k \in Converting(s) : Through(s, k) /\ Over(s, k)) \/ Over(s, v)
      BY <1>7, <2>6, <3>3
    <3>5. QED
      BY <1>6, <2>1, <2>2, <2>6, <3>2, <3>4
  <2>7. QED
    BY <2>5, <2>6
<1>9. QED
  BY <1>3, <1>4, <1>5, <1>8 DEF Sound

\* A step that appends nothing and ends no version.
LEMMA SilentSound ==
    ASSUME BudgetInv, NothingJudged, ThroughKept, UNCHANGED <<inputs, results>>, pc' \notin {"walk", "rules"}
    PROVE  Sound'
<1>1. AllTold'
  <2>1. Grows
    BY DEF Grows
  <2>2. QED
    BY <2>1, AllToldKept DEF BudgetInv, Sound
<1>2. AllMeant'
  <2> SUFFICES ASSUME NEW s \in Sides PROVE Meant(s)'
    BY DEF AllMeant, Sides
  <2>1. CRDOf(s)' = CRDOf(s) /\ Converting(s)' = Converting(s) /\ results' = results
    BY SameCRD DEF Converting
  <2>2. Meant(s)
    BY DEF BudgetInv, Sound, AllMeant
  <2>3. QED
    BY <2>1, <2>2 DEF Meant
<1>3. TotalSoFar'
  BY DEF TotalSoFar
<1>4. TotalsTold'
  BY TotalsToldKept DEF BudgetInv, Sound
<1>5. QED
  BY <1>1, <1>2, <1>3, <1>4 DEF Sound

LEMMA ExistingDoneSound == BudgetInv /\ ExistingDone => Sound'
<1> SUFFICES ASSUME BudgetInv, ExistingDone PROVE Sound'
  OBVIOUS
<1>1. /\ side = "existing" /\ side' = "new" /\ pc' = "convert" /\ v = Len(crd) + 1 /\ v' = 1
      /\ UNCHANGED <<inputs, results>> /\ \A s \in Sides : CRDOf(s)' = CRDOf(s)
  BY SameCRD DEF ExistingDone
<1>2. NothingJudged
  BY ExistingDoneJudges DEF BudgetInv
<1>3. ASSUME NEW s \in Sides, NEW k \in Converting(s)
      PROVE  Through(s, k)' <=> Through(s, k)
  <2>1. Len(CRDOf(s)) \in Nat /\ k \in 1..Len(CRDOf(s))
    BY CRDFacts DEF Converting, BudgetInv
  <2>2. QED
    BY <1>1, <2>1 DEF Through, Sides, crd
<1>4. QED
  BY <1>1, <1>2, <1>3, SilentSound DEF ThroughKept

LEMMA RatchetSound == BudgetInv /\ Ratchet => Sound'
<1> SUFFICES ASSUME BudgetInv, Ratchet PROVE Sound'
  OBVIOUS
<1>1. /\ side' = side /\ pc' = "done" /\ v' = v
      /\ UNCHANGED <<inputs, results>> /\ \A s \in Sides : CRDOf(s)' = CRDOf(s)
  BY SameCRD DEF Ratchet
<1>2. NothingJudged
  BY RatchetJudges DEF BudgetInv
<1>3. ThroughKept
  BY <1>1 DEF ThroughKept, Through
<1>4. QED
  BY <1>1, <1>2, <1>3, SilentSound

LEMMA StutterSound == BudgetInv /\ UNCHANGED vars => Sound'
<1> SUFFICES ASSUME BudgetInv, UNCHANGED vars PROVE Sound'
  OBVIOUS
<1>1. /\ side' = side /\ pc' = pc /\ v' = v /\ visited' = visited /\ at' = at /\ rule' = rule
      /\ total' = total /\ results' = results /\ UNCHANGED inputs /\ current' = current
      /\ \A s : CRDOf(s)' = CRDOf(s)
  BY SameCRD DEF vars
<1>2. \A s, k : JudgedSoFar(s, k)' = JudgedSoFar(s, k) /\ (Through(s, k)' <=> Through(s, k))
  BY <1>1 DEF JudgedSoFar, Through, AtHand, Passed
<1>3. AllTold' /\ AllMeant' /\ TotalsTold'
  <2>1. NothingJudged /\ ThroughKept /\ Grows
    BY <1>1, <1>2 DEF NothingJudged, ThroughKept, Grows
  <2>2. AllMeant'
    BY <1>1 DEF BudgetInv, Sound, AllMeant, Meant, Converting
  <2>3. QED
    BY <1>1, <2>1, <2>2, AllToldKept, TotalsToldKept DEF BudgetInv, Sound
<1>4. TotalSoFar'
  <2>1. JudgedSoFar(side, v)' = JudgedSoFar(side, v)
    BY <1>1 DEF JudgedSoFar, Through, AtHand, Passed
  <2>2. QED
    BY <1>1, <2>1 DEF BudgetInv, Sound, TotalSoFar, Cap
<1>5. QED
  BY <1>3, <1>4 DEF Sound

\* BudgetInv is inductive: whatever the order of the walk, the results say of the rules
\* judged so far what these rules give a reason for, and the total is theirs.
THEOREM BudgetInvariant == Spec => []BudgetInv
<1>1. Init => BudgetInv
  BY InitControl, InitSound DEF BudgetInv
<1>2. BudgetInv /\ [Next]_vars => Sound'
  <2> SUFFICES ASSUME BudgetInv, [Next]_vars PROVE Sound'
    OBVIOUS
  <2>1. CASE CheckRule
    BY <2>1, CheckRuleTells, CheckRuleTotal DEF BudgetInv, Sound
  <2>2. QED
    BY <2>1, ConvertSound, PredSound, TotalSound, ExistingDoneSound, RatchetSound, StutterSound
       DEF Next, Done
<1>3. BudgetInv /\ [Next]_vars => TypeOK' /\ Control'
  BY ConvertControl, PredControl, CheckRuleControl, TotalControl, ExistingDoneControl,
     RatchetControl, StutterControl DEF Next, Done, BudgetInv
<1>4. QED
  BY <1>1, <1>2, <1>3, PTL DEF Spec, BudgetInv

-----------------------------------------------------------------------------
(***************************************************************************)
(* What holds once RatchetCompare returns.                                 *)
(***************************************************************************)
LEMMA AllJudged ==
    ASSUME BudgetInv, pc = "done", NEW s \in Sides, NEW k \in Converting(s)
    PROVE  /\ Through(s, k) /\ JudgedSoFar(s, k) = Judged(CRDOf(s)[k].schema)
           /\ WellFormed(CRDOf(s)[k].schema)
<1>1. side = "new" /\ v = Len(crd) + 1
  BY DEF BudgetInv, Control
<1>2. /\ Len(CRDOf(s)) \in Nat /\ k \in 1..Len(CRDOf(s)) /\ k \in DOMAIN CRDOf(s)
      /\ WellFormed(CRDOf(s)[k].schema)
  BY CRDFacts DEF Converting, BudgetInv
<1>3. Through(s, k)
  BY <1>1, <1>2 DEF Through, Sides, crd
<1>4. QED
  BY <1>2, <1>3 DEF JudgedSoFar

LEMMA SchemasMean ==
    ASSUME NEW s
    PROVE  \A schema : schema \in SchemasOf(s) <=> \E k \in Converting(s) : schema = CRDOf(s)[k].schema
  BY DEF SchemasOf, Converting

\* A rule is found over budget iff it is.
LEMMA OverIsOver ==
    ASSUME NEW schema, WellFormed(schema), NEW j \in Judged(schema)
    PROVE  /\ j[1] \in DOMAIN schema /\ j[2] \in DOMAIN schema[j[1]].rules
           /\ TrueCost(schema, j[1], j[2]) \in Nat
           /\ Cost(schema, j[1], j[2]) > Limit <=> TrueCost(schema, j[1], j[2]) > Limit
           /\ TrueCost(schema, j[1], j[2]) <= Limit => Cost(schema, j[1], j[2]) = TrueCost(schema, j[1], j[2])
           /\ MaxCardinality(schema, j[1]) = Unbounded <=> UnboundedAbove(schema, j[1]) # {}
<1> DEFINE exact == TrueCost(schema, j[1], j[2])
           cost == Cost(schema, j[1], j[2])
<1>1. j[1] \in DOMAIN schema /\ j[2] \in DOMAIN schema[j[1]].rules
  BY JudgedMeans
<1>2. /\ MaxCardinality(schema, j[1]) = Unbounded <=> UnboundedAbove(schema, j[1]) # {}
      /\ exact \in Nat /\ cost = Sat(exact)
  BY <1>1, CostIsTrue
<1> HIDE DEF exact, cost
<1>3. (cost > Limit <=> exact > Limit) /\ (exact <= Limit => cost = exact)
  <2>1. exact \in Nat /\ cost = Sat(exact)
    BY <1>2
  <2>2. MaxUint \in Nat /\ Limit \in Nat /\ Limit < MaxUint
    BY Limits
  <2>3. CASE exact > MaxUint
    BY <2>1, <2>2, <2>3 DEF Sat
  <2>4. CASE ~(exact > MaxUint)
    BY <2>1, <2>2, <2>4 DEF Sat
  <2>5. QED
    BY <2>3, <2>4
<1>4. QED
  BY <1>1, <1>2, <1>3 DEF exact, cost

LEMMA OverBudgetMeans ==
    ASSUME BudgetInv, pc = "done", NEW s \in Sides, NEW p
    PROVE  OverBudget(s, p) <=>
             \E k \in Converting(s) : \E j \in Judged(CRDOf(s)[k].schema) :
                j[1] = p /\ Cost(CRDOf(s)[k].schema, p, j[2]) > Limit
<1>1. ASSUME OverBudget(s, p)
      PROVE  \E k \in Converting(s) : \E j \in Judged(CRDOf(s)[k].schema) :
                j[1] = p /\ Cost(CRDOf(s)[k].schema, p, j[2]) > Limit
  <2>1. PICK schema \in SchemasOf(s) : \E j \in Judged(schema) : j[1] = p /\ TrueCost(schema, p, j[2]) > Limit
    BY <1>1 DEF OverBudget
  <2>2. PICK j \in Judged(schema) : j[1] = p /\ TrueCost(schema, p, j[2]) > Limit
    BY <2>1
  <2>3. PICK k \in Converting(s) : schema = CRDOf(s)[k].schema
    BY SchemasMean
  <2>4. WellFormed(schema)
    BY <2>3, AllJudged
  <2>5. Cost(schema, p, j[2]) > Limit
    BY <2>2, <2>4, OverIsOver
  <2>6. QED
    BY <2>2, <2>3, <2>5
<1>2. ASSUME NEW k \in Converting(s), NEW j \in Judged(CRDOf(s)[k].schema),
             j[1] = p, Cost(CRDOf(s)[k].schema, p, j[2]) > Limit
      PROVE  OverBudget(s, p)
  <2> DEFINE schema == CRDOf(s)[k].schema
  <2>1. WellFormed(schema) /\ schema \in SchemasOf(s)
    BY AllJudged, SchemasMean
  <2>2. TrueCost(schema, p, j[2]) > Limit
    BY <1>2, <2>1, OverIsOver
  <2>3. QED
    BY <1>2, <2>1, <2>2 DEF OverBudget
<1>3. QED
  BY <1>1, <1>2

LEMMA BlamesRight ==
    ASSUME BudgetInv, pc = "done", NEW s \in Sides
    PROVE  /\ \A p : p \in Blamed(results[s].errors, RC) <=> OverBudget(s, p)
           /\ \A p : OverBudget(s, p) => p \in Paths
           /\ Blamed(results[s].errors, TC) # {} <=> TotalOverBudget(s)
<1>1. AllTold /\ Meant(s) /\ TotalsTold
  BY DEF BudgetInv, Sound, AllMeant
<1>2. ASSUME NEW p \in Blamed(results[s].errors, RC) PROVE OverBudget(s, p)
  BY <1>1, OverBudgetMeans DEF Meant
<1>3. ASSUME NEW p, OverBudget(s, p) PROVE p \in Blamed(results[s].errors, RC) /\ p \in Paths
  <2>1. PICK k \in Converting(s) : \E j \in Judged(CRDOf(s)[k].schema) :
                j[1] = p /\ Cost(CRDOf(s)[k].schema, p, j[2]) > Limit
    BY <1>3, OverBudgetMeans
  <2>2. PICK j \in Judged(CRDOf(s)[k].schema) : j[1] = p /\ Cost(CRDOf(s)[k].schema, p, j[2]) > Limit
    BY <2>1
  <2>3. j \in JudgedSoFar(s, k) /\ WellFormed(CRDOf(s)[k].schema) /\ CRDOf(s)[k].schema \in SchemasOf(s)
    BY AllJudged, SchemasMean
  <2>4. Told(results[s], CRDOf(s)[k].schema, j[1], j[2])
    BY <1>1, <2>3 DEF AllTold
  <2>5. p \in Blamed(results[s].errors, RC)
    BY <2>2, <2>4, Zenon DEF Told
  <2>6. p \in DOMAIN CRDOf(s)[k].schema
    BY <2>2, <2>3, OverIsOver
  <2>7. s = "existing" \/ s = "new"
    BY DEF Sides
  <2>8. QED
    BY <2>3, <2>5, <2>6, <2>7 DEF Paths
<1>4. Blamed(results[s].errors, TC) # {} <=> TotalOverBudget(s)
  <2>1. Blamed(results[s].errors, TC) # {} <=> \E e \in results[s].errors : e[1] = TC
    BY Zenon DEF Blamed
  <2>2. (\E e \in results[s].errors : e[1] = TC) <=> \E k \in Converting(s) : Over(s, k)
    BY <1>1, AllJudged DEF TotalsTold
  <2>3. TotalOverBudget(s) <=> \E k \in Converting(s) : Over(s, k)
    BY SchemasMean DEF TotalOverBudget, Over
  <2>4. QED
    BY <2>1, <2>2, <2>3
<1>5. QED
  BY <1>2, <1>3, <1>4

\* Validate blames exactly the schemas with a rule over budget, and the CRD exactly when
\* the rules of a version are together, for integers of any width: saturating products
\* and sums decide as exact ones would (comp_must_not_exceed_cost_budget.go:115-123,
\* 142-144, 151-154, 173-191).
THEOREM BudgetIsKept == Spec => []CostsSound
<1>1. BudgetInv => CostsSound
  <2> SUFFICES ASSUME BudgetInv, pc = "done", NEW s \in Sides
               PROVE  /\ Blamed(results[s].errors, "estimated rule cost") = {p \in Paths : OverBudget(s, p)}
                      /\ Blamed(results[s].errors, "total CRD cost") # {} <=> TotalOverBudget(s)
    BY DEF CostsSound
  <2>1. Blamed(results[s].errors, RC) = {p \in Paths : OverBudget(s, p)}
    BY BlamesRight
  <2>2. Blamed(results[s].errors, TC) # {} <=> TotalOverBudget(s)
    BY BlamesRight
  <2>3. QED
    BY <2>1, <2>2 DEF RC, TC
<1>2. QED
  BY <1>1, BudgetInvariant, PTL

\* The ratchet forgives no field and no version that has newly gone over budget, though
\* the texts that it compares name neither the version nor the rule
\* (comp_must_not_exceed_cost_budget.go:119, racheting_validator.go:33).
THEOREM RaisedIsReported == Spec => []RaisedReported
<1>1. BudgetInv => RaisedReported
  <2> SUFFICES ASSUME BudgetInv, pc = "done" PROVE RaisedReported
    BY DEF RaisedReported
  <2>1. "new" \in Sides /\ "existing" \in Sides
    BY DEF Sides
  <2>2. reported.errors = results["new"].errors \ results["existing"].errors
    <3>1. reported = [kind \in DOMAIN NoResults |-> stringDiff(results["new"][kind], results["existing"][kind])]
      BY DEF BudgetInv, Control
    <3>2. "errors" \in DOMAIN NoResults
      BY DEF NoResults
    <3>3. QED
      BY <3>1, <3>2 DEF stringDiff
  <2>3. ASSUME NEW name, NEW p \in Blamed(results["new"].errors, name),
               p \notin Blamed(results["existing"].errors, name)
        PROVE  p \in Blamed(reported.errors, name)
    BY <2>2, <2>3, BlamedMeans
  <2>4. ASSUME NEW p, OverBudget("new", p), ~OverBudget("existing", p)
        PROVE  p \in Blamed(reported.errors, "estimated rule cost")
    BY <2>1, <2>3, <2>4, BlamesRight DEF RC
  <2>5. ASSUME TotalOverBudget("new"), ~TotalOverBudget("existing")
        PROVE  Blamed(reported.errors, "total CRD cost") # {}
    <3>1. Blamed(results["new"].errors, TC) # {} /\ Blamed(results["existing"].errors, TC) = {}
      BY <2>1, <2>5, BlamesRight
    <3>2. QED
      BY <2>3, <3>1 DEF TC
  <2>6. QED
    BY <2>4, <2>5 DEF RaisedReported
<1>2. QED
  BY <1>1, BudgetInvariant, PTL

\* The share of the budget that an info shows is the true one for each rule within
\* budget; the product by 100 does not wrap there, and where it may have wrapped to
\* something harmless an error stands beside it (comp_must_not_exceed_cost_budget.go:132).
THEOREM PercentIsHonest == Spec => []PercentHonest
<1>1. BudgetInv => PercentHonest
  <2> SUFFICES ASSUME BudgetInv, pc = "done", NEW s \in Sides
               PROVE  /\ \A schema \in SchemasOf(s) : \A j \in Judged(schema) :
                            LET cost == TrueCost(schema, j[1], j[2])
                                cr == schema[j[1]].rules[j[2]]
                            IN  cost <= Limit /\ ~cr.error =>
                                  <<"cost", SimpleLocation(j[1]), j[2], cr.cost, cost, Rounded(cost * 100, Limit, 2)>>
                                      \in results[s].infos
                      /\ \A info \in results[s].infos :
                            info[1] = "cost" /\ info[6] <= WholeBudget /\ info[5] > Limit =>
                               \E p \in Blamed(results[s].errors, "estimated rule cost") : SimpleLocation(p) = info[2]
    BY Zenon DEF PercentHonest
  <2>1. AllTold /\ Meant(s)
    BY DEF BudgetInv, Sound, AllMeant
  <2>2. ASSUME NEW schema \in SchemasOf(s), NEW j \in Judged(schema),
               TrueCost(schema, j[1], j[2]) <= Limit, ~schema[j[1]].rules[j[2]].error
        PROVE  <<"cost", SimpleLocation(j[1]), j[2], schema[j[1]].rules[j[2]].cost, TrueCost(schema, j[1], j[2]),
                 Rounded(TrueCost(schema, j[1], j[2]) * 100, Limit, 2)>> \in results[s].infos
    <3> DEFINE cost == Cost(schema, j[1], j[2])
    <3>1. PICK k \in Converting(s) : schema = CRDOf(s)[k].schema
      BY SchemasMean
    <3>2. j \in JudgedSoFar(s, k) /\ WellFormed(schema)
      BY <3>1, AllJudged
    <3>3. Told(results[s], schema, j[1], j[2])
      BY <2>1, <3>1, <3>2 DEF AllTold
    <3>4. <<"cost", SimpleLocation(j[1]), j[2], schema[j[1]].rules[j[2]].cost, cost, Percent(cost)>>
             \in results[s].infos
      BY <2>2, <3>3, Zenon DEF Told
    <3>5. cost = TrueCost(schema, j[1], j[2]) /\ cost \in Nat /\ cost <= Limit
      BY <2>2, <3>2, OverIsOver
    <3> HIDE DEF cost
    <3>6. (cost * 100) % (MaxUint + 1) = cost * 100
      <4>1. cost * 100 \in Nat /\ cost * 100 < MaxUint + 1 /\ MaxUint \in Nat
        BY <3>5, Limits
      <4> DEFINE n == cost * 100
      <4> HIDE DEF n
      <4>2. n % (MaxUint + 1) = n
        BY <4>1 DEF n
      <4>3. QED
        BY <4>2 DEF n
    <3>7. Percent(cost) = Rounded(cost * 100, Limit, 2)
      BY <3>6 DEF Percent
    <3>8. QED
      BY <3>4, <3>5, <3>7
  <2>3. ASSUME NEW info \in results[s].infos, info[1] = "cost", info[5] > Limit
        PROVE  \E p \in Blamed(results[s].errors, "estimated rule cost") : SimpleLocation(p) = info[2]
    BY <2>1, <2>3, Zenon DEF Meant, RC
  <2>4. QED
    BY <2>2, <2>3, Zenon
<1>2. QED
  BY <1>1, BudgetInvariant, PTL

LEMMA ParentsNamed ==
    ASSUME NEW schema, NEW p
    PROVE  getUnboundedParentFields(schema, p) = IF Mismatch(p) THEN {} ELSE UnboundedAbove(schema, p)
<1>1. Unbounded # 1
  BY LimitsAssumption
<1>2. \A s : isUnboundedCardinality(s) <=> MaxElements(s) = Unbounded
  BY <1>1 DEF isUnboundedCardinality, MaxElements
<1>3. QED
  BY <1>2 DEF getUnboundedParentFields, UnboundedAbove

LEMMA PathMismatch ==
    ASSUME NEW schema, WellFormed(schema), NEW p \in DOMAIN schema
    PROVE  Mismatch(p) <=> \E i \in DOMAIN p : PathParts(p[i]) # 1
<1>1. Len(p) \in Nat /\ DOMAIN p = 1..Len(p) /\ \A i \in DOMAIN p : PathParts(p[i]) \in Nat \ {0}
  BY DEF WellFormed
<1>2. QED
  BY <1>1, MismatchMeans

\* A rule whose cost rests on a guess is explained by a warning that names all unbounded
\* parents, or, exactly where a step of the path prints in several parts, none of them
\* beside an error (comp_must_not_exceed_cost_budget.go:100-105, 233-240).
THEOREM GuessesAreExplained == Spec => []UnboundedExplained
<1>1. BudgetInv => UnboundedExplained
  <2> SUFFICES ASSUME BudgetInv, pc = "done", NEW s \in Sides
               PROVE  /\ \A schema \in SchemasOf(s) : \A j \in Judged(schema) :
                            UnboundedAbove(schema, j[1]) # {} =>
                               \E named \in {UnboundedAbove(schema, j[1]), {}} :
                                  /\ <<"unbounded", SimpleLocation(j[1]), named, schema[j[1]].rules[j[2]].times>>
                                        \in results[s].warnings
                                  /\ named = {} => <<"mismatch">> \in results[s].errors
                      /\ <<"mismatch">> \in results[s].errors <=>
                            \E schema \in SchemasOf(s) : \E j \in Judged(schema) :
                               /\ UnboundedAbove(schema, j[1]) # {}
                               /\ \E i \in DOMAIN j[1] : PathParts(j[1][i]) # 1
    BY Zenon DEF UnboundedExplained
  <2>1. AllTold /\ Meant(s)
    BY DEF BudgetInv, Sound, AllMeant
  <2>2. ASSUME NEW schema \in SchemasOf(s), NEW j \in Judged(schema)
        PROVE  /\ WellFormed(schema) /\ j[1] \in DOMAIN schema
               /\ Told(results[s], schema, j[1], j[2])
               /\ MaxCardinality(schema, j[1]) = Unbounded <=> UnboundedAbove(schema, j[1]) # {}
    <3>1. PICK k \in Converting(s) : schema = CRDOf(s)[k].schema
      BY SchemasMean
    <3>2. j \in JudgedSoFar(s, k) /\ WellFormed(schema)
      BY <3>1, AllJudged
    <3>3. Told(results[s], schema, j[1], j[2])
      BY <2>1, <3>1, <3>2 DEF AllTold
    <3>4. QED
      BY <3>2, <3>3, OverIsOver
  <2>3. ASSUME NEW schema \in SchemasOf(s), NEW j \in Judged(schema), UnboundedAbove(schema, j[1]) # {}
        PROVE  \E named \in {UnboundedAbove(schema, j[1]), {}} :
                  /\ <<"unbounded", SimpleLocation(j[1]), named, schema[j[1]].rules[j[2]].times>>
                        \in results[s].warnings
                  /\ named = {} => <<"mismatch">> \in results[s].errors
    <3> DEFINE named == getUnboundedParentFields(schema, j[1])
    <3>1. /\ <<"unbounded", SimpleLocation(j[1]), named, schema[j[1]].rules[j[2]].times>>
                \in results[s].warnings
          /\ Mismatch(j[1]) => <<"mismatch">> \in results[s].errors
      BY <2>2, <2>3, Zenon DEF Told
    <3>2. named = IF Mismatch(j[1]) THEN {} ELSE UnboundedAbove(schema, j[1])
      BY ParentsNamed
    <3> HIDE DEF named
    <3>3. named \in {UnboundedAbove(schema, j[1]), {}} /\ (named = {} => <<"mismatch">> \in results[s].errors)
      BY <2>3, <3>1, <3>2
    <3>4. QED
      BY <3>1, <3>3, Zenon
  <2>4. ASSUME <<"mismatch">> \in results[s].errors
        PROVE  \E schema \in SchemasOf(s) : \E j \in Judged(schema) :
                  /\ UnboundedAbove(schema, j[1]) # {}
                  /\ \E i \in DOMAIN j[1] : PathParts(j[1][i]) # 1
    <3>1. PICK k \in Converting(s) : \E j \in Judged(CRDOf(s)[k].schema) :
             MaxCardinality(CRDOf(s)[k].schema, j[1]) = Unbounded /\ Mismatch(j[1])
      BY <2>1, <2>4 DEF Meant
    <3> DEFINE schema == CRDOf(s)[k].schema
    <3>2. schema \in SchemasOf(s)
      BY SchemasMean
    <3> HIDE DEF schema
    <3>3. PICK j \in Judged(schema) : MaxCardinality(schema, j[1]) = Unbounded /\ Mismatch(j[1])
      BY <3>1 DEF schema
    <3>4. UnboundedAbove(schema, j[1]) # {} /\ \E i \in DOMAIN j[1] : PathParts(j[1][i]) # 1
      BY <2>2, <3>2, <3>3, PathMismatch
    <3>5. QED
      BY <3>2, <3>4
  <2>5. ASSUME NEW schema \in SchemasOf(s), NEW j \in Judged(schema), UnboundedAbove(schema, j[1]) # {},
               \E i \in DOMAIN j[1] : PathParts(j[1][i]) # 1
        PROVE  <<"mismatch">> \in results[s].errors
    <3>1. Mismatch(j[1])
      BY <2>2, <2>5, PathMismatch
    <3>2. QED
      BY <2>2, <2>5, <3>1, Zenon DEF Told
  <2>6. QED
    BY <2>3, <2>4, <2>5, Zenon
<1>2. QED
  BY <1>1, BudgetInvariant, PTL
=============================================================================
