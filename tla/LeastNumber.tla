---------------------------- MODULE LeastNumber ----------------------------
(***************************************************************************)
(* Induction over the naturals in the form in which the provers can use    *)
(* it: about sets of numbers, not about a predicate.                       *)
(***************************************************************************)
EXTENDS Integers, FiniteSetsExt, WellFoundedInduction, TLAPS

\* Every set of naturals that is not empty has a least element.
LEMMA LeastNat ==
    ASSUME NEW T, T \subseteq Nat, T # {}
    PROVE  \E x \in T : \A y \in T : x <= y
<1> DEFINE R == OpToRel(<, Nat)
<1>1. IsWellFoundedOn(R, Nat)
  BY NatLessThanWellFounded
<1>2. \A x, y \in Nat : y < x => <<y, x>> \in R
  BY DEF OpToRel
<1> HIDE DEF R
<1>3. PICK x \in T : \A y \in T : ~(<<y, x>> \in R)
  BY <1>1, WFMin
<1>4. \A a, b \in Nat : ~(b < a) => a <= b
  BY SMT
<1>5. QED
  BY <1>2, <1>3, <1>4

\* One that is bounded has a greatest element, which Max finds.
LEMMA MaxOfBounded ==
    ASSUME NEW S, S \subseteq Nat, S # {}, NEW n \in Nat, \A x \in S : x <= n
    PROVE  Max(S) \in S /\ \A y \in S : Max(S) >= y
<1> DEFINE T == {n - x : x \in S}
<1>1. T \subseteq Nat /\ T # {}
  <2>1. \A x \in S : n - x \in Nat
    OBVIOUS
  <2>2. PICK x \in S : TRUE
    OBVIOUS
  <2>3. n - x \in T
    OBVIOUS
  <2>4. QED
    BY <2>1, <2>3
<1>2. PICK t \in T : \A y \in T : t <= y
  BY <1>1, LeastNat
<1>3. PICK x \in S : t = n - x
  BY <1>2
<1>4. \A y \in S : x >= y
  <2> TAKE y \in S
  <2>1. n - x <= n - y
    BY <1>2, <1>3
  <2>2. x \in Nat /\ y \in Nat
    OBVIOUS
  <2>3. QED
    BY <2>1, <2>2
<1>5. QED
  BY <1>3, <1>4 DEF Max

\* A set with 0 and, up to n, with the successors of its elements has all of 0..n.
LEMMA UpToInduction ==
    ASSUME NEW n \in Nat, NEW S, 0 \in S, \A i \in 1..n : i - 1 \in S => i \in S
    PROVE  0..n \subseteq S
<1> DEFINE T == (0..n) \ S
<1> SUFFICES ASSUME T # {} PROVE FALSE
  OBVIOUS
<1>1. PICK m \in T : \A y \in T : m <= y
  <2>1. T \subseteq Nat
    OBVIOUS
  <2> HIDE DEF T
  <2>2. QED
    BY <2>1, LeastNat
<1>2. m \in 1..n
  BY <1>1
<1>3. m - 1 \in 0..n /\ m - 1 \notin T
  BY <1>1, <1>2
<1>4. m - 1 \in S
  BY <1>3
<1>5. QED
  BY <1>1, <1>2, <1>4

\* The numbers up to n get values, b and what h makes of the value before.
Builds(X, n, h) == h \in [X \X (1..n) -> X]
Built(X, n, b, h) == \E g \in [0..n -> X] : g[0] = b /\ \A i \in 1..n : g[i] = h[<<g[i - 1], i>>]

\* A function can be defined number by number.
LEMMA BuildUp ==
    ASSUME NEW X, NEW n \in Nat, NEW b \in X, NEW h, Builds(X, n, h)
    PROVE  Built(X, n, b, h)
<1> USE DEF Builds
<1> DEFINE Fits(g, k) == g[0] = b /\ \A i \in 1..k : g[i] = h[<<g[i - 1], i>>]
           S == {k \in 0..n : \E g \in [0..k -> X] : Fits(g, k)}
<1>1. 0 \in S
  <2> DEFINE g0 == [i \in 0..0 |-> b]
  <2>1. g0 \in [0..0 -> X] /\ g0[0] = b
    OBVIOUS
  <2>2. Fits(g0, 0)
    BY <2>1
  <2>3. 0 \in 0..n
    OBVIOUS
  <2> HIDE DEF g0, Fits
  <2>4. QED
    BY <2>1, <2>2, <2>3
<1>2. ASSUME NEW k \in 1..n, k - 1 \in S
      PROVE  k \in S
  <2>1. PICK g \in [0..(k - 1) -> X] : Fits(g, k - 1)
    BY <1>2
  <2> DEFINE g1 == [i \in 0..k |-> IF i = k THEN h[<<g[k - 1], k>>] ELSE g[i]]
  <2>2. g[k - 1] \in X
    BY <2>1
  <2>3. g1 \in [0..k -> X]
    BY <2>1, <2>2
  <2>4. g1[0] = b /\ \A i \in 0..(k - 1) : g1[i] = g[i]
    BY <2>1
  <2>5. g1[k] = h[<<g1[k - 1], k>>]
    <3>1. k \in 0..k /\ k - 1 \in 0..(k - 1)
      OBVIOUS
    <3>2. g1[k] = h[<<g[k - 1], k>>]
      BY <3>1
    <3>3. g1[k - 1] = g[k - 1]
      BY <2>4, <3>1
    <3>4. QED
      BY <3>2, <3>3
  <2> HIDE DEF g1
  <2>6. ASSUME NEW i \in 1..k PROVE g1[i] = h[<<g1[i - 1], i>>]
    <3>1. CASE i = k
      BY <2>5, <3>1
    <3>2. CASE i # k
      <4>1. i \in 1..(k - 1) /\ i - 1 \in 0..(k - 1) /\ i \in 0..(k - 1)
        BY <3>2
      <4>2. QED
        BY <2>1, <2>4, <4>1
    <3>3. QED
      BY <3>1, <3>2
  <2>7. Fits(g1, k)
    BY <2>4, <2>6
  <2>8. k \in 0..n
    OBVIOUS
  <2> HIDE DEF Fits
  <2>9. QED
    BY <2>3, <2>7, <2>8
<1>3. n \in S
  <2> HIDE DEF S
  <2>1. n \in 0..n
    OBVIOUS
  <2>2. QED
    BY <1>1, <1>2, <2>1, UpToInduction
<1>4. QED
  BY <1>3 DEF Built

\* The same for functions whose values are numbers.
LEMMA StepByStep ==
    ASSUME NEW n \in Nat, NEW b \in Nat, NEW h \in [Nat \X (1..n) -> Nat]
    PROVE  \E g \in [0..n -> Nat] : g[0] = b /\ \A i \in 1..n : g[i] = h[<<g[i - 1], i>>]
<1>1. Builds(Nat, n, h)
  BY DEF Builds
<1>2. Built(Nat, n, b, h)
  BY <1>1, BuildUp
<1>3. QED
  BY <1>2 DEF Built
=============================================================================
