---------------------------- MODULE TestHarness ----------------------------
(***************************************************************************)
(* The directory tests (pkg/manifestcomparators/simple_tester.go): two     *)
(* manifests, an expected.yaml and an errors.txt go in, and the results of *)
(* the registry either pass or fail.                                       *)
(*                                                                         *)
(* A ComparisonResults is a name and one list of messages per kind; a      *)
(* message is a number, its rank in the order of sort.Strings.  A nil list *)
(* and an empty one are the same: the code asks for the length first.      *)
(***************************************************************************)
EXTENDS ComparatorOptions

MessageKinds == {"error", "warning", "info"}

Quiet(results) == \A kind \in MessageKinds : results[kind] = <<>>

\* TestInDir: existing.yaml may be missing, what is there has to decode.
TestInDir(files) == files.new = "good" /\ files.existing \in {"unset", "good"}

\* The places of the results findResultsForComparator looks for; it takes the first.
PlacesOf(name, results) == {i \in DOMAIN results : results[i].name = name}
findResultsForComparator(name, results) == results[Min(PlacesOf(name, results))]

\* Two lists have the same messages, each as often.
SameBag(s, t) ==
    Len(s) = Len(t) /\ \A x \in ToSet(s) \cup ToSet(t) :
        Cardinality({i \in DOMAIN s : s[i] = x}) = Cardinality({i \in DOMAIN t : t[i] = x})

\* sort.Strings.
SortStrings(s) ==
    LET rearranged == {t \in [DOMAIN s -> ToSet(s)] : SameBag(s, t)}
    IN  CHOOSE t \in rearranged : \A i, j \in DOMAIN t : i < j => t[i] <= t[j]

\* Mutant of Sorted: the lists are left in the order the walks produced.
SortedNot(results, others) == results

\* The lists are sorted of the results that the first loop matches with one of the
\* others.  The loop works on copies of the structs, but the copies share the
\* lists, so the second loop meets them sorted.
Sorted(results, others) ==
    [i \in DOMAIN results |->
        IF PlacesOf(results[i].name, others) = {} THEN results[i]
        ELSE [kind \in DOMAIN results[i] |->
                IF kind \in MessageKinds THEN SortStrings(results[i][kind]) ELSE results[i][kind]]]

SameMessages(expected, actual) == \A kind \in MessageKinds : expected[kind] = actual[kind]

\* Mutant of AllFound: whatever is said of a comparator that others are not listed for
\* is overlooked.
AllFoundOrUnlisted(results, others) ==
    \A i \in DOMAIN results :
        PlacesOf(results[i].name, others) # {} =>
            SameMessages(results[i], findResultsForComparator(results[i].name, others))

\* One of the two loops of Test: everything said in results is said in others too.
AllFound(results, others) ==
    \A i \in DOMAIN results :
        IF PlacesOf(results[i].name, others) = {}
          THEN Quiet(results[i])
          ELSE SameMessages(results[i], findResultsForComparator(results[i].name, others))

\* reflect.DeepEqual of ExpectedErrors, a []string, and actualErrors, an []error.
DeepEqualErrors(expectedErrors, actualErrors) == FALSE

\* The switch at the start of Test; a mismatch ends the test.
ErrorsAsExpected(expectedErrors, actualErrors) ==
    IF expectedErrors # {} /\ actualErrors # {}
      THEN DeepEqualErrors(expectedErrors, actualErrors)
      ELSE expectedErrors = actualErrors

\* ComparatorTest.Test passes.
Passes(test, actualResults, actualErrors) ==
    LET expected == Sorted(test.results, actualResults)
        actual == Sorted(actualResults, test.results)
    IN  /\ ErrorsAsExpected(test.errors, actualErrors)
        /\ AllFound(expected, actual)
        /\ AllFound(actual, expected)
=============================================================================
