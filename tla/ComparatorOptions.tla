------------------------- MODULE ComparatorOptions -------------------------
(***************************************************************************)
(* Which comparators run, and what running them yields: the registry       *)
(* (pkg/manifestcomparators/registry.go) and the flags that select from it *)
(* (pkg/cmd/options/comparators.go).                                       *)
(*                                                                         *)
(* A comparator is its name.  What it says about the CRDs at hand is its   *)
(* finding: the kinds of message in its ComparisonResults, or else an      *)
(* evaluation error (the error its Compare returns) or a panic.            *)
(*                                                                         *)
(* Every list of names the program keeps is the List() of a sets.String:   *)
(* sorted, without duplicates.  It is modelled by the set; whoever goes    *)
(* through it takes the names in the order of KnownComparators.            *)
(***************************************************************************)
EXTENDS Naturals, Sequences, FiniteSets, SequencesExt

CONSTANTS
    KnownComparators,   \* the registered names, sorted
    Unknown             \* other names a user may pass

ASSUME RegistryAssumption ==
    /\ KnownComparators \in Seq(ToSet(KnownComparators))
    /\ IsInjective(KnownComparators)
    /\ Unknown \cap ToSet(KnownComparators) = {}

Known == ToSet(KnownComparators)

\* No comparator has the name that the hook gives the causes of its own.
ASSUME NameAssumption == "EvaluationError" \notin Known

Finding == (SUBSET {"error", "warning", "info"}) \cup {{"evaluationError"}, {"panic"}}

\* ComparatorOptions.Validate, and the same checks in Complete: an error unless
\* every name in either list is known.
ValidNames(flags) == flags.disabled \subseteq Known /\ flags.enabled \subseteq Known

\* Mutant of ComparatorNames: what is enabled wins over what is disabled.
ComparatorNamesEnabledWins(flags) == (Known \ flags.disabled) \cup flags.enabled

\* ComparatorOptions.Complete: the default is every known comparator.
ComparatorNames(flags) == (Known \cup flags.enabled) \ flags.disabled

\* Registry.Compare: the comparators to call; no names means all.
Selected(names) == IF names = {} THEN Known ELSE names

\* The first of some comparators in the order of the registry's sorted list.
Place(c) == CHOOSE i \in DOMAIN KnownComparators : KnownComparators[i] = c
First(cs) == {c \in cs : \A other \in cs : Place(c) <= Place(other)}

\* What Compare returns once the comparators in done were called: the errors, and
\* the results with messages of a kind.
Errs(finding, done) == {c \in done : "evaluationError" \in finding[c]}
Saying(finding, done, kind) == {c \in done : kind \in finding[c]}
=============================================================================
