---------------------------- MODULE CheckerParity ----------------------------
(***************************************************************************)
(* The two front ends side by side: check-manifests on files and the       *)
(* admission hook on a request, started with the same flags and given the  *)
(* same CRDs.  They share the registry and the options and nothing else:   *)
(* the order of their steps, what they print and what they make of a       *)
(* failure are written twice.  The directory tests are run through both:   *)
(* on the registry's results and on what a client of the hook reads back.  *)
(***************************************************************************)
EXTENDS TestHarness

CONSTANTS
    Test,       \* the expected.yaml and errors.txt somebody may write
    Listing     \* the lists in which a comparator may put its messages of a kind

\* An expected.yaml lists results, any of a name; a comparator that has messages of a
\* kind has at least one.
ASSUME TestAssumption ==
    /\ \A test \in Test :
          /\ test.results \in Seq(ToSet(test.results))
          /\ \A item \in ToSet(test.results) :
                /\ DOMAIN item = MessageKinds \cup {"name"}
                /\ \A kind \in MessageKinds : item[kind] \in Seq(Nat)
    /\ Listing \subseteq Seq(Nat) \ {<<>>}

VARIABLES flags, said,                                  \* what both are given
          files, cliPc, names, called, printed, exit,   \* check-manifests
          review, phase, config, pc, done, response     \* admission-check

cliVars == <<files, cliPc, names, called, printed, exit>>
hookVars == <<review, phase, config, pc, done, response>>
vars == <<flags, said, cliVars, hookVars>>

CLI == INSTANCE CheckManifests WITH finding <- said, pc <- cliPc, done <- called

r == "request"
Hook == INSTANCE AdmissionServer WITH
            Request <- {r},
            Review <- {},
            finding <- [req \in {r} |-> said]

\* The request that carries what the files hold.  A CRD that does not decode is
\* undecodable on both sides; a file that cannot be read has no counterpart.
Matching ==
    [operation   |-> IF files.existing = "unset" THEN "CREATE" ELSE "UPDATE",
     subResource |-> FALSE,
     crdGroup    |-> TRUE,
     object      |-> files.new,
     oldObject   |-> IF files.existing = "unset" THEN "absent" ELSE files.existing]

Init ==
    /\ flags \in CLI!FlagSets
    /\ said \in [Known -> Finding]
    /\ CLI!CLIInit
    /\ files \in [existing : {"unset", "undecodable", "good"}, new : {"undecodable", "good"}]
    /\ review = [req \in {r} |-> Matching]
    /\ Hook!ServerInit

CLIStep == CLI!CLINext /\ UNCHANGED hookVars
HookStep == UNCHANGED <<said, cliVars>> /\ Hook!ServerNext

\* Both are done.
Over == UNCHANGED vars /\ cliPc = "exited" /\ Hook!Idle

Next == CLIStep \/ HookStep \/ Over

Spec == Init /\ [][Next]_vars

-----------------------------------------------------------------------------
Judged == cliPc = "exited" /\ pc[r] = "answered"

\* The two front ends reach the same verdict: the command succeeds iff the hook
\* states no failure, it finds violations iff the hook names causes, it refuses its
\* input iff the hook cannot decode the request, and it crashes iff the hook does.
SameVerdict ==
    Judged => LET answer == response[r] IN
        /\ exit = 0 <=> answer.code = 200 /\ ~answer.result
        /\ exit = 1 <=> answer.causes # {}
        /\ exit = 255 <=> answer.result /\ answer.causes = {}
        /\ exit = 2 <=> answer.code = 500

\* Flags that one front end accepts the other accepts too, and both take them to
\* select the same comparators, although one validates before it completes and the
\* other after (check_manifests.go:44-56, check_admission.go:42-53).
SameFlags ==
    /\ Hook!Serving /\ exit = 255 => "undecodable" \in {files.new, files.existing}
    /\ cliPc = "Run" => (phase = "failed" => config.set)
    /\ cliPc = "Run" /\ Hook!Serving => names = config.names

\* They tell the same things of the same comparators, except that the hook keeps to
\* itself everything but the evaluation errors when there is one
\* (admission_evaluator.go:68-83; check_manifests.go:127-155 prints both).
SameReport ==
    Judged /\ exit \in {0, 1} =>
        LET told == Hook!Decoded(response[r]) IN
        IF printed["evaluationError"] # {}
          THEN /\ told.evaluationError = printed["evaluationError"]
               /\ told.error \cup told.warning \cup told.info = {}
          ELSE \A kind \in {"evaluationError", "error", "warning", "info"} : told[kind] = printed[kind]

-----------------------------------------------------------------------------
(***************************************************************************)
(* The same CRDs as a directory test, with the default flags.              *)
(***************************************************************************)
ResultsOf(cs, says, list) ==
    LET Messages(c, kind) == IF c \in says[kind] THEN list ELSE <<>>
    IN  [i \in DOMAIN cs |->
           [name |-> cs[i], error |-> Messages(cs[i], "error"),
            warning |-> Messages(cs[i], "warning"), info |-> Messages(cs[i], "info")]]

\* The comparators that Registry.Compare has results of, in its order.
Returned(errs) ==
    LET upTo[n \in 0..Len(KnownComparators)] ==
          IF n = 0 THEN <<>>
          ELSE IF KnownComparators[n] \in errs THEN upTo[n - 1]
          ELSE Append(upTo[n - 1], KnownComparators[n])
    IN  upTo[Len(KnownComparators)]

\* simpleComparatorTest.Test, on what Registry.Compare returns.
PassesDirectly(test, list) ==
    LET errs == Errs(said, Known)
        says == [kind \in MessageKinds |-> Saying(said, Known, kind)]
    IN  /\ Saying(said, Known, "panic") = {}
        /\ Passes(test, ResultsOf(Returned(errs), says, list), errs)

\* admissionComparatorTest.Test: a request that fails ends the test, and only the
\* comparators that have something to say come back.
PassesThroughHook(test, list) ==
    LET told == Hook!Decoded(response[r])
        returned == SetToSeq(told.error \cup told.warning \cup told.info)
    IN  /\ response[r].code = 200
        /\ Passes(test, ResultsOf(returned, told, list), told.evaluationError)

Tested == Judged /\ TestInDir(files) /\ flags.enabled = {} /\ flags.disabled = {}

\* A directory test passes iff its expected.yaml lists, in any order, what
\* check-manifests prints for the same manifests, and no comparator fails; an
\* errors.txt is never satisfied (simple_tester.go:217-310; line 225 compares a
\* []string with an []error).
TestVouches ==
    Tested => \A test \in Test, list \in Listing :
        PassesDirectly(test, list) <=>
            /\ exit \in {0, 1} /\ printed["evaluationError"] = {} /\ test.errors = {}
            /\ \A kind \in MessageKinds :
                 /\ printed[kind] \subseteq {item.name : item \in ToSet(test.results)}
                 /\ \A item \in ToSet(test.results) :
                      SameBag(item[kind], IF item.name \in printed[kind] THEN list ELSE <<>>)

\* A directory test passes through the hook iff it passes on the registry itself: the
\* quoting of names, the prefix of infos and the dropping of quiet comparators on the
\* way to the client and back lose nothing a test looks at (admission_tester.go:91-168).
TestsAgree ==
    Tested => \A test \in Test, list \in Listing :
        PassesThroughHook(test, list) <=> PassesDirectly(test, list)
=============================================================================
