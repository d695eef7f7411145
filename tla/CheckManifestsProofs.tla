------------------------ MODULE CheckManifestsProofs ------------------------
(***************************************************************************)
(* Proofs about check-manifests, for every registry, every set of unknown  *)
(* names and everything the comparators may say.                           *)
(*                                                                         *)
(* What exit code 0 promises is decided by the last step and rests on all  *)
(* the earlier ones; CLIInv remembers what they established: which names   *)
(* the flags were taken to select, that only those were called, that none  *)
(* of the called ones panicked, and what a command that was not cut short  *)
(* has called and printed.                                                 *)
(***************************************************************************)
EXTENDS CheckManifests, TLAPS

\* The command got as far as the comparators, with what the flags and files say.
Completed ==
    /\ ValidNames(flags)
    /\ names = ComparatorNames(flags)
    /\ files.new = "good" /\ files.existing \in {"unset", "good"}

RunsSelected ==
    /\ pc = "Run" => Completed
    /\ done # {} => Completed
    /\ done \subseteq Selected(names)
    /\ \A c \in done : "panic" \notin finding[c]

ReportsAll ==
    /\ exit \in {0, 1} =>
         /\ Completed
         /\ done = Selected(names)
         /\ printed = [line \in Lines |-> Saying(finding, done, line)]
    /\ exit = 0 => Errs(finding, done) = {} /\ Saying(finding, done, "error") = {}
    /\ exit = 1 => Errs(finding, done) # {} \/ Saying(finding, done, "error") # {}

\* Why the command was cut short, if it was.
CutShort ==
    /\ exit = 2 => Completed /\ \E c \in Selected(names) : "panic" \in finding[c]
    /\ exit = 255 => ~( /\ files.new = "good" /\ files.existing \in {"unset", "good"}
                       /\ ValidNames(flags))
    /\ exit # 0 - 1 <=> pc = "exited"

CLIInv == TypeOK /\ RunsSelected /\ ReportsAll /\ CutShort

-----------------------------------------------------------------------------
\* The names that Complete computes are the ones the user left enabled, all of them
\* known once Validate has accepted the flags (comparators.go:54-74).
LEMMA NamesWanted ==
    ASSUME flags \in FlagSets, ValidNames(flags)
    PROVE  ComparatorNames(flags) = Wanted /\ ComparatorNames(flags) \subseteq Known
  BY DEF ComparatorNames, Wanted, ValidNames

\* Registry.Compare calls known comparators only.
LEMMA SelectedKnown ==
    ASSUME NEW S \in SUBSET Known
    PROVE  Selected(S) \subseteq Known
  BY DEF Selected

\* What a comparator can say: messages, or an evaluation error, or a panic.
LEMMA FindingKinds ==
    ASSUME NEW f \in Finding
    PROVE  \/ f \subseteq {"error", "warning", "info"}
           \/ f = {"evaluationError"} \/ f = {"panic"}
  BY DEF Finding

\* The exit codes are different numbers.
LEMMA ExitCodes ==
    /\ 0 - 1 # 0 /\ 0 - 1 # 1 /\ 0 - 1 # 2 /\ 0 - 1 # 255 /\ 0 # 1 /\ 0 # 2 /\ 0 # 255
    /\ 1 # 2 /\ 1 # 255 /\ 2 # 255
  BY SMT

LEMMA InitCLI == Init => CLIInv
<1> SUFFICES ASSUME Init PROVE CLIInv
  OBVIOUS
<1>1. TypeOK
  BY DEF Init, CLIInit, TypeOK, Lines
<1>2. RunsSelected /\ ReportsAll /\ CutShort
  <2>1. 0 - 1 # 0 /\ 0 - 1 # 1 /\ 0 - 1 # 2 /\ 0 - 1 # 255
    BY SMT
  <2>2. QED
    BY <2>1 DEF Init, CLIInit, RunsSelected, ReportsAll, CutShort
<1>3. QED
  BY <1>1, <1>2 DEF CLIInv

LEMMA ValidateInv == CLIInv /\ Validate => CLIInv'
<1> SUFFICES ASSUME CLIInv, Validate PROVE CLIInv'
  OBVIOUS
<1>1. /\ pc = "Validate" /\ UNCHANGED <<flags, finding, files, names, done, printed>>
      /\ \/ pc' = "exited" /\ exit' = 255 /\ (files.new = "unset" \/ ~ValidNames(flags))
         \/ pc' = "Complete" /\ exit' = exit
  BY DEF Validate, Exit
<1>2. TypeOK'
  BY <1>1 DEF CLIInv, TypeOK
<1>3. RunsSelected'
  BY <1>1 DEF CLIInv, RunsSelected, Completed
<1>4. ReportsAll'
  <2>1. exit = 0 - 1
    BY <1>1 DEF CLIInv, CutShort
  <2>2. QED
    BY <1>1, <2>1, ExitCodes DEF ReportsAll
<1>5. CutShort'
  BY <1>1, ExitCodes DEF CLIInv, CutShort
<1>6. QED
  BY <1>2, <1>3, <1>4, <1>5 DEF CLIInv

LEMMA CompleteInv == CLIInv /\ Complete => CLIInv'
<1> SUFFICES ASSUME CLIInv, Complete PROVE CLIInv'
  OBVIOUS
<1>1. /\ pc = "Complete" /\ UNCHANGED <<flags, finding, files, done, printed>>
      /\ \/ /\ pc' = "exited" /\ exit' = 255 /\ names' = names
            /\ ~( /\ files.existing \in {"unset", "good"} /\ files.new = "good"
                  /\ ValidNames(flags))
         \/ /\ files.existing \in {"unset", "good"} /\ files.new = "good" /\ ValidNames(flags)
            /\ names' = ComparatorNames(flags) /\ pc' = "Run" /\ exit' = exit
  BY DEF Complete, Exit
<1>2. TypeOK'
  BY <1>1, NamesWanted DEF CLIInv, TypeOK
<1>3. done = {} \/ names' = names
  BY <1>1 DEF CLIInv, RunsSelected, Completed
<1>4. RunsSelected'
  BY <1>1, <1>3 DEF CLIInv, RunsSelected, Completed, ComparatorNames, ValidNames
<1>5. ReportsAll'
  BY <1>1, ExitCodes DEF CLIInv, ReportsAll, CutShort
<1>6. CutShort'
  BY <1>1, ExitCodes DEF CLIInv, CutShort
<1>7. QED
  BY <1>2, <1>4, <1>5, <1>6 DEF CLIInv

LEMMA RunComparatorInv == CLIInv /\ RunComparator => CLIInv'
<1> SUFFICES ASSUME CLIInv, RunComparator PROVE CLIInv'
  OBVIOUS
<1>1. PICK c \in First(ToCall) :
        IF "panic" \in finding[c] THEN Exit(2) /\ UNCHANGED done
                                ELSE done' = done \cup {c} /\ UNCHANGED <<pc, exit>>
  BY DEF RunComparator
<1>2. pc = "Run" /\ UNCHANGED <<flags, finding, files, names, printed>>
  BY DEF RunComparator
<1>3. c \in Selected(names) /\ c \in Known
  BY SelectedKnown DEF First, ToCall, CLIInv, TypeOK
<1>4. TypeOK'
  BY <1>1, <1>2, <1>3 DEF CLIInv, TypeOK, Exit
<1>5. RunsSelected'
  BY <1>1, <1>2, <1>3 DEF CLIInv, RunsSelected, Completed, Exit
<1>6. exit = 0 - 1
  BY <1>2 DEF CLIInv, CutShort
<1>7. ReportsAll'
  BY <1>1, <1>2, <1>6, ExitCodes DEF ReportsAll, Exit
<1>8. CutShort'
  BY <1>1, <1>2, <1>3, <1>6, ExitCodes DEF CLIInv, CutShort, RunsSelected, Completed, Exit
<1>9. QED
  BY <1>4, <1>5, <1>7, <1>8 DEF CLIInv

LEMMA ReportInv == CLIInv /\ Report => CLIInv'
<1> SUFFICES ASSUME CLIInv, Report PROVE CLIInv'
  OBVIOUS
<1>1. /\ pc = "Run" /\ ToCall = {} /\ UNCHANGED <<flags, finding, files, names, done>>
      /\ pc' = "exited" /\ exit' \in {0, 1}
      /\ exit' = 0 => Errs(finding, done) = {} /\ Saying(finding, done, "error") = {}
      /\ exit' = 1 => Errs(finding, done) # {} \/ Saying(finding, done, "error") # {}
      /\ printed' = [line \in Lines |-> Saying(finding, done, line)]
  BY DEF Report, Exit
<1>2. TypeOK'
  BY <1>1 DEF CLIInv, TypeOK, Saying
<1>3. RunsSelected' /\ Completed'
  BY <1>1 DEF CLIInv, RunsSelected, Completed
<1>4. done = Selected(names)
  BY <1>1 DEF CLIInv, RunsSelected, ToCall
<1>5. ReportsAll'
  BY <1>1, <1>3, <1>4 DEF ReportsAll
<1>6. CutShort'
  BY <1>1, ExitCodes DEF CutShort
<1>7. QED
  BY <1>2, <1>3, <1>5, <1>6 DEF CLIInv

LEMMA NextCLI == CLIInv /\ [Next]_vars => CLIInv'
<1> SUFFICES ASSUME CLIInv, [Next]_vars PROVE CLIInv'
  OBVIOUS
<1>1. CASE UNCHANGED vars
  BY <1>1 DEF vars, cliVars, CLIInv, TypeOK, RunsSelected, ReportsAll, CutShort, Completed
<1>2. QED
  BY <1>1, ValidateInv, CompleteInv, RunComparatorInv, ReportInv DEF Next, CLINext, Ended

\* CLIInv holds in every reachable state of the command.
THEOREM CLIInvariant == Spec => []CLIInv
  BY InitCLI, NextCLI, PTL DEF Spec

\* The state of the command keeps its type: only known comparators are selected,
\* called and printed about, and the exit code is one of its five.
THEOREM CLITypeCorrect == Spec => []TypeOK
<1>1. CLIInv => TypeOK
  BY DEF CLIInv
<1>2. QED
  BY <1>1, CLIInvariant, PTL

\* Exit code 0 of check-manifests vouches for the CRD (check_manifests.go:44-56 and
\* 117-155): the files were read and every comparator left enabled ran clean.
THEOREM ZeroVouches == Spec => []ZeroMeansChecked
<1>1. CLIInv => ZeroMeansChecked
  <2> SUFFICES ASSUME CLIInv, exit = 0
               PROVE  /\ files.new = "good" /\ files.existing \in {"unset", "good"}
                      /\ \A c \in Wanted : finding[c] \subseteq {"info", "warning"}
    BY DEF ZeroMeansChecked
  <2>1. /\ Completed /\ done = Selected(names)
        /\ Errs(finding, done) = {} /\ Saying(finding, done, "error") = {}
        /\ \A c \in done : "panic" \notin finding[c]
    BY DEF CLIInv, ReportsAll, RunsSelected
  <2>2. names = Wanted /\ Wanted \subseteq Known
    BY <2>1, NamesWanted DEF Completed, CLIInv, TypeOK
  <2>3. ASSUME NEW c \in Wanted PROVE finding[c] \subseteq {"info", "warning"}
    <3>1. c \in done
      BY <2>1, <2>2 DEF Selected
    <3>2. finding[c] \in Finding
      BY <2>2 DEF CLIInv, TypeOK
    <3>3. "evaluationError" \notin finding[c] /\ "error" \notin finding[c] /\ "panic" \notin finding[c]
      BY <2>1, <3>1 DEF Errs, Saying
    <3>4. QED
      BY <3>2, <3>3, FindingKinds
  <2>4. QED
    BY <2>1, <2>3 DEF Completed
<1>2. QED
  BY <1>1, CLIInvariant, PTL

\* A command that ends with code 0 or 1 has printed every message of every enabled
\* comparator, evaluation errors beside results (check_manifests.go:127-155).
THEOREM EverythingPrinted == Spec => []NothingSwallowed
<1>1. CLIInv => NothingSwallowed
  <2> SUFFICES ASSUME CLIInv, exit \in {0, 1}, NEW c \in Wanted, NEW kind \in finding[c]
               PROVE  c \in printed[kind]
    BY DEF NothingSwallowed
  <2>1. /\ Completed /\ done = Selected(names)
        /\ printed = [line \in Lines |-> Saying(finding, done, line)]
        /\ \A x \in done : "panic" \notin finding[x]
    BY DEF CLIInv, ReportsAll, RunsSelected
  <2>2. names = Wanted /\ Wanted \subseteq Known
    BY <2>1, NamesWanted DEF Completed, CLIInv, TypeOK
  <2>3. c \in done
    BY <2>1, <2>2 DEF Selected
  <2>4. finding[c] \in Finding /\ kind # "panic"
    BY <2>1, <2>2, <2>3 DEF CLIInv, TypeOK
  <2>5. kind \in Lines
    BY <2>4, FindingKinds DEF Lines
  <2>6. QED
    BY <2>1, <2>3, <2>5 DEF Saying
<1>2. QED
  BY <1>1, CLIInvariant, PTL

\* Whoever leaves at least one comparator enabled gets none of the disabled ones
\* called (registry.go:54-66 takes an empty list of names for all of them).
THEOREM DisabledStayOut == Spec => []DisabledNotRunIfAnyLeft
<1>1. CLIInv => DisabledNotRunIfAnyLeft
  <2> SUFFICES ASSUME CLIInv, Wanted # {}, NEW c \in done, c \in flags.disabled PROVE FALSE
    BY DEF DisabledNotRunIfAnyLeft, DisabledNotRun
  <2>1. Completed /\ done \subseteq Selected(names)
    BY DEF CLIInv, RunsSelected
  <2>2. names = Wanted
    BY <2>1, NamesWanted DEF Completed, CLIInv, TypeOK
  <2>3. QED
    BY <2>1, <2>2 DEF Selected, Wanted
<1>2. QED
  BY <1>1, CLIInvariant, PTL
=============================================================================
