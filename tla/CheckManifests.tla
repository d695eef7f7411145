--------------------------- MODULE CheckManifests ---------------------------
(***************************************************************************)
(* The check-manifests command (pkg/cmd/checkmanifests): one process that  *)
(* reads its flags and one or two files, runs the comparators one after    *)
(* the other and turns what they say into output and an exit code.         *)
(***************************************************************************)
EXTENDS ComparatorOptions

VARIABLES
    flags,      \* the lists of --enabled-validators and --disabled-validators
    finding,    \* what each comparator says about the CRDs in the files
    files,      \* the state of the file behind each filename flag
    pc,         \* where the command is
    names,      \* ComparatorConfig.ComparatorNames
    done,       \* the comparators Compare has called
    printed,    \* the comparators with a line of output, by kind of line
    exit        \* the exit code, -1 while the process runs

cliVars == <<files, pc, names, done, printed, exit>>
vars == <<flags, finding, cliVars>>

FileState == {"unset", "unreadable", "undecodable", "good"}
Lines == {"evaluationError", "error", "warning", "info"}

FlagSets == [enabled : SUBSET (Known \cup Unknown), disabled : SUBSET (Known \cup Unknown)]

CLIInit ==
    /\ files \in [existing : FileState, new : FileState]
    /\ pc = "Validate"
    /\ names = {}
    /\ done = {}
    /\ printed = [line \in Lines |-> {}]
    /\ exit = 0 - 1

Init ==
    /\ flags \in FlagSets
    /\ finding \in [Known -> Finding]
    /\ CLIInit

\* klog.Fatal exits with code 255, a Go panic with code 2.
Exit(code) == pc' = "exited" /\ exit' = code

\* CheckManifestOptions.Validate.
Validate ==
    /\ pc = "Validate"
    /\ IF files.new = "unset" \/ ~ValidNames(flags)
         THEN Exit(255)
         ELSE pc' = "Complete" /\ UNCHANGED exit
    /\ UNCHANGED <<flags, finding, files, names, done, printed>>

\* CheckManifestOptions.Complete: the existing file is optional, the new one is not.
Complete ==
    /\ pc = "Complete"
    /\ IF /\ files.existing \in {"unset", "good"}
          /\ files.new = "good"
          /\ ValidNames(flags)
         THEN /\ names' = ComparatorNames(flags)
              /\ pc' = "Run"
              /\ UNCHANGED exit
         ELSE Exit(255) /\ UNCHANGED names
    /\ UNCHANGED <<flags, finding, files, done, printed>>

\* What is left of the loop in Registry.Compare.
ToCall == Selected(names) \ done

\* Mutant of RunComparator: the loop does not advance.
RunComparatorAgain ==
    /\ pc = "Run"
    /\ \E c \in First(ToCall) :
         IF "panic" \in finding[c] THEN Exit(2) ELSE UNCHANGED <<pc, exit>>
    /\ UNCHANGED <<flags, finding, files, names, done, printed>>

\* Registry.Compare calls the next comparator; nothing recovers a panic.
RunComparator ==
    /\ pc = "Run"
    /\ \E c \in First(ToCall) :
         IF "panic" \in finding[c] THEN Exit(2) /\ UNCHANGED done
                                 ELSE done' = done \cup {c} /\ UNCHANGED <<pc, exit>>
    /\ UNCHANGED <<flags, finding, files, names, printed>>

\* Mutant of Report: an error message does not make the run fail.
ReportOnlyErrsFail ==
    /\ pc = "Run"
    /\ ToCall = {}
    /\ Exit(IF Errs(finding, done) # {} THEN 1 ELSE 0)
    /\ printed' = [line \in Lines |-> Saying(finding, done, line)]
    /\ UNCHANGED <<flags, finding, files, names, done>>

\* Mutant of Report: nothing is printed beside evaluation errors.
ReportErrsAlone ==
    /\ pc = "Run"
    /\ ToCall = {}
    /\ LET failed == Errs(finding, done) # {} \/ Saying(finding, done, "error") # {} IN
         Exit(IF failed THEN 1 ELSE 0)
    /\ printed' = [line \in Lines |-> IF line = "evaluationError" THEN Errs(finding, done)
                                      ELSE IF Errs(finding, done) # {} THEN {}
                                      ELSE Saying(finding, done, line)]
    /\ UNCHANGED <<flags, finding, files, names, done>>

\* Mutant of Report: infos have no line of their own.
ReportWithoutInfos ==
    /\ pc = "Run"
    /\ ToCall = {}
    /\ LET failed == Errs(finding, done) # {} \/ Saying(finding, done, "error") # {} IN
         Exit(IF failed THEN 1 ELSE 0)
    /\ printed' = [line \in Lines \ {"info"} |-> Saying(finding, done, line)]
    /\ UNCHANGED <<flags, finding, files, names, done>>

\* The rest of CheckManifestConfig.Run, and the exit of the command.
Report ==
    /\ pc = "Run"
    /\ ToCall = {}
    /\ LET failed == Errs(finding, done) # {} \/ Saying(finding, done, "error") # {} IN
         Exit(IF failed THEN 1 ELSE 0)
    /\ printed' = [line \in Lines |-> Saying(finding, done, line)]
    /\ UNCHANGED <<flags, finding, files, names, done>>

CLINext == Validate \/ Complete \/ RunComparator \/ Report

\* The command has ended.
Ended == pc = "exited" /\ UNCHANGED vars

Next == CLINext \/ Ended

\* Nothing in the command waits for anything.
Spec == Init /\ [][Next]_vars /\ WF_vars(CLINext)

-----------------------------------------------------------------------------
\* The variables keep their types; output and exit code are ones the command has.
TypeOK ==
    /\ flags \in FlagSets
    /\ finding \in [Known -> Finding]
    /\ files \in [existing : FileState, new : FileState]
    /\ pc \in {"Validate", "Complete", "Run", "exited"}
    /\ names \subseteq Known
    /\ done \subseteq Known
    /\ printed \in [Lines -> SUBSET Known]
    /\ exit \in {0 - 1, 0, 1, 2, 255}

Wanted == (Known \cup flags.enabled) \ flags.disabled

\* Exit code 0 vouches for the CRD: both files were read, and every comparator the
\* user left enabled was run and found no error.
ZeroMeansChecked ==
    exit = 0 => /\ files.new = "good" /\ files.existing \in {"unset", "good"}
                /\ \A c \in Wanted : finding[c] \subseteq {"info", "warning"}

\* A run that is not cut short reports everything: no message of one comparator is
\* lost because another one failed or found errors.
NothingSwallowed ==
    exit \in {0, 1} =>
        \A c \in Wanted : \A kind \in finding[c] : c \in printed[kind]

\* A disabled comparator is not run (the help text of --disabled-validators).
DisabledNotRun == done \cap flags.disabled = {}

\* The same, for users who leave at least one comparator enabled.
DisabledNotRunIfAnyLeft == Wanted # {} => DisabledNotRun

\* The command always ends.
Terminates == <>(pc = "exited")
=============================================================================
