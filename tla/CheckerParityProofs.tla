------------------------ MODULE CheckerParityProofs ------------------------
(***************************************************************************)
(* That the two front ends agree, for every registry, all flags and        *)
(* everything the comparators may say, from what was proved of each alone. *)
(* ParityInv says that each keeps its own invariant while the other runs,  *)
(* and that the request carries what the files hold.  The directory tests  *)
(* follow from the reports: a test sees them as bags of messages only.     *)
(***************************************************************************)
EXTENDS CheckerParity, LeastNumber, FiniteSetTheorems, FunctionTheorems, SequenceTheorems

CLIP == INSTANCE CheckManifestsProofs WITH finding <- said, pc <- cliPc, done <- called
HookP == INSTANCE AdmissionServerProofs WITH
            Request <- {r}, Review <- {}, finding <- [req \in {r} |-> said]

\* Both are given the same CRDs.
SameCRDs ==
    /\ files \in [existing : {"unset", "undecodable", "good"}, new : {"undecodable", "good"}]
    /\ review = [req \in {r} |-> Matching]

ParityInv == CLIP!CLIInv /\ HookP!HookInv /\ SameCRDs

\* The registry and the options are one and the same for both.
LEMMA SharedOptions ==
    /\ CLIP!Known = Known /\ HookP!Known = Known
    /\ CLIP!Finding = Finding /\ HookP!Finding = Finding
    /\ CLIP!FlagSets = CLI!FlagSets /\ HookP!FlagSets = CLI!FlagSets
    /\ CLIP!ValidNames(flags) <=> ValidNames(flags)
    /\ HookP!ValidNames(flags) <=> ValidNames(flags)
    /\ CLIP!ComparatorNames(flags) = ComparatorNames(flags)
    /\ HookP!ComparatorNames(flags) = ComparatorNames(flags)
    /\ \A S : CLIP!Selected(S) = Selected(S) /\ HookP!Selected(S) = Selected(S)
    /\ \A f, S : CLIP!Errs(f, S) = Errs(f, S) /\ HookP!Errs(f, S) = Errs(f, S)
    /\ \A f, S, kind : CLIP!Saying(f, S, kind) = Saying(f, S, kind)
                       /\ HookP!Saying(f, S, kind) = Saying(f, S, kind)
<1>1. CLIP!Known = Known /\ HookP!Known = Known /\ CLI!Known = Known
  BY DEF CLI!Known, CLIP!Known, HookP!Known, Known, CLI!ToSet, CLIP!ToSet, HookP!ToSet, ToSet
<1>2. CLIP!FlagSets = CLI!FlagSets /\ HookP!FlagSets = CLI!FlagSets
  BY <1>1 DEF CLIP!FlagSets, CLI!FlagSets, HookP!FlagSets
<1>3. CLIP!Finding = Finding /\ HookP!Finding = Finding
  BY DEF CLIP!Finding, HookP!Finding, Finding
<1>4. /\ CLIP!ValidNames(flags) <=> ValidNames(flags)
      /\ HookP!ValidNames(flags) <=> ValidNames(flags)
      /\ CLIP!ComparatorNames(flags) = ComparatorNames(flags)
      /\ HookP!ComparatorNames(flags) = ComparatorNames(flags)
  BY <1>1 DEF ValidNames, CLIP!ValidNames, HookP!ValidNames,
              ComparatorNames, CLIP!ComparatorNames, HookP!ComparatorNames
<1>5. \A S : CLIP!Selected(S) = Selected(S) /\ HookP!Selected(S) = Selected(S)
  BY <1>1 DEF Selected, CLIP!Selected, HookP!Selected
<1>6. /\ \A f, S : CLIP!Errs(f, S) = Errs(f, S) /\ HookP!Errs(f, S) = Errs(f, S)
      /\ \A f, S, kind : CLIP!Saying(f, S, kind) = Saying(f, S, kind)
                         /\ HookP!Saying(f, S, kind) = Saying(f, S, kind)
  BY DEF Errs, CLIP!Errs, HookP!Errs, Saying, CLIP!Saying, HookP!Saying
<1>7. QED
  BY <1>1, <1>2, <1>3, <1>4, <1>5, <1>6

\* The steps of the composition are steps of the two parts.
LEMMA CLINextSame == CLI!CLINext => CLIP!CLINext
  BY DEF CLI!CLINext, CLIP!CLINext, CLI!Validate, CLIP!Validate, CLI!Exit, CLIP!Exit,
    CLI!Complete, CLIP!Complete, CLI!RunComparator, CLIP!RunComparator, CLI!Report, CLIP!Report,
    CLI!First, CLIP!First, CLI!Place, CLIP!Place, CLI!ToCall, CLIP!ToCall, CLI!Lines, CLIP!Lines,
    CLI!Saying, CLIP!Saying, CLI!Errs, CLIP!Errs, CLI!ValidNames, CLIP!ValidNames,
    CLI!ComparatorNames, CLIP!ComparatorNames, CLI!Selected, CLIP!Selected,
    CLI!Known, CLIP!Known, CLI!ToSet, CLIP!ToSet

LEMMA StartupSame == Hook!Startup => HookP!Startup
  BY DEF Hook!Startup, HookP!Startup, Hook!Complete, HookP!Complete,
    Hook!ValidateOptions, HookP!ValidateOptions, Hook!RunAdmissionServer, HookP!RunAdmissionServer,
    Hook!Initialize, HookP!Initialize, Hook!ValidNames, HookP!ValidNames,
    Hook!ComparatorNames, HookP!ComparatorNames, Hook!Known, HookP!Known, Hook!ToSet, HookP!ToSet,
    Hook!inputs, HookP!inputs, Hook!requestVars, HookP!requestVars

LEMMA HandleSame == ASSUME NEW q \in {r} PROVE Hook!Handle(q) => HookP!Handle(q)
<1>1. Hook!Serving => HookP!Serving
  BY DEF Hook!Serving, HookP!Serving
<1>2. ASSUME NEW answer PROVE Hook!Answer(q, answer) => HookP!Answer(q, answer)
  BY DEF Hook!Answer, HookP!Answer
<1>3. /\ Hook!Allow = HookP!Allow /\ Hook!ServerError = HookP!ServerError
      /\ \A S : Hook!BadRequest(S) = HookP!BadRequest(S)
  BY DEF Hook!Allow, HookP!Allow, Hook!ServerError, HookP!ServerError,
         Hook!BadRequest, HookP!BadRequest
<1>4. UNCHANGED <<Hook!inputs, Hook!serverVars>> => UNCHANGED <<HookP!inputs, HookP!serverVars>>
  BY DEF Hook!inputs, Hook!serverVars, HookP!inputs, HookP!serverVars
<1>5. Hook!Validate(q) => HookP!Validate(q)
  <2>1. Hook!OfInterest(review[q]) <=> HookP!OfInterest(review[q])
    BY DEF Hook!OfInterest, HookP!OfInterest
  <2>2. QED
    BY <1>1, <1>2, <1>3, <1>4, <2>1 DEF Hook!Validate, HookP!Validate
<1>6. Hook!ToCall(q) = HookP!ToCall(q)
  BY DEF Hook!ToCall, HookP!ToCall, Hook!Selected, HookP!Selected,
         Hook!Known, HookP!Known, Hook!ToSet, HookP!ToSet
<1>7. Hook!RunComparator(q) => HookP!RunComparator(q)
  <2>1. Hook!First(Hook!ToCall(q)) = HookP!First(HookP!ToCall(q))
    BY <1>6 DEF Hook!First, HookP!First, Hook!Place, HookP!Place
  <2>2. QED
    BY <1>1, <1>2, <1>3, <1>4, <2>1 DEF Hook!RunComparator, HookP!RunComparator
<1>8. Hook!Respond(q) => HookP!Respond(q)
  <2>1. Hook!Status(q) = HookP!Status(q)
    BY <1>3 DEF Hook!Status, HookP!Status, Hook!Errs, HookP!Errs, Hook!Saying, HookP!Saying
  <2>2. QED
    BY <1>1, <1>2, <1>4, <1>6, <2>1 DEF Hook!Respond, HookP!Respond
<1>9. QED
  BY <1>5, <1>7, <1>8 DEF Hook!Handle, HookP!Handle

-----------------------------------------------------------------------------
LEMMA InitParity == Init => ParityInv
<1> SUFFICES ASSUME Init PROVE ParityInv
  OBVIOUS
<1>1. SameCRDs
  BY DEF Init, SameCRDs
<1>2. CLIP!CLIInv
  <2>1. CLIP!Init
    <3>1. flags \in CLIP!FlagSets /\ said \in [CLIP!Known -> CLIP!Finding]
      BY SharedOptions DEF Init
    <3>2. CLIP!CLIInit
      BY DEF Init, CLI!CLIInit, CLIP!CLIInit, CLI!FileState, CLIP!FileState, CLI!Lines, CLIP!Lines
    <3>3. QED
      BY <3>1, <3>2 DEF CLIP!Init
  <2>2. QED
    BY <2>1, CLIP!InitCLI, RegistryAssumption, NameAssumption
       DEF IsInjective, CLIP!IsInjective, ToSet, CLIP!ToSet, Known, CLIP!Known
<1>3. HookP!HookInv
  <2>1. flags \in HookP!FlagSets /\ [req \in {r} |-> said] \in [{r} -> [HookP!Known -> HookP!Finding]]
    BY SharedOptions DEF Init
  <2>2. review \in [{r} -> HookP!AdmissionRequest]
    <3>1. Matching \in HookP!AdmissionRequest
      BY <1>1 DEF SameCRDs, Matching, HookP!AdmissionRequest
    <3>2. QED
      BY <1>1, <3>1 DEF SameCRDs
  <2>3. HookP!ServerInit
    BY DEF Init, Hook!ServerInit, HookP!ServerInit, Hook!NilConfig, HookP!NilConfig,
           Hook!ServerError, HookP!ServerError, Hook!Allow, HookP!Allow
  <2>4. QED
    BY <2>1, <2>2, <2>3, HookP!ServerStarts, RegistryAssumption, NameAssumption
       DEF IsInjective, HookP!IsInjective, ToSet, HookP!ToSet, Known, HookP!Known
<1>4. QED
  BY <1>1, <1>2, <1>3 DEF ParityInv

\* Each front end runs beside the other without disturbing it.
LEMMA NextParity == ParityInv /\ [Next]_vars => ParityInv'
<1> SUFFICES ASSUME ParityInv, [Next]_vars PROVE ParityInv'
  OBVIOUS
<1>1. CLIP!CLIInv /\ HookP!HookInv /\ SameCRDs
  BY DEF ParityInv
<1>2. CLIP!CLIInv /\ [CLIP!Next]_(CLIP!vars) => CLIP!CLIInv'
  BY CLIP!NextCLI, RegistryAssumption, NameAssumption
     DEF IsInjective, CLIP!IsInjective, ToSet, CLIP!ToSet, Known, CLIP!Known
<1>3. HookP!HookInv /\ [HookP!Next]_(HookP!vars) => HookP!HookInv'
  BY HookP!NextHook, RegistryAssumption, NameAssumption
     DEF IsInjective, HookP!IsInjective, ToSet, HookP!ToSet, Known, HookP!Known
<1>4. CASE CLIStep
  <2>1. CLIP!CLINext /\ UNCHANGED hookVars
    BY <1>4, CLINextSame DEF CLIStep
  <2>2. UNCHANGED <<flags, said, files>>
    BY <2>1 DEF CLIP!CLINext, CLIP!Validate, CLIP!Complete, CLIP!RunComparator, CLIP!Report
  <2>3. CLIP!CLIInv'
    BY <1>1, <1>2, <2>1 DEF CLIP!Next
  <2>4. UNCHANGED HookP!vars
    BY <2>1, <2>2 DEF hookVars, HookP!vars, HookP!inputs, HookP!serverVars, HookP!requestVars
  <2>5. HookP!HookInv'
    BY <1>1, <1>3, <2>4
  <2>6. SameCRDs'
    BY <1>1, <2>1, <2>2 DEF SameCRDs, Matching, hookVars
  <2>7. QED
    BY <2>3, <2>5, <2>6 DEF ParityInv
<1>5. CASE HookStep
  <2>1. UNCHANGED <<said, cliVars>> /\ HookP!ServerNext
    <3>1. Hook!ServerNext => HookP!ServerNext
      BY StartupSame, HandleSame DEF Hook!ServerNext, HookP!ServerNext
    <3>2. QED
      BY <1>5, <3>1 DEF HookStep
  <2>2. UNCHANGED <<flags, review>>
    BY <2>1 DEF HookP!ServerNext, HookP!Startup, HookP!Handle, HookP!Complete, HookP!ValidateOptions,
       HookP!RunAdmissionServer, HookP!Initialize, HookP!Validate, HookP!RunComparator,
       HookP!Respond, HookP!inputs
  <2>3. HookP!HookInv'
    BY <1>1, <1>3, <2>1 DEF HookP!Next
  <2>4. UNCHANGED CLIP!vars
    BY <2>1, <2>2 DEF cliVars, CLIP!vars, CLIP!cliVars
  <2>5. CLIP!CLIInv'
    BY <1>1, <1>2, <2>4
  <2>6. SameCRDs'
    BY <1>1, <2>1, <2>2 DEF SameCRDs, Matching, cliVars
  <2>7. QED
    BY <2>3, <2>5, <2>6 DEF ParityInv
<1>6. CASE UNCHANGED vars
  <2>1. UNCHANGED <<flags, said, cliVars, hookVars>>
    BY <1>6 DEF vars
  <2>2. UNCHANGED CLIP!vars /\ UNCHANGED HookP!vars
    BY <2>1 DEF cliVars, hookVars, CLIP!vars, CLIP!cliVars,
                HookP!vars, HookP!inputs, HookP!serverVars, HookP!requestVars
  <2>3. SameCRDs'
    BY <1>1, <2>1 DEF SameCRDs, Matching, cliVars, hookVars
  <2>4. QED
    BY <1>1, <1>2, <1>3, <2>2, <2>3 DEF ParityInv
<1>7. QED
  BY <1>4, <1>5, <1>6 DEF Next, Over

\* ParityInv holds in every reachable state of the two front ends.
THEOREM ParityInvariant == Spec => []ParityInv
  BY InitParity, NextParity, PTL DEF Spec

-----------------------------------------------------------------------------
\* What both have to judge, and what the comparators they run say about it.
Decodes == files.new = "good" /\ files.existing \in {"unset", "good"}
Run == Selected(ComparatorNames(flags))
Panics == \E c \in Run : "panic" \in said[c]
Faults == Errs(said, Run) # {} \/ Saying(said, Run, "error") # {}

\* What the exit code of check-manifests says.
LEMMA CLIOutcome ==
    ASSUME ParityInv, cliPc = "exited", ValidNames(flags)
    PROVE  /\ exit \in {0, 1, 2, 255}
           /\ exit = 0 => Decodes /\ ~Panics /\ ~Faults
           /\ exit = 1 => Decodes /\ ~Panics /\ Faults
           /\ exit = 2 => Decodes /\ Panics
           /\ exit = 255 => ~Decodes
           /\ exit \in {0, 1} =>
                printed = [line \in {"evaluationError", "error", "warning", "info"} |->
                             Saying(said, Run, line)]
<1>1. CLIP!TypeOK /\ CLIP!RunsSelected /\ CLIP!ReportsAll /\ CLIP!CutShort
  BY DEF ParityInv, CLIP!CLIInv
<1>2. exit \in {0, 1, 2, 255}
  BY <1>1 DEF CLIP!TypeOK, CLIP!CutShort
<1>3. CLIP!Completed => Decodes /\ CLIP!Selected(names) = Run
  BY SharedOptions DEF CLIP!Completed, Decodes, Run
<1>4. exit \in {0, 1} =>
        /\ Decodes /\ called = Run /\ ~Panics
        /\ printed = [line \in {"evaluationError", "error", "warning", "info"} |->
                             Saying(said, Run, line)]
  BY <1>1, <1>3, SharedOptions DEF CLIP!ReportsAll, CLIP!RunsSelected, CLIP!Lines, Panics
<1>5. /\ exit = 0 => ~Faults
      /\ exit = 1 => Faults
  BY <1>1, <1>4, SharedOptions DEF CLIP!ReportsAll, Faults
<1>6. exit = 2 => Decodes /\ Panics
  BY <1>1, <1>3 DEF CLIP!CutShort, Panics
<1>7. exit = 255 => ~Decodes
  BY <1>1, SharedOptions DEF CLIP!CutShort, Decodes
<1>8. QED
  BY <1>2, <1>4, <1>5, <1>6, <1>7

\* What the response of the hook says.
LEMMA HookOutcome ==
    ASSUME ParityInv, pc[r] = "answered"
    PROVE  LET answer == response[r] IN
           /\ ValidNames(flags)
           /\ ~Decodes => answer.code = 200 /\ answer.result /\ answer.causes = {}
           /\ Decodes => \/ answer.code = 500 /\ ~answer.result /\ answer.causes = {} /\ Panics
                         \/ /\ answer.code = 200 /\ ~Panics
                            /\ answer.result <=> Faults
                            /\ answer.causes # {} <=> Faults
<1>1. HookP!TypeOK /\ HookP!Configured /\ HookP!CalledFor(r) /\ HookP!AnsweredAs(r) /\ r \in {r}
  BY DEF ParityInv, HookP!HookInv
<1>2. ValidNames(flags) /\ HookP!Selected(config.names) = Run
  BY <1>1, SharedOptions DEF HookP!Configured, Run
<1>3. HookP!OfInterest(review[r]) /\ (HookP!Judged(r) <=> Decodes)
  <2>1. review[r] = Matching /\ SameCRDs
    BY DEF ParityInv, SameCRDs
  <2>2. HookP!OfInterest(Matching)
    BY DEF Matching, HookP!OfInterest
  <2>3. Matching.object = "good" <=> files.new = "good"
    BY DEF Matching
  <2>4. Matching.oldObject # "undecodable" <=> files.existing \in {"unset", "good"}
    BY <2>1 DEF Matching, SameCRDs
  <2>5. QED
    BY <2>1, <2>2, <2>3, <2>4 DEF HookP!Judged, Decodes
<1>4. [req \in {r} |-> said][r] = said
  OBVIOUS
<1>5. CASE HookP!Judged(r) /\ response[r] = HookP!Status(r) /\ done[r] = Run
  <2>1. ~Panics
    BY <1>1, <1>4, <1>5 DEF HookP!CalledFor, Panics
  <2>2. done[r] \subseteq HookP!Known
    BY <1>1 DEF HookP!TypeOK
  <2> DEFINE errs == HookP!Errs([req \in {r} |-> said][r], done[r])
             errors == HookP!Saying([req \in {r} |-> said][r], done[r], "error")
             status == HookP!Status(r)
  <2>3. errs = Errs(said, Run) /\ errors = Saying(said, Run, "error")
    BY <1>4, <1>5, SharedOptions
  <2>4. /\ status.code = 200
        /\ status.result <=> errs # {} \/ errors # {}
        /\ status.causes = IF errs # {} THEN {[type |-> "EvaluationError", message |-> c] : c \in errs}
                                        ELSE {[type |-> c, message |-> c] : c \in errors}
    BY <1>1, <2>2, HookP!StatusFields, RegistryAssumption, NameAssumption
       DEF IsInjective, HookP!IsInjective, ToSet, HookP!ToSet, Known, HookP!Known
  <2> HIDE DEF errs, errors, status
  <2>5. status.causes # {} <=> errs # {} \/ errors # {}
    <3>1. \A E : {[type |-> "EvaluationError", message |-> c] : c \in E} = {} <=> E = {}
      OBVIOUS
    <3>2. \A E : {[type |-> c, message |-> c] : c \in E} = {} <=> E = {}
      OBVIOUS
    <3>3. CASE errs # {}
      <4>1. status.causes = {[type |-> "EvaluationError", message |-> c] : c \in errs}
        BY <2>4, <3>3
      <4>2. QED
        BY <3>1, <3>3, <4>1
    <3>4. CASE errs = {}
      <4>1. status.causes = {[type |-> c, message |-> c] : c \in errors}
        BY <2>4, <3>4
      <4>2. QED
        BY <3>2, <3>4, <4>1
    <3>5. QED
      BY <3>3, <3>4
  <2>6. status.code = 200 /\ (status.result <=> Faults) /\ (status.causes # {} <=> Faults)
    BY <2>3, <2>4, <2>5, Zenon DEF Faults
  <2>7. QED
    BY <1>2, <1>3, <1>5, <2>1, <2>6, Zenon DEF status
<1>6. /\ HookP!Allow.code = 200 /\ HookP!BadRequest({}).code = 200
      /\ HookP!BadRequest({}).result /\ HookP!BadRequest({}).causes = {}
      /\ HookP!ServerError.code = 500 /\ ~HookP!ServerError.result
      /\ HookP!ServerError.causes = {}
  BY DEF HookP!Allow, HookP!BadRequest, HookP!ServerError
<1>7. CASE ~HookP!Judged(r) /\ response[r] = HookP!BadRequest({})
  BY <1>2, <1>3, <1>6, <1>7
<1>8. CASE /\ HookP!Judged(r) /\ response[r] = HookP!ServerError
           /\ \E c \in Run : "panic" \in [req \in {r} |-> said][r][c]
  <2>1. Panics
    BY <1>4, <1>8 DEF Panics
  <2>2. QED
    BY <1>2, <1>3, <1>6, <1>8, <2>1, Zenon
<1>9. QED
  BY <1>1, <1>2, <1>3, <1>5, <1>7, <1>8 DEF HookP!AnsweredAs

\* The two front ends reach the same verdict on the same CRDs with the same flags, in
\* every interleaving (check_manifests.go:117-155, admission_evaluator.go:30-119).
THEOREM VerdictsAgree == Spec => []SameVerdict
<1>1. ParityInv => SameVerdict
  <2> SUFFICES ASSUME ParityInv, cliPc = "exited", pc[r] = "answered"
               PROVE  LET answer == response[r] IN
                      /\ exit = 0 <=> answer.code = 200 /\ ~answer.result
                      /\ exit = 1 <=> answer.causes # {}
                      /\ exit = 255 <=> answer.result /\ answer.causes = {}
                      /\ exit = 2 <=> answer.code = 500
    BY DEF SameVerdict, Judged
  <2>1. ValidNames(flags)
    BY HookOutcome
  <2>2. /\ exit \in {0, 1, 2, 255}
        /\ exit = 0 => Decodes /\ ~Panics /\ ~Faults
        /\ exit = 1 => Decodes /\ ~Panics /\ Faults
        /\ exit = 2 => Decodes /\ Panics
        /\ exit = 255 => ~Decodes
    BY <2>1, CLIOutcome
  <2>3. /\ exit = 0 <=> Decodes /\ ~Panics /\ ~Faults
        /\ exit = 1 <=> Decodes /\ ~Panics /\ Faults
        /\ exit = 2 <=> Decodes /\ Panics
        /\ exit = 255 <=> ~Decodes
    BY <2>2, SMT
  <2> DEFINE answer == response[r]
  <2>4. ~(answer.code = 200 /\ answer.code = 500)
    BY SMT
  <2>5. /\ answer.code = 200 /\ ~answer.result <=> Decodes /\ ~Panics /\ ~Faults
        /\ answer.causes # {} <=> Decodes /\ ~Panics /\ Faults
        /\ answer.result /\ answer.causes = {} <=> ~Decodes
        /\ answer.code = 500 <=> Decodes /\ Panics
    <3>1. /\ ~Decodes => answer.code = 200 /\ answer.result /\ answer.causes = {}
          /\ Decodes => \/ answer.code = 500 /\ ~answer.result /\ answer.causes = {} /\ Panics
                        \/ /\ answer.code = 200 /\ ~Panics
                           /\ answer.result <=> Faults
                           /\ answer.causes # {} <=> Faults
      BY HookOutcome
    <3> DEFINE served == answer.code = 200
               crashed == answer.code = 500
               denied == answer.result
               named == answer.causes # {}
    <3>2. ~(served /\ crashed)
      BY <2>4
    <3>3. /\ ~Decodes => served /\ denied /\ ~named
          /\ Decodes => \/ crashed /\ ~denied /\ ~named /\ Panics
                        \/ served /\ ~Panics /\ (denied <=> Faults) /\ (named <=> Faults)
      BY <3>1, Zenon
    <3> HIDE DEF served, crashed, denied, named
    <3>4. /\ served /\ ~denied <=> Decodes /\ ~Panics /\ ~Faults
          /\ named <=> Decodes /\ ~Panics /\ Faults
          /\ denied /\ ~named <=> ~Decodes
          /\ crashed <=> Decodes /\ Panics
      BY <3>2, <3>3, Zenon
    <3>5. QED
      BY <3>4, Zenon DEF served, crashed, denied, named
  <2>6. QED
    BY <2>3, <2>5, Zenon
<1>2. QED
  BY <1>1, ParityInvariant, PTL

\* Flags that one front end accepts the other accepts, and both select the same
\* comparators by them (check_manifests.go:44-56, check_admission.go:42-53).
THEOREM FlagsAgree == Spec => []SameFlags
<1>1. ParityInv => SameFlags
  <2> SUFFICES ASSUME ParityInv PROVE SameFlags
    OBVIOUS
  <2>1. CLIP!TypeOK /\ CLIP!RunsSelected /\ CLIP!CutShort /\ HookP!Configured /\ SameCRDs
    BY DEF ParityInv, CLIP!CLIInv, HookP!HookInv
  <2>2. cliPc = "Run" => ValidNames(flags) /\ names = ComparatorNames(flags)
    BY <2>1, SharedOptions DEF CLIP!RunsSelected, CLIP!Completed
  <2>3. /\ phase \notin {"Complete", "failed"} => ValidNames(flags)
        /\ phase # "Complete" /\ ValidNames(flags) =>
              config.set /\ config.names = ComparatorNames(flags)
    BY <2>1, SharedOptions DEF HookP!Configured
  <2>4. exit = 255 /\ ValidNames(flags) => "undecodable" \in {files.new, files.existing}
    <3>1. exit = 255 /\ ValidNames(flags) => ~Decodes
      BY <2>1, SharedOptions DEF CLIP!CutShort, Decodes
    <3>2. /\ files.new \in {"undecodable", "good"}
          /\ files.existing \in {"unset", "undecodable", "good"}
      BY <2>1 DEF SameCRDs
    <3>3. QED
      BY <3>1, <3>2 DEF Decodes
  <2>5. QED
    BY <2>2, <2>3, <2>4 DEF SameFlags, Hook!Serving
<1>2. QED
  BY <1>1, ParityInvariant, PTL

\* What the client of the hook reads back is what check-manifests prints.
LEMMA ParityReport == ASSUME ParityInv PROVE SameReport
<1> DEFINE told == Hook!Decoded(response[r])
           errs == Errs(said, Run)
<1> SUFFICES ASSUME cliPc = "exited", pc[r] = "answered", exit \in {0, 1}
             PROVE  IF printed["evaluationError"] # {}
                      THEN /\ told.evaluationError = printed["evaluationError"]
                           /\ told.error \cup told.warning \cup told.info = {}
                      ELSE \A kind \in {"evaluationError", "error", "warning", "info"} :
                             told[kind] = printed[kind]
  BY DEF SameReport, Judged
<1>1. ValidNames(flags)
  BY HookOutcome
<1>2. /\ ~Panics
      /\ printed = [line \in {"evaluationError", "error", "warning", "info"} |->
                      Saying(said, Run, line)]
  BY <1>1, CLIOutcome
<1>3. Decodes
  BY <1>1, CLIOutcome
<1>4. response[r] = HookP!Status(r) /\ done[r] = Run /\ done[r] \subseteq HookP!Known
  <2>1. HookP!TypeOK /\ HookP!Configured /\ HookP!AnsweredAs(r) /\ SameCRDs
    BY DEF ParityInv, HookP!HookInv
  <2>2. HookP!OfInterest(review[r]) /\ HookP!Judged(r)
    BY <1>3, <2>1 DEF SameCRDs, Matching, HookP!OfInterest, HookP!Judged, Decodes
  <2>3. HookP!Selected(config.names) = Run
    BY <1>1, <2>1, SharedOptions DEF HookP!Configured, Run
  <2>4. [req \in {r} |-> said][r] = said
    OBVIOUS
  <2>5. QED
    BY <1>2, <2>1, <2>2, <2>3, <2>4 DEF HookP!AnsweredAs, HookP!TypeOK, Panics
<1>5. /\ told.evaluationError = errs
      /\ \A kind \in {"error", "warning", "info"} :
           told[kind] = IF errs = {} THEN Saying(said, Run, kind) ELSE {}
  <2>1. [req \in {r} |-> said][r] = said
    OBVIOUS
  <2>2. HookP!Decoded(response[r]) = told
    BY DEF HookP!Decoded, Hook!Decoded
  <2> DEFINE got == HookP!Decoded(HookP!Status(r))
             failed == HookP!Errs([req \in {r} |-> said][r], done[r])
  <2>3. /\ got.evaluationError = failed
        /\ \A kind \in {"error", "warning", "info"} :
             got[kind] = IF failed = {} THEN HookP!Saying([req \in {r} |-> said][r], done[r], kind)
                                        ELSE {}
    BY <1>4, HookP!StatusDecoded, RegistryAssumption, NameAssumption
       DEF IsInjective, HookP!IsInjective, ToSet, HookP!ToSet, Known, HookP!Known
  <2>4. failed = errs
    BY <1>4, <2>1, SharedOptions
  <2>5. \A kind : HookP!Saying([req \in {r} |-> said][r], done[r], kind) = Saying(said, Run, kind)
    BY <1>4, <2>1, SharedOptions
  <2>6. got = told
    BY <1>4, <2>2
  <2> HIDE DEF got, failed, errs, told
  <2>7. QED
    BY <2>3, <2>4, <2>5, <2>6
<1>6. /\ printed["evaluationError"] = errs
      /\ \A kind \in {"error", "warning", "info"} : printed[kind] = Saying(said, Run, kind)
  BY <1>2 DEF Saying, Errs
<1>7. /\ told["evaluationError"] = told.evaluationError
      /\ told.error = told["error"] /\ told.warning = told["warning"] /\ told.info = told["info"]
  OBVIOUS
<1> HIDE DEF told, errs
<1>8. QED
  BY <1>5, <1>6, <1>7

\* The two front ends tell the same of the same comparators, but for what the hook
\* holds back when a comparator fails (admission_evaluator.go:68-83).
THEOREM ReportsAgree == Spec => []SameReport
  BY ParityReport, ParityInvariant, PTL

-----------------------------------------------------------------------------
(***************************************************************************)
(* What sorting does to a list of messages.                                *)
(***************************************************************************)
\* A strict order in which any two elements can be compared.
TotalOrder(S, lt) ==
    /\ \A x \in S : <<x, x>> \notin lt
    /\ \A x, y \in S : x # y => <<x, y>> \in lt \/ <<y, x>> \in lt
    /\ \A x, y, z \in S : <<x, y>> \in lt /\ <<y, z>> \in lt => <<x, z>> \in lt

\* The elements of a finite set can be numbered in such an order.
LEMMA RankExists ==
    ASSUME NEW S, IsFiniteSet(S), NEW lt, TotalOrder(S, lt)
    PROVE  \E f \in [S -> 1..Cardinality(S)] :
              /\ \A x, y \in S : f[x] = f[y] => x = y
              /\ \A n \in 1..Cardinality(S) : \E x \in S : f[x] = n
              /\ \A x, y \in S : <<x, y>> \in lt => f[x] < f[y]
<1> DEFINE UpTo(x) == {y \in S : y = x \/ <<y, x>> \in lt}
           f == [x \in S |-> Cardinality(UpTo(x))]
<1>1. \A x \in S : /\ UpTo(x) \in SUBSET S /\ UpTo(x) # {} /\ IsFiniteSet(UpTo(x))
                   /\ Cardinality(UpTo(x)) \in 1..Cardinality(S)
  <2> SUFFICES ASSUME NEW x \in S
               PROVE  /\ UpTo(x) \in SUBSET S /\ UpTo(x) # {} /\ IsFiniteSet(UpTo(x))
                      /\ Cardinality(UpTo(x)) \in 1..Cardinality(S)
    OBVIOUS
  <2>1. UpTo(x) \in SUBSET S /\ UpTo(x) # {}
    OBVIOUS
  <2> HIDE DEF UpTo
  <2>2. IsFiniteSet(UpTo(x)) /\ Cardinality(UpTo(x)) <= Cardinality(S)
    BY <2>1, FS_Subset
  <2>3. Cardinality(UpTo(x)) \in Nat /\ Cardinality(S) \in Nat /\ Cardinality(UpTo(x)) # 0
    BY <2>1, <2>2, FS_CardinalityType, FS_EmptySet
  <2>4. QED
    BY <2>1, <2>2, <2>3
<1>2. ASSUME NEW x \in S, NEW y \in S, <<x, y>> \in lt
      PROVE  f[x] < f[y]
  <2>1. UpTo(x) \in SUBSET UpTo(y) /\ UpTo(x) # UpTo(y)
    BY <1>2 DEF TotalOrder
  <2> HIDE DEF UpTo
  <2>2. /\ Cardinality(UpTo(x)) <= Cardinality(UpTo(y))
        /\ Cardinality(UpTo(y)) # Cardinality(UpTo(x))
    BY <1>1, <2>1, FS_Subset
  <2>3. Cardinality(UpTo(x)) \in Nat /\ Cardinality(UpTo(y)) \in Nat
    BY <1>1, FS_CardinalityType
  <2>4. QED
    BY <2>2, <2>3
<1>3. f \in [S -> 1..Cardinality(S)]
  BY <1>1
<1> HIDE DEF f
<1>4. \A x, y \in S : f[x] = f[y] => x = y
  <2> SUFFICES ASSUME NEW x \in S, NEW y \in S, f[x] = f[y], x # y PROVE FALSE
    OBVIOUS
  <2>1. <<x, y>> \in lt \/ <<y, x>> \in lt
    BY DEF TotalOrder
  <2>2. f[x] < f[y] \/ f[y] < f[x]
    BY <1>2, <2>1
  <2>3. f[x] \in Int /\ f[y] \in Int
    BY <1>3
  <2>4. QED
    BY <2>2, <2>3
<1>5. f \in Injection(S, 1..Cardinality(S))
  BY <1>3, <1>4 DEF Injection, IsInjective
<1>6. Cardinality(1..Cardinality(S)) = Cardinality(S) /\ IsFiniteSet(1..Cardinality(S))
  <2>1. Cardinality(S) \in Nat
    BY FS_CardinalityType
  <2> DEFINE c == Cardinality(S)
  <2> HIDE DEF c
  <2>2. Cardinality(1..c) = c /\ IsFiniteSet(1..c)
    BY <2>1, FS_Interval DEF c
  <2>3. QED
    BY <2>2 DEF c
<1>7. f \in Surjection(S, 1..Cardinality(S))
  BY <1>5, <1>6, FS_Injection
<1>8. QED
  BY <1>2, <1>3, <1>4, <1>7 DEF Surjection

\* sort.Strings finds an order for every list, and neither loses nor adds anything.
LEMMA SortedExists ==
    ASSUME NEW s \in Seq(Nat)
    PROVE  SameBag(s, SortStrings(s)) /\ SortStrings(s) \in Seq(Nat)
<1> DEFINE n == Len(s)
           rearranged == {t \in [DOMAIN s -> ToSet(s)] : SameBag(s, t)}
           InOrder(t) == \A i, j \in DOMAIN t : i < j => t[i] <= t[j]
           lt == {x \in (1..n) \X (1..n) : s[x[1]] < s[x[2]] \/ (s[x[1]] = s[x[2]] /\ x[1] < x[2])}
<1>1. n \in Nat /\ DOMAIN s = 1..n /\ \A i \in 1..n : s[i] \in Nat
  OBVIOUS
<1>2. ToSet(s) \subseteq Nat /\ \A i \in 1..n : s[i] \in ToSet(s)
  BY <1>1 DEF ToSet
<1>3. \A x, y \in 1..n : <<x, y>> \in lt <=> s[x] < s[y] \/ (s[x] = s[y] /\ x < y)
  <2> HIDE DEF n
  <2>1. QED
    OBVIOUS
<1>4. TotalOrder(1..n, lt)
  <2> HIDE DEF n, lt
  <2>1. \A x \in 1..n : s[x] \in Int /\ x \in Int
    BY <1>1
  <2>2. \A x \in 1..n : <<x, x>> \notin lt
    BY <1>3, <2>1
  <2>3. ASSUME NEW x \in 1..n, NEW y \in 1..n, x # y
        PROVE  <<x, y>> \in lt \/ <<y, x>> \in lt
    <3>1. \/ s[x] < s[y] \/ (s[x] = s[y] /\ x < y)
          \/ s[y] < s[x] \/ (s[y] = s[x] /\ y < x)
      BY <2>1, <2>3
    <3>2. /\ <<x, y>> \in lt <=> s[x] < s[y] \/ (s[x] = s[y] /\ x < y)
          /\ <<y, x>> \in lt <=> s[y] < s[x] \/ (s[y] = s[x] /\ y < x)
      BY <1>3
    <3>3. QED
      BY <3>1, <3>2
  <2>4. ASSUME NEW x \in 1..n, NEW y \in 1..n, NEW z \in 1..n, <<x, y>> \in lt, <<y, z>> \in lt
        PROVE  <<x, z>> \in lt
    <3>1. /\ s[x] < s[y] \/ (s[x] = s[y] /\ x < y)
          /\ s[y] < s[z] \/ (s[y] = s[z] /\ y < z)
      BY <1>3, <2>4
    <3>2. s[x] < s[z] \/ (s[x] = s[z] /\ x < z)
      BY <2>1, <3>1
    <3>3. QED
      BY <1>3, <3>2
  <2>5. QED
    BY <2>2, <2>3, <2>4 DEF TotalOrder
<1>5. IsFiniteSet(1..n) /\ Cardinality(1..n) = n
  <2> HIDE DEF n
  <2>1. QED
    BY <1>1, FS_Interval
<1> HIDE DEF lt
<1>6. PICK f \in [1..n -> 1..n] :
            /\ \A x, y \in 1..n : f[x] = f[y] => x = y
            /\ \A k \in 1..n : \E x \in 1..n : f[x] = k
            /\ \A x, y \in 1..n : <<x, y>> \in lt => f[x] < f[y]
  <2> HIDE DEF n
  <2>1. \E f \in [1..n -> 1..Cardinality(1..n)] :
            /\ \A x, y \in 1..n : f[x] = f[y] => x = y
            /\ \A k \in 1..Cardinality(1..n) : \E x \in 1..n : f[x] = k
            /\ \A x, y \in 1..n : <<x, y>> \in lt => f[x] < f[y]
    BY <1>4, <1>5, RankExists, Zenon
  <2>2. QED
    BY <1>5, <2>1
<1> HIDE DEF n
<1> DEFINE g == [k \in 1..n |-> CHOOSE x \in 1..n : f[x] = k]
           t == [k \in 1..n |-> s[g[k]]]
<1>7. \A k \in 1..n : g[k] \in 1..n /\ f[g[k]] = k
  BY <1>6
<1> HIDE DEF g
<1>8. t \in [1..n -> ToSet(s)] /\ Len(t) = n
  <2>1. \A k \in 1..n : s[g[k]] \in ToSet(s)
    BY <1>2, <1>7
  <2>2. QED
    BY <1>1, <2>1
<1>9. SameBag(s, t)
  <2>1. ASSUME NEW x
        PROVE  Cardinality({i \in 1..n : s[i] = x}) = Cardinality({k \in 1..n : t[k] = x})
    <3> DEFINE A == {i \in 1..n : s[i] = x}
               B == {k \in 1..n : t[k] = x}
               h == [i \in A |-> f[i]]
    <3>1. \A i \in A : f[i] \in B
      <4>1. \A i \in 1..n : f[i] \in 1..n /\ g[f[i]] \in 1..n /\ f[g[f[i]]] = f[i]
        BY <1>6, <1>7
      <4>2. \A i \in 1..n : g[f[i]] = i
        BY <1>6, <4>1
      <4>3. \A i \in 1..n : f[i] \in 1..n /\ t[f[i]] = s[i]
        BY <4>1, <4>2
      <4> HIDE DEF t
      <4>4. QED
        BY <4>3
    <3>2. \A k \in B : g[k] \in A /\ f[g[k]] = k
      BY <1>7
    <3>3. h \in Bijection(A, B)
      BY <1>6, <3>1, <3>2 DEF Bijection, Injection, Surjection, IsInjective
    <3>4. IsFiniteSet(A)
      BY <1>5, FS_Subset
    <3> HIDE DEF A, B, h
    <3>5. Cardinality(B) = Cardinality(A)
      BY <3>3, <3>4, FS_Bijection DEF ExistsBijection
    <3>6. QED
      BY <3>5 DEF A, B
  <2>2. DOMAIN s = 1..n /\ DOMAIN t = 1..n /\ Len(s) = n
    BY <1>1 DEF n
  <2> HIDE DEF t
  <2>3. QED
    BY <1>8, <2>1, <2>2 DEF SameBag
<1>10. InOrder(t)
  <2> SUFFICES ASSUME NEW i \in 1..n, NEW j \in 1..n, i < j, ~(t[i] <= t[j])
               PROVE  FALSE
    OBVIOUS
  <2>1. g[i] \in 1..n /\ g[j] \in 1..n /\ f[g[i]] = i /\ f[g[j]] = j
    BY <1>7
  <2>2. t[i] = s[g[i]] /\ t[j] = s[g[j]] /\ s[g[i]] \in Nat /\ s[g[j]] \in Nat
    BY <1>1, <2>1
  <2> HIDE DEF t
  <2>3. s[g[j]] < s[g[i]]
    BY <2>2
  <2>4. <<g[j], g[i]>> \in lt
    BY <1>3, <2>1, <2>3
  <2>5. f[g[j]] < f[g[i]]
    BY <1>6, <2>1, <2>4
  <2>6. QED
    BY <1>1, <2>1, <2>5
<1>11. t \in rearranged
  BY <1>1, <1>8, <1>9
<1>12. SortStrings(s) = CHOOSE u \in rearranged : InOrder(u)
  BY Zenon DEF SortStrings
<1> HIDE DEF t, rearranged, InOrder
<1>13. SortStrings(s) \in rearranged
  BY <1>10, <1>11, <1>12
<1>14. SortStrings(s) \in [1..n -> ToSet(s)] /\ SameBag(s, SortStrings(s))
  BY <1>1, <1>13 DEF rearranged
<1>15. SortStrings(s) \in Seq(Nat)
  <2> DEFINE u == SortStrings(s)
  <2> HIDE DEF u
  <2>1. u \in [1..n -> Nat]
    BY <1>2, <1>14 DEF u
  <2>2. u \in Seq(Nat)
    BY <1>1, <2>1
  <2>3. QED
    BY <2>2 DEF u
<1>16. QED
  BY <1>14, <1>15

\* The messages of two lists are counted alike.
LEMMA SameBagMeans ==
    ASSUME NEW s, NEW t
    PROVE  SameBag(s, t) <=>
             /\ Len(s) = Len(t)
             /\ \A x : Cardinality({i \in DOMAIN s : s[i] = x}) = Cardinality({i \in DOMAIN t : t[i] = x})
<1>1. \A x : x \notin ToSet(s) \cup ToSet(t) =>
                {i \in DOMAIN s : s[i] = x} = {i \in DOMAIN t : t[i] = x}
  BY DEF ToSet
<1>2. QED
  BY <1>1 DEF SameBag

\* Lists with the same messages have the same elements.
LEMMA SameElements ==
    ASSUME NEW s \in Seq(Nat), NEW t \in Seq(Nat), SameBag(s, t)
    PROVE  DOMAIN s = DOMAIN t /\ ToSet(s) = ToSet(t)
<1>1. DOMAIN s = DOMAIN t
  BY DEF SameBag
<1>2. ASSUME NEW u \in Seq(Nat), NEW x
      PROVE  x \in ToSet(u) <=> Cardinality({i \in DOMAIN u : u[i] = x}) # 0
  <2> DEFINE A == {i \in DOMAIN u : u[i] = x}
  <2>1. x \in ToSet(u) <=> A # {}
    BY DEF ToSet
  <2>2. IsFiniteSet(DOMAIN u)
    <3> DEFINE n == Len(u)
    <3>1. n \in Nat /\ DOMAIN u = 1..n
      OBVIOUS
    <3> HIDE DEF n
    <3>2. QED
      BY <3>1, FS_Interval
  <2>3. IsFiniteSet(A)
    BY <2>2, FS_Subset
  <2> HIDE DEF A
  <2>4. A # {} <=> Cardinality(A) # 0
    BY <2>3, FS_EmptySet
  <2>5. QED
    BY <2>1, <2>4 DEF A
<1>3. \A x : x \in ToSet(s) <=> x \in ToSet(t)
  BY <1>2, SameBagMeans
<1>4. QED
  BY <1>1, <1>3

\* Sorted, two lists are the same iff they have the same messages.
LEMMA SortedSame ==
    ASSUME NEW s \in Seq(Nat), NEW t \in Seq(Nat)
    PROVE  SortStrings(s) = SortStrings(t) <=> SameBag(s, t)
<1>1. SameBag(s, SortStrings(s)) /\ SameBag(t, SortStrings(t))
  BY SortedExists
<1>2. ASSUME SortStrings(s) = SortStrings(t) PROVE SameBag(s, t)
  <2> DEFINE u == SortStrings(s)
  <2>1. SameBag(s, u) /\ SameBag(t, u)
    BY <1>1, <1>2
  <2> HIDE DEF u
  <2>2. QED
    BY <2>1, SameBagMeans
<1>3. ASSUME SameBag(s, t) PROVE SortStrings(s) = SortStrings(t)
  <2> DEFINE R(v) == {u \in [DOMAIN v -> ToSet(v)] : SameBag(v, u)}
             InOrder(u) == \A i, j \in DOMAIN u : i < j => u[i] <= u[j]
  <2>1. DOMAIN s = DOMAIN t /\ ToSet(s) = ToSet(t)
    BY <1>3, SameElements
  <2>2. \A u : SameBag(s, u) <=> SameBag(t, u)
    BY <1>3, SameBagMeans
  <2>3. R(s) = R(t)
    BY <2>1, <2>2
  <2>4. /\ SortStrings(s) = CHOOSE u \in R(s) : InOrder(u)
        /\ SortStrings(t) = CHOOSE u \in R(t) : InOrder(u)
    BY Zenon DEF SortStrings
  <2> HIDE DEF R, InOrder
  <2>5. QED
    BY <2>3, <2>4
<1>4. QED
  BY <1>2, <1>3

\* Only an empty list has the messages of an empty list.
LEMMA SortedEmpty ==
    ASSUME NEW s \in Seq(Nat)
    PROVE  SortStrings(s) = SortStrings(<<>>) <=> s = <<>>
<1>1. <<>> \in Seq(Nat) /\ Len(<<>>) = 0
  OBVIOUS
<1>2. SameBag(s, <<>>) => s = <<>>
  BY EmptySeq DEF SameBag
<1>3. QED
  BY <1>1, <1>2, SortedSame

-----------------------------------------------------------------------------
\* A finite set is put into a list that has every element once.
LEMMA SetToSeqFacts ==
    ASSUME NEW S, IsFiniteSet(S)
    PROVE  /\ DOMAIN SetToSeq(S) \subseteq Nat
           /\ ToSet(SetToSeq(S)) = S
           /\ IsInjective(SetToSeq(S))
<1> DEFINE n == Cardinality(S)
           f == SetToSeq(S)
<1>1. n \in Nat /\ \E g : g \in Bijection(1..n, S)
  BY FS_CardinalityType DEF ExistsBijection
<1>2. \E g \in [1..n -> S] : IsInjective(g)
  BY <1>1 DEF Bijection, Injection
<1>3. f \in [1..n -> S] /\ IsInjective(f)
  BY <1>2, Zenon DEF SetToSeq
<1> HIDE DEF n, f
<1>4. IsFiniteSet(1..n) /\ Cardinality(1..n) = n
  BY <1>1, FS_Interval
<1>5. f \in Surjection(1..n, S)
  <2>1. f \in Injection(1..n, S)
    BY <1>3 DEF Injection
  <2>2. Cardinality(1..n) = Cardinality(S)
    BY <1>4 DEF n
  <2>3. QED
    BY <2>1, <2>2, FS_Injection
<1>6. ToSet(f) = S
  BY <1>3, <1>5 DEF ToSet, Surjection
<1>7. QED
  BY <1>1, <1>3, <1>6 DEF f

\* When no comparator fails, all of them have results.
LEMMA AllReturned == Returned({}) = KnownComparators
<1> DEFINE K == KnownComparators
           n == Len(K)
           g == [i \in 0..n |-> SubSeq(K, 1, i)]
           Next1(h) == [i \in 0..n |-> IF i = 0 THEN <<>>
                                       ELSE IF K[i] \in {} THEN h[i - 1]
                                       ELSE Append(h[i - 1], K[i])]
<1>1. K \in Seq(ToSet(K)) /\ n \in Nat
  BY RegistryAssumption
<1>2. g = Next1(g)
  <2>1. SubSeq(K, 1, 0) = <<>>
    BY <1>1
  <2>2. \A i \in 1..n : SubSeq(K, 1, i) = Append(SubSeq(K, 1, i - 1), K[i]) /\ i - 1 \in 0..n
    BY <1>1
  <2>3. \A i \in 0..n : i = 0 \/ i \in 1..n
    BY <1>1
  <2> HIDE DEF n, K
  <2>4. QED
    BY <2>1, <2>2, <2>3
<1> DEFINE f == CHOOSE x : x = Next1(x)
<1>3. Returned({}) = f[n]
  BY DEF Returned
<1>4. f = Next1(f)
  <2> HIDE DEF g, Next1
  <2>1. QED
    BY <1>2, Zenon
<1> HIDE DEF f, g
<1> DEFINE S == {i \in 0..n : f[i] = SubSeq(K, 1, i)}
<1>5. 0 \in S
  <2>1. SubSeq(K, 1, 0) = <<>> /\ 0 \in 0..n
    BY <1>1
  <2> HIDE DEF n, K
  <2>2. QED
    BY <1>4, <2>1
<1>6. \A i \in 1..n : i - 1 \in S => i \in S
  <2>1. \A i \in 1..n : SubSeq(K, 1, i) = Append(SubSeq(K, 1, i - 1), K[i]) /\ i \in 0..n /\ i # 0
    BY <1>1
  <2>2. \A i \in 1..n : f[i] = Append(f[i - 1], K[i])
    BY <1>4, <2>1
  <2> HIDE DEF n, K
  <2>3. QED
    BY <2>1, <2>2
<1>7. n \in S
  <2>1. n \in Nat
    BY <1>1
  <2> HIDE DEF S, n, K
  <2>2. 0..n \subseteq S
    BY <1>5, <1>6, <2>1, UpToInduction
  <2>3. QED
    BY <2>1, <2>2
<1>8. SubSeq(K, 1, n) = K
  BY <1>1
<1>9. QED
  BY <1>3, <1>7, <1>8

-----------------------------------------------------------------------------
(***************************************************************************)
(* What a directory test looks at.                                         *)
(***************************************************************************)
\* The messages of a kind that the results say a comparator has.
Told(says, list, name, kind) == IF name \in says[kind] THEN list ELSE <<>>

\* What is expected is what the results say, whatever order messages and results are in.
AsExpected(test, says, list) ==
    \A kind \in MessageKinds :
        /\ says[kind] \subseteq {item.name : item \in ToSet(test.results)}
        /\ \A item \in ToSet(test.results) :
             SortStrings(item[kind]) = SortStrings(Told(says, list, item.name, kind))

\* A test without errors passes iff what is expected is what the results say: which quiet
\* comparators the results list, and in which order, does not matter.
LEMMA PassesMeans ==
    ASSUME NEW test \in Test, NEW list \in Listing, NEW says, NEW cs,
           DOMAIN cs \subseteq Nat, IsInjective(cs),
           \A kind \in MessageKinds : says[kind] \subseteq ToSet(cs)
    PROVE  Passes(test, ResultsOf(cs, says, list), {}) <=>
             test.errors = {} /\ AsExpected(test, says, list)
<1> DEFINE exp == test.results
           act == ResultsOf(cs, says, list)
           expS == Sorted(exp, act)
           actS == Sorted(act, exp)
           listed == {item.name : item \in ToSet(exp)}
           M(name, kind) == Told(says, list, name, kind)
<1>1. /\ DOMAIN exp \subseteq Nat
      /\ \A i \in DOMAIN exp : /\ DOMAIN exp[i] = MessageKinds \cup {"name"}
                               /\ \A kind \in MessageKinds : exp[i][kind] \in Seq(Nat)
      /\ listed = {exp[i].name : i \in DOMAIN exp}
  <2>1. /\ exp \in Seq(ToSet(exp))
        /\ \A item \in ToSet(exp) : /\ DOMAIN item = MessageKinds \cup {"name"}
                                    /\ \A kind \in MessageKinds : item[kind] \in Seq(Nat)
    BY TestAssumption
  <2>2. DOMAIN exp = 1..Len(exp) /\ Len(exp) \in Nat
    BY <2>1
  <2>3. \A i \in DOMAIN exp : exp[i] \in ToSet(exp)
    BY DEF ToSet
  <2>4. listed = {exp[i].name : i \in DOMAIN exp}
    BY DEF ToSet
  <2> HIDE DEF exp, listed
  <2>5. QED
    BY <2>1, <2>2, <2>3, <2>4
<1>2. list \in Seq(Nat) /\ list # <<>>
  BY TestAssumption
<1>3. /\ DOMAIN act = DOMAIN cs
      /\ \A j \in DOMAIN cs : /\ act[j].name = cs[j] /\ DOMAIN act[j] = MessageKinds \cup {"name"}
                              /\ \A kind \in MessageKinds : act[j][kind] = M(cs[j], kind)
  BY DEF ResultsOf, Told, MessageKinds
<1>4. "name" \notin MessageKinds
  BY DEF MessageKinds
<1> HIDE DEF exp, act, listed
<1>5. /\ \A name : PlacesOf(name, act) = {} <=> name \notin ToSet(cs)
      /\ \A name : PlacesOf(name, exp) = {} <=> name \notin listed
  BY <1>1, <1>3 DEF PlacesOf, ToSet
\* The lists of what is matched are sorted.
<1>6. /\ DOMAIN expS = DOMAIN exp
      /\ \A i \in DOMAIN exp :
           /\ expS[i].name = exp[i].name
           /\ \A kind \in MessageKinds :
                expS[i][kind] = IF exp[i].name \in ToSet(cs) THEN SortStrings(exp[i][kind]) ELSE exp[i][kind]
  BY <1>1, <1>4, <1>5 DEF Sorted
<1>7. /\ DOMAIN actS = DOMAIN cs
      /\ \A j \in DOMAIN cs :
           /\ actS[j].name = cs[j]
           /\ \A kind \in MessageKinds :
                actS[j][kind] = IF cs[j] \in listed THEN SortStrings(M(cs[j], kind)) ELSE M(cs[j], kind)
  BY <1>3, <1>4, <1>5 DEF Sorted
<1> HIDE DEF expS, actS
<1>8. /\ \A name : PlacesOf(name, actS) = {} <=> name \notin ToSet(cs)
      /\ \A name : PlacesOf(name, expS) = {} <=> name \notin listed
  BY <1>1, <1>6, <1>7 DEF PlacesOf, ToSet
\* What is found is of the name that was looked for.
<1>9. ASSUME NEW name \in ToSet(cs)
      PROVE  \E j \in DOMAIN cs : cs[j] = name /\ findResultsForComparator(name, actS) = actS[j]
  <2>1. PICK j \in DOMAIN cs : cs[j] = name
    BY DEF ToSet
  <2>2. PlacesOf(name, actS) = {j}
    BY <1>7, <2>1 DEF PlacesOf, IsInjective
  <2>3. Min({j}) = j
    BY <2>1 DEF Min
  <2>4. QED
    BY <2>1, <2>2, <2>3 DEF findResultsForComparator
<1>10. ASSUME NEW name \in listed
       PROVE  \E i \in DOMAIN exp : exp[i].name = name /\ findResultsForComparator(name, expS) = expS[i]
  <2> DEFINE P == PlacesOf(name, expS)
  <2>1. P \subseteq DOMAIN exp /\ P # {} /\ \A i \in P : exp[i].name = name
    BY <1>6, <1>8 DEF PlacesOf
  <2> HIDE DEF P
  <2>2. \E x \in P : \A y \in P : x <= y
    BY <1>1, <2>1, LeastNat
  <2>3. Min(P) \in P
    BY <2>2, Zenon DEF Min
  <2>4. QED
    BY <2>1, <2>3 DEF findResultsForComparator, P
\* The first loop compares every item with what is told.
<1> DEFINE Agree(i) == \A kind \in MessageKinds : SortStrings(exp[i][kind]) = SortStrings(M(exp[i].name, kind))
<1>11. AllFound(expS, actS) <=> \A i \in DOMAIN exp : Agree(i)
  <2> DEFINE Found(i) == IF PlacesOf(expS[i].name, actS) = {}
                           THEN Quiet(expS[i])
                           ELSE SameMessages(expS[i], findResultsForComparator(expS[i].name, actS))
  <2>1. ASSUME NEW i \in DOMAIN exp PROVE Found(i) <=> Agree(i)
    <3>1. CASE exp[i].name \notin ToSet(cs)
      <4>1. Found(i) <=> Quiet(expS[i])
        BY <1>6, <1>8, <3>1
      <4>2. \A kind \in MessageKinds : expS[i][kind] = exp[i][kind] /\ M(exp[i].name, kind) = <<>>
        BY <1>6, <3>1 DEF Told
      <4>3. \A kind \in MessageKinds :
              exp[i][kind] = <<>> <=> SortStrings(exp[i][kind]) = SortStrings(M(exp[i].name, kind))
        BY <1>1, <4>2, SortedEmpty
      <4>4. QED
        BY <4>1, <4>2, <4>3 DEF Quiet
    <3>2. CASE exp[i].name \in ToSet(cs)
      <4>1. PICK j \in DOMAIN cs :
                cs[j] = exp[i].name /\ findResultsForComparator(exp[i].name, actS) = actS[j]
        BY <1>9, <3>2
      <4>2. Found(i) <=> SameMessages(expS[i], actS[j])
        BY <1>6, <1>8, <3>2, <4>1
      <4>3. exp[i].name \in listed
        BY <1>1
      <4>4. \A kind \in MessageKinds : /\ expS[i][kind] = SortStrings(exp[i][kind])
                                       /\ actS[j][kind] = SortStrings(M(exp[i].name, kind))
        BY <1>6, <1>7, <3>2, <4>1, <4>3
      <4>5. QED
        BY <4>2, <4>4 DEF SameMessages
    <3>3. QED
      BY <3>1, <3>2
  <2>2. AllFound(expS, actS) <=> \A i \in DOMAIN exp : Found(i)
    BY <1>6 DEF AllFound
  <2>3. QED
    BY <2>1, <2>2
\* Given that, the second loop looks for what is not expected at all.
<1>12. ASSUME \A i \in DOMAIN exp : Agree(i)
       PROVE  AllFound(actS, expS) <=> \A kind \in MessageKinds : says[kind] \subseteq listed
  <2> DEFINE Found(j) == IF PlacesOf(actS[j].name, expS) = {}
                           THEN Quiet(actS[j])
                           ELSE SameMessages(actS[j], findResultsForComparator(actS[j].name, expS))
  <2>1. ASSUME NEW j \in DOMAIN cs, cs[j] \in listed PROVE Found(j)
    <3>1. PICK i \in DOMAIN exp :
              exp[i].name = cs[j] /\ findResultsForComparator(cs[j], expS) = expS[i]
      BY <1>10, <2>1
    <3>2. Found(j) <=> SameMessages(actS[j], expS[i])
      BY <1>7, <1>8, <2>1, <3>1
    <3>3. cs[j] \in ToSet(cs)
      BY DEF ToSet
    <3>4. \A kind \in MessageKinds : /\ expS[i][kind] = SortStrings(exp[i][kind])
                                     /\ actS[j][kind] = SortStrings(M(exp[i].name, kind))
      BY <1>6, <1>7, <2>1, <3>1, <3>3
    <3>5. Agree(i)
      BY <1>12
    <3>6. QED
      BY <3>2, <3>4, <3>5 DEF SameMessages
  <2>2. ASSUME NEW j \in DOMAIN cs, cs[j] \notin listed
        PROVE  Found(j) <=> \A kind \in MessageKinds : cs[j] \notin says[kind]
    <3>1. Found(j) <=> Quiet(actS[j])
      BY <1>7, <1>8, <2>2
    <3>2. \A kind \in MessageKinds : actS[j][kind] = M(cs[j], kind)
      BY <1>7, <2>2
    <3>3. QED
      BY <1>2, <3>1, <3>2 DEF Quiet, Told
  <2>3. AllFound(actS, expS) <=> \A j \in DOMAIN cs : Found(j)
    BY <1>7 DEF AllFound
  <2> HIDE DEF Found
  <2>4. AllFound(actS, expS) <=>
           \A j \in DOMAIN cs : cs[j] \notin listed => \A kind \in MessageKinds : cs[j] \notin says[kind]
    BY <2>1, <2>2, <2>3
  <2>5. QED
    BY <2>4 DEF ToSet
<1>13. AsExpected(test, says, list) <=>
          /\ \A i \in DOMAIN exp : Agree(i)
          /\ \A kind \in MessageKinds : says[kind] \subseteq listed
  BY DEF AsExpected, ToSet, exp, listed
<1>14. Passes(test, act, {}) <=> test.errors = {} /\ AllFound(expS, actS) /\ AllFound(actS, expS)
  BY DEF Passes, ErrorsAsExpected, expS, actS, exp
<1>15. QED
  <2> HIDE DEF Agree
  <2>1. QED
    BY <1>11, <1>12, <1>13, <1>14 DEF act

-----------------------------------------------------------------------------
\* What a test has to look at, once both front ends are done.
LEMMA TestedFacts ==
    ASSUME ParityInv, Tested
    PROVE  LET told == Hook!Decoded(response[r]) IN
           /\ Panics <=> Saying(said, Known, "panic") # {}
           /\ Panics => exit = 2 /\ response[r].code # 200
           /\ ~Panics =>
                /\ exit \in {0, 1} /\ response[r].code = 200
                /\ printed["evaluationError"] = Errs(said, Known)
                /\ \A kind \in MessageKinds : printed[kind] = Saying(said, Known, kind)
                /\ told.evaluationError = Errs(said, Known)
                /\ Errs(said, Known) = {} =>
                     \A kind \in MessageKinds : told[kind] = Saying(said, Known, kind)
<1> DEFINE told == Hook!Decoded(response[r])
<1>1. cliPc = "exited" /\ pc[r] = "answered" /\ Decodes /\ flags.enabled = {} /\ flags.disabled = {}
  BY DEF Tested, Judged, TestInDir, Decodes
<1>2. Run = Known
  BY <1>1 DEF Run, Selected, ComparatorNames
<1>3. Panics <=> Saying(said, Known, "panic") # {}
  BY <1>2 DEF Panics, Saying
<1>4. ValidNames(flags)
  BY <1>1 DEF ValidNames
<1>5. /\ exit \in {0, 1, 2}
      /\ exit = 0 => ~Panics
      /\ exit = 1 => ~Panics
      /\ exit = 2 => Panics
      /\ exit \in {0, 1} => printed = [line \in {"evaluationError", "error", "warning", "info"} |->
                                         Saying(said, Run, line)]
  <2>1. /\ exit \in {0, 1, 2, 255}
        /\ exit = 0 => Decodes /\ ~Panics /\ ~Faults
        /\ exit = 1 => Decodes /\ ~Panics /\ Faults
        /\ exit = 2 => Decodes /\ Panics
        /\ exit = 255 => ~Decodes
        /\ exit \in {0, 1} => printed = [line \in {"evaluationError", "error", "warning", "info"} |->
                                           Saying(said, Run, line)]
    BY <1>1, <1>4, CLIOutcome
  <2>2. exit \in {0, 1, 2}
    BY <1>1, <2>1
  <2>3. QED
    BY <2>1, <2>2
<1>6. /\ Panics => response[r].code = 500
      /\ ~Panics => response[r].code = 200
  BY <1>1, HookOutcome
<1>7. 500 # 200
  OBVIOUS
<1>8. ASSUME ~Panics
      PROVE  /\ exit \in {0, 1} /\ response[r].code = 200
             /\ printed["evaluationError"] = Errs(said, Known)
             /\ \A kind \in MessageKinds : printed[kind] = Saying(said, Known, kind)
             /\ told.evaluationError = Errs(said, Known)
             /\ Errs(said, Known) = {} => \A kind \in MessageKinds : told[kind] = Saying(said, Known, kind)
  <2>1. exit \in {0, 1}
    BY <1>5, <1>8
  <2>2. /\ printed["evaluationError"] = Errs(said, Known)
        /\ \A kind \in MessageKinds : printed[kind] = Saying(said, Known, kind)
    BY <1>2, <1>5, <2>1 DEF Saying, Errs, MessageKinds
  <2>3. IF printed["evaluationError"] # {}
          THEN told.evaluationError = printed["evaluationError"]
          ELSE \A kind \in {"evaluationError", "error", "warning", "info"} : told[kind] = printed[kind]
    BY <1>1, <2>1, ParityReport DEF SameReport, Judged
  <2>4. told["evaluationError"] = told.evaluationError
    OBVIOUS
  <2> HIDE DEF told
  <2>5. QED
    BY <1>6, <1>8, <2>1, <2>2, <2>3, <2>4 DEF MessageKinds
<1>9. Panics => exit = 2 /\ response[r].code # 200
  BY <1>5, <1>6, <1>7
<1> HIDE DEF told
<1>10. QED
  BY <1>3, <1>8, <1>9 DEF told

\* No test passes that meets an error: errors.txt or not.
LEMMA ErrorsFail ==
    ASSUME NEW test, NEW results, NEW errors, errors # {}
    PROVE  ~Passes(test, results, errors)
  BY DEF Passes, ErrorsAsExpected, DeepEqualErrors

\* On the registry's own results a test passes iff they are what is expected.
LEMMA DirectMeans ==
    ASSUME NEW test \in Test, NEW list \in Listing, NEW says,
           \A kind \in MessageKinds : says[kind] = Saying(said, Known, kind)
    PROVE  PassesDirectly(test, list) <=>
             /\ Saying(said, Known, "panic") = {} /\ Errs(said, Known) = {}
             /\ test.errors = {} /\ AsExpected(test, says, list)
<1> DEFINE errs == Errs(said, Known)
           own == [kind \in MessageKinds |-> Saying(said, Known, kind)]
<1>1. PassesDirectly(test, list) <=>
        /\ Saying(said, Known, "panic") = {}
        /\ Passes(test, ResultsOf(Returned(errs), own, list), errs)
  BY DEF PassesDirectly
<1>2. \A kind \in MessageKinds : own[kind] = says[kind]
  OBVIOUS
<1>3. AsExpected(test, own, list) <=> AsExpected(test, says, list)
  <2> HIDE DEF own
  <2>1. QED
    BY <1>2 DEF AsExpected, Told
<1>4. \A kind \in MessageKinds : own[kind] \subseteq ToSet(KnownComparators)
  BY DEF Saying, Known
<1>5. DOMAIN KnownComparators \subseteq Nat /\ IsInjective(KnownComparators)
  BY RegistryAssumption
<1> HIDE DEF own, errs
<1>6. CASE errs = {}
  <2>1. Passes(test, ResultsOf(KnownComparators, own, list), {}) <=>
          test.errors = {} /\ AsExpected(test, own, list)
    BY <1>4, <1>5, PassesMeans
  <2>2. QED
    BY <1>1, <1>3, <1>6, <2>1, AllReturned DEF errs
<1>7. CASE errs # {}
  BY <1>1, <1>7, ErrorsFail DEF errs
<1>8. QED
  BY <1>6, <1>7

\* A directory test passes through the hook iff it passes on the registry itself, in every
\* state in which both have judged the manifests (admission_tester.go:91-168).
THEOREM TestsAlwaysAgree == Spec => []TestsAgree
<1>1. ParityInv => TestsAgree
  <2> SUFFICES ASSUME ParityInv, Tested, NEW test \in Test, NEW list \in Listing
               PROVE  PassesThroughHook(test, list) <=> PassesDirectly(test, list)
    BY DEF TestsAgree
  <2> DEFINE told == Hook!Decoded(response[r])
             errs == Errs(said, Known)
             all == told.error \cup told.warning \cup told.info
  <2>1. PassesThroughHook(test, list) <=>
          response[r].code = 200 /\ Passes(test, ResultsOf(SetToSeq(all), told, list), told.evaluationError)
    BY DEF PassesThroughHook
  <2>2. /\ Panics <=> Saying(said, Known, "panic") # {}
        /\ Panics => response[r].code # 200
        /\ ~Panics => /\ response[r].code = 200 /\ told.evaluationError = errs
                      /\ errs = {} => \A kind \in MessageKinds : told[kind] = Saying(said, Known, kind)
    BY TestedFacts
  <2>3. PassesDirectly(test, list) => Saying(said, Known, "panic") = {} /\ errs = {}
    <3>1. PassesDirectly(test, list) <=>
             /\ Saying(said, Known, "panic") = {} /\ Errs(said, Known) = {}
             /\ test.errors = {}
             /\ AsExpected(test, [kind \in MessageKinds |-> Saying(said, Known, kind)], list)
      BY DirectMeans
    <3>2. QED
      BY <3>1
  <2>4. all = told["error"] \cup told["warning"] \cup told["info"]
    OBVIOUS
  <2> HIDE DEF told, errs, all
  <2>5. CASE ~Panics /\ errs = {}
    <3>1. \A kind \in MessageKinds : told[kind] = Saying(said, Known, kind)
      BY <2>2, <2>5
    <3>2. all \subseteq Known /\ \A kind \in MessageKinds : told[kind] \subseteq all
      BY <2>4, <3>1 DEF Saying, MessageKinds
    <3>3. IsFiniteSet(all)
      <4> DEFINE n == Len(KnownComparators)
      <4>1. n \in Nat /\ DOMAIN KnownComparators = 1..n
        BY RegistryAssumption
      <4> HIDE DEF n
      <4>2. IsFiniteSet(1..n)
        BY <4>1, FS_Interval
      <4>3. IsFiniteSet(Known)
        <5> DEFINE f == [i \in 1..n |-> KnownComparators[i]]
        <5>1. f \in Surjection(1..n, Known)
          BY <4>1 DEF Known, ToSet, Surjection
        <5>2. QED
          BY <4>2, <5>1, FS_Surjection
      <4>4. QED
        BY <3>2, <4>3, FS_Subset
    <3>4. Passes(test, ResultsOf(SetToSeq(all), told, list), {}) <=>
            test.errors = {} /\ AsExpected(test, told, list)
      <4> DEFINE cs == SetToSeq(all)
      <4>1. DOMAIN cs \subseteq Nat /\ IsInjective(cs) /\ ToSet(cs) = all
        BY <3>3, SetToSeqFacts
      <4> HIDE DEF cs
      <4>2. Passes(test, ResultsOf(cs, told, list), {}) <=>
              test.errors = {} /\ AsExpected(test, told, list)
        BY <3>2, <4>1, PassesMeans
      <4>3. QED
        BY <4>2 DEF cs
    <3>5. PassesDirectly(test, list) <=> test.errors = {} /\ AsExpected(test, told, list)
      BY <2>2, <2>5, <3>1, DirectMeans DEF errs
    <3>6. QED
      BY <2>1, <2>2, <2>5, <3>4, <3>5
  <2>6. CASE ~Panics /\ errs # {}
    BY <2>1, <2>2, <2>3, <2>6, ErrorsFail
  <2>7. CASE Panics
    BY <2>1, <2>2, <2>3, <2>7
  <2>8. QED
    BY <2>5, <2>6, <2>7
<1>2. QED
  BY <1>1, ParityInvariant, PTL

\* A directory test passes iff its expected.yaml lists, in any order, what check-manifests
\* prints for the same manifests, no comparator fails and no errors.txt asks for one to
\* fail: for every registry, every expected.yaml and all lists of messages
\* (simple_tester.go:217-310).
THEOREM TestsAlwaysVouch == Spec => []TestVouches
<1>1. ParityInv => TestVouches
  <2> DEFINE Bags(test, list) ==
               \A kind \in MessageKinds :
                 /\ printed[kind] \subseteq {item.name : item \in ToSet(test.results)}
                 /\ \A item \in ToSet(test.results) :
                      SameBag(item[kind], IF item.name \in printed[kind] THEN list ELSE <<>>)
  <2> SUFFICES ASSUME ParityInv, Tested, NEW test \in Test, NEW list \in Listing
               PROVE  PassesDirectly(test, list) <=>
                        /\ exit \in {0, 1} /\ printed["evaluationError"] = {} /\ test.errors = {}
                        /\ Bags(test, list)
    BY DEF TestVouches
  <2>1. /\ Panics <=> Saying(said, Known, "panic") # {}
        /\ Panics => exit = 2
        /\ ~Panics => /\ exit \in {0, 1}
                      /\ printed["evaluationError"] = Errs(said, Known)
                      /\ \A kind \in MessageKinds : printed[kind] = Saying(said, Known, kind)
    BY TestedFacts
  <2>2. CASE Panics
    <3>1. ~PassesDirectly(test, list)
      BY <2>1, <2>2 DEF PassesDirectly
    <3>2. exit \notin {0, 1}
      BY <2>1, <2>2
    <3>3. QED
      BY <3>1, <3>2
  <2>3. CASE ~Panics
    <3>1. PassesDirectly(test, list) <=>
             /\ printed["evaluationError"] = {}
             /\ test.errors = {} /\ AsExpected(test, printed, list)
      BY <2>1, <2>3, DirectMeans
    <3>2. AsExpected(test, printed, list) <=> Bags(test, list)
      <4>1. \A item \in ToSet(test.results), kind \in MessageKinds : item[kind] \in Seq(Nat)
        BY TestAssumption
      <4>2. \A item, kind : Told(printed, list, item.name, kind) \in Seq(Nat)
        BY TestAssumption DEF Told
      <4>3. ASSUME NEW item \in ToSet(test.results), NEW kind \in MessageKinds
            PROVE  SortStrings(item[kind]) = SortStrings(Told(printed, list, item.name, kind)) <=>
                   SameBag(item[kind], IF item.name \in printed[kind] THEN list ELSE <<>>)
        <5>1. SortStrings(item[kind]) = SortStrings(Told(printed, list, item.name, kind)) <=>
              SameBag(item[kind], Told(printed, list, item.name, kind))
          BY <4>1, <4>2, SortedSame
        <5>2. QED
          BY <5>1 DEF Told
      <4>4. QED
        BY <4>3 DEF AsExpected
    <3>3. QED
      BY <2>1, <2>3, <3>1, <3>2
  <2>4. QED
    BY <2>2, <2>3
<1>2. QED
  BY <1>1, ParityInvariant, PTL
=============================================================================
