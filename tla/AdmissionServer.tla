--------------------------- MODULE AdmissionServer ---------------------------
(***************************************************************************)
(* The admission-check command (pkg/cmd/checkadmission) and the hook it    *)
(* serves (pkg/admissionevaluator): a server that completes and validates  *)
(* its options, starts listening and then answers AdmissionReviews, each   *)
(* on a goroutine of its own, with one ComparatorConfig for all of them.   *)
(*                                                                         *)
(* The generic API server around the hook is a library: it listens, runs   *)
(* Initialize after it began to listen, and turns a panic of a request     *)
(* into a 500 for that request.                                            *)
(***************************************************************************)
EXTENDS ComparatorOptions

CONSTANTS
    Request,    \* AdmissionReviews in flight
    Review      \* what an AdmissionReview may ask for

VARIABLES
    flags,      \* the lists of --enabled-validators and --disabled-validators
    review,     \* review[r]: the AdmissionRequest of r
    finding,    \* finding[r]: what each comparator says about the CRDs of r
    phase,      \* where the command is
    config,     \* the hook's ComparatorConfig
    pc,         \* pc[r]: where the goroutine of r is
    done,       \* done[r]: the comparators Compare has called for r
    response    \* response[r]: what the API server gets back, once r is answered

inputs == <<flags, review, finding>>
serverVars == <<phase, config>>
requestVars == <<pc, done, response>>
vars == <<inputs, serverVars, requestVars>>

FlagSets == [enabled : SUBSET (Known \cup Unknown), disabled : SUBSET (Known \cup Unknown)]

AdmissionRequest ==
    [operation : {"CREATE", "UPDATE", "DELETE", "CONNECT"}, subResource : BOOLEAN, crdGroup : BOOLEAN,
     object : {"good", "undecodable"}, oldObject : {"absent", "good", "undecodable"}]

ASSUME ReviewAssumption == Review \subseteq AdmissionRequest

\* The message of a cause, told apart by the comparator whose text it is.  For an
\* evaluation error the text is all that is sent: it has no field for a name.
Cause == [type : Known \cup {"EvaluationError"}, message : Known]
Warning == [fyi : BOOLEAN, name : Known]

\* code 500 is the server's own answer, without an AdmissionResponse.
AdmissionResponse ==
    [code : {200, 500}, allowed : BOOLEAN, result : BOOLEAN,
     causes : SUBSET Cause, warnings : SUBSET Warning]

NilConfig == [set |-> FALSE, names |-> {}]

\* What Validate of the hook may return: allowed, or a Status of failure with or
\* without causes, or neither.
Allow == [code |-> 200, allowed |-> TRUE, result |-> FALSE, causes |-> {}, warnings |-> {}]
BadRequest(causes) ==
    [code |-> 200, allowed |-> FALSE, result |-> TRUE, causes |-> causes, warnings |-> {}]
ServerError == [Allow EXCEPT !.code = 500, !.allowed = FALSE]

ServerInit ==
    /\ phase = "Complete"
    /\ config = NilConfig
    /\ pc = [r \in Request |-> "sent"]
    /\ done = [r \in Request |-> {}]
    /\ response = [r \in Request |-> ServerError]

Init ==
    /\ flags \in FlagSets
    /\ review \in [Request -> Review]
    /\ finding \in [Request -> [Known -> Finding]]
    /\ ServerInit

-----------------------------------------------------------------------------
\* Mutant of Complete: the hook is not given its configuration.
CompleteForgetsHook ==
    /\ phase = "Complete"
    /\ phase' = IF ValidNames(flags) THEN "Validate" ELSE "failed"
    /\ UNCHANGED <<inputs, config, requestVars>>

\* Mutant of Complete: the hook is given the registry and no names.
CompleteWithoutNames ==
    /\ phase = "Complete"
    /\ IF ValidNames(flags)
         THEN config' = [set |-> TRUE, names |-> {}] /\ phase' = "Validate"
         ELSE phase' = "failed" /\ UNCHANGED config
    /\ UNCHANGED <<inputs, requestVars>>

\* AdmissionCheckOptions.Complete gives the hook its configuration.
Complete ==
    /\ phase = "Complete"
    /\ IF ValidNames(flags)
         THEN /\ config' = [set |-> TRUE, names |-> ComparatorNames(flags)]
              /\ phase' = "Validate"
         ELSE phase' = "failed" /\ UNCHANGED config
    /\ UNCHANGED <<inputs, requestVars>>

\* AdmissionCheckOptions.Validate.
ValidateOptions ==
    /\ phase = "Validate"
    /\ phase' = IF ValidNames(flags) THEN "RunAdmissionServer" ELSE "failed"
    /\ UNCHANGED <<inputs, config, requestVars>>

\* The library starts to listen, unless its own configuration is unusable.
RunAdmissionServer ==
    /\ phase = "RunAdmissionServer"
    /\ phase' \in {"listening", "failed"}
    /\ UNCHANGED <<inputs, config, requestVars>>

\* AdmissionHook.Initialize runs while requests come in; its error is fatal.
Initialize ==
    /\ phase = "listening"
    /\ phase' = IF config.set THEN "initialized" ELSE "failed"
    /\ UNCHANGED <<inputs, config, requestVars>>

Serving == phase \in {"listening", "initialized"}

-----------------------------------------------------------------------------
Answer(r, answer) ==
    /\ pc' = [pc EXCEPT ![r] = "answered"]
    /\ response' = [response EXCEPT ![r] = answer]

OfInterest(req) ==
    /\ req.operation \in {"CREATE", "UPDATE"}
    /\ ~req.subResource
    /\ req.crdGroup

\* AdmissionHook.Validate up to its call of Compare.
Validate(r) ==
    /\ Serving
    /\ pc[r] = "sent"
    /\ LET req == review[r] IN
         CASE ~OfInterest(req) -> Answer(r, Allow)
           [] OfInterest(req) /\ (req.object = "undecodable" \/ req.oldObject = "undecodable") ->
                Answer(r, BadRequest({}))
           [] OTHER -> pc' = [pc EXCEPT ![r] = "Compare"] /\ UNCHANGED response
    /\ UNCHANGED <<inputs, serverVars, done>>

\* What is left of the loop in Registry.Compare for a request.
ToCall(r) == Selected(config.names) \ done[r]

\* Mutant of RunComparator: the loop does not advance.
RunComparatorAgain(r) ==
    /\ Serving
    /\ pc[r] = "Compare"
    /\ \E c \in First(ToCall(r)) :
         IF ~config.set \/ "panic" \in finding[r][c]
           THEN Answer(r, ServerError)
           ELSE UNCHANGED <<pc, response>>
    /\ UNCHANGED <<inputs, serverVars, done>>

\* Registry.Compare calls the next comparator of a request; a configuration that is
\* nil is dereferenced before the first one.
RunComparator(r) ==
    /\ Serving
    /\ pc[r] = "Compare"
    /\ \E c \in First(ToCall(r)) :
         IF ~config.set \/ "panic" \in finding[r][c]
           THEN Answer(r, ServerError) /\ UNCHANGED done
           ELSE done' = [done EXCEPT ![r] = @ \cup {c}] /\ UNCHANGED <<pc, response>>
    /\ UNCHANGED <<inputs, serverVars>>

\* Mutant of Status: infos are sent as if they were warnings.
StatusWithoutFyi(r) ==
    LET errs == Errs(finding[r], done[r])
        Says(kind) == Saying(finding[r], done[r], kind)
        errorCauses == {[type |-> c, message |-> c] : c \in Says("error")}
    IN  IF errs # {} THEN BadRequest({[type |-> "EvaluationError", message |-> c] : c \in errs})
        ELSE [code |-> 200, allowed |-> FALSE, result |-> errorCauses # {}, causes |-> errorCauses,
              warnings |-> {[fyi |-> FALSE, name |-> c] : c \in Says("warning") \cup Says("info")}]

\* Mutant of Status: evaluation errors are overlooked.
StatusWithoutErrs(r) ==
    LET errorCauses == {[type |-> c, message |-> c] : c \in Saying(finding[r], done[r], "error")}
    IN  [code |-> 200, allowed |-> FALSE, result |-> errorCauses # {},
         causes |-> errorCauses, warnings |-> {}]

\* Mutant of Status: causes do not say which comparator they come from.
StatusUnnamed(r) ==
    LET errorCauses == {[type |-> "Error", message |-> c] : c \in Saying(finding[r], done[r], "error")}
    IN  [code |-> 200, allowed |-> FALSE, result |-> errorCauses # {},
         causes |-> errorCauses, warnings |-> {}]

\* What is left of Validate: evaluation errors are all it tells if there are any;
\* allowed is never set again, so it stays false.
Status(r) ==
    LET errs == Errs(finding[r], done[r])
        Says(kind) == Saying(finding[r], done[r], kind)
        errorCauses == {[type |-> c, message |-> c] : c \in Says("error")}
        warnings == {[fyi |-> FALSE, name |-> c] : c \in Says("warning")}
                      \cup {[fyi |-> TRUE, name |-> c] : c \in Says("info")}
    IN  IF errs # {} THEN BadRequest({[type |-> "EvaluationError", message |-> c] : c \in errs})
        ELSE [code |-> 200, allowed |-> FALSE, result |-> errorCauses # {},
              causes |-> errorCauses, warnings |-> warnings]

Respond(r) ==
    /\ Serving
    /\ pc[r] = "Compare"
    /\ ToCall(r) = {}
    /\ Answer(r, Status(r))
    /\ UNCHANGED <<inputs, serverVars, done>>

Startup == Complete \/ ValidateOptions \/ RunAdmissionServer \/ Initialize
Handle(r) == Validate(r) \/ RunComparator(r) \/ Respond(r)
ServerNext == Startup \/ \E r \in Request : Handle(r)

\* The process failed to start, or serves and has answered everybody.
Idle ==
    /\ phase = "failed" \/ (phase = "initialized" /\ \A r \in Request : pc[r] = "answered")
    /\ UNCHANGED vars

Next == ServerNext \/ Idle

\* Startup and the goroutine of every request keep running; nothing in them waits.
Spec == /\ Init /\ [][Next]_vars
        /\ WF_vars(Startup)
        /\ \A r \in Request : WF_vars(Handle(r))

-----------------------------------------------------------------------------
\* What admissionComparatorTest.Test reads back from a response: the messages of
\* evaluation errors, and the comparators that other causes and warnings name.
Decoded(answer) ==
    [evaluationError |-> {k.message : k \in {x \in answer.causes : x.type = "EvaluationError"}},
     error   |-> {k.type : k \in {x \in answer.causes : x.type # "EvaluationError"}},
     warning |-> {k.name : k \in {x \in answer.warnings : ~x.fyi}},
     info    |-> {k.name : k \in {x \in answer.warnings : x.fyi}}]

-----------------------------------------------------------------------------
\* The variables keep their types; every response is one the API defines.
TypeOK ==
    /\ flags \in FlagSets
    /\ review \in [Request -> AdmissionRequest]
    /\ finding \in [Request -> [Known -> Finding]]
    /\ phase \in {"Complete", "Validate", "RunAdmissionServer", "listening", "initialized", "failed"}
    /\ config \in [set : BOOLEAN, names : SUBSET Known]
    /\ pc \in [Request -> {"sent", "Compare", "answered"}]
    /\ done \in [Request -> SUBSET Known]
    /\ response \in [Request -> AdmissionResponse]

Wanted == (Known \cup flags.enabled) \ flags.disabled

\* The requests that the comparators judge: creates and updates of CRDs that decode.
Judged(r) ==
    /\ OfInterest(review[r])
    /\ review[r].object = "good"
    /\ review[r].oldObject # "undecodable"

\* A server error is the fault of the request that gets it: it is judged and one of
\* the comparators that run panics on its own CRDs.  No request is answered before
\* the hook has its configuration, and none pays for another one's panic
\* (admission_evaluator.go:67, check_admission.go:67-75).
ErrorsAreOwn ==
    \A r \in Request : pc[r] = "answered" /\ response[r].code = 500 =>
        Judged(r) /\ \E c \in Selected(ComparatorNames(flags)) : "panic" \in finding[r][c]

\* A write of a CRD that an enabled comparator objects to, or fails on, is denied with a
\* result and a cause: one of type EvaluationError if any comparator failed, which does
\* not say who it was, and else one whose type is the name of the comparator
\* (admission_evaluator.go:68-104).
FaultsDenied ==
    \A r \in Request : pc[r] = "answered" /\ Judged(r) /\ response[r].code = 200 =>
        LET types == {k.type : k \in response[r].causes} IN
        \A c \in Wanted :
            /\ "evaluationError" \in finding[r][c] => "EvaluationError" \in types
            /\ "error" \in finding[r][c] => types \cap {c, "EvaluationError"} # {}
            /\ finding[r][c] \cap {"error", "evaluationError"} # {} =>
                  ~response[r].allowed /\ response[r].result

\* The client of the hook gets back exactly what Registry.Compare returned, unless
\* there was an evaluation error, and then exactly the evaluation errors: a comparator
\* is never credited with what another one said (admission_tester.go:107-165).
RoundTrip ==
    \A r \in Request : pc[r] = "answered" /\ Judged(r) /\ response[r].code = 200 =>
        LET got == Decoded(response[r])
            errs == Errs(finding[r], done[r])
        IN  /\ got.evaluationError = errs
            /\ \A kind \in {"error", "warning", "info"} :
                  got[kind] = IF errs = {} THEN Saying(finding[r], done[r], kind) ELSE {}

\* A write of a CRD that no enabled comparator objects to is allowed.
CleanAllowed ==
    \A r \in Request :
        /\ pc[r] = "answered"
        /\ Judged(r)
        /\ Wanted # {}
        /\ \A c \in Wanted : finding[r][c] \subseteq {"info", "warning"}
        => response[r].allowed

\* Once the server listens every request is answered, also before Initialize has run
\* and whatever the comparators do on other requests.
EveryRequestAnswered ==
    \A r \in Request : (phase = "listening") ~> (pc[r] = "answered")
=============================================================================
