----------------------- MODULE AdmissionServerProofs -----------------------
(***************************************************************************)
(* Proofs about the admission server, for every number of requests in      *)
(* flight, every registry and everything the comparators may say.          *)
(*                                                                         *)
(* A response is written by one step and judged by what happened before:   *)
(* when the hook got its configuration, which comparators were called for  *)
(* this request.  HookInv keeps both: who is being answered finds the hook *)
(* configured as the flags say, and a response is one of three, of which   *)
(* only Status depends on what the comparators said.                       *)
(***************************************************************************)
EXTENDS AdmissionServer, TLAPS

\* The hook is configured before it can be asked anything.
Configured ==
    /\ phase # "Complete" /\ ValidNames(flags) =>
          config.set /\ config.names = ComparatorNames(flags)
    /\ phase \notin {"Complete", "failed"} => ValidNames(flags)
    /\ \A r \in Request : pc[r] # "sent" => phase # "Complete" /\ ValidNames(flags)

\* The comparators called for a request.
CalledFor(r) ==
    /\ done[r] \subseteq Selected(config.names)
    /\ \A c \in done[r] : "panic" \notin finding[r][c]
    /\ pc[r] = "sent" => done[r] = {}
    /\ pc[r] = "Compare" => Judged(r)

\* The responses there are.
AnsweredAs(r) ==
    \/ ~Judged(r) /\ ~OfInterest(review[r]) /\ response[r] = Allow
    \/ ~Judged(r) /\ OfInterest(review[r]) /\ response[r] = BadRequest({})
    \/ /\ Judged(r) /\ response[r] = ServerError
       /\ \E c \in Selected(config.names) : "panic" \in finding[r][c]
    \/ Judged(r) /\ response[r] = Status(r) /\ done[r] = Selected(config.names)

HookInv ==
    /\ TypeOK
    /\ Configured
    /\ \A r \in Request : CalledFor(r)
    /\ \A r \in Request : pc[r] = "answered" => AnsweredAs(r)

-----------------------------------------------------------------------------
\* The responses are well formed.
LEMMA AnswersTyped ==
    /\ Allow \in AdmissionResponse /\ BadRequest({}) \in AdmissionResponse
    /\ ServerError \in AdmissionResponse
    /\ Allow.code = 200 /\ Allow.allowed /\ ~Allow.result /\ Allow.causes = {}
    /\ BadRequest({}).code = 200 /\ ~BadRequest({}).allowed /\ BadRequest({}).result
    /\ BadRequest({}).causes = {}
    /\ ServerError.code = 500 /\ ~ServerError.result /\ ServerError.causes = {}
  BY ZenonT(60) DEF Allow, BadRequest, ServerError, AdmissionResponse

\* What the fields of a Status say.
LEMMA StatusFields ==
    ASSUME NEW r \in Request, done[r] \subseteq Known
    PROVE  LET errs == Errs(finding[r], done[r])
               errors == Saying(finding[r], done[r], "error")
               warnings == Saying(finding[r], done[r], "warning")
               infos == Saying(finding[r], done[r], "info")
           IN  /\ Status(r) \in AdmissionResponse
               /\ Status(r).code = 200 /\ ~Status(r).allowed
               /\ Status(r).result <=> errs # {} \/ errors # {}
               /\ Status(r).causes =
                    IF errs # {} THEN {[type |-> "EvaluationError", message |-> c] : c \in errs}
                                 ELSE {[type |-> c, message |-> c] : c \in errors}
               /\ Status(r).warnings =
                    IF errs # {} THEN {}
                    ELSE {[fyi |-> FALSE, name |-> c] : c \in warnings}
                           \cup {[fyi |-> TRUE, name |-> c] : c \in infos}
<1> DEFINE errs == Errs(finding[r], done[r])
           errors == Saying(finding[r], done[r], "error")
           warnings == Saying(finding[r], done[r], "warning")
           infos == Saying(finding[r], done[r], "info")
           evaluationCauses == {[type |-> "EvaluationError", message |-> c] : c \in errs}
           errorCauses == {[type |-> c, message |-> c] : c \in errors}
           told == {[fyi |-> FALSE, name |-> c] : c \in warnings}
                     \cup {[fyi |-> TRUE, name |-> c] : c \in infos}
<1>1. errs \subseteq Known /\ errors \subseteq Known /\ warnings \subseteq Known /\ infos \subseteq Known
  BY DEF Errs, Saying
<1>2. Status(r) = IF errs # {} THEN BadRequest(evaluationCauses)
                  ELSE [code |-> 200, allowed |-> FALSE, result |-> errorCauses # {},
                        causes |-> errorCauses, warnings |-> told]
  BY DEF Status
<1> HIDE DEF errs, errors, warnings, infos
<1>3. /\ evaluationCauses \in SUBSET Cause /\ errorCauses \in SUBSET Cause
      /\ told \in SUBSET Warning
  <2>1. ASSUME NEW c \in Known
        PROVE  /\ [type |-> "EvaluationError", message |-> c] \in Cause
               /\ [type |-> c, message |-> c] \in Cause
               /\ [fyi |-> FALSE, name |-> c] \in Warning /\ [fyi |-> TRUE, name |-> c] \in Warning
    BY DEF Cause, Warning
  <2>2. QED
    BY <1>1, <2>1
<1>4. errorCauses # {} <=> errors # {}
  OBVIOUS
<1> HIDE DEF evaluationCauses, errorCauses, told
<1>5. ASSUME NEW causes \in SUBSET Cause, NEW list \in SUBSET Warning, NEW failed \in BOOLEAN
      PROVE  LET s == [code |-> 200, allowed |-> FALSE, result |-> failed,
                       causes |-> causes, warnings |-> list]
             IN  /\ s \in AdmissionResponse /\ s.code = 200 /\ ~s.allowed
                 /\ s.result = failed /\ s.causes = causes /\ s.warnings = list
  BY DEF AdmissionResponse
<1>6. ASSUME NEW causes \in SUBSET Cause
      PROVE  BadRequest(causes) = [code |-> 200, allowed |-> FALSE, result |-> TRUE,
                                   causes |-> causes, warnings |-> {}]
  BY DEF BadRequest
<1>7. CASE errs # {}
  <2> DEFINE failed == TRUE
             list == {}
  <2>1. Status(r) = [code |-> 200, allowed |-> FALSE, result |-> failed,
                     causes |-> evaluationCauses, warnings |-> list]
    BY <1>2, <1>3, <1>6, <1>7
  <2>2. failed \in BOOLEAN /\ list \in SUBSET Warning
    OBVIOUS
  <2> HIDE DEF failed, list
  <2>3. /\ Status(r) \in AdmissionResponse /\ Status(r).code = 200 /\ ~Status(r).allowed
        /\ Status(r).result = failed /\ Status(r).causes = evaluationCauses
        /\ Status(r).warnings = list
    BY <1>3, <1>5, <2>1, <2>2
  <2>4. Status(r).result /\ Status(r).warnings = {}
    BY <2>3 DEF failed, list
  <2>5. QED
    BY <1>7, <2>3, <2>4 DEF evaluationCauses, errs
<1>8. CASE errs = {}
  <2> DEFINE failed == errorCauses # {}
  <2>1. failed \in BOOLEAN /\ (failed <=> errors # {})
    BY <1>4
  <2>2. Status(r) = [code |-> 200, allowed |-> FALSE, result |-> failed,
                     causes |-> errorCauses, warnings |-> told]
    BY <1>2, <1>8
  <2> HIDE DEF failed
  <2>3. /\ Status(r) \in AdmissionResponse /\ Status(r).code = 200 /\ ~Status(r).allowed
        /\ Status(r).result = failed /\ Status(r).causes = errorCauses
        /\ Status(r).warnings = told
    BY <1>3, <1>5, <2>1, <2>2
  <2>4. QED
    BY <1>8, <2>1, <2>3 DEF errorCauses, told, errs, errors, warnings, infos
<1>9. QED
  BY <1>7, <1>8

LEMMA StatusCode ==
    ASSUME NEW r \in Request, done[r] \subseteq Known
    PROVE  Status(r).code = 200
  BY StatusFields

\* What a client reads back from causes and warnings built from sets of names.
LEMMA EvaluationCausesRead ==
    ASSUME NEW E
    PROVE  LET causes == {[type |-> "EvaluationError", message |-> c] : c \in E}
           IN  /\ {k.message : k \in {x \in causes : x.type = "EvaluationError"}} = E
               /\ {k.type : k \in {x \in causes : x.type # "EvaluationError"}} = {}
<1>1. \A c \in E : /\ [type |-> "EvaluationError", message |-> c].message = c
                   /\ [type |-> "EvaluationError", message |-> c].type = "EvaluationError"
  OBVIOUS
<1>2. QED
  BY <1>1

LEMMA ErrorCausesRead ==
    ASSUME NEW E \in SUBSET Known
    PROVE  LET causes == {[type |-> c, message |-> c] : c \in E}
           IN  /\ {k.message : k \in {x \in causes : x.type = "EvaluationError"}} = {}
               /\ {k.type : k \in {x \in causes : x.type # "EvaluationError"}} = E
<1>1. \A c \in E : /\ [type |-> c, message |-> c].type = c
                   /\ c # "EvaluationError"
  BY NameAssumption
<1>2. QED
  BY <1>1

LEMMA WarningsRead ==
    ASSUME NEW W, NEW I
    PROVE  LET told == {[fyi |-> FALSE, name |-> c] : c \in W}
                         \cup {[fyi |-> TRUE, name |-> c] : c \in I}
           IN  /\ {k.name : k \in {x \in told : ~x.fyi}} = W
               /\ {k.name : k \in {x \in told : x.fyi}} = I
<1> DEFINE Warn(c) == [fyi |-> FALSE, name |-> c]
           Info(c) == [fyi |-> TRUE, name |-> c]
           told == {Warn(c) : c \in W} \cup {Info(c) : c \in I}
<1>1. \A c : Warn(c).name = c /\ ~Warn(c).fyi /\ Info(c).name = c /\ Info(c).fyi
  OBVIOUS
<1> HIDE DEF Warn, Info
<1>2. {x \in told : ~x.fyi} = {Warn(c) : c \in W} /\ {x \in told : x.fyi} = {Info(c) : c \in I}
  BY <1>1
<1>3. {k.name : k \in {Warn(c) : c \in W}} = W /\ {k.name : k \in {Info(c) : c \in I}} = I
  BY <1>1
<1>4. QED
  BY <1>2, <1>3 DEF Warn, Info

\* A client reads back from a Status exactly what the comparators said, or their
\* evaluation errors alone (admission_tester.go:107-165).
LEMMA StatusDecoded ==
    ASSUME NEW r \in Request, done[r] \subseteq Known
    PROVE  LET errs == Errs(finding[r], done[r])
               got == Decoded(Status(r))
           IN  /\ got.evaluationError = errs
               /\ \A kind \in {"error", "warning", "info"} :
                    got[kind] = IF errs = {} THEN Saying(finding[r], done[r], kind) ELSE {}
<1> DEFINE errs == Errs(finding[r], done[r])
           errors == Saying(finding[r], done[r], "error")
           warnings == Saying(finding[r], done[r], "warning")
           infos == Saying(finding[r], done[r], "info")
           got == Decoded(Status(r))
<1>1. errors \in SUBSET Known
  BY DEF Saying
<1>2. /\ got.evaluationError = {k.message : k \in {x \in Status(r).causes : x.type = "EvaluationError"}}
      /\ got.error = {k.type : k \in {x \in Status(r).causes : x.type # "EvaluationError"}}
      /\ got.warning = {k.name : k \in {x \in Status(r).warnings : ~x.fyi}}
      /\ got.info = {k.name : k \in {x \in Status(r).warnings : x.fyi}}
      /\ got["error"] = got.error /\ got["warning"] = got.warning /\ got["info"] = got.info
  BY DEF Decoded
<1>3. /\ Status(r).causes =
            IF errs # {} THEN {[type |-> "EvaluationError", message |-> c] : c \in errs}
                         ELSE {[type |-> c, message |-> c] : c \in errors}
      /\ Status(r).warnings =
            IF errs # {} THEN {}
            ELSE {[fyi |-> FALSE, name |-> c] : c \in warnings}
                   \cup {[fyi |-> TRUE, name |-> c] : c \in infos}
  BY StatusFields
<1> HIDE DEF errs, errors, warnings, infos, got
<1>4. CASE errs # {}
  <2>1. got.evaluationError = errs /\ got.error = {}
    BY <1>2, <1>3, <1>4, EvaluationCausesRead
  <2>2. got.warning = {} /\ got.info = {}
    BY <1>2, <1>3, <1>4
  <2>3. QED
    BY <1>2, <1>4, <2>1, <2>2 DEF errs, got
<1>5. CASE errs = {}
  <2>1. got.evaluationError = {} /\ got.error = errors
    BY <1>1, <1>2, <1>3, <1>5, ErrorCausesRead
  <2>2. got.warning = warnings /\ got.info = infos
    <3> DEFINE told == {[fyi |-> FALSE, name |-> c] : c \in warnings}
                         \cup {[fyi |-> TRUE, name |-> c] : c \in infos}
    <3>1. Status(r).warnings = told
      BY <1>3, <1>5
    <3>2. {k.name : k \in {x \in told : ~x.fyi}} = warnings
      BY WarningsRead
    <3>3. {k.name : k \in {x \in told : x.fyi}} = infos
      BY WarningsRead
    <3> HIDE DEF told
    <3>4. QED
      BY <1>2, <3>1, <3>2, <3>3, Zenon
  <2>3. QED
    BY <1>2, <1>5, <2>1, <2>2 DEF errs, got, errors, warnings, infos
<1>6. QED
  BY <1>4, <1>5

-----------------------------------------------------------------------------
\* The names Complete hands the hook are known.
LEMMA NamesKnown ==
    ASSUME flags \in FlagSets, ValidNames(flags)
    PROVE  ComparatorNames(flags) = Wanted /\ ComparatorNames(flags) \subseteq Known
  BY DEF ComparatorNames, Wanted, ValidNames

LEMMA CallsKnown ==
    ASSUME TypeOK
    PROVE  Selected(config.names) \subseteq Known
  BY DEF TypeOK, Selected

\* A server that starts, whatever it will be asked.
LEMMA ServerStarts ==
    ASSUME flags \in FlagSets, review \in [Request -> AdmissionRequest],
           finding \in [Request -> [Known -> Finding]], ServerInit
    PROVE  HookInv
<1>1. /\ phase = "Complete" /\ config = NilConfig
      /\ pc = [r \in Request |-> "sent"] /\ done = [r \in Request |-> {}]
      /\ response = [r \in Request |-> ServerError]
  BY DEF ServerInit
<1>2. TypeOK
  <2>1. config \in [set : BOOLEAN, names : SUBSET Known]
    BY <1>1 DEF NilConfig
  <2>2. QED
    BY <1>1, <2>1, AnswersTyped DEF TypeOK
<1>3. Configured
  BY <1>1 DEF Configured
<1>4. \A r \in Request : CalledFor(r) /\ pc[r] # "answered"
  BY <1>1 DEF CalledFor
<1>5. QED
  BY <1>2, <1>3, <1>4 DEF HookInv

LEMMA InitHook == Init => HookInv
<1> SUFFICES ASSUME Init PROVE HookInv
  OBVIOUS
<1>1. review \in [Request -> AdmissionRequest]
  BY ReviewAssumption DEF Init
<1>2. QED
  BY <1>1, ServerStarts DEF Init

\* The options are completed while no request has been looked at.
LEMMA CompleteHook == HookInv /\ Complete => HookInv'
<1> SUFFICES ASSUME HookInv, Complete PROVE HookInv'
  OBVIOUS
<1>1. /\ phase = "Complete" /\ UNCHANGED <<flags, review, finding, pc, done, response>>
      /\ \/ /\ ValidNames(flags) /\ phase' = "Validate"
            /\ config' = [set |-> TRUE, names |-> ComparatorNames(flags)]
         \/ ~ValidNames(flags) /\ phase' = "failed" /\ config' = config
  BY DEF Complete, inputs, requestVars
<1>2. TypeOK
  BY DEF HookInv
<1>3. \A r \in Request : pc[r] = "sent" /\ done[r] = {}
  BY <1>1 DEF HookInv, Configured, CalledFor
<1>4. TypeOK'
  <2>1. config' \in [set : BOOLEAN, names : SUBSET Known]
    <3>1. CASE config' = config
      BY <1>2, <3>1 DEF TypeOK
    <3>2. CASE ValidNames(flags) /\ config' = [set |-> TRUE, names |-> ComparatorNames(flags)]
      <4>1. ComparatorNames(flags) \in SUBSET Known
        BY <1>2, <3>2, NamesKnown DEF TypeOK
      <4>2. QED
        BY <3>2, <4>1
    <3>3. QED
      BY <1>1, <3>1, <3>2
  <2>2. QED
    BY <1>1, <1>2, <2>1 DEF TypeOK
<1>5. Configured'
  BY <1>1, <1>3 DEF Configured
<1>6. \A r \in Request : CalledFor(r)' /\ pc'[r] # "answered"
  BY <1>1, <1>3 DEF CalledFor
<1>7. QED
  BY <1>4, <1>5, <1>6 DEF HookInv

\* The rest of the startup moves on and touches nothing else.
LEMMA StartupHook ==
    HookInv /\ (ValidateOptions \/ RunAdmissionServer \/ Initialize) => HookInv'
<1> SUFFICES ASSUME HookInv, ValidateOptions \/ RunAdmissionServer \/ Initialize PROVE HookInv'
  OBVIOUS
<1>1. /\ UNCHANGED <<flags, review, finding, config, pc, done, response>>
      /\ phase \in {"Validate", "RunAdmissionServer", "listening"}
      /\ phase' \in {"RunAdmissionServer", "listening", "initialized", "failed"}
  BY DEF ValidateOptions, RunAdmissionServer, Initialize, inputs, requestVars
<1>2. TypeOK'
  BY <1>1 DEF HookInv, TypeOK
<1>3. Configured'
  BY <1>1 DEF HookInv, Configured
<1>4. \A r \in Request : CalledFor(r)' /\ (pc'[r] = "answered" => AnsweredAs(r)')
  BY <1>1 DEF HookInv, CalledFor, AnsweredAs, Judged, Status
<1>5. QED
  BY <1>2, <1>3, <1>4 DEF HookInv

\* A request that is handled leaves the others alone.
LEMMA HandleHook ==
    ASSUME HookInv, Serving, NEW r \in Request,
           UNCHANGED <<flags, review, finding, phase, config>>,
           TypeOK', CalledFor(r)', pc'[r] = "answered" => AnsweredAs(r)',
           \A q \in Request : q # r => pc'[q] = pc[q] /\ done'[q] = done[q]
                                         /\ response'[q] = response[q]
    PROVE  HookInv'
<1>1. Configured'
  BY DEF HookInv, Configured, Serving
<1>2. ASSUME NEW q \in Request, q # r
      PROVE  CalledFor(q)' /\ (pc'[q] = "answered" => AnsweredAs(q)')
  <2>1. Judged(q)' <=> Judged(q)
    BY DEF Judged
  <2>2. Status(q)' = Status(q)
    BY <1>2, ZenonT(60) DEF Status
  <2>3. CalledFor(q)'
    BY <1>2, <2>1 DEF HookInv, CalledFor
  <2>4. AnsweredAs(q) => AnsweredAs(q)'
    BY <1>2, <2>1, <2>2 DEF AnsweredAs
  <2>5. QED
    BY <1>2, <2>3, <2>4 DEF HookInv
<1>3. QED
  BY <1>1, <1>2 DEF HookInv

\* Answering a request writes its own control state and response.
LEMMA AnswerShape ==
    ASSUME TypeOK, NEW r \in Request, NEW answer \in AdmissionResponse, Answer(r, answer)
    PROVE  /\ pc'[r] = "answered" /\ response'[r] = answer
           /\ \A q \in Request : q # r => pc'[q] = pc[q] /\ response'[q] = response[q]
           /\ pc' \in [Request -> {"sent", "Compare", "answered"}]
           /\ response' \in [Request -> AdmissionResponse]
  BY DEF Answer, TypeOK

LEMMA ValidateHook ==
    ASSUME HookInv, NEW r \in Request, Validate(r)
    PROVE  HookInv'
<1>1. /\ Serving /\ pc[r] = "sent"
      /\ UNCHANGED <<flags, review, finding, phase, config, done>>
      /\ \/ ~OfInterest(review[r]) /\ Answer(r, Allow)
         \/ /\ OfInterest(review[r]) /\ Answer(r, BadRequest({}))
            /\ review[r].object = "undecodable" \/ review[r].oldObject = "undecodable"
         \/ /\ OfInterest(review[r])
            /\ ~(review[r].object = "undecodable" \/ review[r].oldObject = "undecodable")
            /\ pc' = [pc EXCEPT ![r] = "Compare"] /\ UNCHANGED response
  BY DEF Validate, inputs, serverVars
<1>2. TypeOK /\ done[r] = {} /\ review[r].object \in {"good", "undecodable"}
  BY <1>1 DEF HookInv, CalledFor, TypeOK, AdmissionRequest
<1>3. CASE ~OfInterest(review[r]) /\ Answer(r, Allow)
  <2>1. /\ pc'[r] = "answered" /\ response'[r] = Allow
        /\ \A q \in Request : q # r => pc'[q] = pc[q] /\ response'[q] = response[q]
        /\ pc' \in [Request -> {"sent", "Compare", "answered"}]
        /\ response' \in [Request -> AdmissionResponse]
    BY <1>2, <1>3, AnswersTyped, AnswerShape
  <2>2. TypeOK'
    BY <1>1, <1>2, <2>1 DEF TypeOK
  <2>3. CalledFor(r)'
    BY <1>1, <1>2, <2>1 DEF CalledFor
  <2>4. AnsweredAs(r)'
    BY <1>1, <1>3, <2>1 DEF AnsweredAs, Judged
  <2>5. QED
    BY <1>1, <2>1, <2>2, <2>3, <2>4, HandleHook
<1>4. CASE /\ OfInterest(review[r]) /\ Answer(r, BadRequest({}))
           /\ review[r].object = "undecodable" \/ review[r].oldObject = "undecodable"
  <2>1. /\ pc'[r] = "answered" /\ response'[r] = BadRequest({})
        /\ \A q \in Request : q # r => pc'[q] = pc[q] /\ response'[q] = response[q]
        /\ pc' \in [Request -> {"sent", "Compare", "answered"}]
        /\ response' \in [Request -> AdmissionResponse]
    BY <1>2, <1>4, AnswersTyped, AnswerShape
  <2>2. TypeOK'
    BY <1>1, <1>2, <2>1 DEF TypeOK
  <2>3. CalledFor(r)'
    BY <1>1, <1>2, <2>1 DEF CalledFor
  <2>4. AnsweredAs(r)'
    BY <1>1, <1>4, <2>1 DEF AnsweredAs, Judged
  <2>5. QED
    BY <1>1, <2>1, <2>2, <2>3, <2>4, HandleHook
<1>5. CASE /\ OfInterest(review[r])
           /\ ~(review[r].object = "undecodable" \/ review[r].oldObject = "undecodable")
           /\ pc' = [pc EXCEPT ![r] = "Compare"] /\ UNCHANGED response
  <2>1. /\ pc'[r] = "Compare" /\ \A q \in Request : q # r => pc'[q] = pc[q]
        /\ pc' \in [Request -> {"sent", "Compare", "answered"}]
    BY <1>2, <1>5 DEF TypeOK
  <2>2. TypeOK'
    BY <1>1, <1>2, <1>5, <2>1 DEF TypeOK
  <2>3. CalledFor(r)'
    BY <1>1, <1>2, <1>5, <2>1 DEF CalledFor, Judged
  <2>4. QED
    BY <1>1, <1>5, <2>1, <2>2, <2>3, HandleHook
<1>6. QED
  BY <1>1, <1>3, <1>4, <1>5

LEMMA RunComparatorHook ==
    ASSUME HookInv, NEW r \in Request, RunComparator(r)
    PROVE  HookInv'
<1>1. /\ Serving /\ pc[r] = "Compare"
      /\ UNCHANGED <<flags, review, finding, phase, config>>
  BY DEF RunComparator, inputs, serverVars
<1>2. PICK c \in First(ToCall(r)) :
         IF ~config.set \/ "panic" \in finding[r][c]
           THEN Answer(r, ServerError) /\ UNCHANGED done
           ELSE done' = [done EXCEPT ![r] = @ \cup {c}] /\ UNCHANGED <<pc, response>>
  BY DEF RunComparator
<1>3. TypeOK /\ config.set /\ Judged(r) /\ CalledFor(r)
  BY <1>1 DEF HookInv, Configured, Serving, CalledFor
<1>4. c \in Selected(config.names) /\ c \in Known
  BY <1>3, CallsKnown DEF First, ToCall
<1>5. CASE "panic" \in finding[r][c]
  <2>1. Answer(r, ServerError) /\ done' = done
    BY <1>2, <1>5
  <2>2. /\ pc'[r] = "answered" /\ response'[r] = ServerError
        /\ \A q \in Request : q # r => pc'[q] = pc[q] /\ response'[q] = response[q]
        /\ pc' \in [Request -> {"sent", "Compare", "answered"}]
        /\ response' \in [Request -> AdmissionResponse]
    BY <1>3, <2>1, AnswersTyped, AnswerShape
  <2>3. TypeOK'
    BY <1>1, <1>3, <2>1, <2>2 DEF TypeOK
  <2>4. CalledFor(r)'
    BY <1>1, <1>3, <2>1, <2>2 DEF CalledFor
  <2>5. AnsweredAs(r)'
    BY <1>1, <1>3, <1>4, <1>5, <2>1, <2>2 DEF AnsweredAs, Judged
  <2>6. QED
    BY <1>1, <2>1, <2>2, <2>3, <2>4, <2>5, HandleHook
<1>6. CASE "panic" \notin finding[r][c]
  <2>1. done' = [done EXCEPT ![r] = @ \cup {c}] /\ UNCHANGED <<pc, response>>
    BY <1>2, <1>3, <1>6
  <2>2. /\ done'[r] = done[r] \cup {c} /\ \A q \in Request : q # r => done'[q] = done[q]
        /\ done' \in [Request -> SUBSET Known]
    BY <1>3, <1>4, <2>1 DEF TypeOK
  <2>3. TypeOK'
    BY <1>1, <1>3, <2>1, <2>2 DEF TypeOK
  <2>4. CalledFor(r)'
    BY <1>1, <1>3, <1>4, <1>6, <2>1, <2>2 DEF CalledFor, Judged
  <2>5. QED
    BY <1>1, <2>1, <2>2, <2>3, <2>4, HandleHook
<1>7. QED
  BY <1>5, <1>6

LEMMA RespondHook ==
    ASSUME HookInv, NEW r \in Request, Respond(r)
    PROVE  HookInv'
<1>1. /\ Serving /\ pc[r] = "Compare" /\ ToCall(r) = {} /\ Answer(r, Status(r))
      /\ UNCHANGED <<flags, review, finding, phase, config, done>>
  BY DEF Respond, inputs, serverVars
<1>2. TypeOK /\ Judged(r) /\ CalledFor(r) /\ done[r] \subseteq Known
  BY <1>1 DEF HookInv, CalledFor, TypeOK
<1>3. done[r] = Selected(config.names)
  BY <1>1, <1>2 DEF ToCall, CalledFor
<1>4. Status(r) \in AdmissionResponse
  BY <1>2, StatusFields
<1>5. /\ pc'[r] = "answered" /\ response'[r] = Status(r)
      /\ \A q \in Request : q # r => pc'[q] = pc[q] /\ response'[q] = response[q]
      /\ pc' \in [Request -> {"sent", "Compare", "answered"}]
      /\ response' \in [Request -> AdmissionResponse]
  BY <1>1, <1>2, <1>4, AnswerShape
<1>6. TypeOK'
  BY <1>1, <1>2, <1>5 DEF TypeOK
<1>7. CalledFor(r)'
  BY <1>1, <1>2, <1>5 DEF CalledFor
<1>8. AnsweredAs(r)'
  <2>1. Status(r)' = Status(r) /\ Judged(r)'
    BY <1>1, <1>2 DEF Status, Judged
  <2>2. QED
    BY <1>1, <1>3, <1>5, <2>1 DEF AnsweredAs
<1>9. QED
  BY <1>1, <1>5, <1>6, <1>7, <1>8, HandleHook

\* Every step of the server or of a request preserves HookInv.
LEMMA ServerNextHook == HookInv /\ ServerNext => HookInv'
  BY CompleteHook, StartupHook, ValidateHook, RunComparatorHook, RespondHook
     DEF ServerNext, Startup, Handle

LEMMA NextHook == HookInv /\ [Next]_vars => HookInv'
<1> SUFFICES ASSUME HookInv, [Next]_vars PROVE HookInv'
  OBVIOUS
<1>1. CASE UNCHANGED vars
  <2>1. UNCHANGED <<flags, review, finding, phase, config, pc, done, response>>
    BY <1>1 DEF vars, inputs, serverVars, requestVars
  <2>2. TypeOK' /\ Configured'
    BY <2>1 DEF HookInv, TypeOK, Configured
  <2>3. \A r \in Request : CalledFor(r)' /\ (pc'[r] = "answered" => AnsweredAs(r)')
    <3> TAKE r \in Request
    <3>1. (Judged(r)' <=> Judged(r)) /\ Status(r)' = Status(r)
      <4>1. Judged(r)' <=> Judged(r)
        BY <2>1 DEF Judged
      <4>2. Status(r)' = Status(r)
        BY <2>1 DEF Status
      <4>3. QED
        BY <4>1, <4>2
    <3>2. CalledFor(r)'
      BY <2>1, <3>1 DEF HookInv, CalledFor
    <3>3. pc[r] = "answered" => AnsweredAs(r)
      BY DEF HookInv
    <3>4. AnsweredAs(r)' <=> AnsweredAs(r)
      BY <2>1, <3>1 DEF AnsweredAs
    <3>5. QED
      BY <2>1, <3>2, <3>3, <3>4
  <2>4. QED
    BY <2>2, <2>3 DEF HookInv
<1>2. QED
  BY <1>1, ServerNextHook DEF Next, Idle

\* HookInv holds in every reachable state of the server.
THEOREM HookInvariant == Spec => []HookInv
  BY InitHook, NextHook, PTL DEF Spec

\* The state of the server keeps its type: every response is one the API defines and
\* its causes and warnings name registered comparators.
THEOREM ServerTypeCorrect == Spec => []TypeOK
<1>1. HookInv => TypeOK
  BY DEF HookInv
<1>2. QED
  BY <1>1, HookInvariant, PTL

\* A judged request that got a response, and what is in it.
LEMMA JudgedAnswer ==
    ASSUME HookInv, NEW r \in Request, pc[r] = "answered", Judged(r), response[r].code = 200
    PROVE  /\ response[r] = Status(r) /\ done[r] \subseteq Known
           /\ done[r] = Selected(Wanted) /\ Wanted \subseteq Known
<1>1. response[r] # ServerError
  BY AnswersTyped, SMT
<1>2. response[r] = Status(r) /\ done[r] = Selected(config.names)
  BY <1>1 DEF HookInv, AnsweredAs
<1>3. TypeOK /\ ValidNames(flags) /\ config.names = ComparatorNames(flags)
  BY DEF HookInv, Configured
<1>4. QED
  BY <1>2, <1>3, NamesKnown, CallsKnown DEF TypeOK

\* A write that an enabled comparator objects to, or fails on, is denied with a cause:
\* the name of who objects, or an evaluation error, which names nobody
\* (admission_evaluator.go:68-104), however many requests are handled at once.
THEOREM FaultsAreDenied == Spec => []FaultsDenied
<1>1. HookInv => FaultsDenied
  <2> SUFFICES ASSUME HookInv, NEW r \in Request, pc[r] = "answered", Judged(r),
                      response[r].code = 200, NEW c \in Wanted
               PROVE  LET types == {k.type : k \in response[r].causes} IN
                      /\ "evaluationError" \in finding[r][c] => "EvaluationError" \in types
                      /\ "error" \in finding[r][c] => types \cap {c, "EvaluationError"} # {}
                      /\ finding[r][c] \cap {"error", "evaluationError"} # {} =>
                            ~response[r].allowed /\ response[r].result
    BY DEF FaultsDenied
  <2> DEFINE errs == Errs(finding[r], done[r])
             errors == Saying(finding[r], done[r], "error")
             types == {k.type : k \in response[r].causes}
  <2>1. response[r] = Status(r) /\ done[r] \subseteq Known /\ c \in done[r]
    BY JudgedAnswer DEF Selected
  <2>2. /\ ~Status(r).allowed /\ (Status(r).result <=> errs # {} \/ errors # {})
        /\ Status(r).causes =
             IF errs # {} THEN {[type |-> "EvaluationError", message |-> e] : e \in errs}
                          ELSE {[type |-> e, message |-> e] : e \in errors}
    BY <2>1, StatusFields
  <2>3. ~response[r].allowed /\ (response[r].result <=> errs # {} \/ errors # {})
    BY <2>1, <2>2, Zenon
  <2>4. /\ "evaluationError" \in finding[r][c] <=> c \in errs
        /\ "error" \in finding[r][c] <=> c \in errors
    BY <2>1 DEF Errs, Saying
  <2> HIDE DEF errs, errors
  <2>5. /\ errs # {} => "EvaluationError" \in types
        /\ errs = {} /\ c \in errors => c \in types
    <3>1. \A e : /\ [type |-> "EvaluationError", message |-> e].type = "EvaluationError"
                 /\ [type |-> e, message |-> e].type = e
      OBVIOUS
    <3>2. ASSUME NEW e \in errs PROVE "EvaluationError" \in types
      <4>1. [type |-> "EvaluationError", message |-> e] \in response[r].causes
        BY <2>1, <2>2, <3>2
      <4>2. QED
        BY <3>1, <4>1
    <3>3. ASSUME errs = {}, c \in errors PROVE c \in types
      <4>1. [type |-> c, message |-> c] \in response[r].causes
        BY <2>1, <2>2, <3>3
      <4>2. QED
        BY <3>1, <4>1
    <3>4. QED
      BY <3>2, <3>3
  <2> HIDE DEF types
  <2>6. QED
    BY <2>3, <2>4, <2>5 DEF types
<1>2. QED
  BY <1>1, HookInvariant, PTL

\* What a client of the hook decodes is what Registry.Compare returned for its own
\* request, or the evaluation errors alone (admission_tester.go:107-165).
THEOREM ClientReadsResults == Spec => []RoundTrip
<1>1. HookInv => RoundTrip
  <2> SUFFICES ASSUME HookInv, NEW r \in Request, pc[r] = "answered", Judged(r),
                      response[r].code = 200
               PROVE  LET got == Decoded(response[r])
                          errs == Errs(finding[r], done[r])
                      IN  /\ got.evaluationError = errs
                          /\ \A kind \in {"error", "warning", "info"} :
                                got[kind] = IF errs = {} THEN Saying(finding[r], done[r], kind) ELSE {}
    BY DEF RoundTrip
  <2>1. response[r] = Status(r) /\ done[r] \subseteq Known
    BY JudgedAnswer
  <2>2. QED
    BY <2>1, StatusDecoded
<1>2. QED
  BY <1>1, HookInvariant, PTL

\* Only a judged request on whose CRDs a comparator panics gets a server error: no
\* request meets a hook without its configuration, and none pays for another one
\* (admission_evaluator.go:67, check_admission.go:67-75).
THEOREM OnlyOwnErrors == Spec => []ErrorsAreOwn
<1>1. HookInv => ErrorsAreOwn
  <2> SUFFICES ASSUME HookInv, NEW r \in Request, pc[r] = "answered", response[r].code = 500
               PROVE  Judged(r) /\ \E c \in Selected(ComparatorNames(flags)) : "panic" \in finding[r][c]
    BY DEF ErrorsAreOwn
  <2>1. config.names = ComparatorNames(flags) /\ done[r] \subseteq Known
    BY DEF HookInv, Configured, TypeOK
  <2>2. response[r] # Allow /\ response[r] # BadRequest({}) /\ response[r] # Status(r)
    <3>1. Allow.code = 200 /\ BadRequest({}).code = 200
      BY AnswersTyped
    <3>2. Status(r).code = 200
      BY <2>1, StatusCode
    <3>3. 200 # 500
      BY SMT
    <3>4. QED
      BY <3>1, <3>2, <3>3
  <2>3. QED
    BY <2>1, <2>2 DEF HookInv, AnsweredAs
<1>2. QED
  BY <1>1, HookInvariant, PTL
=============================================================================
