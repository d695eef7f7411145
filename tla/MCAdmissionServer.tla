------------------------- MODULE MCAdmissionServer -------------------------
(***************************************************************************)
(* The admission server with requests of every kind that Validate tells    *)
(* apart.                                                                  *)
(***************************************************************************)
EXTENDS AdmissionServer, TLC

CRDWrite(object, oldObject) ==
    [operation |-> IF oldObject = "absent" THEN "CREATE" ELSE "UPDATE", subResource |-> FALSE,
     crdGroup |-> TRUE, object |-> object, oldObject |-> oldObject]

Update == CRDWrite("good", "good")

MCReview == {CRDWrite("good", "absent"), Update,
             CRDWrite("undecodable", "good"), CRDWrite("good", "undecodable"),
             [Update EXCEPT !.operation = "DELETE"],
             [Update EXCEPT !.subResource = TRUE],
             [Update EXCEPT !.crdGroup = FALSE]}

TwoKnown == <<"NoBools", "NoMaps">>
MCUnknown == {"NoSuchComparator"}

(***************************************************************************)
(* Two requests at once: one of any kind with anything to say about it,    *)
(* and an update on which the comparators are silent, fail or panic.       *)
(***************************************************************************)
Says(first, second) == [c \in Known |-> IF c = KnownComparators[1] THEN first ELSE second]

Flags(enabled, disabled) == [enabled |-> enabled, disabled |-> disabled]

MCInit ==
    /\ flags \in {Flags({}, {}), Flags({}, {"NoBools"}), Flags({"NoBools"}, {"NoBools"}),
                  Flags({}, {"NoBools", "NoMaps"}), Flags(MCUnknown, {})}
    /\ \E one, other \in Request : one # other
          /\ review \in {[r \in Request |-> IF r = one THEN any ELSE Update] : any \in MCReview}
          /\ \E any \in [Known -> Finding],
                some \in {Says({}, {}), Says({"panic"}, {}), Says({"evaluationError"}, {"error"})} :
               /\ ~Judged(one) => any = Says({"panic"}, {"error"})
               /\ finding = [r \in Request |-> IF r = one THEN any ELSE some]
    /\ ServerInit

MCSpec == /\ MCInit /\ [][Next]_vars
          /\ WF_vars(Startup)
          /\ \A r \in Request : WF_vars(Handle(r))
=============================================================================
