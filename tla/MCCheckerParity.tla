--------------------------- MODULE MCCheckerParity ---------------------------
(***************************************************************************)
(* Both front ends with two registered comparators and one unknown name,   *)
(* and tests that list nothing, one comparator, two, one of them twice and *)
(* one that is not registered.                                             *)
(***************************************************************************)
EXTENDS CheckerParity

MCKnown == <<"NoBools", "NoMaps">>
MCUnknown == {"NoSuchComparator"}

\* Two messages of a kind, in the order of either walk.
MCListing == {<<1, 2>>, <<2, 1>>}

Item(c, kinds, list) ==
    [kind \in MessageKinds |-> IF kind \in kinds THEN list ELSE <<>>] @@ [name |-> c]

MCItems(c) ==
    {Item(c, kinds, <<2, 1>>) : kinds \in {{}, {"error"}, {"warning"}, {"error", "info"}}}
    \cup {Item(c, {"error"}, <<1>>), Item(c, {"error"}, <<1, 1>>)}

MCTest ==
    LET Results == {<<>>}
          \cup {<<x>> : x \in MCItems("NoBools") \cup MCItems("NoSuchComparator")}
          \cup {<<x, y>> : x \in MCItems("NoBools"), y \in MCItems("NoMaps") \cup MCItems("NoBools")}
    IN  {[results |-> e, errors |-> {}] : e \in Results}
        \cup {[results |-> <<>>, errors |-> {"NoBools"}]}
=============================================================================
