-------------------------- MODULE MCCheckManifests --------------------------
(***************************************************************************)
(* check-manifests with two registered comparators and one unknown name.   *)
(***************************************************************************)
EXTENDS CheckManifests

MCKnown == <<"NoBools", "NoMaps">>
MCUnknown == {"NoSuchComparator"}
=============================================================================
