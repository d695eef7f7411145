---------------------------- MODULE MCSchemaWalk ----------------------------
(***************************************************************************)
(* SchemaWalk with two goroutines and a CRD whose schema nests three deep, *)
(* with two properties that are entries of one map, visited in any order.  *)
(***************************************************************************)
EXTENDS SchemaWalk, TLC

CONSTANTS root, spec, size, items

MCNode == {root, spec, size, items}
MCParent == root :> Nil @@ spec :> root @@ size :> root @@ items :> spec
MCRank == root :> 0 @@ spec :> 7 @@ size :> 7 @@ items :> 1

MCSymmetry == Permutations(Cell) \cup Permutations(Walker)
=============================================================================
