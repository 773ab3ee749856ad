------------------------- MODULE MCProductMaterials -------------------------
(***************************************************************************)
(* ProductMaterials for TLC: materials, groups and users are               *)
(* interchangeable.                                                        *)
(***************************************************************************)
EXTENDS ProductMaterials, TLC

Symmetry == Permutations(Materials) \cup Permutations(Groups) \cup Permutations(Users)

=============================================================================
