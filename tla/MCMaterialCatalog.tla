------------------------- MODULE MCMaterialCatalog -------------------------
(* Instances of MaterialCatalog for TLC. *)
EXTENDS MaterialCatalog, TLC

CONSTANTS m1

Empty == [x \in {} |-> x]
Interchangeable == Permutations(Deletions)
=============================================================================
