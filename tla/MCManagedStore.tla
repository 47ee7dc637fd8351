--------------------------- MODULE MCManagedStore ---------------------------
(* Instances of ManagedStore for TLC. *)
EXTENDS StoreSlots, TLC

CONSTANTS p1, r1, r2, e1, e2, e3

\* One project; e3 is the edit of r2, if there is one, the others belong to r1;
\* every variant renders the first edit.
InOneProject == [r \in Runs |-> p1]
RunOfEdit == [e \in Edits |-> IF e = e3 THEN r2 ELSE r1]
OfFirstEdit == [v \in Variants |-> e1]

Interchangeable == Permutations(Checkpoints) \cup Permutations(Workers)
=============================================================================
