----------------------------- MODULE MCRunFiles -----------------------------
(* Instances of RunFiles for TLC. *)
EXTENDS RunFiles, TLC

CONSTANTS p1, r1, e1

InOneProject == [r \in Runs |-> p1]
OfOneRun == [e \in Edits |-> r1]
OfOneEdit == [v \in Variants |-> e1]

Interchangeable == Permutations(Checkpoints) \cup Permutations(Requests)
=============================================================================
