-------------------------- MODULE MCJobSupervisor --------------------------
(* Instances of JobSupervisor for TLC. *)
EXTENDS JobSupervisor, TLC

CONSTANTS p1, r1, e1

ServersAndChild == Servers \cup {Child}
InOneProject == [r \in Runs |-> p1]
OfOneRun == [e \in Edits |-> r1]
OfOneEdit == [v \in Variants |-> e1]

\* For runs that check invariants only.
Interchangeable == Permutations(Servers) \cup Permutations(Materials)
=============================================================================
