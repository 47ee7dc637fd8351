----------------------------- MODULE MCPlanning -----------------------------
(* Instances of Planning for TLC. *)
EXTENDS Planning

ThreeSlots == <<1, 1, 1>>
ThreeSegments == <<2, 3, 1>>
\* A passage in the first segment, heard over two slots, and one in the second.
At == [p \in Passages |-> IF p = "early" THEN 1 ELSE 3]
Long == [p \in Passages |-> IF p = "early" THEN 2 ELSE 1]
=============================================================================
