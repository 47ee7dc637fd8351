---------------------------- MODULE MCRenderFiles ----------------------------
(* Instances of RenderFiles for TLC. *)
EXTENDS RenderFiles, TLC

CONSTANTS p1, r1, e1, s1, s2, q1, q2

InOneProject == [r \in Runs |-> p1]
OfOneRun == [e \in Edits |-> r1]
OfOneEdit == [v \in Variants |-> e1]
EachItsOwn == q1 :> s1 @@ q2 :> s2

\* The servers may be exchanged, each with its reader.
Interchangeable ==
  {f \in Permutations({s1, s2, q1, q2}) : f[q1] \in {q1, q2} /\ (f[s1] = s1 <=> f[q1] = q1)}
=============================================================================
