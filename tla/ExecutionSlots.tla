--------------------------- MODULE ExecutionSlots ---------------------------
(***************************************************************************)
(* What the managed store promises about the execution of its rows, rid of *)
(* tables, jobs and leases: everything that can be executed (a run, a      *)
(* render variant, the analysis of a material) is a slot that holds at     *)
(* most one attempt, and whose phase is the one thing others see of it.    *)
(***************************************************************************)
EXTENDS Naturals

CONSTANTS
  Slots,   \* what can be executed
  Kept     \* the slots that tell how their last attempt ended

VARIABLES
  holds,   \* the attempt each slot holds, as a set of at most one
  phase,   \* what is to be seen of each slot
  given    \* how many attempts have been given out

slotVars == <<holds, phase, given>>

Active == {"queued", "working", "stopping"}
Outcomes == {"interrupted", "complete", "failed"}

Init ==
  /\ holds = [o \in Slots |-> {}]
  /\ phase = [o \in Slots |-> "none"]
  /\ given = 0

\* A slot that holds nothing is given a new attempt, whatever became of the last.
Submit(o) ==
  /\ holds[o] = {}
  /\ given' = given + 1
  /\ holds' = [holds EXCEPT ![o] = {given + 1}]
  /\ phase' = [phase EXCEPT ![o] = "queued"]

Moves(o, before, after) ==
  /\ phase[o] = before
  /\ phase' = [phase EXCEPT ![o] = after]
  /\ UNCHANGED <<holds, given>>

Claim(o) == Moves(o, "queued", "working")
AskToStop(o) == Moves(o, "working", "stopping")

\* The attempts of a few slots end alike; one that was never claimed does not
\* complete.  A slot shows how, if it is one that keeps the outcome.
End(S, how) ==
  /\ \A o \in S : phase[o] \in Active /\ (how = "complete" => phase[o] # "queued")
  /\ holds' = [o \in Slots |-> IF o \in S THEN {} ELSE holds[o]]
  /\ phase' = [o \in Slots |->
                 IF o \notin S THEN phase[o] ELSE IF o \in Kept THEN how ELSE "ended"]
  /\ UNCHANGED given

\* Slots that hold nothing are taken away.
Forget(S) ==
  /\ \A o \in S : holds[o] = {}
  /\ phase' = [o \in Slots |-> IF o \in S THEN "none" ELSE phase[o]]
  /\ UNCHANGED <<holds, given>>

Next ==
  \/ \E o \in Slots : Submit(o) \/ Claim(o) \/ AskToStop(o)
  \/ \E S \in SUBSET Slots : Forget(S) \/ \E how \in Outcomes : End(S, how)

Spec == Init /\ [][Next]_slotVars
=============================================================================
