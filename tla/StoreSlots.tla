----------------------------- MODULE StoreSlots -----------------------------
(***************************************************************************)
(* The managed store implements ExecutionSlots: the rows of the runs, the  *)
(* variants and the attempts, which its operations update by separate      *)
(* statements, and which no constraint of the schema relates, move         *)
(* together as the phases of slots do.                                     *)
(***************************************************************************)
EXTENDS ManagedStore

\* The attempts of o whose status is in S.
Doing(o, S) == {a \in Attempts : attOwner[a] = o /\ attStatus[a] \in S}
Claimed(o) == IF Doing(o, {"stopping"}) # {} THEN "stopping" ELSE "working"

\* A run and a variant are seen by their own row, a material by its attempts.
RunPhase(r) ==
  IF runStatus[r] = "planners" THEN Claimed(r)
  ELSE IF runStatus[r] = "absent" THEN "none" ELSE runStatus[r]
VariantPhase(v) ==
  IF variantStatus[v] = "rendering" THEN Claimed(v)
  ELSE IF variantStatus[v] = "absent" THEN "none"
  ELSE IF variantStatus[v] \in {"ready", "unavailable"} THEN "complete" ELSE variantStatus[v]
MaterialPhase(m) ==
  IF Doing(m, {"queued"}) # {} THEN "queued"
  ELSE IF Doing(m, ClaimedStatuses) # {} THEN Claimed(m)
  ELSE IF Doing(m, TerminalStatuses) # {} THEN "ended" ELSE "none"
PhaseOf(o) ==
  IF o \in Runs THEN RunPhase(o)
  ELSE IF o \in Variants THEN VariantPhase(o) ELSE MaterialPhase(o)

Holds == [o \in Owners |-> Doing(o, ActiveStatuses)]
Phase == [o \in Owners |-> PhaseOf(o)]

Slot == INSTANCE ExecutionSlots
  WITH Slots <- Owners, Kept <- Runs \cup Variants,
       holds <- Holds, phase <- Phase, given <- created

\* Whatever the operations and their order, the store behaves as slots: a run,
\* variant or material never has a second attempt before the first has ended, its
\* row says what its attempt does at every moment, a late claim, stop, audit or
\* completion changes nothing of what has ended, and nothing is deleted that has
\* an attempt to end.
ActsAsSlots == Slot!Spec
=============================================================================
