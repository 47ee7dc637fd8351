------------------------- MODULE ManagedStoreProofs -------------------------
(***************************************************************************)
(* Proofs that the operations of the managed store preserve its            *)
(* invariants, and that they implement ExecutionSlots, for every set of    *)
(* rows, worker and checkpoint, every bound on attempts and every          *)
(* capacity.                                                               *)
(***************************************************************************)
EXTENDS StoreSlots, TLAPS

-----------------------------------------------------------------------------
(* Lemmas about the helpers the operations are built from. *)

\* SetAll keeps the type of a column.
LEMMA SetAllType ==
  ASSUME NEW D, NEW R, NEW f \in [D -> R], NEW S, NEW value \in R
  PROVE  SetAll(f, S, value) \in [D -> R]
  BY DEF SetAll

\* The statuses of attempts are those of active and of ended ones.
LEMMA StatusSets ==
  /\ ClaimedStatuses \subseteq ActiveStatuses
  /\ ActiveStatuses \subseteq AttemptStatus
  /\ TerminalStatuses \subseteq AttemptStatus
  /\ ActiveStatuses \cap TerminalStatuses = {}
  /\ "absent" \notin AttemptStatus /\ "queued" \notin ClaimedStatuses
  /\ "queued" \in ActiveStatuses
  BY DEF ClaimedStatuses, ActiveStatuses, TerminalStatuses, AttemptStatus

-----------------------------------------------------------------------------
(* Type correctness. *)

\* The columns of attempts and jobs, and the statuses they allow.
AttemptTypes ==
  /\ attOwner \in [Attempts -> Owners \cup {Nil}]
  /\ attStatus \in [Attempts -> AttemptStatus \cup {"absent"}]
  /\ attPin \in [Attempts -> Checkpoints \cup {Nil}]
  /\ jobStatus \in [Attempts -> AttemptStatus \cup {"absent"}]
  /\ stopRequested \in [Attempts -> BOOLEAN]
  /\ jobWorker \in [Attempts -> Workers \cup {Nil}]
  /\ heartbeat \in [Attempts -> {"null", "fresh", "expired"}]
  /\ created \in 0..MaxAttempts
  /\ \A a \in Attempts : (attOwner[a] = Nil) <=> (attStatus[a] = "absent")
  /\ \A a \in Attempts : a > created => attStatus[a] = "absent"

\* The columns of projects, runs, edits, variants and checkpoints.
OwnerTypes ==
  /\ projects \subseteq Projects
  /\ runStatus \in [Runs -> RunStatus \cup {"absent"}]
  /\ editOrigin \in [Edits -> {"initial", "guided_revision", "absent"}]
  /\ variantStatus \in [Variants -> VariantStatus \cup {"absent"}]
  /\ checkpoint \in [Runs -> Checkpoints \cup {Nil}]

LEMMA TypeParts == TypeOK <=> OwnerTypes /\ AttemptTypes
  BY DEF TypeOK, OwnerTypes, AttemptTypes

LEMMA InsertTypes ==
  ASSUME AttemptTypes, NEW o \in Owners, NEW pin \in Checkpoints \cup {Nil},
         InsertAttempt(o, pin)
  PROVE  AttemptTypes'
<1> USE StoreAssumption DEF Attempts
<1>1. created + 1 \in Attempts /\ created' = created + 1
  BY DEF InsertAttempt
<1>2. "queued" \in AttemptStatus \cup {"absent"} /\ o # Nil
  BY DEF AttemptStatus, ActiveStatuses
<1>3. QED
  BY <1>1, <1>2 DEF AttemptTypes, InsertAttempt

LEMMA FinishTypes ==
  ASSUME AttemptTypes, NEW A, NEW s \in TerminalStatuses,
         \A a \in A : a \in Attempts /\ attStatus[a] # "absent",
         FinishAttempts(A, s)
  PROVE  AttemptTypes'
<1>1. s \in AttemptStatus \cup {"absent"} /\ s # "absent"
  BY StatusSets
<1>2. attStatus' \in [Attempts -> AttemptStatus \cup {"absent"}]
  BY <1>1, SetAllType DEF AttemptTypes, FinishAttempts
<1>3. jobStatus' \in [Attempts -> AttemptStatus \cup {"absent"}]
  BY <1>1, SetAllType DEF AttemptTypes, FinishAttempts
<1>4. stopRequested' \in [Attempts -> BOOLEAN]
  BY SetAllType DEF AttemptTypes, FinishAttempts
<1>5. heartbeat' \in [Attempts -> {"null", "fresh", "expired"}]
  BY SetAllType DEF AttemptTypes, FinishAttempts
<1>6. \A a \in Attempts : attStatus'[a] = IF a \in A THEN s ELSE attStatus[a]
  BY DEF AttemptTypes, FinishAttempts, SetAll
<1>7. QED
  BY <1>1, <1>2, <1>3, <1>4, <1>5, <1>6 DEF AttemptTypes, FinishAttempts

LEMMA DeleteTypes ==
  ASSUME OwnerTypes, AttemptTypes, NEW S \in SUBSET Owners, DeleteFamily(S),
         projects' \subseteq Projects
  PROVE  OwnerTypes' /\ AttemptTypes'
<1> DEFINE A == {a \in Attempts : attOwner[a] \in S}
<1>1. OwnerTypes'
  BY SetAllType DEF OwnerTypes, DeleteFamily
<1>2. /\ attOwner' \in [Attempts -> Owners \cup {Nil}]
      /\ attStatus' \in [Attempts -> AttemptStatus \cup {"absent"}]
      /\ attPin' \in [Attempts -> Checkpoints \cup {Nil}]
      /\ jobStatus' \in [Attempts -> AttemptStatus \cup {"absent"}]
  BY SetAllType DEF AttemptTypes, DeleteFamily
<1>3. /\ stopRequested' \in [Attempts -> BOOLEAN]
      /\ jobWorker' \in [Attempts -> Workers \cup {Nil}]
      /\ heartbeat' \in [Attempts -> {"null", "fresh", "expired"}]
  BY SetAllType DEF AttemptTypes, DeleteFamily
<1>4. \A a \in Attempts : /\ attOwner'[a] = IF a \in A THEN Nil ELSE attOwner[a]
                          /\ attStatus'[a] = IF a \in A THEN "absent" ELSE attStatus[a]
  BY DEF AttemptTypes, DeleteFamily, SetAll
<1>5. created' = created
  BY DEF DeleteFamily
<1>6. QED
  BY <1>1, <1>2, <1>3, <1>4, <1>5 DEF AttemptTypes

-----------------------------------------------------------------------------
(* The inductive invariant. *)

\* Only runs are resumed from a checkpoint.
PinsAreOfRuns == \A a \in Attempts : attPin[a] # Nil => attOwner[a] \in Runs

IInv ==
  /\ TypeOK
  /\ JobMirrorsAttempt
  /\ OneActiveAttempt
  /\ OwnerFollowsLatestAttempt
  /\ NoOrphanRows
  /\ CompleteRunHasItsEdit
  /\ QueuedResumeKeepsItsCheckpoint
  /\ PinsAreOfRuns

\* The newest attempt of an owner is one attempt, and an active one is it.
LEMMA LatestIsUnique ==
  ASSUME NEW a \in Attempts, NEW b \in Attempts, attOwner[a] = attOwner[b],
         IsLatest(a), IsLatest(b)
  PROVE  a = b
<1>1. a <= b /\ b <= a
  BY DEF IsLatest
<1>2. QED
  BY <1>1 DEF Attempts

LEMMA ActiveIsLatest ==
  ASSUME OneActiveAttempt, NEW a \in Attempts, attStatus[a] \in ActiveStatuses
  PROVE  IsLatest(a)
  BY DEF OneActiveAttempt, IsLatest

\* An owner with an active attempt has no other attempt that is newest.
LEMMA ActiveOwner ==
  ASSUME OneActiveAttempt, NEW a \in Attempts, NEW b \in Attempts,
         attOwner[a] = attOwner[b], attStatus[a] \in ActiveStatuses, IsLatest(b)
  PROVE  a = b
  BY ActiveIsLatest, LatestIsUnique

-----------------------------------------------------------------------------
(* Attempts that end with their owners. *)

\* Interrupted, failed and completed material attempts: any set of active
\* attempts may end in one transaction.
LEMMA TerminalStep ==
  ASSUME IInv, NEW A \in SUBSET Attempts, NEW s \in TerminalStatuses,
         \A a \in A : attStatus[a] \in ActiveStatuses,
         s = "complete" => \A a \in A : attOwner[a] \in Materials,
         FinishAttempts(A, s), UpdateOwnersTerminal(A, s)
  PROVE  IInv'
<1> DEFINE os == {attOwner[a] : a \in A}
<1>1. /\ OwnerTypes /\ AttemptTypes
      /\ \A a \in A : attStatus[a] # "absent"
      /\ s \in RunStatus \cap VariantStatus \cap AttemptStatus \/ s = "complete"
  BY TypeParts, StatusSets DEF IInv, TerminalStatuses, RunStatus, VariantStatus
<1>2. AttemptTypes'
  BY <1>1, FinishTypes
<1>3. OwnerTypes'
  <2>1. CASE s = "complete"
    BY <1>1, <2>1 DEF OwnerTypes, UpdateOwnersTerminal
  <2>2. CASE s # "complete"
    <3>1. s \in RunStatus \cup {"absent"} /\ s \in VariantStatus \cup {"absent"}
      BY <1>1, <2>2
    <3>2. runStatus' = SetAll(runStatus, os, s) /\ variantStatus' = SetAll(variantStatus, os, s)
      BY <2>2 DEF UpdateOwnersTerminal
    <3>3. /\ runStatus' \in [Runs -> RunStatus \cup {"absent"}]
          /\ variantStatus' \in [Variants -> VariantStatus \cup {"absent"}]
      BY <1>1, <3>1, <3>2, SetAllType DEF OwnerTypes
    <3>4. QED
      BY <1>1, <3>3 DEF OwnerTypes, UpdateOwnersTerminal
  <2>3. QED
    BY <2>1, <2>2
<1>4. TypeOK'
  BY <1>2, <1>3, TypeParts DEF TypeOK, OwnerTypes, AttemptTypes
<1>5. /\ \A a \in Attempts : attStatus'[a] = IF a \in A THEN s ELSE attStatus[a]
      /\ \A a \in Attempts : jobStatus'[a] = IF a \in A THEN s ELSE jobStatus[a]
      /\ \A a \in Attempts : stopRequested'[a] = IF a \in A THEN FALSE ELSE stopRequested[a]
      /\ attOwner' = attOwner /\ attPin' = attPin
  BY <1>1 DEF AttemptTypes, FinishAttempts, SetAll
<1>6. /\ projects' = projects /\ editOrigin' = editOrigin /\ checkpoint' = checkpoint
      /\ \A r \in Runs : runStatus'[r] = IF s # "complete" /\ r \in os THEN s ELSE runStatus[r]
      /\ \A v \in Variants :
           variantStatus'[v] = IF s # "complete" /\ v \in os THEN s ELSE variantStatus[v]
  BY <1>1 DEF OwnerTypes, UpdateOwnersTerminal, SetAll
<1>7. JobMirrorsAttempt'
  BY <1>5 DEF IInv, JobMirrorsAttempt, TerminalStatuses
<1>8. OneActiveAttempt'
  BY <1>5, StatusSets DEF IInv, OneActiveAttempt
<1>9. OwnerFollowsLatestAttempt'
  <2> SUFFICES ASSUME NEW a \in Attempts, attStatus'[a] # "absent", IsLatest(a)'
               PROVE  /\ attOwner[a] \in Runs =>
                           runStatus'[attOwner[a]] = RunStatusOf(attStatus'[a])
                      /\ attOwner[a] \in Variants =>
                           variantStatus'[attOwner[a]] \in VariantStatusesOf(attStatus'[a])
    BY <1>5 DEF OwnerFollowsLatestAttempt
  <2>1. IsLatest(a)
    BY <1>5 DEF IsLatest
  <2>2. CASE a \in A
    <3>1. attStatus'[a] = s /\ attOwner[a] \in os
      BY <1>5, <2>2
    <3>2. CASE s = "complete"
      BY <2>2, <3>2, StoreAssumption
    <3>3. CASE s # "complete"
      BY <1>6, <3>1, <3>3 DEF TerminalStatuses, ClaimedStatuses, RunStatusOf, VariantStatusesOf
    <3>4. QED
      BY <3>2, <3>3
  <2>3. CASE a \notin A
    <3>1. attOwner[a] \notin os
      BY <2>1, <2>3, ActiveOwner DEF IInv
    <3>2. attStatus'[a] = attStatus[a] /\ attStatus[a] # "absent"
      BY <1>5, <2>3
    <3>3. QED
      BY <1>6, <2>1, <3>1, <3>2 DEF IInv, OwnerFollowsLatestAttempt
  <2>4. QED
    BY <2>2, <2>3
<1>10. \A r \in Runs : /\ runStatus'[r] = "absent" <=> runStatus[r] = "absent"
                       /\ runStatus'[r] = "complete" <=> runStatus[r] = "complete"
  <2> SUFFICES ASSUME NEW r \in Runs, s # "complete", r \in os
               PROVE  runStatus[r] \notin {"absent", "complete"}
    BY <1>6, <1>1 DEF TerminalStatuses
  <2>1. PICK a \in A : attOwner[a] = r
    OBVIOUS
  <2>2. runStatus[r] = RunStatusOf(attStatus[a]) /\ attStatus[a] \in ActiveStatuses
    BY <1>1, <2>1, ActiveIsLatest DEF IInv, OwnerFollowsLatestAttempt
  <2>3. QED
    BY <2>2 DEF RunStatusOf, ActiveStatuses, ClaimedStatuses
<1>11. \A v \in Variants : variantStatus'[v] = "absent" <=> variantStatus[v] = "absent"
  <2> SUFFICES ASSUME NEW v \in Variants, s # "complete", v \in os
               PROVE  variantStatus[v] # "absent"
    BY <1>6 DEF TerminalStatuses
  <2>1. QED
    BY <1>1 DEF IInv, NoOrphanRows
<1>12. NoOrphanRows'
  BY <1>5, <1>6, <1>10, <1>11, StoreAssumption DEF IInv, NoOrphanRows
<1>13. CompleteRunHasItsEdit'
  BY <1>6, <1>10 DEF IInv, CompleteRunHasItsEdit
<1>14. QueuedResumeKeepsItsCheckpoint'
  BY <1>5, <1>6 DEF IInv, QueuedResumeKeepsItsCheckpoint, TerminalStatuses
<1>15. PinsAreOfRuns'
  BY <1>5 DEF IInv, PinsAreOfRuns
<1>16. QED
  BY <1>4, <1>7, <1>8, <1>9, <1>12, <1>13, <1>14, <1>15 DEF IInv

-----------------------------------------------------------------------------
(* New attempts. *)

\* What an insertion changes, and that its owner's other attempts are older.
LEMMA InsertValues ==
  ASSUME AttemptTypes, JobMirrorsAttempt, NEW o \in Owners,
         NEW pin \in Checkpoints \cup {Nil}, InsertAttempt(o, pin)
  PROVE  LET a == created + 1 IN
         /\ a \in Attempts /\ attStatus[a] = "absent" /\ attOwner[a] = Nil /\ ~stopRequested[a]
         /\ \A b \in Attempts : attOwner'[b] = IF b = a THEN o ELSE attOwner[b]
         /\ \A b \in Attempts : attStatus'[b] = IF b = a THEN "queued" ELSE attStatus[b]
         /\ \A b \in Attempts : jobStatus'[b] = IF b = a THEN "queued" ELSE jobStatus[b]
         /\ \A b \in Attempts : attPin'[b] = IF b = a THEN pin ELSE attPin[b]
         /\ stopRequested' = stopRequested
         /\ \A b \in Attempts : attOwner[b] # Nil => b < a
<1> DEFINE a == created + 1
<1>1. a \in Attempts /\ attStatus[a] = "absent" /\ attOwner[a] = Nil
  BY StoreAssumption DEF AttemptTypes, InsertAttempt, Attempts
<1>2. ~stopRequested[a]
  BY <1>1 DEF JobMirrorsAttempt
<1>3. \A b \in Attempts : attOwner[b] # Nil => b < a
  BY StoreAssumption DEF AttemptTypes, Attempts
<1>4. QED
  BY <1>1, <1>2, <1>3 DEF AttemptTypes, InsertAttempt

\* Inserting an attempt for an owner without active ones keeps the invariants of
\* attempts; the new attempt is the newest, and the others keep their place.
LEMMA InsertStep ==
  ASSUME IInv, NEW o \in Owners, NEW pin \in Checkpoints \cup {Nil},
         InsertAttempt(o, pin), ActiveAttempts({o}) = {}
  PROVE  /\ AttemptTypes' /\ JobMirrorsAttempt' /\ OneActiveAttempt'
         /\ \A b \in Attempts : b # created + 1 /\ attStatus'[b] # "absent" /\ IsLatest(b)' =>
              attOwner[b] # o /\ IsLatest(b) /\ attOwner'[b] = attOwner[b]
<1> DEFINE a == created + 1
<1>1. AttemptTypes
  BY TypeParts DEF IInv
<1>2. /\ a \in Attempts /\ attStatus[a] = "absent" /\ attOwner[a] = Nil /\ ~stopRequested[a]
      /\ \A b \in Attempts : attOwner'[b] = IF b = a THEN o ELSE attOwner[b]
      /\ \A b \in Attempts : attStatus'[b] = IF b = a THEN "queued" ELSE attStatus[b]
      /\ \A b \in Attempts : jobStatus'[b] = IF b = a THEN "queued" ELSE jobStatus[b]
      /\ stopRequested' = stopRequested
      /\ \A b \in Attempts : attOwner[b] # Nil => b < a
  BY <1>1, InsertValues DEF IInv
<1>3. o # Nil /\ \A b \in Attempts : b \in Nat
  BY StoreAssumption DEF Attempts
<1>4. AttemptTypes'
  BY <1>1, InsertTypes
<1>5. JobMirrorsAttempt'
  BY <1>2 DEF IInv, JobMirrorsAttempt
<1>6. OneActiveAttempt'
  <2> SUFFICES ASSUME NEW b \in Attempts, NEW c \in Attempts,
                      attStatus'[b] \in ActiveStatuses, attOwner'[c] = attOwner'[b]
               PROVE  c <= b
    BY DEF OneActiveAttempt
  <2>1. CASE b = a
    BY <1>1, <1>2, <1>3, <2>1 DEF AttemptTypes
  <2>2. CASE b # a
    <3>1. attStatus[b] \in ActiveStatuses /\ attOwner'[b] = attOwner[b]
      BY <1>2, <2>2
    <3>2. attOwner[b] # o
      BY <3>1 DEF ActiveAttempts
    <3>3. QED
      BY <1>2, <3>1, <3>2 DEF IInv, OneActiveAttempt
  <2>3. QED
    BY <2>1, <2>2
<1>7. ASSUME NEW b \in Attempts, b # a, attStatus'[b] # "absent", IsLatest(b)'
      PROVE  attOwner[b] # o /\ IsLatest(b) /\ attOwner'[b] = attOwner[b]
  <2>1. attOwner'[b] = attOwner[b] /\ attStatus[b] # "absent" /\ attOwner[b] # Nil
    BY <1>1, <1>2, <1>7 DEF AttemptTypes
  <2>2. attOwner[b] # o
    BY <1>2, <1>3, <1>7, <2>1 DEF IsLatest
  <2>3. IsLatest(b)
    BY <1>2, <1>7, <2>1, <2>2 DEF IsLatest
  <2>4. QED
    BY <2>1, <2>2, <2>3
<1>8. QED
  BY <1>4, <1>5, <1>6, <1>7

\* An owner whose status is not that of an active attempt has none.
LEMMA IdleRun ==
  ASSUME IInv, NEW r \in Runs, runStatus[r] \notin {"queued", "planners"}
  PROVE  ActiveAttempts({r}) = {}
<1> SUFFICES ASSUME NEW a \in Attempts, attOwner[a] = r, attStatus[a] \in ActiveStatuses
             PROVE  FALSE
  BY DEF ActiveAttempts
<1>1. IsLatest(a) /\ attStatus[a] # "absent"
  BY ActiveIsLatest, StatusSets DEF IInv
<1>2. runStatus[r] = RunStatusOf(attStatus[a])
  BY <1>1 DEF IInv, OwnerFollowsLatestAttempt
<1>3. QED
  BY <1>2 DEF RunStatusOf, ActiveStatuses, ClaimedStatuses

LEMMA IdleVariant ==
  ASSUME IInv, NEW v \in Variants, variantStatus[v] \notin {"queued", "rendering"}
  PROVE  ActiveAttempts({v}) = {}
<1> SUFFICES ASSUME NEW a \in Attempts, attOwner[a] = v, attStatus[a] \in ActiveStatuses
             PROVE  FALSE
  BY DEF ActiveAttempts
<1>1. IsLatest(a) /\ attStatus[a] # "absent"
  BY ActiveIsLatest, StatusSets DEF IInv
<1>2. variantStatus[v] \in VariantStatusesOf(attStatus[a])
  BY <1>1 DEF IInv, OwnerFollowsLatestAttempt
<1>3. QED
  BY <1>2 DEF VariantStatusesOf, ActiveStatuses, ClaimedStatuses

\* The owner of a queued attempt is queued, that of a claimed one in progress.
LEMMA QueuedOwners == RunStatusOf("queued") = "queued" /\ VariantStatusesOf("queued") = {"queued"}
<1>1. "queued" \notin ClaimedStatuses /\ "queued" # "complete"
  BY StatusSets
<1>2. QED
  BY <1>1, Zenon DEF RunStatusOf, VariantStatusesOf

LEMMA ClaimedOwners ==
  ASSUME NEW s \in ClaimedStatuses
  PROVE  RunStatusOf(s) = "planners" /\ VariantStatusesOf(s) = {"rendering"}
  BY DEF RunStatusOf, VariantStatusesOf, ClaimedStatuses

\* A run is queued for the first time, retried from scratch or resumed.
LEMMA QueueRunStep ==
  ASSUME IInv, NEW r \in Runs, RunProject[r] \in projects,
         runStatus[r] \in {"absent", "failed", "interrupted"},
         NEW pin \in Checkpoints \cup {Nil}, QueueRun(r, pin),
         \/ checkpoint' = checkpoint /\ pin \in {Nil, checkpoint[r]}
         \/ /\ checkpoint' = [checkpoint EXCEPT ![r] = Nil]
            /\ pin = Nil /\ runStatus[r] # "absent"
  PROVE  IInv'
<1> DEFINE a == created + 1
<1>1. OwnerTypes /\ AttemptTypes /\ r \in Owners
  BY TypeParts DEF IInv, Owners
<1>2. InsertAttempt(r, pin) /\ ActiveAttempts({r}) = {}
  BY IdleRun DEF QueueRun
<1>3. /\ AttemptTypes' /\ JobMirrorsAttempt' /\ OneActiveAttempt'
      /\ \A b \in Attempts : b # a /\ attStatus'[b] # "absent" /\ IsLatest(b)' =>
           attOwner[b] # r /\ IsLatest(b) /\ attOwner'[b] = attOwner[b]
  BY <1>1, <1>2, InsertStep
<1>4. /\ a \in Attempts /\ attStatus[a] = "absent" /\ attOwner[a] = Nil
      /\ \A b \in Attempts : attOwner'[b] = IF b = a THEN r ELSE attOwner[b]
      /\ \A b \in Attempts : attStatus'[b] = IF b = a THEN "queued" ELSE attStatus[b]
      /\ \A b \in Attempts : attPin'[b] = IF b = a THEN pin ELSE attPin[b]
  BY <1>1, <1>2, InsertValues DEF IInv
<1>5. /\ \A q \in Runs : runStatus'[q] = IF q = r THEN "queued" ELSE runStatus[q]
      /\ projects' = projects /\ editOrigin' = editOrigin /\ variantStatus' = variantStatus
      /\ \A q \in Runs : checkpoint'[q] # Nil => checkpoint[q] # Nil
      /\ \A q \in Runs : q # r => checkpoint'[q] = checkpoint[q]
      /\ pin # Nil => checkpoint'[r] = pin
  BY <1>1 DEF QueueRun, OwnerTypes
<1>6. TypeOK'
  <2>1. OwnerTypes'
    BY <1>1 DEF OwnerTypes, QueueRun, RunStatus
  <2>2. QED
    BY <1>3, <2>1 DEF TypeOK, OwnerTypes, AttemptTypes
<1>7. OwnerFollowsLatestAttempt'
  <2> SUFFICES ASSUME NEW b \in Attempts, attStatus'[b] # "absent", IsLatest(b)'
               PROVE  /\ attOwner'[b] \in Runs =>
                           runStatus'[attOwner'[b]] = RunStatusOf(attStatus'[b])
                      /\ attOwner'[b] \in Variants =>
                           variantStatus'[attOwner'[b]] \in VariantStatusesOf(attStatus'[b])
    BY DEF OwnerFollowsLatestAttempt
  <2>1. CASE b = a
    <3>1. attOwner'[b] = r /\ attStatus'[b] = "queued" /\ runStatus'[r] = "queued" /\ r \notin Variants
      BY <1>4, <1>5, <2>1, StoreAssumption
    <3>2. QED
      BY <3>1, QueuedOwners
  <2>2. CASE b # a
    <3>1. attOwner'[b] = attOwner[b] /\ attOwner[b] # r /\ IsLatest(b) /\ attStatus'[b] = attStatus[b]
      BY <1>3, <1>4, <2>2
    <3>2. QED
      BY <1>5, <3>1 DEF IInv, OwnerFollowsLatestAttempt
  <2>3. QED
    BY <2>1, <2>2
<1>8. NoOrphanRows'
  <2>1. \A q \in Runs : runStatus'[q] # "absent" <=> \E b \in Attempts : attOwner'[b] = q
    BY <1>1, <1>4, <1>5, StoreAssumption DEF IInv, NoOrphanRows, Owners
  <2>2. \A v \in Variants : variantStatus'[v] # "absent" <=> \E b \in Attempts : attOwner'[b] = v
    BY <1>1, <1>4, <1>5, StoreAssumption DEF IInv, NoOrphanRows, Owners
  <2>3. QED
    BY <1>5, <2>1, <2>2, StoreAssumption DEF IInv, NoOrphanRows
<1>9. CompleteRunHasItsEdit'
  BY <1>5 DEF IInv, CompleteRunHasItsEdit
<1>10. PinsAreOfRuns'
  BY <1>4 DEF IInv, PinsAreOfRuns
<1>11. QueuedResumeKeepsItsCheckpoint'
  <2> SUFFICES ASSUME NEW b \in Attempts, attStatus'[b] = "queued", attPin'[b] # Nil
               PROVE  checkpoint'[attOwner'[b]] = attPin'[b]
    BY DEF QueuedResumeKeepsItsCheckpoint
  <2>1. CASE b = a
    BY <1>4, <1>5, <2>1
  <2>2. CASE b # a
    <3>1. attOwner'[b] = attOwner[b] /\ attPin'[b] = attPin[b] /\ attStatus[b] = "queued"
      BY <1>4, <2>2
    <3>2. attOwner[b] # r
      BY <1>2, <3>1, StatusSets DEF ActiveAttempts
    <3>3. QED
      BY <1>5, <3>1, <3>2 DEF IInv, PinsAreOfRuns, QueuedResumeKeepsItsCheckpoint
  <2>3. QED
    BY <2>1, <2>2
<1>12. QED
  BY <1>3, <1>6, <1>7, <1>8, <1>9, <1>10, <1>11 DEF IInv

\* A render variant is requested for the first time or rendered again.
LEMMA QueueVariantStep ==
  ASSUME IInv, NEW v \in Variants, editOrigin[VariantEdit[v]] # "absent",
         variantStatus[v] \notin {"queued", "rendering"}, QueueVariant(v)
  PROVE  IInv'
<1> DEFINE a == created + 1
<1>1. OwnerTypes /\ AttemptTypes /\ v \in Owners /\ Nil \in Checkpoints \cup {Nil}
  BY TypeParts DEF IInv, Owners
<1>2. InsertAttempt(v, Nil) /\ ActiveAttempts({v}) = {}
  BY IdleVariant DEF QueueVariant
<1>3. /\ AttemptTypes' /\ JobMirrorsAttempt' /\ OneActiveAttempt'
      /\ \A b \in Attempts : b # a /\ attStatus'[b] # "absent" /\ IsLatest(b)' =>
           attOwner[b] # v /\ IsLatest(b) /\ attOwner'[b] = attOwner[b]
  BY <1>1, <1>2, InsertStep
<1>4. /\ a \in Attempts /\ attStatus[a] = "absent" /\ attOwner[a] = Nil
      /\ \A b \in Attempts : attOwner'[b] = IF b = a THEN v ELSE attOwner[b]
      /\ \A b \in Attempts : attStatus'[b] = IF b = a THEN "queued" ELSE attStatus[b]
      /\ \A b \in Attempts : attPin'[b] = IF b = a THEN Nil ELSE attPin[b]
  BY <1>1, <1>2, InsertValues DEF IInv
<1>5. /\ \A u \in Variants : variantStatus'[u] = IF u = v THEN "queued" ELSE variantStatus[u]
      /\ UNCHANGED <<projects, runStatus, editOrigin, checkpoint>>
  BY <1>1 DEF QueueVariant, OwnerTypes
<1>6. TypeOK'
  <2>1. OwnerTypes'
    BY <1>1 DEF OwnerTypes, QueueVariant, VariantStatus
  <2>2. QED
    BY <1>3, <2>1 DEF TypeOK, OwnerTypes, AttemptTypes
<1>7. OwnerFollowsLatestAttempt'
  <2> SUFFICES ASSUME NEW b \in Attempts, attStatus'[b] # "absent", IsLatest(b)'
               PROVE  /\ attOwner'[b] \in Runs =>
                           runStatus'[attOwner'[b]] = RunStatusOf(attStatus'[b])
                      /\ attOwner'[b] \in Variants =>
                           variantStatus'[attOwner'[b]] \in VariantStatusesOf(attStatus'[b])
    BY DEF OwnerFollowsLatestAttempt
  <2>1. CASE b = a
    <3>1. /\ attOwner'[b] = v /\ attStatus'[b] = "queued"
          /\ variantStatus'[v] = "queued" /\ v \notin Runs
      BY <1>4, <1>5, <2>1, StoreAssumption
    <3>2. QED
      BY <3>1, QueuedOwners
  <2>2. CASE b # a
    <3>1. attOwner'[b] = attOwner[b] /\ attOwner[b] # v /\ IsLatest(b) /\ attStatus'[b] = attStatus[b]
      BY <1>3, <1>4, <2>2
    <3>2. QED
      BY <1>5, <3>1 DEF IInv, OwnerFollowsLatestAttempt
  <2>3. QED
    BY <2>1, <2>2
<1>8. NoOrphanRows'
  <2>1. \A q \in Runs : runStatus'[q] # "absent" <=> \E b \in Attempts : attOwner'[b] = q
    BY <1>1, <1>4, <1>5, StoreAssumption DEF IInv, NoOrphanRows, Owners
  <2>2. \A u \in Variants : variantStatus'[u] # "absent" <=> \E b \in Attempts : attOwner'[b] = u
    BY <1>1, <1>4, <1>5, StoreAssumption DEF IInv, NoOrphanRows, Owners
  <2>3. QED
    BY <1>5, <2>1, <2>2 DEF IInv, NoOrphanRows
<1>9. CompleteRunHasItsEdit'
  BY <1>5 DEF IInv, CompleteRunHasItsEdit
<1>10. PinsAreOfRuns'
  BY <1>4 DEF IInv, PinsAreOfRuns
<1>11. QueuedResumeKeepsItsCheckpoint'
  BY <1>4, <1>5 DEF IInv, QueuedResumeKeepsItsCheckpoint
<1>12. QED
  BY <1>3, <1>6, <1>7, <1>8, <1>9, <1>10, <1>11 DEF IInv

\* A material is analysed for the first time, retried or resumed.
LEMMA QueueMaterialStep ==
  ASSUME IInv, NEW m \in Materials, ActiveAttempts({m}) = {},
         InsertAttempt(m, Nil), UNCHANGED ownerVars
  PROVE  IInv'
<1> DEFINE a == created + 1
<1>1. OwnerTypes /\ AttemptTypes /\ m \in Owners /\ Nil \in Checkpoints \cup {Nil}
  BY TypeParts DEF IInv, Owners
<1>2. UNCHANGED <<projects, runStatus, editOrigin, variantStatus, checkpoint>>
  BY DEF ownerVars
<1>3. /\ AttemptTypes' /\ JobMirrorsAttempt' /\ OneActiveAttempt'
      /\ \A b \in Attempts : b # a /\ attStatus'[b] # "absent" /\ IsLatest(b)' =>
           attOwner[b] # m /\ IsLatest(b) /\ attOwner'[b] = attOwner[b]
  BY <1>1, InsertStep
<1>4. /\ a \in Attempts /\ attStatus[a] = "absent" /\ attOwner[a] = Nil
      /\ \A b \in Attempts : attOwner'[b] = IF b = a THEN m ELSE attOwner[b]
      /\ \A b \in Attempts : attStatus'[b] = IF b = a THEN "queued" ELSE attStatus[b]
      /\ \A b \in Attempts : attPin'[b] = IF b = a THEN Nil ELSE attPin[b]
  BY <1>1, InsertValues DEF IInv
<1>5. TypeOK'
  BY <1>1, <1>2, <1>3 DEF TypeOK, OwnerTypes, AttemptTypes
<1>6. OwnerFollowsLatestAttempt'
  <2> SUFFICES ASSUME NEW b \in Attempts, attStatus'[b] # "absent", IsLatest(b)'
               PROVE  /\ attOwner'[b] \in Runs =>
                           runStatus'[attOwner'[b]] = RunStatusOf(attStatus'[b])
                      /\ attOwner'[b] \in Variants =>
                           variantStatus'[attOwner'[b]] \in VariantStatusesOf(attStatus'[b])
    BY DEF OwnerFollowsLatestAttempt
  <2>1. CASE b = a
    BY <1>4, <2>1, StoreAssumption
  <2>2. CASE b # a
    <3>1. attOwner'[b] = attOwner[b] /\ IsLatest(b) /\ attStatus'[b] = attStatus[b]
      BY <1>3, <1>4, <2>2
    <3>2. QED
      BY <1>2, <3>1 DEF IInv, OwnerFollowsLatestAttempt
  <2>3. QED
    BY <2>1, <2>2
<1>7. NoOrphanRows'
  <2>1. \A q \in Runs \cup Variants :
          (\E b \in Attempts : attOwner'[b] = q) <=> (\E b \in Attempts : attOwner[b] = q)
    BY <1>4, StoreAssumption DEF Owners
  <2>2. QED
    BY <1>2, <2>1 DEF IInv, NoOrphanRows
<1>8. CompleteRunHasItsEdit'
  BY <1>2 DEF IInv, CompleteRunHasItsEdit
<1>9. PinsAreOfRuns'
  BY <1>4 DEF IInv, PinsAreOfRuns
<1>10. QueuedResumeKeepsItsCheckpoint'
  BY <1>2, <1>4 DEF IInv, QueuedResumeKeepsItsCheckpoint
<1>11. QED
  BY <1>3, <1>5, <1>6, <1>7, <1>8, <1>9, <1>10 DEF IInv

-----------------------------------------------------------------------------
(* Claims, stop requests and retrying attempts. *)

\* A queued attempt is claimed and its owner is in progress.
LEMMA ClaimStep ==
  ASSUME IInv, NEW a \in Attempts, NEW w \in Workers, attStatus[a] = "queued", ClaimJobRow(a, w)
  PROVE  IInv'
<1>1. OwnerTypes /\ AttemptTypes /\ IsLatest(a) /\ attOwner[a] # Nil
  <2>1. OwnerTypes /\ AttemptTypes
    BY TypeParts DEF IInv
  <2>2. QED
    BY <2>1, ActiveIsLatest, StatusSets DEF IInv, AttemptTypes
<1>2. /\ \A b \in Attempts : attStatus'[b] = IF b = a THEN "running" ELSE attStatus[b]
      /\ \A b \in Attempts : jobStatus'[b] = IF b = a THEN "running" ELSE jobStatus[b]
      /\ UNCHANGED <<attOwner, attPin, created, stopRequested>>
  BY <1>1 DEF AttemptTypes, ClaimJobRow
<1>3. /\ UNCHANGED <<projects, editOrigin, checkpoint>>
      /\ \A r \in Runs : runStatus'[r] = IF r = attOwner[a] THEN "planners" ELSE runStatus[r]
      /\ \A v \in Variants :
           variantStatus'[v] = IF v = attOwner[a] THEN "rendering" ELSE variantStatus[v]
  BY <1>1 DEF OwnerTypes, ClaimJobRow, SetAll
<1>4. TypeOK'
  <2>1. "running" \in AttemptStatus /\ "planners" \in RunStatus /\ "rendering" \in VariantStatus
    BY DEF AttemptStatus, ActiveStatuses, ClaimedStatuses, RunStatus, VariantStatus
  <2>2. AttemptTypes'
    BY <1>1, <1>2, <2>1 DEF AttemptTypes, ClaimJobRow
  <2>3. OwnerTypes'
    BY <1>1, <2>1, SetAllType DEF OwnerTypes, ClaimJobRow
  <2>4. QED
    BY <2>2, <2>3 DEF TypeOK, OwnerTypes, AttemptTypes
<1>5. JobMirrorsAttempt'
  BY <1>2 DEF IInv, JobMirrorsAttempt
<1>6. OneActiveAttempt'
  BY <1>2, StatusSets DEF IInv, OneActiveAttempt
<1>7. OwnerFollowsLatestAttempt'
  <2> SUFFICES ASSUME NEW b \in Attempts, attStatus'[b] # "absent", IsLatest(b)'
               PROVE  /\ attOwner[b] \in Runs =>
                           runStatus'[attOwner[b]] = RunStatusOf(attStatus'[b])
                      /\ attOwner[b] \in Variants =>
                           variantStatus'[attOwner[b]] \in VariantStatusesOf(attStatus'[b])
    BY <1>2 DEF OwnerFollowsLatestAttempt
  <2>1. IsLatest(b)
    BY <1>2 DEF IsLatest
  <2>2. CASE b = a
    <3>1. "running" \in ClaimedStatuses
      BY DEF ClaimedStatuses
    <3>2. QED
      BY <1>2, <1>3, <2>2, <3>1, ClaimedOwners
  <2>3. CASE b # a
    <3>1. attOwner[b] # attOwner[a]
      BY <1>1, <2>1, <2>3, LatestIsUnique
    <3>2. QED
      BY <1>2, <1>3, <2>1, <2>3, <3>1 DEF IInv, OwnerFollowsLatestAttempt
  <2>4. QED
    BY <2>2, <2>3
<1>8. \A r \in Runs : r = attOwner[a] => runStatus[r] = "queued"
  BY <1>1, QueuedOwners DEF IInv, OwnerFollowsLatestAttempt
<1>9. \A v \in Variants : v = attOwner[a] => variantStatus[v] = "queued"
  BY <1>1, QueuedOwners DEF IInv, OwnerFollowsLatestAttempt
<1>10. NoOrphanRows'
  BY <1>2, <1>3, <1>8, <1>9, StoreAssumption DEF IInv, NoOrphanRows
<1>11. CompleteRunHasItsEdit'
  BY <1>3, <1>8 DEF IInv, CompleteRunHasItsEdit
<1>12. QueuedResumeKeepsItsCheckpoint' /\ PinsAreOfRuns'
  BY <1>2, <1>3 DEF IInv, QueuedResumeKeepsItsCheckpoint, PinsAreOfRuns
<1>13. QED
  BY <1>4, <1>5, <1>6, <1>7, <1>10, <1>11, <1>12 DEF IInv

\* A claimed attempt stays claimed: it is asked to stop, or is retrying.
LEMMA StaysClaimedStep ==
  ASSUME IInv, NEW a \in Attempts, NEW s \in ClaimedStatuses, attStatus[a] \in ClaimedStatuses,
         attStatus' = [attStatus EXCEPT ![a] = s], jobStatus' = [jobStatus EXCEPT ![a] = s],
         stopRequested' \in [Attempts -> BOOLEAN],
         \A b \in Attempts : b # a => stopRequested'[b] = stopRequested[b],
         stopRequested'[a] <=> s = "stopping",
         UNCHANGED <<ownerVars, attOwner, attPin, created, jobWorker, heartbeat>>
  PROVE  IInv'
<1>1. AttemptTypes /\ OwnerTypes /\ IsLatest(a)
  BY TypeParts, ActiveIsLatest, StatusSets DEF IInv
<1>2. UNCHANGED <<projects, runStatus, editOrigin, variantStatus, checkpoint>>
  BY DEF ownerVars
<1>3. \A b \in Attempts : /\ attStatus'[b] = IF b = a THEN s ELSE attStatus[b]
                          /\ jobStatus'[b] = IF b = a THEN s ELSE jobStatus[b]
  BY <1>1 DEF AttemptTypes
<1>4. TypeOK'
  <2>1. s \in AttemptStatus /\ attStatus[a] # "absent"
    BY StatusSets
  <2>2. AttemptTypes'
    BY <1>1, <2>1, StatusSets DEF AttemptTypes
  <2>3. QED
    BY <1>1, <1>2, <2>2 DEF TypeOK, OwnerTypes, AttemptTypes
<1>5. JobMirrorsAttempt'
  <2> SUFFICES ASSUME NEW b \in Attempts
               PROVE  jobStatus'[b] = attStatus'[b] /\ (stopRequested'[b] <=> attStatus'[b] = "stopping")
    BY DEF JobMirrorsAttempt
  <2>1. CASE b = a
    BY <1>3, <2>1
  <2>2. CASE b # a
    BY <1>3, <2>2 DEF IInv, JobMirrorsAttempt
  <2>3. QED
    BY <2>1, <2>2
<1>6. OneActiveAttempt'
  BY <1>3, StatusSets DEF IInv, OneActiveAttempt
<1>7. OwnerFollowsLatestAttempt'
  <2> SUFFICES ASSUME NEW b \in Attempts, attStatus'[b] # "absent", IsLatest(b)'
               PROVE  /\ attOwner[b] \in Runs =>
                           runStatus[attOwner[b]] = RunStatusOf(attStatus'[b])
                      /\ attOwner[b] \in Variants =>
                           variantStatus[attOwner[b]] \in VariantStatusesOf(attStatus'[b])
    BY <1>2 DEF OwnerFollowsLatestAttempt
  <2>1. IsLatest(b) /\ attStatus[b] # "absent"
    BY <1>3, StatusSets DEF IsLatest
  <2>2. CASE b = a
    BY <1>3, <2>1, <2>2, ClaimedOwners DEF IInv, OwnerFollowsLatestAttempt
  <2>3. CASE b # a
    BY <1>3, <2>1, <2>3 DEF IInv, OwnerFollowsLatestAttempt
  <2>4. QED
    BY <2>2, <2>3
<1>8. NoOrphanRows' /\ CompleteRunHasItsEdit'
  BY <1>2 DEF IInv, NoOrphanRows, CompleteRunHasItsEdit
<1>9. QueuedResumeKeepsItsCheckpoint' /\ PinsAreOfRuns'
  BY <1>2, <1>3, StatusSets DEF IInv, QueuedResumeKeepsItsCheckpoint, PinsAreOfRuns
<1>10. QED
  BY <1>4, <1>5, <1>6, <1>7, <1>8, <1>9 DEF IInv

-----------------------------------------------------------------------------
(* Deletions. *)

\* Owners without active attempts are deleted with everything below them.
LEMMA DeleteStep ==
  ASSUME IInv, NEW S \in SUBSET Owners, ActiveAttempts(S) = {}, DeleteFamily(S),
         \A v \in Variants : VariantRun(v) \in S => v \in S,
         projects' \subseteq Projects,
         \A r \in Runs : r \notin S /\ RunProject[r] \in projects => RunProject[r] \in projects'
  PROVE  IInv'
<1> DEFINE A == {a \in Attempts : attOwner[a] \in S}
<1>1. OwnerTypes /\ AttemptTypes /\ Nil \notin S
  BY TypeParts, StoreAssumption DEF IInv
<1>2. TypeOK'
  BY <1>1, DeleteTypes DEF TypeOK, OwnerTypes, AttemptTypes
<1>3. \A a \in Attempts : /\ attOwner'[a] = IF a \in A THEN Nil ELSE attOwner[a]
                          /\ attStatus'[a] = IF a \in A THEN "absent" ELSE attStatus[a]
                          /\ jobStatus'[a] = IF a \in A THEN "absent" ELSE jobStatus[a]
                          /\ attPin'[a] = IF a \in A THEN Nil ELSE attPin[a]
                          /\ stopRequested'[a] = IF a \in A THEN FALSE ELSE stopRequested[a]
  BY <1>1 DEF AttemptTypes, DeleteFamily, SetAll
<1>4. /\ \A r \in Runs : runStatus'[r] = IF r \in S THEN "absent" ELSE runStatus[r]
      /\ \A r \in Runs : checkpoint'[r] = IF r \in S THEN Nil ELSE checkpoint[r]
      /\ \A e \in Edits : editOrigin'[e] = IF EditRun[e] \in S THEN "absent" ELSE editOrigin[e]
      /\ \A v \in Variants : variantStatus'[v] = IF v \in S THEN "absent" ELSE variantStatus[v]
  BY <1>1 DEF OwnerTypes, DeleteFamily, SetAll
<1>5. JobMirrorsAttempt'
  BY <1>3 DEF IInv, JobMirrorsAttempt
<1>6. \A a \in Attempts : a \notin A /\ attOwner[a] # Nil =>
        \A b \in Attempts : attOwner'[b] = attOwner'[a] <=> attOwner[b] = attOwner[a]
  BY <1>1, <1>3
<1>7. OneActiveAttempt'
  <2> SUFFICES ASSUME NEW a \in Attempts, NEW b \in Attempts,
                      attStatus'[a] \in ActiveStatuses, attOwner'[b] = attOwner'[a]
               PROVE  b <= a
    BY DEF OneActiveAttempt
  <2>1. a \notin A /\ attStatus[a] \in ActiveStatuses /\ attOwner[a] # Nil
    BY <1>1, <1>3, StatusSets DEF AttemptTypes
  <2>2. QED
    BY <1>6, <2>1 DEF IInv, OneActiveAttempt
<1>8. OwnerFollowsLatestAttempt'
  <2> SUFFICES ASSUME NEW a \in Attempts, attStatus'[a] # "absent", IsLatest(a)'
               PROVE  /\ attOwner'[a] \in Runs =>
                           runStatus'[attOwner'[a]] = RunStatusOf(attStatus'[a])
                      /\ attOwner'[a] \in Variants =>
                           variantStatus'[attOwner'[a]] \in VariantStatusesOf(attStatus'[a])
    BY DEF OwnerFollowsLatestAttempt
  <2>1. a \notin A /\ attStatus'[a] = attStatus[a] /\ attOwner'[a] = attOwner[a] /\ attOwner[a] # Nil
    BY <1>1, <1>3 DEF AttemptTypes
  <2>2. IsLatest(a)
    BY <1>6, <2>1 DEF IsLatest
  <2>3. QED
    BY <1>4, <2>1, <2>2 DEF IInv, OwnerFollowsLatestAttempt
<1>9. NoOrphanRows'
  <2>1. \A o \in Runs \cup Variants : (\E a \in Attempts : attOwner'[a] = o) <=>
                                     (o \notin S /\ \E a \in Attempts : attOwner[a] = o)
    BY <1>1, <1>3, StoreAssumption DEF Owners
  <2>2. \A v \in Variants : v \notin S => EditRun[VariantEdit[v]] \notin S
    BY DEF VariantRun
  <2>3. /\ \A r \in Runs : runStatus'[r] # "absent" => RunProject[r] \in projects'
        /\ \A r \in Runs : checkpoint'[r] # Nil => runStatus'[r] # "absent"
        /\ \A e \in Edits : editOrigin'[e] # "absent" => runStatus'[EditRun[e]] # "absent"
        /\ \A v \in Variants : variantStatus'[v] # "absent" => editOrigin'[VariantEdit[v]] # "absent"
    BY <1>4, <2>2, StoreAssumption DEF IInv, NoOrphanRows
  <2>4. QED
    BY <1>4, <2>1, <2>3 DEF IInv, NoOrphanRows
<1>10. CompleteRunHasItsEdit'
  BY <1>4, StoreAssumption DEF IInv, CompleteRunHasItsEdit
<1>11. PinsAreOfRuns'
  BY <1>3 DEF IInv, PinsAreOfRuns
<1>12. QueuedResumeKeepsItsCheckpoint'
  <2> SUFFICES ASSUME NEW a \in Attempts, attStatus'[a] = "queued", attPin'[a] # Nil
               PROVE  checkpoint'[attOwner'[a]] = attPin'[a]
    BY DEF QueuedResumeKeepsItsCheckpoint
  <2>1. /\ a \notin A /\ attStatus[a] = "queued" /\ attOwner'[a] = attOwner[a]
        /\ attPin'[a] = attPin[a]
    BY <1>3
  <2>2. attOwner[a] \in Runs /\ attOwner[a] \notin S
    BY <2>1 DEF IInv, PinsAreOfRuns
  <2>3. QED
    BY <1>4, <2>1, <2>2 DEF IInv, QueuedResumeKeepsItsCheckpoint
<1>13. QED
  BY <1>2, <1>5, <1>7, <1>8, <1>9, <1>10, <1>11, <1>12 DEF IInv

-----------------------------------------------------------------------------
(* Completions. *)

\* What completing the attempt of an owner does to the columns of attempts.
LEMMA CompletedAttempt ==
  ASSUME IInv, NEW a \in Attempts, attStatus[a] \in ActiveStatuses, FinishAttempts({a}, "complete")
  PROVE  /\ AttemptTypes' /\ JobMirrorsAttempt' /\ OneActiveAttempt' /\ PinsAreOfRuns'
         /\ UNCHANGED <<attOwner, attPin>>
         /\ \A b \in Attempts : attStatus'[b] = IF b = a THEN "complete" ELSE attStatus[b]
         /\ \A b \in Attempts : IsLatest(b)' => IsLatest(b) /\ (attOwner[b] = attOwner[a] => b = a)
<1>1. AttemptTypes /\ "complete" \in TerminalStatuses /\ IsLatest(a) /\ attStatus[a] # "absent"
  BY TypeParts, ActiveIsLatest, StatusSets DEF IInv, TerminalStatuses
<1>2. AttemptTypes'
  BY <1>1, FinishTypes
<1>3. /\ \A b \in Attempts : attStatus'[b] = IF b = a THEN "complete" ELSE attStatus[b]
      /\ \A b \in Attempts : jobStatus'[b] = IF b = a THEN "complete" ELSE jobStatus[b]
      /\ \A b \in Attempts : stopRequested'[b] = IF b = a THEN FALSE ELSE stopRequested[b]
      /\ UNCHANGED <<attOwner, attPin>>
  BY <1>1 DEF AttemptTypes, FinishAttempts, SetAll
<1>4. JobMirrorsAttempt'
  BY <1>3 DEF IInv, JobMirrorsAttempt
<1>5. OneActiveAttempt'
  BY <1>1, <1>3, StatusSets DEF IInv, OneActiveAttempt
<1>6. PinsAreOfRuns'
  BY <1>3 DEF IInv, PinsAreOfRuns
<1>7. ASSUME NEW b \in Attempts, IsLatest(b)'
      PROVE  IsLatest(b) /\ (attOwner[b] = attOwner[a] => b = a)
  <2>1. IsLatest(b)
    BY <1>3, <1>7 DEF IsLatest
  <2>2. QED
    BY <1>1, <2>1, LatestIsUnique
<1>8. QED
  BY <1>2, <1>3, <1>4, <1>5, <1>6, <1>7

\* The run and its attempt complete together, with the initial edit.
LEMMA CompleteRunStep ==
  ASSUME IInv, NEW r \in Runs, NEW a \in Attempts, NEW e \in Edits, CompleteRun(r, a, e)
  PROVE  IInv'
<1>1. /\ OwnerTypes /\ attStatus[a] \in ActiveStatuses /\ attOwner[a] = r
      /\ runStatus[r] = "planners" /\ editOrigin[e] = "absent" /\ EditRun[e] = r
  BY TypeParts, StatusSets DEF IInv, CompleteRun, ActiveStatuses, ClaimedStatuses
<1>2. /\ AttemptTypes' /\ JobMirrorsAttempt' /\ OneActiveAttempt' /\ PinsAreOfRuns'
      /\ UNCHANGED <<attOwner, attPin>>
      /\ \A b \in Attempts : attStatus'[b] = IF b = a THEN "complete" ELSE attStatus[b]
      /\ \A b \in Attempts : IsLatest(b)' => IsLatest(b) /\ (attOwner[b] = attOwner[a] => b = a)
  BY <1>1, CompletedAttempt DEF CompleteRun
<1>3. /\ UNCHANGED <<projects, variantStatus, checkpoint>>
      /\ \A q \in Runs : runStatus'[q] = IF q = r THEN "complete" ELSE runStatus[q]
      /\ \A f \in Edits : editOrigin'[f] = IF f = e THEN "initial" ELSE editOrigin[f]
  BY <1>1 DEF OwnerTypes, CompleteRun
<1>4. TypeOK'
  <2>1. OwnerTypes'
    BY <1>1 DEF OwnerTypes, CompleteRun, RunStatus
  <2>2. QED
    BY <1>2, <2>1 DEF TypeOK, OwnerTypes, AttemptTypes
<1>5. OwnerFollowsLatestAttempt'
  <2> SUFFICES ASSUME NEW b \in Attempts, attStatus'[b] # "absent", IsLatest(b)'
               PROVE  /\ attOwner[b] \in Runs =>
                           runStatus'[attOwner[b]] = RunStatusOf(attStatus'[b])
                      /\ attOwner[b] \in Variants =>
                           variantStatus[attOwner[b]] \in VariantStatusesOf(attStatus'[b])
    BY <1>2, <1>3 DEF OwnerFollowsLatestAttempt
  <2>1. CASE b = a
    <3>1. RunStatusOf("complete") = "complete"
      BY DEF RunStatusOf, ClaimedStatuses
    <3>2. QED
      BY <1>1, <1>2, <1>3, <2>1, <3>1, StoreAssumption
  <2>2. CASE b # a
    BY <1>1, <1>2, <1>3, <2>2 DEF IInv, OwnerFollowsLatestAttempt
  <2>3. QED
    BY <2>1, <2>2
<1>6. NoOrphanRows'
  BY <1>1, <1>2, <1>3, StoreAssumption DEF IInv, NoOrphanRows
<1>7. CompleteRunHasItsEdit'
  BY <1>1, <1>3, StoreAssumption DEF IInv, CompleteRunHasItsEdit
<1>8. QueuedResumeKeepsItsCheckpoint'
  BY <1>2, <1>3 DEF IInv, QueuedResumeKeepsItsCheckpoint
<1>9. QED
  BY <1>2, <1>4, <1>5, <1>6, <1>7, <1>8 DEF IInv

\* The variant and its attempt complete together.
LEMMA CompleteVariantStep ==
  ASSUME IInv, NEW v \in Variants, NEW a \in Attempts, CompleteRenderVariant(v, a)
  PROVE  IInv'
<1>1. /\ OwnerTypes /\ attStatus[a] \in ActiveStatuses /\ attOwner[a] = v
      /\ variantStatus[v] = "rendering"
  BY TypeParts, StatusSets DEF IInv, CompleteRenderVariant
<1>2. /\ AttemptTypes' /\ JobMirrorsAttempt' /\ OneActiveAttempt' /\ PinsAreOfRuns'
      /\ UNCHANGED <<attOwner, attPin>>
      /\ \A b \in Attempts : attStatus'[b] = IF b = a THEN "complete" ELSE attStatus[b]
      /\ \A b \in Attempts : IsLatest(b)' => IsLatest(b) /\ (attOwner[b] = attOwner[a] => b = a)
  BY <1>1, CompletedAttempt DEF CompleteRenderVariant
<1>3. /\ UNCHANGED <<projects, runStatus, editOrigin, checkpoint>>
      /\ \A u \in Variants : variantStatus'[u] = IF u = v THEN "ready" ELSE variantStatus[u]
  BY <1>1 DEF OwnerTypes, CompleteRenderVariant
<1>4. TypeOK'
  <2>1. OwnerTypes'
    BY <1>1 DEF OwnerTypes, CompleteRenderVariant, VariantStatus
  <2>2. QED
    BY <1>2, <2>1 DEF TypeOK, OwnerTypes, AttemptTypes
<1>5. OwnerFollowsLatestAttempt'
  <2> SUFFICES ASSUME NEW b \in Attempts, attStatus'[b] # "absent", IsLatest(b)'
               PROVE  /\ attOwner[b] \in Runs =>
                           runStatus[attOwner[b]] = RunStatusOf(attStatus'[b])
                      /\ attOwner[b] \in Variants =>
                           variantStatus'[attOwner[b]] \in VariantStatusesOf(attStatus'[b])
    BY <1>2, <1>3 DEF OwnerFollowsLatestAttempt
  <2>1. CASE b = a
    <3>1. "ready" \in VariantStatusesOf("complete")
      BY DEF VariantStatusesOf, ClaimedStatuses
    <3>2. QED
      BY <1>1, <1>2, <1>3, <2>1, <3>1, StoreAssumption
  <2>2. CASE b # a
    BY <1>1, <1>2, <1>3, <2>2 DEF IInv, OwnerFollowsLatestAttempt
  <2>3. QED
    BY <2>1, <2>2
<1>6. NoOrphanRows'
  BY <1>1, <1>2, <1>3, StoreAssumption DEF IInv, NoOrphanRows
<1>7. CompleteRunHasItsEdit'
  BY <1>3 DEF IInv, CompleteRunHasItsEdit
<1>8. QueuedResumeKeepsItsCheckpoint'
  BY <1>2, <1>3 DEF IInv, QueuedResumeKeepsItsCheckpoint
<1>9. QED
  BY <1>2, <1>4, <1>5, <1>6, <1>7, <1>8 DEF IInv

-----------------------------------------------------------------------------
(* Steps that leave the status of every attempt alone. *)

\* Only leases and heartbeats change.
LEMMA LeaseStep ==
  ASSUME IInv, UNCHANGED <<ownerVars, attemptVars, jobStatus, stopRequested>>,
         jobWorker' \in [Attempts -> Workers \cup {Nil}],
         heartbeat' \in [Attempts -> {"null", "fresh", "expired"}]
  PROVE  IInv'
<1>1. TypeOK'
  BY DEF IInv, TypeOK, ownerVars, attemptVars
<1>2. QED
  BY <1>1 DEF IInv, JobMirrorsAttempt, OneActiveAttempt, OwnerFollowsLatestAttempt, IsLatest,
     NoOrphanRows, CompleteRunHasItsEdit, QueuedResumeKeepsItsCheckpoint, PinsAreOfRuns,
     ownerVars, attemptVars

\* A change of owner rows keeps what the invariant says of attempts alone.
LEMMA OwnerRowsStep ==
  ASSUME IInv, UNCHANGED <<attemptVars, jobVars>>
  PROVE  /\ AttemptTypes' /\ JobMirrorsAttempt' /\ OneActiveAttempt' /\ PinsAreOfRuns'
         /\ UNCHANGED <<attOwner, attStatus, attPin>>
  BY TypeParts DEF IInv, AttemptTypes, JobMirrorsAttempt, OneActiveAttempt, PinsAreOfRuns,
     attemptVars, jobVars

LEMMA CreateProjectStep ==
  ASSUME IInv, NEW p \in Projects, CreateProject(p)
  PROVE  IInv'
<1>1. /\ AttemptTypes' /\ JobMirrorsAttempt' /\ OneActiveAttempt' /\ PinsAreOfRuns'
      /\ UNCHANGED <<attOwner, attStatus, attPin>>
  BY OwnerRowsStep DEF CreateProject
<1>2. TypeOK'
  BY <1>1 DEF IInv, TypeOK, AttemptTypes, CreateProject
<1>3. OwnerFollowsLatestAttempt' /\ NoOrphanRows' /\ CompleteRunHasItsEdit'
  BY <1>1 DEF IInv, OwnerFollowsLatestAttempt, IsLatest, NoOrphanRows, CompleteRunHasItsEdit,
     CreateProject
<1>4. QueuedResumeKeepsItsCheckpoint'
  BY <1>1 DEF IInv, QueuedResumeKeepsItsCheckpoint, CreateProject
<1>5. QED
  BY <1>1, <1>2, <1>3, <1>4 DEF IInv

LEMMA CreateRevisionStep ==
  ASSUME IInv, NEW source \in Edits, NEW e \in Edits, CreateRevision(source, e)
  PROVE  IInv'
<1>1. /\ AttemptTypes' /\ JobMirrorsAttempt' /\ OneActiveAttempt' /\ PinsAreOfRuns'
      /\ UNCHANGED <<attOwner, attStatus, attPin>>
  BY OwnerRowsStep DEF CreateRevision
<1>2. TypeOK'
  BY <1>1 DEF IInv, TypeOK, AttemptTypes, CreateRevision
<1>3. /\ UNCHANGED <<projects, runStatus, variantStatus, checkpoint>>
      /\ \A f \in Edits : editOrigin'[f] = IF f = e THEN "guided_revision" ELSE editOrigin[f]
      /\ editOrigin[e] = "absent" /\ runStatus[EditRun[e]] = "complete"
  BY DEF IInv, TypeOK, CreateRevision
<1>4. OwnerFollowsLatestAttempt'
  BY <1>1, <1>3 DEF IInv, OwnerFollowsLatestAttempt, IsLatest
<1>5. NoOrphanRows'
  BY <1>1, <1>3, StoreAssumption DEF IInv, NoOrphanRows
<1>6. CompleteRunHasItsEdit'
  BY <1>3 DEF IInv, CompleteRunHasItsEdit
<1>7. QueuedResumeKeepsItsCheckpoint'
  BY <1>1, <1>3 DEF IInv, QueuedResumeKeepsItsCheckpoint
<1>8. QED
  BY <1>1, <1>2, <1>4, <1>5, <1>6, <1>7 DEF IInv

\* A checkpoint is published or cleared while no resume of its run is queued.
LEMMA CheckpointStep ==
  ASSUME IInv, NEW r \in Runs, NEW c \in Checkpoints \cup {Nil}, runStatus[r] # "absent",
         \A a \in Attempts : attOwner[a] = r => attStatus[a] # "queued",
         checkpoint' = [checkpoint EXCEPT ![r] = c],
         UNCHANGED <<projects, runStatus, editOrigin, variantStatus, attemptVars, jobVars>>
  PROVE  IInv'
<1>1. /\ AttemptTypes' /\ JobMirrorsAttempt' /\ OneActiveAttempt' /\ PinsAreOfRuns'
      /\ UNCHANGED <<attOwner, attStatus, attPin>>
  BY OwnerRowsStep
<1>2. TypeOK'
  BY <1>1 DEF IInv, TypeOK, AttemptTypes
<1>3. \A q \in Runs : checkpoint'[q] = IF q = r THEN c ELSE checkpoint[q]
  BY DEF IInv, TypeOK
<1>4. OwnerFollowsLatestAttempt' /\ CompleteRunHasItsEdit'
  BY <1>1 DEF IInv, OwnerFollowsLatestAttempt, IsLatest, CompleteRunHasItsEdit
<1>5. NoOrphanRows'
  BY <1>1, <1>3 DEF IInv, NoOrphanRows
<1>6. QueuedResumeKeepsItsCheckpoint'
  BY <1>1, <1>3 DEF IInv, QueuedResumeKeepsItsCheckpoint, PinsAreOfRuns
<1>7. QED
  BY <1>1, <1>2, <1>4, <1>5, <1>6 DEF IInv

LEMMA VariantUnavailableStep ==
  ASSUME IInv, NEW v \in Variants, VariantUnavailable(v)
  PROVE  IInv'
<1>1. /\ AttemptTypes' /\ JobMirrorsAttempt' /\ OneActiveAttempt' /\ PinsAreOfRuns'
      /\ UNCHANGED <<attOwner, attStatus, attPin>>
  BY OwnerRowsStep DEF VariantUnavailable
<1>2. TypeOK'
  BY <1>1 DEF IInv, TypeOK, AttemptTypes, VariantUnavailable, VariantStatus
<1>3. /\ UNCHANGED <<projects, runStatus, editOrigin, checkpoint>> /\ variantStatus[v] = "ready"
      /\ \A u \in Variants : variantStatus'[u] = IF u = v THEN "unavailable" ELSE variantStatus[u]
  BY DEF IInv, TypeOK, VariantUnavailable
<1>4. OwnerFollowsLatestAttempt'
  <2> SUFFICES ASSUME NEW a \in Attempts, attStatus[a] # "absent", IsLatest(a)
               PROVE  /\ attOwner[a] \in Runs => runStatus[attOwner[a]] = RunStatusOf(attStatus[a])
                      /\ attOwner[a] \in Variants =>
                           variantStatus'[attOwner[a]] \in VariantStatusesOf(attStatus[a])
    BY <1>1, <1>3 DEF OwnerFollowsLatestAttempt, IsLatest
  <2>1. CASE attOwner[a] = v
    <3>1. "ready" \in VariantStatusesOf(attStatus[a]) /\ attStatus[a] \in AttemptStatus
      BY <1>3, <2>1 DEF IInv, OwnerFollowsLatestAttempt, TypeOK
    <3>2. attStatus[a] = "complete"
      BY <3>1 DEF VariantStatusesOf, AttemptStatus, ActiveStatuses, ClaimedStatuses, TerminalStatuses
    <3>3. "unavailable" \in VariantStatusesOf("complete")
      BY DEF VariantStatusesOf, ClaimedStatuses
    <3>4. QED
      BY <1>3, <2>1, <3>2, <3>3, StoreAssumption
  <2>2. CASE attOwner[a] # v
    BY <1>3, <2>2 DEF IInv, OwnerFollowsLatestAttempt
  <2>3. QED
    BY <2>1, <2>2
<1>5. NoOrphanRows'
  BY <1>1, <1>3 DEF IInv, NoOrphanRows
<1>6. CompleteRunHasItsEdit' /\ QueuedResumeKeepsItsCheckpoint'
  BY <1>1, <1>3 DEF IInv, CompleteRunHasItsEdit, QueuedResumeKeepsItsCheckpoint
<1>7. QED
  BY <1>1, <1>2, <1>4, <1>5, <1>6 DEF IInv

-----------------------------------------------------------------------------
(* The invariant holds initially and is preserved by every step. *)

LEMMA InitIInv == Init => IInv
<1> SUFFICES ASSUME Init PROVE IInv
  OBVIOUS
<1>1. TypeOK
  BY StoreAssumption DEF Init, TypeOK
<1>2. \A a \in Attempts : attOwner[a] = Nil /\ attStatus[a] = "absent" /\ attPin[a] = Nil
  BY DEF Init
<1>3. JobMirrorsAttempt
  BY DEF Init, JobMirrorsAttempt
<1>4. OneActiveAttempt /\ OwnerFollowsLatestAttempt
  BY <1>2, StatusSets DEF OneActiveAttempt, OwnerFollowsLatestAttempt
<1>5. NoOrphanRows
  BY <1>2, StoreAssumption DEF Init, NoOrphanRows, Owners
<1>6. CompleteRunHasItsEdit
  BY DEF Init, CompleteRunHasItsEdit
<1>7. QueuedResumeKeepsItsCheckpoint /\ PinsAreOfRuns
  BY <1>2 DEF QueuedResumeKeepsItsCheckpoint, PinsAreOfRuns
<1>8. QED
  BY <1>1, <1>3, <1>4, <1>5, <1>6, <1>7 DEF IInv

\* The families that deletions remove are families of owners.
LEMMA Families ==
  /\ \A r \in Runs : RunFamily(r) \subseteq Runs \cup Variants
  /\ \A p \in Projects : ProjectFamily(p) \subseteq Runs \cup Variants
  /\ \A r \in Runs : \A v \in Variants : VariantRun(v) \in RunFamily(r) => v \in RunFamily(r)
  /\ \A p \in Projects : \A v \in Variants :
       VariantRun(v) \in ProjectFamily(p) => v \in ProjectFamily(p)
  /\ \A p \in Projects : \A r \in Runs : r \in ProjectFamily(p) <=> RunProject[r] = p
<1>1. \A v \in Variants : VariantRun(v) \in Runs
  BY StoreAssumption DEF VariantRun
<1>2. \A r, q \in Runs : q \in RunFamily(r) <=> q = r
  BY StoreAssumption DEF RunFamily
<1>3. \A p \in Projects : \A r \in Runs : r \in ProjectFamily(p) <=> RunProject[r] = p
  BY <1>2 DEF ProjectFamily
<1>4. \A r \in Runs : \A v \in Variants : VariantRun(v) \in RunFamily(r) => v \in RunFamily(r)
  BY <1>1, <1>2 DEF RunFamily
<1>5. \A p \in Projects : \A v \in Variants :
        VariantRun(v) \in ProjectFamily(p) => v \in ProjectFamily(p)
  BY <1>1, <1>3 DEF ProjectFamily, RunFamily
<1>6. QED
  BY <1>3, <1>4, <1>5 DEF RunFamily, ProjectFamily

LEMMA ProjectStepIInv == IInv /\ ProjectStep => IInv'
<1> SUFFICES ASSUME IInv, ProjectStep PROVE IInv'
  OBVIOUS
<1>1. ASSUME NEW p \in Projects, CreateProject(p) PROVE IInv'
  BY <1>1, CreateProjectStep
<1>2. ASSUME NEW p \in Projects, DeleteProject(p) PROVE IInv'
  <2>1. ProjectFamily(p) \in SUBSET Owners
    BY Families DEF Owners
  <2>2. projects' \subseteq Projects
    BY <1>2 DEF DeleteProject, IInv, TypeOK
  <2>3. \A r \in Runs : r \notin ProjectFamily(p) /\ RunProject[r] \in projects
          => RunProject[r] \in projects'
    BY <1>2, Families DEF DeleteProject
  <2>4. QED
    BY <1>2, <2>1, <2>2, <2>3, Families, DeleteStep DEF DeleteProject
<1>3. ASSUME NEW r \in Runs, CreateRun(r) PROVE IInv'
  BY <1>3, QueueRunStep DEF CreateRun
<1>4. ASSUME NEW source \in Runs, NEW r \in Runs, CreateRunAgain(source, r) PROVE IInv'
  <2>1. RunProject[r] \in projects
    BY <1>4 DEF CreateRunAgain, IInv, NoOrphanRows
  <2>2. QED
    BY <1>4, <2>1, QueueRunStep DEF CreateRunAgain
<1>5. ASSUME NEW r \in Runs, NEW c \in Checkpoints, ResumeRun(r, c) PROVE IInv'
  <2>1. RunProject[r] \in projects /\ c \in {Nil, checkpoint[r]}
    BY <1>5 DEF ResumeRun, IInv, NoOrphanRows
  <2>2. QED
    BY <1>5, <2>1, QueueRunStep DEF ResumeRun
<1>6. ASSUME NEW r \in Runs, RetryRun(r) PROVE IInv'
  <2>1. RunProject[r] \in projects
    BY <1>6 DEF RetryRun, IInv, NoOrphanRows
  <2>2. QED
    BY <1>6, <2>1, QueueRunStep DEF RetryRun
<1>7. ASSUME NEW r \in Runs, ClearRunCheckpoint(r) PROVE IInv'
  <2>1. \A a \in Attempts : attOwner[a] = r => attStatus[a] # "queued"
    BY <1>7, IdleRun, StatusSets DEF ClearRunCheckpoint, ActiveAttempts
  <2>2. QED
    BY <1>7, <2>1, CheckpointStep DEF ClearRunCheckpoint
<1>8. ASSUME NEW r \in Runs, DeleteRun(r) PROVE IInv'
  <2>1. RunFamily(r) \in SUBSET Owners /\ projects' = projects /\ projects \subseteq Projects
    BY <1>8, Families DEF DeleteRun, IInv, TypeOK, Owners
  <2>2. QED
    BY <1>8, <2>1, Families, DeleteStep DEF DeleteRun
<1>9. ASSUME NEW source \in Edits, NEW e \in Edits, CreateRevision(source, e) PROVE IInv'
  BY <1>9, CreateRevisionStep
<1>10. QED
  BY <1>1, <1>2, <1>3, <1>4, <1>5, <1>6, <1>7, <1>8, <1>9 DEF ProjectStep

LEMMA RunStepIInv == IInv /\ RunStep => IInv'
<1> SUFFICES ASSUME IInv, NEW r \in Runs, NEW a \in Attempts,
                    \/ \E e \in Edits : CompleteRun(r, a, e)
                    \/ \E c \in Checkpoints : PublishRunCheckpoint(r, a, c)
             PROVE  IInv'
  BY DEF RunStep
<1>1. ASSUME NEW e \in Edits, CompleteRun(r, a, e) PROVE IInv'
  BY <1>1, CompleteRunStep
<1>2. ASSUME NEW c \in Checkpoints, PublishRunCheckpoint(r, a, c) PROVE IInv'
  <2>1. ASSUME NEW b \in Attempts, attOwner[b] = r, attStatus[b] = "queued" PROVE FALSE
    <3>1. attStatus[a] \in ActiveStatuses /\ attStatus[b] \in ActiveStatuses /\ attOwner[a] = r
      BY <1>2, <2>1, StatusSets DEF PublishRunCheckpoint
    <3>2. a = b
      BY <2>1, <3>1, ActiveOwner, ActiveIsLatest DEF IInv
    <3>3. QED
      BY <1>2, <2>1, <3>2, StatusSets DEF PublishRunCheckpoint
  <2>2. QED
    BY <1>2, <2>1, CheckpointStep DEF PublishRunCheckpoint
<1>3. QED
  BY <1>1, <1>2

LEMMA VariantStepIInv == IInv /\ VariantStep => IInv'
<1> SUFFICES ASSUME IInv, NEW v \in Variants,
                    \/ CreateRenderVariant(v) \/ RetryRenderVariant(v) \/ DeleteRenderVariant(v)
                    \/ MarkRenderUnavailable(v) \/ RecordRenderVerification(v)
                    \/ \E a \in Attempts : CompleteRenderVariant(v, a)
             PROVE  IInv'
  BY DEF VariantStep
<1>1. CASE CreateRenderVariant(v)
  BY <1>1, QueueVariantStep DEF CreateRenderVariant
<1>2. CASE RetryRenderVariant(v)
  <2>1. variantStatus[v] \notin {"queued", "rendering"} /\ editOrigin[VariantEdit[v]] # "absent"
    BY <1>2 DEF RetryRenderVariant, IInv, NoOrphanRows
  <2>2. QED
    BY <1>2, <2>1, QueueVariantStep DEF RetryRenderVariant
<1>3. CASE DeleteRenderVariant(v)
  <2>1. {v} \in SUBSET Owners /\ projects' = projects /\ projects \subseteq Projects
    BY <1>3 DEF DeleteRenderVariant, IInv, TypeOK, Owners
  <2>2. \A u \in Variants : VariantRun(u) \notin {v}
    BY StoreAssumption DEF VariantRun
  <2>3. QED
    BY <1>3, <2>1, <2>2, DeleteStep DEF DeleteRenderVariant
<1>4. CASE MarkRenderUnavailable(v) \/ RecordRenderVerification(v)
  BY <1>4, VariantUnavailableStep DEF MarkRenderUnavailable, RecordRenderVerification
<1>5. ASSUME NEW a \in Attempts, CompleteRenderVariant(v, a) PROVE IInv'
  BY <1>5, CompleteVariantStep
<1>6. QED
  BY <1>1, <1>2, <1>3, <1>4, <1>5

LEMMA MaterialStepIInv == IInv /\ MaterialStep => IInv'
<1> SUFFICES ASSUME IInv, NEW m \in Materials,
                    EnqueueMaterialAnalysis(m) \/ RequeueMaterialAnalysis(m) \/ PurgeMaterialAttempts(m)
             PROVE  IInv'
  BY DEF MaterialStep
<1>1. CASE EnqueueMaterialAnalysis(m)
  BY <1>1, QueueMaterialStep DEF EnqueueMaterialAnalysis
<1>2. CASE RequeueMaterialAnalysis(m)
  <2>1. PICK a \in Attempts : /\ attOwner[a] = m /\ IsLatest(a)
                             /\ attStatus[a] \in {"failed", "interrupted"}
    BY <1>2 DEF RequeueMaterialAnalysis
  <2>2. ASSUME NEW b \in Attempts, attOwner[b] = m, attStatus[b] \in ActiveStatuses PROVE FALSE
    <3>1. b = a
      BY <2>1, <2>2, ActiveOwner DEF IInv
    <3>2. QED
      BY <2>1, <2>2, <3>1 DEF ActiveStatuses, ClaimedStatuses
  <2>3. ActiveAttempts({m}) = {}
    BY <2>2 DEF ActiveAttempts
  <2>4. QED
    BY <1>2, <2>3, QueueMaterialStep DEF RequeueMaterialAnalysis
<1>3. CASE PurgeMaterialAttempts(m)
  <2>1. {m} \in SUBSET Owners /\ projects' = projects /\ projects \subseteq Projects
    BY <1>3 DEF PurgeMaterialAttempts, IInv, TypeOK, Owners
  <2>2. \A u \in Variants : VariantRun(u) \notin {m}
    BY StoreAssumption DEF VariantRun
  <2>3. QED
    BY <1>3, <2>1, <2>2, DeleteStep DEF PurgeMaterialAttempts
<1>4. QED
  BY <1>1, <1>2, <1>3

LEMMA JobStepIInv == IInv /\ JobStep => IInv'
<1> SUFFICES ASSUME IInv, NEW a \in Attempts,
                    \/ HeartbeatJob(a) \/ HeartbeatExpires(a)
                    \/ RequestStop(a) \/ MarkAttemptRetrying(a) \/ MarkAttemptInterrupted(a)
                    \/ MarkAttemptFailed(a) \/ CompleteMaterialAttempt(a)
                    \/ \E w \in Workers : ClaimNextJob(a, w) \/ ClaimNextSupervisedJob(a, w)
                    \/ \E s, w \in Workers : AdoptSupervisedJob(a, s, w)
             PROVE  IInv'
  BY DEF JobStep
<1>1. /\ jobWorker \in [Attempts -> Workers \cup {Nil}]
      /\ heartbeat \in [Attempts -> {"null", "fresh", "expired"}]
      /\ stopRequested \in [Attempts -> BOOLEAN]
  BY DEF IInv, TypeOK
<1>2. CASE HeartbeatJob(a) \/ HeartbeatExpires(a)
  BY <1>1, <1>2, LeaseStep DEF HeartbeatJob, HeartbeatExpires
<1>3. CASE RequestStop(a)
  <2>1. CASE attStatus[a] = "queued"
    <3>1. /\ FinishAttempts({a}, "interrupted") /\ UpdateOwnersTerminal({a}, "interrupted")
      BY <1>3, <2>1, StatusSets DEF RequestStop
    <3>2. "interrupted" \in TerminalStatuses /\ attStatus[a] \in ActiveStatuses
      BY <2>1, StatusSets DEF TerminalStatuses
    <3>3. QED
      BY <3>1, <3>2, TerminalStep
  <2>2. CASE attStatus[a] # "queued"
    <3>1. /\ attStatus[a] \in ClaimedStatuses /\ "stopping" \in ClaimedStatuses
          /\ attStatus' = [attStatus EXCEPT ![a] = "stopping"]
          /\ jobStatus' = [jobStatus EXCEPT ![a] = "stopping"]
          /\ stopRequested' = [stopRequested EXCEPT ![a] = TRUE]
          /\ UNCHANGED <<ownerVars, attOwner, attPin, created, jobWorker, heartbeat>>
      BY <1>3, <2>2 DEF RequestStop, ClaimedStatuses
    <3>2. /\ stopRequested' \in [Attempts -> BOOLEAN] /\ stopRequested'[a]
          /\ \A b \in Attempts : b # a => stopRequested'[b] = stopRequested[b]
      BY <1>1, <3>1
    <3>3. QED
      BY <3>1, <3>2, StaysClaimedStep
  <2>3. QED
    BY <2>1, <2>2
<1>4. CASE MarkAttemptRetrying(a)
  <2>1. /\ attStatus[a] \in ClaimedStatuses /\ "retrying" \in ClaimedStatuses /\ ~stopRequested[a]
        /\ attStatus' = [attStatus EXCEPT ![a] = "retrying"]
        /\ jobStatus' = [jobStatus EXCEPT ![a] = "retrying"]
        /\ stopRequested' = stopRequested
        /\ UNCHANGED <<ownerVars, attOwner, attPin, created, jobWorker, heartbeat>>
    BY <1>4 DEF MarkAttemptRetrying, ClaimedStatuses, IInv, JobMirrorsAttempt
  <2>2. QED
    BY <1>1, <2>1, StaysClaimedStep
<1>5. ASSUME NEW allowed \in SUBSET ActiveStatuses, NEW s \in TerminalStatuses,
             s = "complete" => attOwner[a] \in Materials, TransitionAttempt(a, allowed, s)
      PROVE  IInv'
  BY <1>5, TerminalStep DEF TransitionAttempt
<1>6. CASE MarkAttemptInterrupted(a)
  <2>1. "interrupted" \in TerminalStatuses
    BY DEF TerminalStatuses
  <2>2. QED
    BY <1>5, <1>6, <2>1, StatusSets DEF MarkAttemptInterrupted
<1>7. CASE MarkAttemptFailed(a)
  <2>1. "failed" \in TerminalStatuses
    BY DEF TerminalStatuses
  <2>2. QED
    BY <1>5, <1>7, <2>1, StatusSets DEF MarkAttemptFailed
<1>8. CASE CompleteMaterialAttempt(a)
  <2>1. "complete" \in TerminalStatuses
    BY DEF TerminalStatuses
  <2>2. QED
    BY <1>5, <1>8, <2>1, StatusSets DEF CompleteMaterialAttempt
<1>9. ASSUME NEW w \in Workers, ClaimNextJob(a, w) \/ ClaimNextSupervisedJob(a, w) PROVE IInv'
  BY <1>9, ClaimStep DEF ClaimNextJob, ClaimNextSupervisedJob, EligibleJobs, QueuedJobs
<1>10. ASSUME NEW s \in Workers, NEW w \in Workers, AdoptSupervisedJob(a, s, w) PROVE IInv'
  BY <1>1, <1>10, LeaseStep DEF AdoptSupervisedJob
<1>11. QED
  BY <1>2, <1>3, <1>4, <1>6, <1>7, <1>8, <1>9, <1>10

LEMMA OrphansIInv == IInv /\ InterruptOrphanedJobs => IInv'
<1> SUFFICES ASSUME IInv, InterruptOrphanedJobs PROVE IInv'
  OBVIOUS
<1> DEFINE orphans == {a \in ClaimedJobs : heartbeat[a] # "fresh"}
<1>1. /\ orphans \in SUBSET Attempts /\ \A a \in orphans : attStatus[a] \in ActiveStatuses
      /\ "interrupted" \in TerminalStatuses
  BY StatusSets DEF ClaimedJobs, TerminalStatuses
<1>2. FinishAttempts(orphans, "interrupted") /\ UpdateOwnersTerminal(orphans, "interrupted")
  BY DEF InterruptOrphanedJobs
<1>3. QED
  BY <1>1, <1>2, TerminalStep

LEMMA NextIInv == IInv /\ [Next]_vars => IInv'
<1> SUFFICES ASSUME IInv, [Next]_vars PROVE IInv'
  OBVIOUS
<1>1. CASE UNCHANGED vars
  BY <1>1 DEF IInv, TypeOK, JobMirrorsAttempt, OneActiveAttempt, OwnerFollowsLatestAttempt, IsLatest,
     NoOrphanRows, CompleteRunHasItsEdit, QueuedResumeKeepsItsCheckpoint, PinsAreOfRuns,
     vars, ownerVars, attemptVars, jobVars
<1>2. CASE Next
  BY <1>2, ProjectStepIInv, RunStepIInv, VariantStepIInv, MaterialStepIInv, JobStepIInv, OrphansIInv
  DEF Next
<1>3. QED
  BY <1>1, <1>2

\* The inductive invariant: no operation of the store, in whatever order calls
\* come, breaks the types, the agreement of jobs and attempts, the single
\* active attempt, the owners' statuses, the cascades, the runs' edits or the
\* pinned checkpoints.
THEOREM InductiveInvariant == Spec => []IInv
<1>1. Init => IInv
  BY InitIInv
<1>2. IInv /\ [Next]_vars => IInv'
  BY NextIInv
<1>3. QED
  BY <1>1, <1>2, PTL DEF Spec

\* Every column of the store's tables keeps the values its type allows.
THEOREM TypeCorrect == Spec => []TypeOK
  BY InductiveInvariant, PTL DEF IInv

\* Jobs and attempts agree, and the stop flag is raised exactly while stopping.
THEOREM JobsMirrorAttempts == Spec => []JobMirrorsAttempt
  BY InductiveInvariant, PTL DEF IInv

\* No owner ever has two active attempts, nor an active attempt behind a newer
\* one.
THEOREM AtMostOneActiveAttempt == Spec => []OneActiveAttempt
  BY InductiveInvariant, PTL DEF IInv

\* Runs and variants always show the status of their newest attempt.
THEOREM OwnersFollowLatestAttempts == Spec => []OwnerFollowsLatestAttempt
  BY InductiveInvariant, PTL DEF IInv

\* Deletions leave no row without the row it belongs to.
THEOREM RowsBelong == Spec => []NoOrphanRows
  BY InductiveInvariant, PTL DEF IInv

\* Completing a run and giving it its one initial edit is the same thing.
THEOREM CompleteRunsHaveTheirEdit == Spec => []CompleteRunHasItsEdit
  BY InductiveInvariant, PTL DEF IInv

\* A queued resume finds the checkpoint it pinned.
THEOREM QueuedResumesKeepTheirCheckpoint == Spec => []QueuedResumeKeepsItsCheckpoint
  BY InductiveInvariant, PTL DEF IInv

\* The owner of a queued job never has a claimed one, so that supervised claims
\* are first come, first served over all queued jobs.
THEOREM QueuedJobsEligible == Spec => []QueuedJobsAreEligible
<1>1. IInv => QueuedJobsAreEligible
  <2> SUFFICES ASSUME IInv, NEW a \in QueuedJobs, NEW b \in Attempts,
                      attStatus[b] \in ClaimedStatuses
               PROVE  attOwner[b] # attOwner[a]
    BY DEF QueuedJobsAreEligible, EligibleJobs
  <2>1. a \in Attempts /\ attStatus[a] = "queued"
    BY DEF QueuedJobs
  <2>2. attOwner[b] = attOwner[a] => a = b
    BY <2>1, StatusSets, ActiveOwner, ActiveIsLatest DEF IInv
  <2>3. QED
    BY <2>1, <2>2, StatusSets
<1>2. QED
  BY <1>1, InductiveInvariant, PTL

-----------------------------------------------------------------------------
(* What one step can do to an attempt. *)

\* The only changes of an attempt's status from s to t.
LegalMove(s, t) ==
  \/ t = s
  \/ s = "absent" /\ t = "queued"
  \/ s = "queued" /\ t = "running"
  \/ s = "running" /\ t = "retrying"
  \/ s \in ClaimedStatuses /\ t = "stopping"
  \/ s \in ActiveStatuses /\ t \in TerminalStatuses
  \/ s \in TerminalStatuses /\ t = "absent"

LEMMA InsertMoves ==
  ASSUME IInv, NEW o \in Owners, NEW pin \in Checkpoints \cup {Nil}, InsertAttempt(o, pin),
         NEW a \in Attempts
  PROVE  LegalMove(attStatus[a], attStatus'[a]) /\ jobWorker' = jobWorker
<1>1. /\ attStatus[created + 1] = "absent"
      /\ attStatus'[a] = IF a = created + 1 THEN "queued" ELSE attStatus[a]
  BY InsertValues, TypeParts DEF IInv
<1>2. QED
  BY <1>1 DEF LegalMove, InsertAttempt

LEMMA FinishMoves ==
  ASSUME IInv, NEW A \in SUBSET Attempts, \A b \in A : attStatus[b] \in ActiveStatuses,
         NEW s \in TerminalStatuses, FinishAttempts(A, s), NEW a \in Attempts
  PROVE  LegalMove(attStatus[a], attStatus'[a]) /\ jobWorker' = jobWorker
<1>1. attStatus'[a] = IF a \in A THEN s ELSE attStatus[a]
  BY DEF IInv, TypeOK, FinishAttempts, SetAll
<1>2. QED
  BY <1>1 DEF LegalMove, FinishAttempts

LEMMA DeleteMoves ==
  ASSUME IInv, NEW S \in SUBSET Owners, ActiveAttempts(S) = {}, DeleteFamily(S), NEW a \in Attempts
  PROVE  /\ LegalMove(attStatus[a], attStatus'[a])
         /\ jobWorker'[a] # jobWorker[a] => attStatus'[a] = "absent"
<1>1. /\ attStatus'[a] = IF attOwner[a] \in S THEN "absent" ELSE attStatus[a]
      /\ jobWorker'[a] = IF attOwner[a] \in S THEN Nil ELSE jobWorker[a]
  BY DEF IInv, TypeOK, DeleteFamily, SetAll
<1>2. attOwner[a] \in S => attStatus[a] \in TerminalStatuses
  <2>1. attStatus[a] \in AttemptStatus \cup {"absent"} /\ Nil \notin S
    BY StoreAssumption DEF IInv, TypeOK
  <2>2. attOwner[a] \in S => attStatus[a] \notin ActiveStatuses /\ attStatus[a] # "absent"
    BY <2>1 DEF ActiveAttempts, IInv, TypeOK
  <2>3. QED
    BY <2>1, <2>2 DEF AttemptStatus
<1>3. QED
  BY <1>1, <1>2 DEF LegalMove

\* The lease of an attempt is taken by a claim, handed over while the attempt is
\* running, or gone with the attempt.
LegalLease(a) ==
  jobWorker'[a] # jobWorker[a] =>
    \/ attStatus[a] = "queued" /\ attStatus'[a] = "running"
    \/ attStatus[a] = "running" /\ attStatus'[a] = "running" /\ jobWorker[a] # Nil
    \/ attStatus'[a] = "absent"

LEMMA StepMoves ==
  ASSUME IInv, Next, NEW a \in Attempts
  PROVE  LegalMove(attStatus[a], attStatus'[a]) /\ LegalLease(a)
<1> DEFINE Goal == LegalMove(attStatus[a], attStatus'[a]) /\ LegalLease(a)
<1>1. /\ attStatus \in [Attempts -> AttemptStatus \cup {"absent"}]
      /\ jobWorker \in [Attempts -> Workers \cup {Nil}]
      /\ Nil \notin Workers /\ Nil \in Checkpoints \cup {Nil}
  BY StoreAssumption DEF IInv, TypeOK
<1>2. ASSUME UNCHANGED <<attStatus, jobWorker>> PROVE Goal
  BY <1>2 DEF LegalMove, LegalLease
<1>3. ASSUME NEW o \in Owners, NEW pin \in Checkpoints \cup {Nil}, InsertAttempt(o, pin) PROVE Goal
  BY <1>3, InsertMoves DEF LegalLease
<1>4. ASSUME NEW A \in SUBSET Attempts, \A b \in A : attStatus[b] \in ActiveStatuses,
             NEW s \in TerminalStatuses, FinishAttempts(A, s)
      PROVE  Goal
  BY <1>4, FinishMoves DEF LegalLease
<1>5. ASSUME NEW S \in SUBSET Owners, ActiveAttempts(S) = {}, DeleteFamily(S) PROVE Goal
  BY <1>5, DeleteMoves DEF LegalLease
<1>6. ASSUME NEW b \in Attempts, NEW w \in Workers, attStatus[b] = "queued", ClaimJobRow(b, w)
      PROVE  Goal
  BY <1>1, <1>6 DEF ClaimJobRow, LegalMove, LegalLease
<1>7. CASE ProjectStep
  <2>1. ASSUME NEW p \in Projects, CreateProject(p) PROVE Goal
    BY <1>2, <2>1 DEF CreateProject, attemptVars, jobVars
  <2>2. ASSUME NEW p \in Projects, DeleteProject(p) PROVE Goal
    <3>1. ProjectFamily(p) \in SUBSET Owners
      BY Families DEF Owners
    <3>2. QED
      BY <1>5, <2>2, <3>1 DEF DeleteProject
  <2>3. ASSUME NEW r \in Runs, NEW pin \in Checkpoints \cup {Nil}, QueueRun(r, pin) PROVE Goal
    BY <1>3, <2>3 DEF QueueRun, Owners
  <2>4. ASSUME NEW r \in Runs, CreateRun(r) \/ RetryRun(r) PROVE Goal
    BY <1>1, <2>3, <2>4 DEF CreateRun, RetryRun
  <2>5. ASSUME NEW source \in Runs, NEW r \in Runs, CreateRunAgain(source, r) PROVE Goal
    BY <1>1, <2>3, <2>5 DEF CreateRunAgain
  <2>6. ASSUME NEW r \in Runs, NEW c \in Checkpoints, ResumeRun(r, c) PROVE Goal
    BY <2>3, <2>6 DEF ResumeRun
  <2>7. ASSUME NEW r \in Runs, ClearRunCheckpoint(r) PROVE Goal
    BY <1>2, <2>7 DEF ClearRunCheckpoint, attemptVars, jobVars
  <2>8. ASSUME NEW r \in Runs, DeleteRun(r) PROVE Goal
    <3>1. RunFamily(r) \in SUBSET Owners
      BY Families DEF Owners
    <3>2. QED
      BY <1>5, <2>8, <3>1 DEF DeleteRun
  <2>9. ASSUME NEW source \in Edits, NEW e \in Edits, CreateRevision(source, e) PROVE Goal
    BY <1>2, <2>9 DEF CreateRevision, attemptVars, jobVars
  <2>10. QED
    BY <1>7, <2>1, <2>2, <2>4, <2>5, <2>6, <2>7, <2>8, <2>9 DEF ProjectStep
<1>8. CASE RunStep
  <2>1. ASSUME NEW r \in Runs, NEW b \in Attempts, NEW e \in Edits, CompleteRun(r, b, e) PROVE Goal
    BY <1>4, <2>1, StatusSets DEF CompleteRun, ActiveStatuses, ClaimedStatuses, TerminalStatuses
  <2>2. ASSUME NEW r \in Runs, NEW b \in Attempts, NEW c \in Checkpoints,
               PublishRunCheckpoint(r, b, c)
        PROVE  Goal
    BY <1>2, <2>2 DEF PublishRunCheckpoint, attemptVars, jobVars
  <2>3. QED
    BY <1>8, <2>1, <2>2 DEF RunStep
<1>9. CASE VariantStep
  <2>1. ASSUME NEW v \in Variants, CreateRenderVariant(v) \/ RetryRenderVariant(v) PROVE Goal
    BY <1>1, <1>3, <2>1 DEF CreateRenderVariant, RetryRenderVariant, QueueVariant, Owners
  <2>2. ASSUME NEW v \in Variants, DeleteRenderVariant(v) PROVE Goal
    BY <1>5, <2>2 DEF DeleteRenderVariant, Owners
  <2>3. ASSUME NEW v \in Variants, MarkRenderUnavailable(v) \/ RecordRenderVerification(v) PROVE Goal
    BY <1>2, <2>3 DEF MarkRenderUnavailable, RecordRenderVerification, VariantUnavailable,
       attemptVars, jobVars
  <2>4. ASSUME NEW v \in Variants, NEW b \in Attempts, CompleteRenderVariant(v, b) PROVE Goal
    BY <1>4, <2>4, StatusSets DEF CompleteRenderVariant, TerminalStatuses
  <2>5. QED
    BY <1>9, <2>1, <2>2, <2>3, <2>4 DEF VariantStep
<1>10. CASE MaterialStep
  <2>1. ASSUME NEW m \in Materials, EnqueueMaterialAnalysis(m) \/ RequeueMaterialAnalysis(m)
        PROVE  Goal
    BY <1>1, <1>3, <2>1 DEF EnqueueMaterialAnalysis, RequeueMaterialAnalysis, Owners
  <2>2. ASSUME NEW m \in Materials, PurgeMaterialAttempts(m) PROVE Goal
    BY <1>5, <2>2 DEF PurgeMaterialAttempts, Owners
  <2>3. QED
    BY <1>10, <2>1, <2>2 DEF MaterialStep
<1>11. CASE JobStep
  <2>1. ASSUME NEW b \in Attempts, HeartbeatJob(b) \/ HeartbeatExpires(b) PROVE Goal
    BY <1>2, <2>1 DEF HeartbeatJob, HeartbeatExpires, attemptVars
  <2>2. ASSUME NEW b \in Attempts, RequestStop(b) PROVE Goal
    <3>1. CASE FinishAttempts({b}, "interrupted") /\ attStatus[b] = "queued"
      BY <1>4, <3>1, StatusSets DEF TerminalStatuses
    <3>2. CASE /\ attStatus[b] \in ClaimedStatuses
               /\ attStatus' = [attStatus EXCEPT ![b] = "stopping"] /\ jobWorker' = jobWorker
      BY <1>1, <3>2 DEF LegalMove, LegalLease
    <3>3. QED
      BY <2>2, <3>1, <3>2 DEF RequestStop
  <2>3. ASSUME NEW b \in Attempts, MarkAttemptRetrying(b) PROVE Goal
    BY <1>1, <2>3 DEF MarkAttemptRetrying, LegalMove, LegalLease
  <2>4. ASSUME NEW b \in Attempts, MarkAttemptInterrupted(b) \/ MarkAttemptFailed(b) PROVE Goal
    BY <1>4, <2>4, StatusSets
    DEF MarkAttemptInterrupted, MarkAttemptFailed, TransitionAttempt, TerminalStatuses
  <2>5. ASSUME NEW b \in Attempts, CompleteMaterialAttempt(b) PROVE Goal
    BY <1>4, <2>5, StatusSets DEF CompleteMaterialAttempt, TransitionAttempt, TerminalStatuses
  <2>6. ASSUME NEW b \in Attempts, NEW w \in Workers, ClaimNextJob(b, w) \/ ClaimNextSupervisedJob(b, w)
        PROVE  Goal
    BY <1>6, <2>6 DEF ClaimNextJob, ClaimNextSupervisedJob, EligibleJobs, QueuedJobs
  <2>7. ASSUME NEW b \in Attempts, NEW s \in Workers, NEW w \in Workers, AdoptSupervisedJob(b, s, w)
        PROVE  Goal
    BY <1>1, <2>7 DEF AdoptSupervisedJob, attemptVars, LegalMove, LegalLease
  <2>8. QED
    BY <1>11, <2>1, <2>2, <2>3, <2>4, <2>5, <2>6, <2>7 DEF JobStep
<1>12. CASE InterruptOrphanedJobs
  <2> DEFINE orphans == {b \in ClaimedJobs : heartbeat[b] # "fresh"}
  <2>1. orphans \in SUBSET Attempts /\ \A b \in orphans : attStatus[b] \in ActiveStatuses
    BY StatusSets DEF ClaimedJobs
  <2>2. FinishAttempts(orphans, "interrupted") /\ "interrupted" \in TerminalStatuses
    BY <1>12 DEF InterruptOrphanedJobs, TerminalStatuses
  <2>3. QED
    BY <1>4, <2>1, <2>2
<1>13. QED
  BY <1>7, <1>8, <1>9, <1>10, <1>11, <1>12 DEF Next

\* Ranks grow along legal moves, deletion apart.
LEMMA MovesRank ==
  ASSUME NEW s, NEW t, LegalMove(s, t)
  PROVE  t = s \/ (t = "absent" /\ s \in TerminalStatuses) \/ Rank(s) < Rank(t)
<1>1. /\ Rank("absent") = 0 /\ Rank("queued") = 1 /\ Rank("running") = 2
      /\ Rank("retrying") = 3 /\ Rank("stopping") = 4
  BY Zenon DEF Rank
<1>2. Rank("interrupted") = 5 /\ Rank("complete") = 5 /\ Rank("failed") = 5
  BY Zenon DEF Rank
<1>3. QED
  BY <1>1, <1>2 DEF LegalMove, ClaimedStatuses, ActiveStatuses, TerminalStatuses

\* An attempt's life is one way, whatever the order of operations.
THEOREM AttemptsMoveForward == Spec => AttemptMovesForward
<1> DEFINE A == \A a \in Attempts :
                  \/ attStatus'[a] = attStatus[a]
                  \/ attStatus'[a] = "absent" /\ attStatus[a] \in TerminalStatuses
                  \/ Rank(attStatus[a]) < Rank(attStatus'[a])
<1>1. IInv /\ [Next]_vars => [A]_vars
  BY StepMoves, MovesRank
<1>2. QED
  BY <1>1, InductiveInvariant, PTL DEF Spec, AttemptMovesForward

\* No deletion, cascade included, takes the row of an active attempt away.
THEOREM ActiveAttemptsSurvive == Spec => ActiveAttemptSurvives
<1> DEFINE A == \A a \in Attempts : attStatus[a] \in ActiveStatuses => attStatus'[a] # "absent"
<1>1. IInv /\ [Next]_vars => [A]_vars
  BY StepMoves, StatusSets DEF LegalMove
<1>2. QED
  BY <1>1, InductiveInvariant, PTL DEF Spec, ActiveAttemptSurvives

\* A lease changes hands only by a claim of a queued attempt or by an adoption
\* of a running one.
THEOREM LeasesChangeWhileRunning == Spec => LeaseChangesOnlyWhileRunning
<1> DEFINE A == \A a \in Attempts : jobWorker'[a] # jobWorker[a] =>
                  \/ attStatus[a] = "queued" /\ attStatus'[a] = "running"
                  \/ attStatus[a] = "running" /\ attStatus'[a] = "running" /\ jobWorker[a] # Nil
                  \/ attStatus'[a] = "absent"
<1>1. IInv /\ [Next]_vars => [A]_vars
  BY StepMoves DEF LegalLease
<1>2. QED
  BY <1>1, InductiveInvariant, PTL DEF Spec, LeaseChangesOnlyWhileRunning
-----------------------------------------------------------------------------
(* The store implements ExecutionSlots.  Every operation of it is one of   *)
(* six kinds as far as slots are concerned; each kind gets a lemma, and    *)
(* the cases of Next are sorted among them.  What an active attempt's slot *)
(* looks like follows from the inductive invariant, before and after a     *)
(* step alike.                                                             *)


\* What is seen of a slot whose attempt has status s.
Shown(s) == IF s = "queued" THEN "queued" ELSE IF s = "stopping" THEN "stopping" ELSE "working"

ActivePhases ==
  \A a \in Attempts : attStatus[a] \in ActiveStatuses =>
    /\ attOwner[a] \in Owners
    /\ Doing(attOwner[a], ActiveStatuses) = {a}
    /\ PhaseOf(attOwner[a]) = Shown(attStatus[a])

\* The slot of an active attempt holds it and shows its status.
LEMMA SeenPhases == IInv => ActivePhases
<1> SUFFICES ASSUME IInv, NEW a \in Attempts, attStatus[a] \in ActiveStatuses
             PROVE  /\ attOwner[a] \in Owners
                    /\ Doing(attOwner[a], ActiveStatuses) = {a}
                    /\ PhaseOf(attOwner[a]) = Shown(attStatus[a])
  BY DEF ActivePhases
<1> DEFINE o == attOwner[a]
<1>1. o \in Owners /\ attStatus[a] # "absent"
  BY StatusSets DEF IInv, TypeOK
<1>2. IsLatest(a)
  BY ActiveIsLatest DEF IInv
<1>3. Doing(o, ActiveStatuses) = {a}
  BY <1>2, ActiveIsLatest, LatestIsUnique DEF Doing, IInv
<1>4. \A S : S \subseteq ActiveStatuses => Doing(o, S) = IF attStatus[a] \in S THEN {a} ELSE {}
  BY <1>3 DEF Doing
<1>5. /\ Doing(o, {"queued"}) = IF attStatus[a] = "queued" THEN {a} ELSE {}
      /\ Doing(o, ClaimedStatuses) = IF attStatus[a] \in ClaimedStatuses THEN {a} ELSE {}
      /\ Doing(o, {"stopping"}) = IF attStatus[a] = "stopping" THEN {a} ELSE {}
  <2>1. /\ {"queued"} \subseteq ActiveStatuses /\ {"stopping"} \subseteq ActiveStatuses
        /\ ClaimedStatuses \subseteq ActiveStatuses
    BY DEF ActiveStatuses, ClaimedStatuses
  <2>2. QED
    BY <1>4, <2>1
<1>6. attStatus[a] = "queued" \/ attStatus[a] \in ClaimedStatuses
  BY DEF ActiveStatuses
<1>7. attStatus[a] \in ClaimedStatuses =>
        attStatus[a] # "queued" /\ Claimed(o) = Shown(attStatus[a])
  BY <1>5 DEF Claimed, Shown, ClaimedStatuses
<1>8. PhaseOf(o) = Shown(attStatus[a])
  <2>1. CASE o \in Runs
    <3>1. runStatus[o] = RunStatusOf(attStatus[a])
      BY <1>1, <1>2, <2>1 DEF IInv, OwnerFollowsLatestAttempt
    <3>2. CASE attStatus[a] = "queued"
      BY <2>1, <3>1, <3>2, QueuedOwners DEF PhaseOf, RunPhase, Shown
    <3>3. CASE attStatus[a] \in ClaimedStatuses
      BY <1>7, <2>1, <3>1, <3>3, ClaimedOwners DEF PhaseOf, RunPhase
    <3>4. QED
      BY <1>6, <3>2, <3>3
  <2>2. CASE o \in Variants
    <3>1. variantStatus[o] \in VariantStatusesOf(attStatus[a]) /\ o \notin Runs
      BY <1>1, <1>2, <2>2, StoreAssumption DEF IInv, OwnerFollowsLatestAttempt
    <3>2. CASE attStatus[a] = "queued"
      BY <2>2, <3>1, <3>2, QueuedOwners DEF PhaseOf, VariantPhase, Shown
    <3>3. CASE attStatus[a] \in ClaimedStatuses
      BY <1>7, <2>2, <3>1, <3>3, ClaimedOwners DEF PhaseOf, VariantPhase
    <3>4. QED
      BY <1>6, <3>2, <3>3
  <2>3. CASE o \notin Runs \cup Variants
    BY <1>5, <1>6, <1>7, <2>3 DEF PhaseOf, MaterialPhase, Shown
  <2>4. QED
    BY <2>1, <2>2, <2>3
<1>9. QED
  BY <1>1, <1>3, <1>8

\* The same after a step.
LEMMA SeenPhasesNext == IInv' => ActivePhases'
  BY SeenPhases, PTL

-----------------------------------------------------------------------------
(* What a step leaves alone. *)

\* The rows and attempts of slot q are as they were.
Untouched(q) ==
  /\ \A b \in Attempts : attOwner'[b] = q <=> attOwner[b] = q
  /\ \A b \in Attempts : attOwner[b] = q => attStatus'[b] = attStatus[b]
  /\ q \in Runs => runStatus'[q] = runStatus[q]
  /\ q \in Variants => variantStatus'[q] = variantStatus[q]

LEMMA UntouchedSlot ==
  ASSUME NEW q \in Owners, Untouched(q)
  PROVE  Holds'[q] = Holds[q] /\ Phase'[q] = Phase[q]
<1>1. /\ Doing(q, ActiveStatuses)' = Doing(q, ActiveStatuses)
      /\ Doing(q, ClaimedStatuses)' = Doing(q, ClaimedStatuses)
      /\ Doing(q, TerminalStatuses)' = Doing(q, TerminalStatuses)
      /\ Doing(q, {"queued"})' = Doing(q, {"queued"})
      /\ Doing(q, {"stopping"})' = Doing(q, {"stopping"})
  BY DEF Untouched, Doing
<1>2. PhaseOf(q)' = PhaseOf(q)
  BY <1>1 DEF Untouched, PhaseOf, RunPhase, VariantPhase, MaterialPhase, Claimed
<1>3. QED
  BY <1>1, <1>2 DEF Holds, Phase

\* Two functions on the slots are equal when they agree on each.
LEMMA SlotFunctions ==
  ASSUME NEW f, NEW g, f = [o \in Owners |-> f[o]], g = [o \in Owners |-> g[o]],
         \A o \in Owners : f[o] = g[o]
  PROVE  f = g
<1>1. [o \in Owners |-> f[o]] = [o \in Owners |-> g[o]]
  OBVIOUS
<1>2. QED
  BY <1>1

LEMMA HoldsAndPhase ==
  /\ Holds = [o \in Owners |-> Holds[o]] /\ Holds' = [o \in Owners |-> Holds'[o]]
  /\ Phase = [o \in Owners |-> Phase[o]] /\ Phase' = [o \in Owners |-> Phase'[o]]
  /\ \A o \in Owners : Holds[o] = Doing(o, ActiveStatuses) /\ Phase[o] = PhaseOf(o)
  /\ \A o \in Owners : Holds'[o] = Doing(o, ActiveStatuses)' /\ Phase'[o] = PhaseOf(o)'
  BY DEF Holds, Phase

-----------------------------------------------------------------------------
(* The kinds of steps. *)

\* A new attempt of an owner without an active one is a submission.
LEMMA SubmitStep ==
  ASSUME IInv, IInv', NEW o \in Owners, NEW pin \in Checkpoints \cup {Nil},
         InsertAttempt(o, pin), ActiveAttempts({o}) = {},
         \A q \in Runs : q # o => runStatus'[q] = runStatus[q],
         \A q \in Variants : q # o => variantStatus'[q] = variantStatus[q]
  PROVE  Slot!Submit(o)
<1> DEFINE a == created + 1
<1>1. /\ a \in Attempts /\ attOwner[a] = Nil /\ o # Nil
      /\ \A b \in Attempts : attOwner'[b] = IF b = a THEN o ELSE attOwner[b]
      /\ \A b \in Attempts : attStatus'[b] = IF b = a THEN "queued" ELSE attStatus[b]
  BY InsertValues, TypeParts, StoreAssumption DEF IInv
<1>2. Holds'[o] = {a} /\ Phase'[o] = "queued"
  <2>1. attStatus'[a] \in ActiveStatuses /\ attOwner'[a] = o /\ attStatus'[a] = "queued"
    BY <1>1, StatusSets
  <2>2. Doing(o, ActiveStatuses)' = {a} /\ PhaseOf(o)' = "queued"
    BY <1>1, <2>1, SeenPhasesNext DEF ActivePhases, Shown
  <2>3. QED
    BY <2>2, HoldsAndPhase
<1>3. ASSUME NEW q \in Owners, q # o PROVE Holds'[q] = Holds[q] /\ Phase'[q] = Phase[q]
  <2>1. q # Nil
    BY StoreAssumption
  <2>2. Untouched(q)
    BY <1>1, <1>3, <2>1 DEF Untouched
  <2>3. QED
    BY <2>2, UntouchedSlot
<1>4. Holds[o] = {}
  BY HoldsAndPhase DEF Doing, ActiveAttempts
<1>5. Holds' = [Holds EXCEPT ![o] = {a}] /\ Phase' = [Phase EXCEPT ![o] = "queued"]
  BY <1>2, <1>3, HoldsAndPhase
<1>6. created' = created + 1
  BY DEF InsertAttempt
<1>7. QED
  BY <1>4, <1>5, <1>6 DEF Slot!Submit

\* An attempt that stays active moves its slot from phase to phase.
LEMMA ContinueStep ==
  ASSUME IInv, IInv', NEW a \in Attempts, NEW s \in ActiveStatuses,
         attStatus[a] \in ActiveStatuses, attStatus' = [attStatus EXCEPT ![a] = s],
         attOwner' = attOwner, created' = created,
         \A q \in Runs : q # attOwner[a] => runStatus'[q] = runStatus[q],
         \A q \in Variants : q # attOwner[a] => variantStatus'[q] = variantStatus[q]
  PROVE  /\ attOwner[a] \in Owners
         /\ Holds' = Holds /\ created' = created
         /\ Phase[attOwner[a]] = Shown(attStatus[a])
         /\ Phase' = [Phase EXCEPT ![attOwner[a]] = Shown(s)]
<1> DEFINE o == attOwner[a]
<1>1. \A b \in Attempts : attStatus'[b] = IF b = a THEN s ELSE attStatus[b]
  BY DEF IInv, TypeOK
<1>2. o \in Owners /\ Doing(o, ActiveStatuses) = {a} /\ PhaseOf(o) = Shown(attStatus[a])
  BY SeenPhases DEF ActivePhases
<1>3. Doing(o, ActiveStatuses)' = {a} /\ PhaseOf(o)' = Shown(s)
  <2>1. attStatus'[a] = s /\ attOwner'[a] = o
    BY <1>1
  <2>2. QED
    BY <2>1, SeenPhasesNext DEF ActivePhases
<1>4. ASSUME NEW q \in Owners, q # o PROVE Holds'[q] = Holds[q] /\ Phase'[q] = Phase[q]
  <2>1. Untouched(q)
    BY <1>1, <1>4 DEF Untouched
  <2>2. QED
    BY <2>1, UntouchedSlot
<1>5. Holds' = Holds
  <2>1. \A q \in Owners : Holds'[q] = Holds[q]
    BY <1>2, <1>3, <1>4, HoldsAndPhase
  <2>2. QED
    BY <2>1, HoldsAndPhase, SlotFunctions
<1>6. Phase' = [Phase EXCEPT ![o] = Shown(s)]
  BY <1>2, <1>3, <1>4, HoldsAndPhase
<1>7. QED
  BY <1>2, <1>5, <1>6, HoldsAndPhase

LEMMA ClaimSlotStep ==
  ASSUME IInv, IInv', NEW a \in Attempts, NEW w, attStatus[a] = "queued", ClaimJobRow(a, w)
  PROVE  \E o \in Owners : Slot!Claim(o)
<1> DEFINE o == attOwner[a]
<1>1. "running" \in ActiveStatuses /\ "queued" \in ActiveStatuses
  BY DEF ActiveStatuses, ClaimedStatuses
<1>2. /\ \A q \in Runs : q # o => runStatus'[q] = runStatus[q]
      /\ \A q \in Variants : q # o => variantStatus'[q] = variantStatus[q]
  BY DEF ClaimJobRow, SetAll, IInv, TypeOK
<1>3. /\ attStatus' = [attStatus EXCEPT ![a] = "running"]
      /\ attOwner' = attOwner /\ created' = created
  BY DEF ClaimJobRow
<1>4. /\ o \in Owners /\ Holds' = Holds /\ created' = created
      /\ Phase[o] = Shown("queued") /\ Phase' = [Phase EXCEPT ![o] = Shown("running")]
  BY <1>1, <1>2, <1>3, ContinueStep
<1>5. Shown("queued") = "queued" /\ Shown("running") = "working"
  BY DEF Shown
<1>6. QED
  BY <1>4, <1>5 DEF Slot!Claim, Slot!Moves

\* A claimed attempt that is told to stop or retries: the slot stops, or nothing
\* is to be seen of it.
LEMMA ClaimedSlotStep ==
  ASSUME IInv, IInv', NEW a \in Attempts, NEW s \in ClaimedStatuses,
         attStatus[a] \in ClaimedStatuses, attStatus' = [attStatus EXCEPT ![a] = s],
         s = "stopping" \/ attStatus[a] # "stopping",
         UNCHANGED <<ownerVars, attOwner, created>>
  PROVE  (\E o \in Owners : Slot!AskToStop(o)) \/ UNCHANGED Slot!slotVars
<1> DEFINE o == attOwner[a]
<1>1. s \in ActiveStatuses /\ attStatus[a] \in ActiveStatuses
  BY StatusSets
<1>2. /\ o \in Owners /\ Holds' = Holds /\ created' = created
      /\ Phase[o] = Shown(attStatus[a]) /\ Phase' = [Phase EXCEPT ![o] = Shown(s)]
  BY <1>1, ContinueStep DEF ownerVars
<1>3. CASE Shown(s) = Shown(attStatus[a])
  <2>1. Phase' = Phase
    BY <1>2, <1>3, HoldsAndPhase
  <2>2. QED
    BY <1>2, <2>1 DEF Slot!slotVars
<1>4. CASE Shown(s) # Shown(attStatus[a])
  <2>1. Shown(s) = "stopping" /\ Shown(attStatus[a]) = "working"
    BY <1>4 DEF Shown, ClaimedStatuses
  <2>2. QED
    BY <1>2, <2>1 DEF Slot!AskToStop, Slot!Moves
<1>5. QED
  BY <1>3, <1>4

\* The attempts in A end with status s, and so do the rows of their owners.
LEMMA EndStep ==
  ASSUME IInv, IInv', NEW A \in SUBSET Attempts, NEW s \in TerminalStatuses,
         \A a \in A : attStatus[a] \in ActiveStatuses,
         s = "complete" => \A a \in A : attStatus[a] # "queued",
         FinishAttempts(A, s),
         \A q \in Runs : runStatus'[q] = IF \E a \in A : attOwner[a] = q THEN s ELSE runStatus[q],
         \A q \in Variants :
           IF \E a \in A : attOwner[a] = q
             THEN variantStatus'[q] = IF s = "complete" THEN "ready" ELSE s
             ELSE variantStatus'[q] = variantStatus[q]
  PROVE  \E S \in SUBSET Owners : \E how \in Slot!Outcomes : Slot!End(S, how)
<1> DEFINE S == {attOwner[a] : a \in A}
<1>1. /\ attOwner' = attOwner /\ created' = created
      /\ \A b \in Attempts : attStatus'[b] = IF b \in A THEN s ELSE attStatus[b]
  BY DEF FinishAttempts, SetAll, IInv, TypeOK
<1>2. s \notin ActiveStatuses /\ s \in Slot!Outcomes
  BY DEF ActiveStatuses, ClaimedStatuses, TerminalStatuses, Slot!Outcomes
<1>3. ASSUME NEW o \in S
      PROVE  /\ o \in Owners /\ Phase[o] \in Slot!Active /\ (s = "complete" => Phase[o] # "queued")
             /\ Holds'[o] = {}
             /\ Phase'[o] = IF o \in Runs \cup Variants THEN s ELSE "ended"
  <2>1. PICK a \in A : attOwner[a] = o
    BY <1>3
  <2>2. /\ o \in Owners /\ Doing(o, ActiveStatuses) = {a} /\ PhaseOf(o) = Shown(attStatus[a])
    BY <2>1, SeenPhases DEF ActivePhases
  <2>3. Phase[o] \in Slot!Active /\ (s = "complete" => Phase[o] # "queued")
    BY <2>1, <2>2, HoldsAndPhase DEF Shown, Slot!Active
  <2>4. \A b \in Attempts : attOwner'[b] = o /\ attStatus'[b] \in ActiveStatuses => FALSE
    BY <1>1, <1>2, <2>1, <2>2 DEF Doing
  <2>5. Doing(o, ActiveStatuses)' = {}
    BY <2>4 DEF Doing
  <2>6. PhaseOf(o)' = IF o \in Runs \cup Variants THEN s ELSE "ended"
    <3>1. CASE o \in Runs
      <4>1. runStatus'[o] = s /\ s # "planners" /\ s # "absent"
        BY <2>1, <3>1 DEF TerminalStatuses
      <4>2. QED
        BY <3>1, <4>1 DEF PhaseOf, RunPhase
    <3>2. CASE o \in Variants
      <4>1. variantStatus'[o] = IF s = "complete" THEN "ready" ELSE s
        BY <2>1, <3>2
      <4>2. QED
        BY <3>2, <4>1, StoreAssumption DEF PhaseOf, VariantPhase, TerminalStatuses
    <3>3. CASE o \notin Runs \cup Variants
      <4>1. Doing(o, {"queued"})' = {} /\ Doing(o, ClaimedStatuses)' = {}
        BY <2>4 DEF Doing, ActiveStatuses
      <4>2. Doing(o, TerminalStatuses)' # {}
        BY <1>1, <2>1 DEF Doing
      <4>3. QED
        BY <3>3, <4>1, <4>2 DEF PhaseOf, MaterialPhase
    <3>4. QED
      BY <3>1, <3>2, <3>3
  <2>7. QED
    BY <2>2, <2>3, <2>5, <2>6, HoldsAndPhase
<1>4. ASSUME NEW q \in Owners, q \notin S PROVE Holds'[q] = Holds[q] /\ Phase'[q] = Phase[q]
  <2>1. Untouched(q)
    BY <1>1, <1>4 DEF Untouched
  <2>2. QED
    BY <2>1, UntouchedSlot
<1>5. Holds' = [o \in Owners |-> IF o \in S THEN {} ELSE Holds[o]]
  BY <1>3, <1>4, HoldsAndPhase
<1>6. Phase' = [o \in Owners |-> IF o \notin S THEN Phase[o]
                                 ELSE IF o \in Runs \cup Variants THEN s ELSE "ended"]
  BY <1>3, <1>4, HoldsAndPhase
<1>7. Slot!End(S, s)
  BY <1>1, <1>3, <1>5, <1>6 DEF Slot!End
<1>8. S \in SUBSET Owners
  BY <1>3
<1>9. QED
  BY <1>2, <1>7, <1>8

\* A row is deleted with everything below it.
LEMMA ForgetStep ==
  ASSUME IInv, NEW S \in SUBSET Owners, ActiveAttempts(S) = {}, DeleteFamily(S)
  PROVE  Slot!Forget(S)
<1>1. /\ \A b \in Attempts : attOwner'[b] = IF attOwner[b] \in S THEN Nil ELSE attOwner[b]
      /\ \A b \in Attempts : attStatus'[b] = IF attOwner[b] \in S THEN "absent" ELSE attStatus[b]
      /\ \A q \in Runs : runStatus'[q] = IF q \in S THEN "absent" ELSE runStatus[q]
      /\ \A q \in Variants : variantStatus'[q] = IF q \in S THEN "absent" ELSE variantStatus[q]
      /\ created' = created /\ Nil \notin Owners
  BY StoreAssumption DEF DeleteFamily, SetAll, IInv, TypeOK
<1>2. ASSUME NEW o \in S PROVE Holds[o] = {} /\ Holds'[o] = {} /\ Phase'[o] = "none"
  <2>1. Doing(o, ActiveStatuses) = {}
    BY DEF ActiveAttempts, Doing
  <2>2. \A b \in Attempts : attOwner'[b] # o
    BY <1>1
  <2>3. /\ Doing(o, ActiveStatuses)' = {} /\ Doing(o, ClaimedStatuses)' = {}
        /\ Doing(o, {"queued"})' = {} /\ Doing(o, TerminalStatuses)' = {}
    BY <2>2 DEF Doing
  <2>4. PhaseOf(o)' = "none"
    BY <1>1, <2>3 DEF PhaseOf, RunPhase, VariantPhase, MaterialPhase
  <2>5. QED
    BY <2>1, <2>3, <2>4, HoldsAndPhase
<1>3. ASSUME NEW q \in Owners, q \notin S PROVE Holds'[q] = Holds[q] /\ Phase'[q] = Phase[q]
  <2>1. Untouched(q)
    BY <1>1, <1>3 DEF Untouched
  <2>2. QED
    BY <2>1, UntouchedSlot
<1>4. Holds' = Holds
  <2>1. \A q \in Owners : Holds'[q] = Holds[q]
    BY <1>2, <1>3
  <2>2. QED
    BY <2>1, HoldsAndPhase, SlotFunctions
<1>5. Phase' = [o \in Owners |-> IF o \in S THEN "none" ELSE Phase[o]]
  BY <1>2, <1>3, HoldsAndPhase
<1>6. QED
  BY <1>1, <1>2, <1>4, <1>5 DEF Slot!Forget

\* Leases, edits, checkpoints and masters are not to be seen in a slot.
LEMMA UnseenStep ==
  ASSUME UNCHANGED <<attOwner, attStatus, created, runStatus>>,
         \A q \in Variants : \/ variantStatus'[q] = variantStatus[q]
                             \/ variantStatus[q] = "ready" /\ variantStatus'[q] = "unavailable"
  PROVE  UNCHANGED Slot!slotVars
<1>1. \A q \in Owners : \A S : Doing(q, S)' = Doing(q, S)
  BY DEF Doing
<1>2. \A q \in Owners : Claimed(q)' = Claimed(q)
  BY DEF Doing, Claimed
<1>3. \A q \in Owners : PhaseOf(q)' = PhaseOf(q)
  <2> SUFFICES ASSUME NEW q \in Owners PROVE PhaseOf(q)' = PhaseOf(q)
    OBVIOUS
  <2>1. CASE q \in Runs
    BY <1>2, <2>1 DEF PhaseOf, RunPhase
  <2>2. CASE q \in Variants /\ q \notin Runs
    BY <1>2, <2>2 DEF PhaseOf, VariantPhase
  <2>3. CASE q \notin Runs \cup Variants
    BY <2>3 DEF PhaseOf, MaterialPhase, Claimed, Doing
  <2>4. QED
    BY <2>1, <2>2, <2>3
<1>4. Holds' = Holds /\ Phase' = Phase
  <2>1. \A q \in Owners : Holds'[q] = Holds[q] /\ Phase'[q] = Phase[q]
    BY <1>3, HoldsAndPhase DEF Doing
  <2>2. QED
    BY <2>1, HoldsAndPhase, SlotFunctions
<1>5. QED
  BY <1>4 DEF Slot!slotVars

-----------------------------------------------------------------------------
(* Every operation is of one of these kinds. *)

SlotStep == Slot!Next \/ UNCHANGED Slot!slotVars

\* The kinds, as steps of ExecutionSlots.
LEMMA Kinds ==
  /\ \A o \in Owners : Slot!Submit(o) => SlotStep
  /\ (\E o \in Owners : Slot!Claim(o)) => SlotStep
  /\ (\E o \in Owners : Slot!AskToStop(o)) => SlotStep
  /\ \A S \in SUBSET Owners : Slot!Forget(S) => SlotStep
  /\ (\E S \in SUBSET Owners : \E how \in Slot!Outcomes : Slot!End(S, how)) => SlotStep
  BY DEF SlotStep, Slot!Next

LEMMA QueueRunSlot ==
  ASSUME IInv, IInv', NEW r \in Runs, NEW pin \in Checkpoints \cup {Nil},
         runStatus[r] \notin {"queued", "planners"}, QueueRun(r, pin)
  PROVE  SlotStep
<1>1. r \in Owners /\ ActiveAttempts({r}) = {} /\ InsertAttempt(r, pin)
  BY IdleRun DEF Owners, QueueRun
<1>2. /\ \A q \in Runs : q # r => runStatus'[q] = runStatus[q]
      /\ \A q \in Variants : q # r => variantStatus'[q] = variantStatus[q]
  BY DEF QueueRun, IInv, TypeOK
<1>3. QED
  BY <1>1, <1>2, SubmitStep, Kinds

\* An attempt ends by a transition or an audit, with or without its owner's row.
LEMMA TransitionSlot ==
  ASSUME IInv, IInv', NEW A \in SUBSET Attempts, NEW s \in TerminalStatuses,
         \A a \in A : attStatus[a] \in ActiveStatuses,
         s = "complete" => \A a \in A : attStatus[a] # "queued" /\ attOwner[a] \in Materials,
         FinishAttempts(A, s), UpdateOwnersTerminal(A, s)
  PROVE  SlotStep
<1>1. \A q \in Runs : runStatus'[q] = IF \E a \in A : attOwner[a] = q THEN s ELSE runStatus[q]
  BY StoreAssumption DEF UpdateOwnersTerminal, SetAll, IInv, TypeOK
<1>2. \A q \in Variants : IF \E a \in A : attOwner[a] = q
                            THEN variantStatus'[q] = IF s = "complete" THEN "ready" ELSE s
                            ELSE variantStatus'[q] = variantStatus[q]
  BY StoreAssumption DEF UpdateOwnersTerminal, SetAll, IInv, TypeOK
<1>3. \E S \in SUBSET Owners : \E how \in Slot!Outcomes : Slot!End(S, how)
  BY <1>1, <1>2, EndStep
<1>4. QED
  BY <1>3, Kinds

LEMMA ProjectSlots == IInv /\ IInv' /\ ProjectStep => SlotStep
<1> SUFFICES ASSUME IInv, IInv', ProjectStep PROVE SlotStep
  OBVIOUS
<1> USE DEF ownerVars, attemptVars, jobVars
<1>1. ASSUME NEW p \in Projects, CreateProject(p) PROVE SlotStep
  BY <1>1, UnseenStep DEF CreateProject, SlotStep
<1>2. ASSUME NEW p \in Projects, DeleteProject(p) PROVE SlotStep
  <2>1. ProjectFamily(p) \in SUBSET Owners
    BY Families DEF Owners
  <2>2. QED
    BY <1>2, <2>1, ForgetStep, Kinds DEF DeleteProject
<1>3. ASSUME NEW r \in Runs, CreateRun(r) \/ RetryRun(r) PROVE SlotStep
  BY <1>3, QueueRunSlot DEF CreateRun, RetryRun
<1>4. ASSUME NEW source \in Runs, NEW r \in Runs, CreateRunAgain(source, r) PROVE SlotStep
  BY <1>4, QueueRunSlot DEF CreateRunAgain
<1>5. ASSUME NEW r \in Runs, NEW c \in Checkpoints, ResumeRun(r, c) PROVE SlotStep
  BY <1>5, QueueRunSlot DEF ResumeRun
<1>6. ASSUME NEW r \in Runs, ClearRunCheckpoint(r) PROVE SlotStep
  BY <1>6, UnseenStep DEF ClearRunCheckpoint, SlotStep
<1>7. ASSUME NEW r \in Runs, DeleteRun(r) PROVE SlotStep
  <2>1. RunFamily(r) \in SUBSET Owners
    BY Families DEF Owners
  <2>2. QED
    BY <1>7, <2>1, ForgetStep, Kinds DEF DeleteRun
<1>8. ASSUME NEW source \in Edits, NEW e \in Edits, CreateRevision(source, e) PROVE SlotStep
  BY <1>8, UnseenStep DEF CreateRevision, SlotStep
<1>9. QED
  BY <1>1, <1>2, <1>3, <1>4, <1>5, <1>6, <1>7, <1>8 DEF ProjectStep

LEMMA RunSlots == IInv /\ IInv' /\ RunStep => SlotStep
<1> SUFFICES ASSUME IInv, IInv', RunStep PROVE SlotStep
  OBVIOUS
<1>1. ASSUME NEW r \in Runs, NEW a \in Attempts, NEW e \in Edits, CompleteRun(r, a, e)
      PROVE  SlotStep
  <2>1. /\ {a} \in SUBSET Attempts /\ "complete" \in TerminalStatuses
        /\ attStatus[a] \in ActiveStatuses /\ attStatus[a] # "queued"
        /\ FinishAttempts({a}, "complete") /\ attOwner[a] = r /\ r \notin Variants
    BY <1>1, StoreAssumption DEF CompleteRun, TerminalStatuses, ActiveStatuses, ClaimedStatuses
  <2>2. /\ \A q \in Runs : runStatus'[q] = IF q = r THEN "complete" ELSE runStatus[q]
        /\ variantStatus' = variantStatus
    BY <1>1 DEF CompleteRun, IInv, TypeOK
  <2>3. \E S \in SUBSET Owners : \E how \in Slot!Outcomes : Slot!End(S, how)
    BY <2>1, <2>2, EndStep
  <2>4. QED
    BY <2>3, Kinds
<1>2. ASSUME NEW r \in Runs, NEW a \in Attempts, NEW c \in Checkpoints, PublishRunCheckpoint(r, a, c)
      PROVE  SlotStep
  BY <1>2, UnseenStep DEF PublishRunCheckpoint, SlotStep, attemptVars
<1>3. QED
  BY <1>1, <1>2 DEF RunStep

LEMMA VariantSlots == IInv /\ IInv' /\ VariantStep => SlotStep
<1> SUFFICES ASSUME IInv, IInv', NEW v \in Variants,
                    \/ CreateRenderVariant(v) \/ RetryRenderVariant(v) \/ DeleteRenderVariant(v)
                    \/ MarkRenderUnavailable(v) \/ RecordRenderVerification(v)
                    \/ \E a \in Attempts : CompleteRenderVariant(v, a)
             PROVE  SlotStep
  BY DEF VariantStep
<1>1. v \in Owners /\ v \notin Runs /\ Nil \in Checkpoints \cup {Nil}
  BY StoreAssumption DEF Owners
<1>2. CASE CreateRenderVariant(v) \/ RetryRenderVariant(v)
  <2>1. ActiveAttempts({v}) = {} /\ QueueVariant(v)
    BY <1>2, IdleVariant DEF CreateRenderVariant, RetryRenderVariant
  <2>2. /\ InsertAttempt(v, Nil) /\ runStatus' = runStatus
        /\ \A q \in Variants : q # v => variantStatus'[q] = variantStatus[q]
    BY <2>1 DEF QueueVariant, IInv, TypeOK
  <2>3. QED
    BY <1>1, <2>1, <2>2, SubmitStep, Kinds
<1>3. CASE DeleteRenderVariant(v)
  BY <1>1, <1>3, ForgetStep, Kinds DEF DeleteRenderVariant
<1>4. CASE MarkRenderUnavailable(v) \/ RecordRenderVerification(v)
  <2>1. /\ UNCHANGED <<attOwner, attStatus, created, runStatus>>
        /\ \A q \in Variants : \/ variantStatus'[q] = variantStatus[q]
                               \/ variantStatus[q] = "ready" /\ variantStatus'[q] = "unavailable"
    BY <1>4 DEF MarkRenderUnavailable, RecordRenderVerification, VariantUnavailable, attemptVars,
       IInv, TypeOK
  <2>2. QED
    BY <2>1, UnseenStep DEF SlotStep
<1>5. ASSUME NEW a \in Attempts, CompleteRenderVariant(v, a) PROVE SlotStep
  <2>1. /\ {a} \in SUBSET Attempts /\ "complete" \in TerminalStatuses
        /\ attStatus[a] \in ActiveStatuses /\ attStatus[a] # "queued"
        /\ FinishAttempts({a}, "complete") /\ attOwner[a] = v
    BY <1>5, StatusSets DEF CompleteRenderVariant, TerminalStatuses
  <2>2. /\ \A q \in Variants : variantStatus'[q] = IF q = v THEN "ready" ELSE variantStatus[q]
        /\ runStatus' = runStatus
    BY <1>5 DEF CompleteRenderVariant, IInv, TypeOK
  <2>3. \E S \in SUBSET Owners : \E how \in Slot!Outcomes : Slot!End(S, how)
    BY <1>1, <2>1, <2>2, EndStep
  <2>4. QED
    BY <2>3, Kinds
<1>6. QED
  BY <1>2, <1>3, <1>4, <1>5

LEMMA MaterialSlots == IInv /\ IInv' /\ MaterialStep => SlotStep
<1> SUFFICES ASSUME IInv, IInv', NEW m \in Materials,
                    EnqueueMaterialAnalysis(m) \/ RequeueMaterialAnalysis(m) \/ PurgeMaterialAttempts(m)
             PROVE  SlotStep
  BY DEF MaterialStep
<1>1. m \in Owners /\ Nil \in Checkpoints \cup {Nil}
  BY DEF Owners
<1>2. ASSUME ActiveAttempts({m}) = {}, InsertAttempt(m, Nil), UNCHANGED ownerVars PROVE SlotStep
  BY <1>1, <1>2, SubmitStep, Kinds DEF ownerVars
<1>3. CASE EnqueueMaterialAnalysis(m)
  BY <1>2, <1>3 DEF EnqueueMaterialAnalysis
<1>4. CASE RequeueMaterialAnalysis(m)
  <2>1. PICK a \in Attempts : /\ attOwner[a] = m /\ IsLatest(a)
                             /\ attStatus[a] \in {"failed", "interrupted"}
    BY <1>4 DEF RequeueMaterialAnalysis
  <2>2. ASSUME NEW b \in Attempts, attOwner[b] = m, attStatus[b] \in ActiveStatuses PROVE FALSE
    <3>1. b = a
      BY <2>1, <2>2, ActiveOwner DEF IInv
    <3>2. QED
      BY <2>1, <2>2, <3>1 DEF ActiveStatuses, ClaimedStatuses
  <2>3. QED
    BY <1>2, <1>4, <2>2 DEF RequeueMaterialAnalysis, ActiveAttempts
<1>5. CASE PurgeMaterialAttempts(m)
  BY <1>1, <1>5, ForgetStep, Kinds DEF PurgeMaterialAttempts
<1>6. QED
  BY <1>3, <1>4, <1>5

LEMMA JobSlots == IInv /\ IInv' /\ JobStep => SlotStep
<1> SUFFICES ASSUME IInv, IInv', NEW a \in Attempts,
                    \/ HeartbeatJob(a) \/ HeartbeatExpires(a)
                    \/ RequestStop(a) \/ MarkAttemptRetrying(a) \/ MarkAttemptInterrupted(a)
                    \/ MarkAttemptFailed(a) \/ CompleteMaterialAttempt(a)
                    \/ \E w \in Workers : ClaimNextJob(a, w) \/ ClaimNextSupervisedJob(a, w)
                    \/ \E s, w \in Workers : AdoptSupervisedJob(a, s, w)
             PROVE  SlotStep
  BY DEF JobStep
<1>1. CASE \/ HeartbeatJob(a) \/ HeartbeatExpires(a)
           \/ \E s, w \in Workers : AdoptSupervisedJob(a, s, w)
  <2>1. UNCHANGED <<attOwner, attStatus, created, runStatus, variantStatus>>
    BY <1>1 DEF HeartbeatJob, HeartbeatExpires, AdoptSupervisedJob, ownerVars, attemptVars
  <2>2. QED
    BY <2>1, UnseenStep DEF SlotStep
<1>2. ASSUME NEW allowed \in SUBSET ActiveStatuses, NEW s \in TerminalStatuses,
             s = "complete" => "queued" \notin allowed /\ attOwner[a] \in Materials,
             TransitionAttempt(a, allowed, s)
      PROVE  SlotStep
  BY <1>2, TransitionSlot DEF TransitionAttempt
<1>3. CASE RequestStop(a)
  <2>1. CASE FinishAttempts({a}, "interrupted") /\ UpdateOwnersTerminal({a}, "interrupted")
             /\ attStatus[a] = "queued"
    BY <2>1, TransitionSlot, StatusSets DEF TerminalStatuses
  <2>2. CASE /\ attStatus[a] \in ClaimedStatuses
             /\ attStatus' = [attStatus EXCEPT ![a] = "stopping"]
             /\ UNCHANGED <<ownerVars, attOwner, attPin, created, jobWorker, heartbeat>>
    <3>1. "stopping" \in ClaimedStatuses
      BY DEF ClaimedStatuses
    <3>2. (\E o \in Owners : Slot!AskToStop(o)) \/ UNCHANGED Slot!slotVars
      BY <2>2, <3>1, ClaimedSlotStep
    <3>3. QED
      BY <3>2, Kinds DEF SlotStep
  <2>3. QED
    BY <1>3, <2>1, <2>2 DEF RequestStop
<1>4. CASE MarkAttemptRetrying(a)
  <2>1. /\ "retrying" \in ClaimedStatuses /\ attStatus[a] \in ClaimedStatuses
        /\ attStatus[a] # "stopping"
        /\ attStatus' = [attStatus EXCEPT ![a] = "retrying"]
        /\ UNCHANGED <<ownerVars, attOwner, created>>
    BY <1>4 DEF MarkAttemptRetrying, ClaimedStatuses
  <2>2. (\E o \in Owners : Slot!AskToStop(o)) \/ UNCHANGED Slot!slotVars
    BY <2>1, ClaimedSlotStep
  <2>3. QED
    BY <2>2, Kinds DEF SlotStep
<1>5. CASE MarkAttemptInterrupted(a) \/ MarkAttemptFailed(a) \/ CompleteMaterialAttempt(a)
  BY <1>2, <1>5, StatusSets
  DEF MarkAttemptInterrupted, MarkAttemptFailed, CompleteMaterialAttempt, TerminalStatuses
<1>6. ASSUME NEW w \in Workers, ClaimNextJob(a, w) \/ ClaimNextSupervisedJob(a, w) PROVE SlotStep
  <2>1. attStatus[a] = "queued" /\ ClaimJobRow(a, w)
    BY <1>6 DEF ClaimNextJob, ClaimNextSupervisedJob, EligibleJobs, QueuedJobs
  <2>2. QED
    BY <2>1, ClaimSlotStep, Kinds
<1>7. QED
  BY <1>1, <1>3, <1>4, <1>5, <1>6

LEMMA OrphanSlots == IInv /\ IInv' /\ InterruptOrphanedJobs => SlotStep
<1> SUFFICES ASSUME IInv, IInv', InterruptOrphanedJobs PROVE SlotStep
  OBVIOUS
<1> DEFINE orphans == {a \in ClaimedJobs : heartbeat[a] # "fresh"}
<1>1. /\ orphans \in SUBSET Attempts /\ \A a \in orphans : attStatus[a] \in ActiveStatuses
      /\ "interrupted" \in TerminalStatuses
  BY StatusSets DEF ClaimedJobs, TerminalStatuses
<1>2. FinishAttempts(orphans, "interrupted") /\ UpdateOwnersTerminal(orphans, "interrupted")
  BY DEF InterruptOrphanedJobs
<1>3. QED
  BY <1>1, <1>2, TransitionSlot

LEMMA InitSlots == Init => Slot!Init
<1> SUFFICES ASSUME Init PROVE Slot!Init
  OBVIOUS
<1>1. /\ \A a \in Attempts : attStatus[a] = "absent" /\ created = 0
      /\ \A r \in Runs : runStatus[r] = "absent"
      /\ \A v \in Variants : variantStatus[v] = "absent"
  BY DEF Init
<1>2. \A o \in Owners : /\ Doing(o, ActiveStatuses) = {} /\ Doing(o, ClaimedStatuses) = {}
                        /\ Doing(o, {"queued"}) = {} /\ Doing(o, TerminalStatuses) = {}
  BY <1>1, StatusSets DEF Doing
<1>3. \A o \in Owners : PhaseOf(o) = "none"
  BY <1>1, <1>2 DEF PhaseOf, RunPhase, VariantPhase, MaterialPhase
<1>4. created = 0
  BY DEF Init
<1>5. QED
  BY <1>2, <1>3, <1>4 DEF Slot!Init, Holds, Phase

\* The managed store implements ExecutionSlots, for every set of projects,
\* materials, runs, edits, variants, checkpoints and workers, and every bound:
\* the first state maps to empty slots, and every operation to a submission, a
\* claim, a stop, an end, a removal, or to nothing at all.
THEOREM StoreActsAsSlots == Spec => ActsAsSlots
<1>1. Init => Slot!Init
  BY InitSlots
<1>2. IInv /\ IInv' /\ [Next]_vars => [Slot!Next]_(Slot!slotVars)
  <2> SUFFICES ASSUME IInv, IInv', [Next]_vars PROVE [Slot!Next]_(Slot!slotVars)
    OBVIOUS
  <2>1. CASE UNCHANGED vars
    BY <2>1, UnseenStep DEF vars, ownerVars, attemptVars
  <2>2. CASE Next
    BY <2>2, ProjectSlots, RunSlots, VariantSlots, MaterialSlots, JobSlots, OrphanSlots
    DEF Next, SlotStep
  <2>3. QED
    BY <2>1, <2>2
<1>3. QED
  BY <1>1, <1>2, InductiveInvariant, PTL DEF Spec, ActsAsSlots, Slot!Spec
=============================================================================
