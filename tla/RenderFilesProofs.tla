----------------------------- MODULE RenderFilesProofs -----------------------------
(***************************************************************************)
(* Proofs about the masters of render variants.  Workers, readers and      *)
(* deletions change rows as the managed store allows.  What keeps the      *)
(* files right is that a worker between its claim and its end is the only  *)
(* one of its variant: from that follow, for any number of variants,       *)
(* readers, servers and attempts, that a ready variant has the files it    *)
(* records, that roll-backs restore pairs, that a stream plays the file it *)
(* has verified, and that nothing is left of a deleted variant.            *)
(***************************************************************************)
EXTENDS RenderFiles, ManagedStoreProofs

WorkerPlaces ==
  {"none", "preparing", "produced", "asideMaster", "aside", "inMaster", "in", "committed",
   "undoIn", "undoInCover", "undoMaster", "undoAside", "undoCover", "cleaning", "ending", "gone",
   "crashed"}
\* Between the claim and the end of its attempt.
Holding == WorkerPlaces \ {"none", "committed", "gone", "crashed"}
ReaderPlaces == {"idle", "looked", "found", "verifying", "condemning", "streaming"}

\* Types of files and workers; a worker has its variant.
WorkersTypes ==
  /\ master \in [Variants -> Attempts \cup {Nil, Damaged}]
  /\ cover \in [Variants -> Attempts \cup {Nil}]
  /\ recorded \in [Variants -> Attempts \cup {Nil, Damaged}]
  /\ working \in [Attempts -> WorkerPlaces]
  /\ renders \in [Attempts -> Variants \cup {Nil}]
  /\ candidate \subseteq Attempts /\ staging \subseteq Attempts
  /\ oldMaster \in [Attempts -> Attempts \cup {Nil, Damaged}]
  /\ oldCover \in [Attempts -> Attempts \cup {Nil}]
  /\ \A a \in Attempts : working[a] # "none" => renders[a] \in Variants

\* Types of readers and deletions; a reader has its variant.
ReadersTypes ==
  /\ reading \in [Readers -> ReaderPlaces]
  /\ reads \in [Readers -> Variants \cup {Nil}]
  /\ saw \in [Readers -> Attempts \cup {Nil, Damaged}]
  /\ stream \in [Readers -> Attempts \cup {Nil, Damaged}]
  /\ mediaLock \in [Servers -> [Variants -> Readers \cup Variants \cup {Nil}]]
  /\ deleting \in [Servers -> [Variants -> {"none", "removing", "cut", "done"}]]
  /\ cascade \in [Variants -> {"none", "removing", "done"}]
  /\ deletedVariants \subseteq Variants
  /\ \A q \in Readers : reading[q] # "idle" => reads[q] \in Variants

-----------------------------------------------------------------------------
(* Rows. *)

\* The deletions of rows: of a variant, of the run, of the project.
DeletesRows ==
  \/ \E s \in Servers, v \in Variants : DeleteRow(s, v)
  \/ DeleteRenderedRun \/ DeleteItsProject

\* The store's operations that workers, readers and services call.
RowStep ==
  \/ UNCHANGED vars
  \/ \E v \in Variants \ deletedVariants : CreateRenderVariant(v)
  \/ \E v \in Variants : RetryRenderVariant(v) \/ VariantUnavailable(v)
  \/ DeletesRows
  \/ \E a \in Attempts : RequestStop(a) \/ RenderStarts(a) \/ RenderCompletes(a)
  \/ \E a \in Attempts : /\ working[a] \in {"ending", "crashed"} /\ working'[a] \notin Holding
                         /\ MarkAttemptInterrupted(a) \/ MarkAttemptFailed(a)

LEMMA RenderRows ==
  ASSUME WorkersTypes, NEW a \in Attempts, RenderTurn(a)
  PROVE  RowStep
<1>1. CASE \/ RenderProduces(a) \/ MoveAside(a) \/ MoveIn(a) \/ RemoveStaging(a) \/ RenderFails(a)
           \/ UndoPublication(a) \/ RenderCrashes(a)
  BY <1>1 DEF RenderProduces, MoveAside, MoveIn, RemoveStaging, RenderFails, UndoPublication,
     RenderCrashes, RowStep
<1>2. CASE RenderStarts(a) \/ RenderCompletes(a) \/ StopRender(a)
  BY <1>2 DEF StopRender, RowStep
<1>3. CASE RenderEnds(a)
  <2>1. working'[a] = "gone"
    BY <1>3 DEF RenderEnds, WorksOn, WorkersTypes
  <2>2. QED
    BY <1>3, <2>1 DEF RenderEnds, RowStep, Holding
<1>4. CASE RenderIsReaped(a)
  <2>1. working'[a] = "crashed"
    BY <1>4 DEF RenderIsReaped, renderVars
  <2>2. QED
    BY <1>4, <2>1 DEF RenderIsReaped, RowStep, Holding
<1>5. QED
  BY <1>1, <1>2, <1>3, <1>4 DEF RenderTurn

LEMMA ReaderRows ==
  ASSUME ReadersTypes, NEW q \in Readers, ReaderTurn(q)
  PROVE  RowStep
<1>1. CASE ReaderCondemns(q)
  <2>1. reads[q] \in Variants
    BY <1>1 DEF ReaderCondemns, ReadersTypes
  <2>2. QED
    BY <1>1, <2>1
    DEF ReaderCondemns, RowStep, MarkRenderUnavailable, RecordRenderVerification
<1>2. QED
  BY <1>1 DEF ReaderTurn, ReaderLooks, ReaderChecks, StreamOpens, StreamVerifies, StreamEnds,
     RowStep

LEMMA VariantRows ==
  ASSUME NEW v \in Variants, VariantTurn(v)
  PROVE  RowStep
<1>1. CASE RequestRender(v) \/ Recover(v)
  BY <1>1 DEF RequestRender, Recover, RowStep
<1>2. CASE \E s \in Servers : DeleteRow(s, v)
  BY <1>2 DEF DeletesRows, RowStep
<1>3. CASE \/ DamageMaster(v) \/ CascadeRemoves(v)
           \/ \E s \in Servers : DeletionRepeats(s, v) \/ DeleteDirectory(s, v)
  BY <1>3 DEF DamageMaster, CascadeRemoves, DeletionRepeats, DeleteDirectory, RowStep
<1>4. QED
  BY <1>1, <1>2, <1>3 DEF VariantTurn

LEMMA StepRows ==
  ASSUME WorkersTypes, ReadersTypes, [RendersNext]_mediaVars
  PROVE  RowStep
<1>1. CASE UNCHANGED mediaVars
  BY <1>1 DEF mediaVars, RowStep
<1>2. CASE \E s \in Servers : ServerCrashes(s)
  BY <1>2 DEF ServerCrashes, RowStep
<1>3. CASE DeleteRenderedRun \/ DeleteItsProject
  BY <1>3 DEF DeletesRows, RowStep
<1>4. QED
  BY <1>1, <1>2, <1>3, RenderRows, ReaderRows, VariantRows DEF RendersNext

\* Rows are deleted with everything below them, when no attempt below is active.
LEMMA FamilyGoes ==
  ASSUME DeletesRows
  PROVE  \E S \in SUBSET Owners : ActiveAttempts(S) = {} /\ DeleteFamily(S)
<1>1. ASSUME NEW s \in Servers, NEW v \in Variants, DeleteRow(s, v)
      PROVE  \E S \in SUBSET Owners : ActiveAttempts(S) = {} /\ DeleteFamily(S)
  <2>1. {v} \in SUBSET Owners /\ ActiveAttempts({v}) = {} /\ DeleteFamily({v})
    BY <1>1 DEF DeleteRow, DeleteRenderVariant, Owners
  <2>2. QED
    BY <2>1
<1>2. CASE DeleteRenderedRun
  <2> DEFINE S == RunFamily(RenderedRun)
  <2>1. S \in SUBSET Owners
    BY Families, RendersAssumption DEF Owners
  <2>2. ActiveAttempts(S) = {} /\ DeleteFamily(S)
    BY <1>2 DEF DeleteRenderedRun, DeleteRun
  <2>3. QED
    BY <2>1, <2>2
<1>3. CASE DeleteItsProject
  <2> DEFINE S == ProjectFamily(RunProject[RenderedRun])
  <2>1. S \in SUBSET Owners
    BY Families, RendersAssumption, StoreAssumption DEF Owners
  <2>2. ActiveAttempts(S) = {} /\ DeleteFamily(S)
    BY <1>3 DEF DeleteItsProject, DeleteProject
  <2>3. QED
    BY <2>1, <2>2
<1>4. QED
  BY <1>1, <1>2, <1>3 DEF DeletesRows

LEMMA RowsAreTheStores ==
  ASSUME WorkersTypes, ReadersTypes, [RendersNext]_mediaVars
  PROVE  [Next]_vars
<1>1. ASSUME NEW v \in Variants,
             CreateRenderVariant(v) \/ RetryRenderVariant(v) \/ VariantUnavailable(v)
      PROVE  Next
  BY <1>1 DEF Next, VariantStep, MarkRenderUnavailable
<1>2. ASSUME NEW a \in Attempts, RenderStarts(a) PROVE Next
  BY <1>2 DEF RenderStarts, Next, JobStep
<1>3. ASSUME NEW a \in Attempts, RenderCompletes(a) PROVE Next
  <2>1. renders[a] \in Variants
    BY <1>3 DEF RenderCompletes, WorkersTypes
  <2>2. QED
    BY <1>3, <2>1 DEF RenderCompletes, Next, VariantStep
<1>4. ASSUME NEW a \in Attempts,
             MarkAttemptInterrupted(a) \/ MarkAttemptFailed(a) \/ RequestStop(a)
      PROVE  Next
  BY <1>4 DEF Next, JobStep
<1>5. ASSUME DeletesRows PROVE Next
  <2>1. RunProject[RenderedRun] \in Projects
    BY StoreAssumption, RendersAssumption
  <2>2. QED
    BY <1>5, <2>1, RendersAssumption DEF DeletesRows, DeleteRow, DeleteRenderedRun,
       DeleteItsProject, Next, ProjectStep, VariantStep
<1>6. QED
  BY <1>1, <1>2, <1>3, <1>4, <1>5, StepRows DEF RowStep

LEMMA InitRows == RendersInit => IInv
<1> SUFFICES ASSUME RendersInit PROVE IInv
  OBVIOUS
<1> USE StoreAssumption, RendersAssumption
<1>1. /\ 1 \in Attempts /\ RenderedRun \in Owners /\ RenderedRun # Nil
      /\ RenderedRun \notin Variants /\ RenderedRun \notin Materials
  BY DEF Attempts, Owners
<1>2. \A a \in Attempts :
        /\ attOwner[a] = IF a = 1 THEN RenderedRun ELSE Nil
        /\ attStatus[a] = IF a = 1 THEN "complete" ELSE "absent"
        /\ jobStatus[a] = attStatus[a] /\ attPin[a] = Nil /\ ~stopRequested[a]
  BY DEF RendersInit
<1>3. OwnerTypes
  BY DEF RendersInit, OwnerTypes, RunStatus
<1>4. AttemptTypes
  <2>1. attOwner \in [Attempts -> Owners \cup {Nil}] /\ attPin \in [Attempts -> Checkpoints \cup {Nil}]
    BY <1>1 DEF RendersInit
  <2>2. /\ attStatus \in [Attempts -> AttemptStatus \cup {"absent"}]
        /\ jobStatus \in [Attempts -> AttemptStatus \cup {"absent"}]
    BY DEF RendersInit, AttemptStatus, TerminalStatuses
  <2>3. /\ stopRequested \in [Attempts -> BOOLEAN] /\ jobWorker \in [Attempts -> Workers \cup {Nil}]
        /\ heartbeat \in [Attempts -> {"null", "fresh", "expired"}]
    BY DEF RendersInit
  <2>4. created \in 0..MaxAttempts /\ \A a \in Attempts : a > created => attStatus[a] = "absent"
    BY <1>2 DEF RendersInit, Attempts
  <2>5. \A a \in Attempts : (attOwner[a] = Nil) <=> (attStatus[a] = "absent")
    BY <1>1, <1>2
  <2>6. QED
    BY <2>1, <2>2, <2>3, <2>4, <2>5 DEF AttemptTypes
<1>5. JobMirrorsAttempt /\ OneActiveAttempt /\ QueuedResumeKeepsItsCheckpoint /\ PinsAreOfRuns
  <2>1. "complete" \notin ActiveStatuses /\ "absent" \notin ActiveStatuses
    BY DEF ActiveStatuses, ClaimedStatuses
  <2>2. QED
    BY <1>2, <2>1
    DEF JobMirrorsAttempt, OneActiveAttempt, QueuedResumeKeepsItsCheckpoint, PinsAreOfRuns
<1>6. OwnerFollowsLatestAttempt
  <2>1. RunStatusOf("complete") = "complete"
    BY DEF RunStatusOf, ClaimedStatuses
  <2>2. runStatus[RenderedRun] = "complete"
    BY DEF RendersInit
  <2>3. QED
    BY <1>1, <1>2, <2>1, <2>2 DEF OwnerFollowsLatestAttempt
<1>7. NoOrphanRows
  <2>1. /\ \A r \in Runs : runStatus[r] # "absent" <=> r = RenderedRun
        /\ \A e \in Edits : editOrigin[e] # "absent" <=> e = RenderedEdit
        /\ \A v \in Variants : variantStatus[v] = "absent"
        /\ \A r \in Runs : checkpoint[r] = Nil
        /\ projects = {RunProject[RenderedRun]}
    BY DEF RendersInit
  <2>2. \A o \in Runs \cup Variants : (\E a \in Attempts : attOwner[a] = o) <=> o = RenderedRun
    BY <1>1, <1>2 DEF Owners
  <2>3. QED
    BY <1>1, <2>1, <2>2 DEF NoOrphanRows
<1>8. CompleteRunHasItsEdit
  <2>1. /\ \A r \in Runs : runStatus[r] = "complete" <=> r = RenderedRun
        /\ \A e \in Edits : editOrigin[e] = "initial" <=> e = RenderedEdit
        /\ \A e \in Edits : editOrigin[e] # "absent" <=> e = RenderedEdit
    BY DEF RendersInit
  <2>2. QED
    BY <2>1 DEF CompleteRunHasItsEdit
<1>9. QED
  BY <1>3, <1>4, <1>5, <1>6, <1>7, <1>8, TypeParts DEF IInv

-----------------------------------------------------------------------------
(* Types. *)

LEMMA WorkerMoves ==
  ASSUME WorkersTypes, NEW a \in Attempts, working[a] # "none", NEW where \in WorkerPlaces,
         WorksOn(a, where)
  PROVE  /\ working' \in [Attempts -> WorkerPlaces] /\ renders' = renders
         /\ \A b \in Attempts : working'[b] = IF b = a THEN where ELSE working[b]
         /\ \A b \in Attempts : working'[b] # "none" => renders'[b] \in Variants
         /\ renders[a] \in Variants
  BY DEF WorksOn, WorkersTypes

LEMMA RenderTurnTypes ==
  ASSUME WorkersTypes, NEW a \in Attempts, RenderTurn(a)
  PROVE  WorkersTypes'
<1> USE DEF masterVars, stagingVars, renderVars
<1>1. CASE RenderStarts(a)
  <2>1. "preparing" \in WorkerPlaces /\ attOwner[a] \in Variants
    BY <1>1 DEF RenderStarts, WorkerPlaces
  <2>2. QED
    BY <1>1, <2>1 DEF RenderStarts, WorkersTypes
<1>2. ASSUME NEW where \in WorkerPlaces, WorksOn(a, where), working[a] # "none",
             master' \in [Variants -> Attempts \cup {Nil, Damaged}],
             cover' \in [Variants -> Attempts \cup {Nil}],
             recorded' \in [Variants -> Attempts \cup {Nil, Damaged}],
             candidate' \subseteq Attempts, staging' \subseteq Attempts,
             oldMaster' \in [Attempts -> Attempts \cup {Nil, Damaged}],
             oldCover' \in [Attempts -> Attempts \cup {Nil}]
      PROVE  WorkersTypes'
  BY <1>2, WorkerMoves DEF WorkersTypes
<1>3. CASE RenderProduces(a)
  <2>1. "produced" \in WorkerPlaces
    BY DEF WorkerPlaces
  <2>2. QED
    BY <1>2, <1>3, <2>1 DEF RenderProduces, WorkersTypes
<1>4. CASE MoveAside(a)
  <2> DEFINE v == renders[a]
  <2>1. v \in Variants /\ "aside" \in WorkerPlaces /\ "asideMaster" \in WorkerPlaces
    BY <1>4 DEF MoveAside, WorkerPlaces, WorkersTypes
  <2>2. PICK where \in WorkerPlaces : WorksOn(a, where)
    BY <1>4, <2>1 DEF MoveAside
  <2>3. /\ master' \in [Variants -> Attempts \cup {Nil, Damaged}]
        /\ oldMaster' \in [Attempts -> Attempts \cup {Nil, Damaged}]
    BY <1>4, <2>1 DEF MoveAside, WorkersTypes
  <2>4. /\ cover' \in [Variants -> Attempts \cup {Nil}]
        /\ oldCover' \in [Attempts -> Attempts \cup {Nil}]
    BY <1>4, <2>1 DEF MoveAside, WorkersTypes
  <2>5. recorded' = recorded /\ candidate' = candidate /\ staging' = staging /\ working[a] # "none"
    BY <1>4 DEF MoveAside
  <2>6. QED
    BY <1>2, <2>2, <2>3, <2>4, <2>5 DEF WorkersTypes
<1>5. CASE MoveIn(a)
  <2>1. renders[a] \in Variants /\ "inMaster" \in WorkerPlaces /\ "in" \in WorkerPlaces
    BY <1>5 DEF MoveIn, WorkerPlaces, WorkersTypes
  <2>2. PICK where \in WorkerPlaces : WorksOn(a, where)
    BY <1>5, <2>1 DEF MoveIn
  <2>3. /\ master' \in [Variants -> Attempts \cup {Nil, Damaged}]
        /\ cover' \in [Variants -> Attempts \cup {Nil}]
    BY <1>5, <2>1 DEF MoveIn, WorkersTypes
  <2>4. QED
    BY <1>2, <1>5, <2>2, <2>3 DEF MoveIn, WorkersTypes
<1>6. CASE RenderCompletes(a)
  <2>1. "committed" \in WorkerPlaces /\ renders[a] \in Variants
    BY <1>6 DEF RenderCompletes, WorkerPlaces, WorkersTypes
  <2>2. QED
    BY <1>2, <1>6, <2>1 DEF RenderCompletes, WorkersTypes
<1>7. CASE RemoveStaging(a)
  <2>1. PICK where \in {"gone", "ending"} : WorksOn(a, where)
    BY <1>7 DEF RemoveStaging
  <2>2. where \in WorkerPlaces
    BY DEF WorkerPlaces
  <2>3. /\ oldMaster' \in [Attempts -> Attempts \cup {Nil, Damaged}]
        /\ oldCover' \in [Attempts -> Attempts \cup {Nil}]
    BY <1>7 DEF RemoveStaging, WorkersTypes
  <2>4. QED
    BY <1>2, <1>7, <2>1, <2>2, <2>3 DEF RemoveStaging, WorkersTypes
<1>8. CASE RenderFails(a)
  <2>1. PICK where \in {"undoIn", "undoMaster", "undoAside", "cleaning"} : WorksOn(a, where)
    BY <1>8 DEF RenderFails
  <2>2. where \in WorkerPlaces
    BY DEF WorkerPlaces
  <2>3. QED
    BY <1>2, <1>8, <2>1, <2>2 DEF RenderFails, WorkersTypes
<1>9. CASE UndoPublication(a)
  <2>1. PICK where \in {"undoInCover", "undoAside", "undoCover", "cleaning"} : WorksOn(a, where)
    BY <1>9 DEF UndoPublication
  <2>2. where \in WorkerPlaces /\ renders[a] \in Variants
    BY <1>9 DEF WorkerPlaces, UndoPublication, WorkersTypes
  <2>3. master' \in [Variants -> Attempts \cup {Nil, Damaged}]
    BY <1>9, <2>2 DEF UndoPublication, WorkersTypes
  <2>4. cover' \in [Variants -> Attempts \cup {Nil}]
    BY <1>9, <2>2 DEF UndoPublication, WorkersTypes
  <2>5. QED
    BY <1>2, <1>9, <2>1, <2>2, <2>3, <2>4 DEF UndoPublication, WorkersTypes
<1>10. CASE RenderEnds(a) \/ RenderCrashes(a)
  <2>1. PICK where \in {"gone", "crashed"} : WorksOn(a, where)
    BY <1>10 DEF RenderEnds, RenderCrashes
  <2>2. where \in WorkerPlaces
    BY DEF WorkerPlaces
  <2>3. QED
    BY <1>2, <1>10, <2>1, <2>2 DEF RenderEnds, RenderCrashes, WorkersTypes
<1>11. CASE RenderIsReaped(a) \/ StopRender(a)
  BY <1>11 DEF RenderIsReaped, StopRender, WorkersTypes
<1>12. QED
  BY <1>1, <1>3, <1>4, <1>5, <1>6, <1>7, <1>8, <1>9, <1>10, <1>11 DEF RenderTurn

LEMMA VariantTurnTypes ==
  ASSUME WorkersTypes, NEW v \in Variants, VariantTurn(v)
  PROVE  WorkersTypes'
<1> USE DEF masterVars, stagingVars, renderVars
<1>1. CASE RequestRender(v) \/ Recover(v) \/ \E s \in Servers : DeletionRepeats(s, v)
  BY <1>1 DEF RequestRender, Recover, DeletionRepeats, WorkersTypes
<1>2. CASE DamageMaster(v) \/ \E s \in Servers : DeleteRow(s, v)
  BY <1>2 DEF DamageMaster, DeleteRow, WorkersTypes
<1>3. CASE CascadeRemoves(v) \/ \E s \in Servers : DeleteDirectory(s, v)
  <2>1. EmptyDirectory(v) /\ UNCHANGED <<recorded, working, renders>>
    BY <1>3 DEF CascadeRemoves, DeleteDirectory
  <2>2. /\ oldMaster' \in [Attempts -> Attempts \cup {Nil, Damaged}]
        /\ oldCover' \in [Attempts -> Attempts \cup {Nil}]
    BY <2>1, SetAllType DEF EmptyDirectory, WorkersTypes
  <2>3. QED
    BY <2>1, <2>2 DEF EmptyDirectory, WorkersTypes
<1>4. QED
  BY <1>1, <1>2, <1>3 DEF VariantTurn

LEMMA WorkersTypesNext ==
  ASSUME WorkersTypes, [RendersNext]_mediaVars
  PROVE  WorkersTypes'
<1>1. ASSUME UNCHANGED <<masterVars, renderVars>> PROVE WorkersTypes'
  BY <1>1 DEF masterVars, stagingVars, renderVars, WorkersTypes
<1>2. ASSUME NEW q \in Readers, ReaderTurn(q) PROVE WorkersTypes'
  BY <1>1, <1>2 DEF ReaderTurn, ReaderLooks, ReaderChecks, StreamOpens, StreamVerifies,
     ReaderCondemns, StreamEnds
<1>3. CASE UNCHANGED mediaVars \/ \E s \in Servers : ServerCrashes(s)
  BY <1>1, <1>3 DEF ServerCrashes, mediaVars
<1>4. CASE DeleteRenderedRun \/ DeleteItsProject
  <2>1. PICK gone : CascadeTo(gone)
    BY <1>4 DEF DeleteRenderedRun, DeleteItsProject
  <2>2. recorded' \in [Variants -> Attempts \cup {Nil, Damaged}]
    BY <2>1, SetAllType DEF CascadeTo, WorkersTypes
  <2>3. QED
    BY <2>1, <2>2 DEF CascadeTo, WorkersTypes, stagingVars, renderVars
<1>5. QED
  BY <1>2, <1>3, <1>4, RenderTurnTypes, VariantTurnTypes DEF RendersNext

LEMMA LeavingTypes ==
  ASSUME ReadersTypes, NEW q \in Readers, Leaves(q)
  PROVE  ReadersTypes'
<1>1. /\ reading' \in [Readers -> ReaderPlaces] /\ reads' \in [Readers -> Variants \cup {Nil}]
      /\ saw' \in [Readers -> Attempts \cup {Nil, Damaged}]
      /\ stream' \in [Readers -> Attempts \cup {Nil, Damaged}]
      /\ \A b \in Readers : reading'[b] # "idle" => reads'[b] \in Variants
  BY DEF Leaves, Reads, ReadersTypes, ReaderPlaces
<1>2. mediaLock' \in [Servers -> [Variants -> Readers \cup Variants \cup {Nil}]]
  <2>1. [v \in Variants |-> IF mediaLock[ServerOf[q]][v] = q THEN Nil ELSE mediaLock[ServerOf[q]][v]]
          \in [Variants -> Readers \cup Variants \cup {Nil}]
    BY RendersAssumption DEF ReadersTypes
  <2>2. QED
    BY <2>1 DEF Leaves, ReadersTypes
<1>3. QED
  BY <1>1, <1>2 DEF Leaves, ReadersTypes

LEMMA ReaderTurnTypes ==
  ASSUME WorkersTypes, ReadersTypes, NEW q \in Readers, ReaderTurn(q)
  PROVE  ReadersTypes'
<1> USE DEF ReaderPlaces, Reads
<1>1. ASSUME NEW v \in Variants, ReaderLooks(q, v) PROVE ReadersTypes'
  <2>1. /\ UNCHANGED <<stream, deleting, cascade, deletedVariants>>
        /\ recorded[v] \in Attempts \cup {Nil, Damaged}
        /\ reads' = [reads EXCEPT ![q] = v] /\ saw' = [saw EXCEPT ![q] = recorded[v]]
    BY <1>1 DEF ReaderLooks, WorkersTypes
  <2>2. PICK where \in {"looked", "found"} : reading' = [reading EXCEPT ![q] = where]
    BY <1>1 DEF ReaderLooks
  <2>3. mediaLock' \in [Servers -> [Variants -> Readers \cup Variants \cup {Nil}]]
    <3> DEFINE row == [mediaLock[ServerOf[q]] EXCEPT ![v] = q]
    <3>1. row \in [Variants -> Readers \cup Variants \cup {Nil}]
      BY RendersAssumption DEF ReadersTypes
    <3>2. mediaLock' = mediaLock \/ mediaLock' = [mediaLock EXCEPT ![ServerOf[q]] = row]
      BY <1>1 DEF ReaderLooks
    <3> HIDE DEF row
    <3>3. QED
      BY <3>1, <3>2 DEF ReadersTypes
  <2>4. QED
    BY <2>1, <2>2, <2>3 DEF ReadersTypes
<1>2. CASE ReaderChecks(q)
  <2>1. CASE Leaves(q)
    BY <2>1, LeavingTypes
  <2>2. CASE Reads(q, "condemning") /\ UNCHANGED <<reads, saw, stream, deleteVars>>
    BY <1>2, <2>2 DEF ReaderChecks, deleteVars, ReadersTypes
  <2>3. QED
    BY <1>2, <2>1, <2>2 DEF ReaderChecks
<1>3. CASE StreamOpens(q) \/ StreamVerifies(q)
  <2>1. PICK where \in {"condemning", "verifying", "streaming"} :
          reading' = [reading EXCEPT ![q] = where]
    BY <1>3 DEF StreamOpens, StreamVerifies
  <2>2. UNCHANGED <<reads, saw, deleteVars>> /\ reading[q] # "idle"
    BY <1>3 DEF StreamOpens, StreamVerifies
  <2>3. PICK file \in Attempts \cup {Nil, Damaged} : stream' = [stream EXCEPT ![q] = file]
    <3>1. master[reads[q]] \in Attempts \cup {Nil, Damaged} /\ stream[q] \in Attempts \cup {Nil, Damaged}
      BY <2>2 DEF ReadersTypes, WorkersTypes
    <3>2. QED
      BY <1>3, <3>1 DEF StreamOpens, StreamVerifies
  <2>4. QED
    BY <2>1, <2>2, <2>3 DEF deleteVars, ReadersTypes
<1>4. CASE ReaderCondemns(q) \/ StreamEnds(q)
  BY <1>4, LeavingTypes DEF ReaderCondemns, StreamEnds
<1>5. QED
  BY <1>1, <1>2, <1>3, <1>4 DEF ReaderTurn

LEMMA ReadersTypesNext ==
  ASSUME WorkersTypes, ReadersTypes, [RendersNext]_mediaVars
  PROVE  ReadersTypes'
<1>1. ASSUME UNCHANGED <<readerVars, deleteVars>> PROVE ReadersTypes'
  BY <1>1 DEF readerVars, deleteVars, ReadersTypes
<1>2. ASSUME NEW a \in Attempts, RenderTurn(a) PROVE ReadersTypes'
  BY <1>1, <1>2 DEF RenderTurn, RenderStarts, RenderProduces, MoveAside, MoveIn, RenderCompletes,
     RemoveStaging, RenderFails, UndoPublication, RenderEnds, RenderCrashes, RenderIsReaped,
     StopRender
<1>3. ASSUME NEW v \in Variants, VariantTurn(v) PROVE ReadersTypes'
  <2>1. CASE RequestRender(v) \/ Recover(v)
    BY <1>1, <2>1 DEF RequestRender, Recover
  <2>2. CASE DamageMaster(v)
    <3>1. stream' \in [Readers -> Attempts \cup {Nil, Damaged}]
      BY <2>2 DEF DamageMaster, ReadersTypes
    <3>2. QED
      BY <2>2, <3>1 DEF DamageMaster, deleteVars, ReadersTypes
  <2>3. ASSUME NEW s \in Servers, DeleteRow(s, v) PROVE ReadersTypes'
    BY <2>3 DEF DeleteRow, readerVars, ReadersTypes
  <2>4. ASSUME NEW s \in Servers, DeletionRepeats(s, v) PROVE ReadersTypes'
    BY <2>4 DEF DeletionRepeats, readerVars, ReadersTypes
  <2>5. ASSUME NEW s \in Servers, DeleteDirectory(s, v) PROVE ReadersTypes'
    BY <2>5 DEF DeleteDirectory, readerVars, ReadersTypes
  <2>6. CASE CascadeRemoves(v)
    BY <2>6 DEF CascadeRemoves, readerVars, ReadersTypes
  <2>7. QED
    BY <1>3, <2>1, <2>2, <2>3, <2>4, <2>5, <2>6 DEF VariantTurn
<1>4. ASSUME NEW s \in Servers, ServerCrashes(s) PROVE ReadersTypes'
  <2>1. /\ [v \in Variants |-> IF deleting[s][v] = "removing" THEN "cut" ELSE deleting[s][v]]
             \in [Variants -> {"none", "removing", "cut", "done"}]
        /\ [v \in Variants |-> Nil] \in [Variants -> Readers \cup Variants \cup {Nil}]
    BY DEF ReadersTypes
  <2>2. /\ mediaLock' \in [Servers -> [Variants -> Readers \cup Variants \cup {Nil}]]
        /\ deleting' \in [Servers -> [Variants -> {"none", "removing", "cut", "done"}]]
    BY <1>4, <2>1 DEF ServerCrashes, ReadersTypes
  <2>3. QED
    BY <1>4, <2>2 DEF ServerCrashes, ReadersTypes, ReaderPlaces
<1>5. CASE DeleteRenderedRun \/ DeleteItsProject
  <2>1. PICK gone \in SUBSET Variants : CascadeTo(gone)
    BY <1>5 DEF DeleteRenderedRun, DeleteItsProject
  <2>2. cascade' \in [Variants -> {"none", "removing", "done"}]
    BY <2>1, SetAllType DEF CascadeTo, ReadersTypes
  <2>3. QED
    BY <2>1, <2>2 DEF CascadeTo, readerVars, ReadersTypes
<1>6. CASE UNCHANGED mediaVars
  BY <1>1, <1>6 DEF mediaVars
<1>7. QED
  BY <1>2, <1>3, <1>4, <1>5, <1>6, ReaderTurnTypes DEF RendersNext

LEMMA InitRendersTypes == RendersInit => WorkersTypes /\ ReadersTypes
  BY DEF RendersInit, WorkersTypes, ReadersTypes, WorkerPlaces, ReaderPlaces

-----------------------------------------------------------------------------
(* Attempts and their workers. *)

\* A deletion of the variant, its run or its project removes the directory.
Emptied(v) ==
  /\ CascadeRemoves(v) \/ \E s \in Servers : DeleteDirectory(s, v)
  /\ EmptyDirectory(v) /\ UNCHANGED <<recorded, working, renders>>

\* Who touches files and staging directories: workers, deletions, and what damages
\* a master.
LEMMA FileTurns ==
  ASSUME [RendersNext]_mediaVars
  PROVE  \/ \E a \in Attempts : RenderTurn(a)
         \/ \E v \in Variants : Emptied(v)
         \/ \E v \in Variants : DamageMaster(v) /\ UNCHANGED renderVars
         \/ UNCHANGED <<master, cover, renderVars>>
<1> DEFINE Goal == \/ \E v \in Variants : Emptied(v)
                   \/ \E v \in Variants : DamageMaster(v) /\ UNCHANGED renderVars
                   \/ UNCHANGED <<master, cover, renderVars>>
<1>1. ASSUME NEW q \in Readers, ReaderTurn(q) PROVE Goal
  BY <1>1 DEF ReaderTurn, ReaderLooks, ReaderChecks, StreamOpens, StreamVerifies, ReaderCondemns,
     StreamEnds, masterVars
<1>2. ASSUME NEW v \in Variants, VariantTurn(v) PROVE Goal
  <2>1. CASE CascadeRemoves(v) \/ \E s \in Servers : DeleteDirectory(s, v)
    BY <2>1 DEF CascadeRemoves, DeleteDirectory, Emptied
  <2>2. CASE RequestRender(v) \/ Recover(v) \/ DamageMaster(v)
    BY <2>2 DEF RequestRender, Recover, DamageMaster, masterVars
  <2>3. CASE \E s \in Servers : DeleteRow(s, v) \/ DeletionRepeats(s, v)
    BY <2>3 DEF DeleteRow, DeletionRepeats, masterVars
  <2>4. QED
    BY <1>2, <2>1, <2>2, <2>3 DEF VariantTurn
<1>3. CASE \E s \in Servers : ServerCrashes(s)
  BY <1>3 DEF ServerCrashes, masterVars
<1>4. CASE DeleteRenderedRun \/ DeleteItsProject
  BY <1>4 DEF DeleteRenderedRun, DeleteItsProject, CascadeTo
<1>5. CASE UNCHANGED mediaVars
  BY <1>5 DEF mediaVars, masterVars
<1>6. QED
  BY <1>1, <1>2, <1>3, <1>4, <1>5 DEF RendersNext

\* A worker between its claim and its end works on an attempt that is claimed.
Claims ==
  \A a \in Attempts : working[a] \in Holding =>
    attStatus[a] \in ClaimedStatuses /\ attOwner[a] = renders[a]

\* Only a start gives an attempt a worker.
LEMMA WorkSteps ==
  ASSUME WorkersTypes, [RendersNext]_mediaVars, NEW a \in Attempts
  PROVE  \/ RenderStarts(a)
         \/ /\ renders'[a] = renders[a]
            /\ working'[a] \in Holding => working[a] \in Holding
            /\ working[a] # "none" => working'[a] # "none"
            /\ working[a] = "crashed" => working'[a] = "crashed"
<1> DEFINE Goal ==
      \/ RenderStarts(a)
      \/ /\ renders'[a] = renders[a]
         /\ working'[a] \in Holding => working[a] \in Holding
         /\ working[a] # "none" => working'[a] # "none"
         /\ working[a] = "crashed" => working'[a] = "crashed"
<1>1. ASSUME UNCHANGED renderVars PROVE Goal
  BY <1>1 DEF renderVars
<1>2. ASSUME UNCHANGED <<working, renders>> PROVE Goal
  BY <1>2
<1>3. ASSUME NEW b \in Attempts, NEW where, WorksOn(b, where), where # "none",
             working[b] # "crashed", where \in Holding => working[b] \in Holding
      PROVE  Goal
  BY <1>3 DEF WorksOn, WorkersTypes
<1>4. ASSUME NEW b \in Attempts, RenderTurn(b) PROVE Goal
  <2>1. CASE RenderStarts(b)
    BY <2>1 DEF RenderStarts, WorkersTypes
  <2>2. CASE RenderProduces(b) \/ MoveAside(b) \/ MoveIn(b)
    <3>1. PICK where \in {"produced", "asideMaster", "aside", "inMaster", "in"} : WorksOn(b, where)
      BY <2>2 DEF RenderProduces, MoveAside, MoveIn
    <3>2. working[b] \in {"preparing", "produced", "asideMaster", "aside", "inMaster"}
      BY <2>2 DEF RenderProduces, MoveAside, MoveIn
    <3>3. QED
      BY <1>3, <3>1, <3>2 DEF Holding, WorkerPlaces
  <2>3. CASE RenderCompletes(b) \/ RemoveStaging(b) \/ RenderEnds(b)
    <3>1. PICK where \in {"committed", "gone", "ending"} :
            WorksOn(b, where) /\ (where = "ending" => working[b] = "cleaning")
      BY <2>3 DEF RenderCompletes, RemoveStaging, RenderEnds
    <3>2. working[b] \in {"in", "committed", "cleaning", "ending"}
      BY <2>3 DEF RenderCompletes, RemoveStaging, RenderEnds
    <3>3. QED
      BY <1>3, <3>1, <3>2 DEF Holding, WorkerPlaces
  <2>4. CASE RenderFails(b) \/ UndoPublication(b)
    <3>1. PICK where \in {"undoIn", "undoInCover", "undoMaster", "undoAside", "undoCover", "cleaning"} :
            WorksOn(b, where)
      BY <2>4 DEF RenderFails, UndoPublication
    <3>2. working[b] \in {"preparing", "produced", "asideMaster", "aside", "inMaster", "in",
                           "undoIn", "undoMaster", "undoInCover", "undoAside", "undoCover"}
      BY <2>4 DEF RenderFails, UndoPublication
    <3>3. QED
      BY <1>3, <3>1, <3>2 DEF Holding, WorkerPlaces
  <2>5. CASE RenderCrashes(b)
    <3>1. WorksOn(b, "crashed") /\ working[b] # "crashed" /\ "crashed" \notin Holding
      BY <2>5 DEF RenderCrashes, Holding
    <3>2. QED
      BY <1>3, <3>1
  <2>6. CASE RenderIsReaped(b) \/ StopRender(b)
    BY <1>1, <2>6 DEF RenderIsReaped, StopRender
  <2>7. QED
    BY <1>4, <2>1, <2>2, <2>3, <2>4, <2>5, <2>6 DEF RenderTurn
<1>5. ASSUME NEW v \in Variants, Emptied(v) PROVE Goal
  BY <1>2, <1>5 DEF Emptied
<1>6. QED
  BY <1>1, <1>4, <1>5, FileTurns

\* Nothing but its own worker, or its crash, ends a claimed attempt.
LEMMA ClaimStays ==
  ASSUME IInv, WorkersTypes, ReadersTypes, [RendersNext]_mediaVars, NEW a \in Attempts,
         working'[a] \in Holding, attStatus[a] \in ClaimedStatuses
  PROVE  attStatus'[a] \in ClaimedStatuses /\ attOwner'[a] = attOwner[a]
<1> DEFINE Goal == attStatus'[a] \in ClaimedStatuses /\ attOwner'[a] = attOwner[a]
<1>1. AttemptTypes /\ JobMirrorsAttempt /\ attStatus[a] \in ActiveStatuses /\ attStatus[a] # "absent"
  BY TypeParts, StatusSets DEF IInv
<1>2. ASSUME UNCHANGED <<attStatus, attOwner>> PROVE Goal
  BY <1>2
<1>3. ASSUME NEW v \in Variants, QueueVariant(v) PROVE Goal
  BY <1>1, <1>3, InsertValues DEF QueueVariant, Owners
<1>4. ASSUME NEW b \in Attempts, NEW s, b # a, FinishAttempts({b}, s) PROVE Goal
  BY <1>1, <1>4 DEF FinishAttempts, SetAll, AttemptTypes
<1>5. ASSUME NEW v \in Variants, VariantUnavailable(v) PROVE Goal
  BY <1>2, <1>5 DEF VariantUnavailable, attemptVars
<1>6. ASSUME NEW S \in SUBSET Owners, ActiveAttempts(S) = {}, DeleteFamily(S) PROVE Goal
  <2>1. attOwner[a] \notin S
    BY <1>1, <1>6 DEF ActiveAttempts
  <2>2. QED
    BY <1>1, <1>6, <2>1 DEF DeleteFamily, SetAll, AttemptTypes
<1>7. ASSUME NEW b \in Attempts, RequestStop(b) PROVE Goal
  <2>1. CASE attStatus[b] = "queued" /\ FinishAttempts({b}, "interrupted")
    BY <1>4, <2>1, StatusSets
  <2>2. CASE /\ attStatus' = [attStatus EXCEPT ![b] = "stopping"]
             /\ UNCHANGED attOwner
    BY <1>1, <2>2 DEF AttemptTypes, ClaimedStatuses
  <2>3. QED
    BY <1>7, <2>1, <2>2 DEF RequestStop
<1>8. ASSUME NEW b \in Attempts, RenderStarts(b) PROVE Goal
  BY <1>1, <1>8 DEF RenderStarts, ClaimNextJob, ClaimJobRow, AttemptTypes, ClaimedStatuses
<1>9. ASSUME NEW b \in Attempts, RenderCompletes(b) PROVE Goal
  <2>1. b # a
    BY <1>9 DEF RenderCompletes, WorksOn, Holding, WorkersTypes
  <2>2. QED
    BY <1>4, <1>9, <2>1 DEF RenderCompletes, CompleteRenderVariant
<1>10. ASSUME NEW b \in Attempts, working'[b] \notin Holding,
              MarkAttemptInterrupted(b) \/ MarkAttemptFailed(b)
       PROVE  Goal
  BY <1>4, <1>10 DEF MarkAttemptInterrupted, MarkAttemptFailed, TransitionAttempt
<1>11. CASE UNCHANGED vars
  BY <1>2, <1>11 DEF vars, attemptVars
<1>12. QED
  BY <1>3, <1>5, <1>6, <1>7, <1>8, <1>9, <1>10, <1>11, StepRows, FamilyGoes
  DEF RowStep, CreateRenderVariant, RetryRenderVariant

LEMMA ClaimsNext ==
  ASSUME IInv, WorkersTypes, ReadersTypes, Claims, [RendersNext]_mediaVars
  PROVE  Claims'
<1> SUFFICES ASSUME NEW a \in Attempts, working'[a] \in Holding
             PROVE  attStatus'[a] \in ClaimedStatuses /\ attOwner'[a] = renders'[a]
  BY DEF Claims
<1>1. CASE RenderStarts(a)
  <2>1. attStatus \in [Attempts -> AttemptStatus \cup {"absent"}]
    BY DEF IInv, TypeOK
  <2>2. QED
    BY <1>1, <2>1 DEF RenderStarts, ClaimNextJob, ClaimJobRow, ClaimedStatuses, WorkersTypes
<1>2. CASE renders'[a] = renders[a] /\ working[a] \in Holding
  BY <1>2, ClaimStays DEF Claims
<1>3. QED
  BY <1>1, <1>2, WorkSteps

\* No two workers publish the files of one variant.
LEMMA LoneWorker ==
  ASSUME IInv, Claims, NEW a \in Attempts, NEW b \in Attempts, renders[a] = renders[b],
         working[a] \in Holding, working[b] \in Holding
  PROVE  a = b
<1>1. OneActiveAttempt /\ attOwner[a] = attOwner[b]
  BY DEF IInv, Claims
<1>2. attStatus[a] \in ActiveStatuses /\ attStatus[b] \in ActiveStatuses
  BY StatusSets DEF Claims
<1>3. QED
  BY <1>1, <1>2, ActiveIsLatest, LatestIsUnique

\* A variant somebody works on is not ready and has its row.
LEMMA HeldIsRendering ==
  ASSUME IInv, WorkersTypes, Claims, NEW a \in Attempts, working[a] \in Holding
  PROVE  variantStatus[renders[a]] = "rendering"
<1>1. renders[a] \in Variants /\ attOwner[a] = renders[a]
  BY DEF WorkersTypes, Claims, Holding
<1>2. attStatus[a] \in ClaimedStatuses /\ attStatus[a] \in ActiveStatuses /\ attStatus[a] # "absent"
  BY StatusSets DEF Claims
<1>3. IsLatest(a)
  BY <1>2, ActiveIsLatest DEF IInv
<1>4. QED
  BY <1>1, <1>2, <1>3, ClaimedOwners DEF IInv, OwnerFollowsLatestAttempt

\* An attempt is claimed when nobody works on its variant.
LEMMA StartIsAlone ==
  ASSUME IInv, Claims, NEW a \in Attempts, RenderStarts(a), NEW b \in Attempts,
         working[b] \in Holding
  PROVE  renders[b] # attOwner[a]
<1>1. attStatus[a] = "queued" /\ attStatus[a] \in ActiveStatuses
  BY StatusSets DEF RenderStarts, ClaimNextJob, QueuedJobs
<1>2. attStatus[b] \in ActiveStatuses /\ attStatus[b] # "queued" /\ attOwner[b] = renders[b]
  BY StatusSets DEF Claims
<1>3. QED
  BY <1>1, <1>2, ActiveIsLatest, LatestIsUnique DEF IInv

-----------------------------------------------------------------------------
(* Variants. *)

LEMMA VariantSteps ==
  ASSUME IInv, WorkersTypes, ReadersTypes, [RendersNext]_mediaVars, NEW v \in Variants
  PROVE  /\ variantStatus[v] = "absent" /\ v \in deletedVariants => variantStatus'[v] = "absent"
         /\ variantStatus'[v] = "ready" =>
              variantStatus[v] = "ready" \/ \E a \in Attempts : RenderCompletes(a) /\ renders[a] = v
<1> DEFINE Goal ==
      /\ variantStatus[v] = "absent" /\ v \in deletedVariants => variantStatus'[v] = "absent"
      /\ variantStatus'[v] = "ready" =>
           variantStatus[v] = "ready" \/ \E a \in Attempts : RenderCompletes(a) /\ renders[a] = v
<1>1. /\ variantStatus \in [Variants -> VariantStatus \cup {"absent"}]
      /\ \A a \in Attempts : attOwner[a] = v => variantStatus[v] # "absent"
  BY DEF IInv, TypeOK, NoOrphanRows
<1>2. ASSUME UNCHANGED variantStatus PROVE Goal
  BY <1>2
<1>3. ASSUME NEW u \in Variants, variantStatus' = [variantStatus EXCEPT ![u] = "queued"],
             u \notin deletedVariants \/ variantStatus[u] # "absent"
      PROVE  Goal
  BY <1>1, <1>3
<1>4. ASSUME NEW a \in Attempts, NEW s \in {"interrupted", "failed"}, UpdateOwnersTerminal({a}, s)
      PROVE  Goal
  BY <1>1, <1>4 DEF UpdateOwnersTerminal, SetAll
<1>5. ASSUME NEW u \in Variants, VariantUnavailable(u) PROVE Goal
  BY <1>1, <1>5 DEF VariantUnavailable
<1>6. ASSUME NEW S, DeleteFamily(S) PROVE Goal
  BY <1>1, <1>6 DEF DeleteFamily, SetAll
<1>7. ASSUME NEW a \in Attempts, RequestStop(a) PROVE Goal
  BY <1>2, <1>4, <1>7 DEF RequestStop, ownerVars
<1>8. ASSUME NEW a \in Attempts, RenderStarts(a) PROVE Goal
  BY <1>1, <1>8 DEF RenderStarts, ClaimNextJob, ClaimJobRow, SetAll
<1>9. ASSUME NEW a \in Attempts, RenderCompletes(a) PROVE Goal
  <2>1. /\ variantStatus[renders[a]] = "rendering"
        /\ variantStatus' = [variantStatus EXCEPT ![renders[a]] = "ready"]
    BY <1>9 DEF RenderCompletes, CompleteRenderVariant
  <2>2. QED
    BY <1>1, <1>9, <2>1
<1>10. ASSUME NEW a \in Attempts, MarkAttemptInterrupted(a) \/ MarkAttemptFailed(a) PROVE Goal
  BY <1>4, <1>10 DEF MarkAttemptInterrupted, MarkAttemptFailed, TransitionAttempt
<1>11. CASE UNCHANGED vars
  BY <1>2, <1>11 DEF vars, ownerVars
<1>12. ASSUME NEW u \in Variants \ deletedVariants, CreateRenderVariant(u) PROVE Goal
  BY <1>3, <1>12 DEF CreateRenderVariant, QueueVariant
<1>13. ASSUME NEW u \in Variants, RetryRenderVariant(u) PROVE Goal
  BY <1>3, <1>13 DEF RetryRenderVariant, QueueVariant
<1>14. QED
  BY <1>5, <1>6, <1>7, <1>8, <1>9, <1>10, <1>11, <1>12, <1>13, StepRows, FamilyGoes DEF RowStep

-----------------------------------------------------------------------------
(* Locks and deletions. *)

HoldsLock == {"found", "verifying", "streaming"}

\* What the locks and the deletions say of each other and of the rows.
Locks ==
  /\ \A v \in deletedVariants : variantStatus[v] = "absent"
  /\ \A v \in Variants : cascade[v] # "none" => v \in deletedVariants
  /\ \A s \in Servers, v \in Variants : deleting[s][v] # "none" => v \in deletedVariants
  /\ \A q \in Readers : reading[q] \in HoldsLock =>
       mediaLock[ServerOf[q]][reads[q]] = q /\ deleting[ServerOf[q]][reads[q]] = "none"

LEMMA LockSteps ==
  ASSUME [RendersNext]_mediaVars
  PROVE  \/ UNCHANGED <<reading, reads, saw, deleteVars>>
         \/ \E q \in Readers : ReaderTurn(q)
         \/ \E v \in Variants : CascadeRemoves(v)
         \/ \E s \in Servers, v \in Variants :
              DeleteRow(s, v) \/ DeletionRepeats(s, v) \/ DeleteDirectory(s, v)
         \/ \E s \in Servers : ServerCrashes(s)
         \/ DeleteRenderedRun \/ DeleteItsProject
<1>1. ASSUME NEW a \in Attempts, RenderTurn(a) PROVE UNCHANGED <<reading, reads, saw, deleteVars>>
  BY <1>1 DEF RenderTurn, RenderStarts, RenderProduces, MoveAside, MoveIn, RenderCompletes,
     RemoveStaging, RenderFails, UndoPublication, RenderEnds, RenderCrashes, RenderIsReaped,
     StopRender, readerVars
<1>2. ASSUME NEW v \in Variants, RequestRender(v) \/ Recover(v) \/ DamageMaster(v)
      PROVE  UNCHANGED <<reading, reads, saw, deleteVars>>
  BY <1>2 DEF RequestRender, Recover, DamageMaster, readerVars
<1>3. QED
  BY <1>1, <1>2 DEF RendersNext, VariantTurn, mediaVars, readerVars

\* The variants whose rows the deletion of the run or of the project takes.
LEMMA CascadeGoes ==
  ASSUME IInv, DeleteRenderedRun \/ DeleteItsProject
  PROVE  \E gone \in SUBSET Variants :
           /\ CascadeTo(gone)
           /\ \A v \in gone : v \in deletedVariants \/ variantStatus'[v] = "absent"
<1>1. variantStatus \in [Variants -> VariantStatus \cup {"absent"}]
  BY DEF IInv, TypeOK
<1>2. CASE DeleteRenderedRun
  <2> DEFINE gone == {v \in Variants : VariantRun(v) = RenderedRun /\ variantStatus[v] # "absent"}
  <2>1. CascadeTo(gone) /\ DeleteFamily(RunFamily(RenderedRun))
    BY <1>2 DEF DeleteRenderedRun, DeleteRun
  <2>2. \A v \in gone : variantStatus'[v] = "absent"
    BY <1>1, <2>1 DEF DeleteFamily, RunFamily, SetAll
  <2>3. QED
    BY <2>1, <2>2
<1>3. CASE DeleteItsProject
  <2> DEFINE p == RunProject[RenderedRun]
             gone == {v \in Variants : /\ RunProject[VariantRun(v)] = p
                                       /\ variantStatus[v] # "absent" \/ v \in deletedVariants}
  <2>1. CascadeTo(gone) /\ DeleteFamily(ProjectFamily(p))
    BY <1>3 DEF DeleteItsProject, DeleteProject
  <2>2. ASSUME NEW v \in gone PROVE v \in ProjectFamily(p)
    <3>1. VariantRun(v) \in Runs /\ p \in Projects
      BY StoreAssumption, RendersAssumption DEF VariantRun
    <3>2. VariantRun(v) \in ProjectFamily(p)
      BY <3>1, Families
    <3>3. QED
      BY <3>1, <3>2, Families
  <2>3. \A v \in gone : variantStatus'[v] = "absent"
    BY <1>1, <2>1, <2>2 DEF DeleteFamily, SetAll
  <2>4. QED
    BY <2>1, <2>3
<1>4. QED
  BY <1>2, <1>3

LEMMA DeletedStays ==
  ASSUME IInv, ReadersTypes, [RendersNext]_mediaVars
  PROVE  /\ deletedVariants \subseteq deletedVariants'
         /\ \A v \in deletedVariants' : v \in deletedVariants \/ variantStatus'[v] = "absent"
<1> DEFINE Goal ==
      /\ deletedVariants \subseteq deletedVariants'
      /\ \A v \in deletedVariants' : v \in deletedVariants \/ variantStatus'[v] = "absent"
<1>1. ASSUME UNCHANGED deletedVariants PROVE Goal
  BY <1>1
<1>2. ASSUME NEW q \in Readers, ReaderTurn(q) PROVE Goal
  BY <1>1, <1>2 DEF ReaderTurn, ReaderLooks, ReaderChecks, StreamOpens, StreamVerifies,
     ReaderCondemns, StreamEnds, Leaves, deleteVars
<1>3. ASSUME NEW s \in Servers, NEW v \in Variants, DeleteRow(s, v) PROVE Goal
  <2>1. variantStatus'[v] = "absent"
    BY <1>3 DEF DeleteRow, DeleteRenderVariant, DeleteFamily, SetAll, IInv, TypeOK
  <2>2. QED
    BY <1>3, <2>1 DEF DeleteRow
<1>4. ASSUME NEW s \in Servers, NEW v \in Variants, DeletionRepeats(s, v) \/ DeleteDirectory(s, v)
      PROVE  Goal
  BY <1>1, <1>4 DEF DeletionRepeats, DeleteDirectory
<1>5. CASE \/ \E v \in Variants : CascadeRemoves(v)
           \/ \E s \in Servers : ServerCrashes(s)
  BY <1>1, <1>5 DEF CascadeRemoves, ServerCrashes
<1>6. CASE DeleteRenderedRun \/ DeleteItsProject
  BY <1>6, CascadeGoes DEF CascadeTo
<1>7. QED
  BY <1>1, <1>2, <1>3, <1>4, <1>5, <1>6, LockSteps DEF deleteVars

\* A deletion is known by the row it has deleted.
LEMMA DeletionsNext ==
  ASSUME IInv, ReadersTypes, Locks, [RendersNext]_mediaVars, NEW v \in Variants
  PROVE  /\ cascade'[v] # "none" => v \in deletedVariants'
         /\ \A s \in Servers : deleting'[s][v] # "none" => v \in deletedVariants'
<1> DEFINE Goal == /\ cascade'[v] # "none" => v \in deletedVariants'
                   /\ \A s \in Servers : deleting'[s][v] # "none" => v \in deletedVariants'
<1>1. /\ cascade[v] # "none" => v \in deletedVariants'
      /\ \A s \in Servers : deleting[s][v] # "none" => v \in deletedVariants'
  BY DeletedStays DEF Locks
<1>2. ASSUME UNCHANGED <<cascade, deleting>> PROVE Goal
  BY <1>1, <1>2
<1>3. ASSUME NEW q \in Readers, ReaderTurn(q) PROVE Goal
  BY <1>2, <1>3 DEF ReaderTurn, ReaderLooks, ReaderChecks, StreamOpens, StreamVerifies,
     ReaderCondemns, StreamEnds, Leaves, deleteVars
<1>4. ASSUME NEW s \in Servers, NEW u \in Variants,
             DeleteRow(s, u) \/ DeletionRepeats(s, u) \/ DeleteDirectory(s, u)
      PROVE  Goal
  <2>1. PICK where : deleting' = [deleting EXCEPT ![s][u] = where] /\ cascade' = cascade
    BY <1>4 DEF DeleteRow, DeletionRepeats, DeleteDirectory
  <2>2. u \in deletedVariants'
    BY <1>1, <1>4, DeletedStays DEF DeleteRow, DeletionRepeats, DeleteDirectory, Locks
  <2>3. QED
    BY <1>1, <2>1, <2>2 DEF ReadersTypes
<1>5. ASSUME NEW u \in Variants, CascadeRemoves(u) PROVE Goal
  BY <1>1, <1>5 DEF CascadeRemoves, ReadersTypes
<1>6. ASSUME NEW s \in Servers, ServerCrashes(s) PROVE Goal
  BY <1>1, <1>6 DEF ServerCrashes, ReadersTypes
<1>7. CASE DeleteRenderedRun \/ DeleteItsProject
  <2>1. PICK gone \in SUBSET Variants : CascadeTo(gone)
    BY <1>7, CascadeGoes
  <2>2. QED
    BY <1>1, <2>1 DEF CascadeTo, SetAll, ReadersTypes
<1>8. QED
  BY <1>2, <1>3, <1>4, <1>5, <1>6, <1>7, LockSteps DEF deleteVars

\* A stream keeps its lock, and no deletion of its server comes in between.
LEMMA StreamsHoldLocks ==
  ASSUME IInv, ReadersTypes, Locks, [RendersNext]_mediaVars, NEW q \in Readers,
         reading'[q] \in HoldsLock
  PROVE  mediaLock'[ServerOf[q]][reads'[q]] = q /\ deleting'[ServerOf[q]][reads'[q]] = "none"
<1> DEFINE Goal == mediaLock'[ServerOf[q]][reads'[q]] = q /\ deleting'[ServerOf[q]][reads'[q]] = "none"
<1> USE RendersAssumption DEF Reads, HoldsLock
<1>0. Nil \notin Variants
  BY StoreAssumption DEF Owners
<1>1. reading[q] \in HoldsLock =>
        /\ reads[q] \in Variants
        /\ mediaLock[ServerOf[q]][reads[q]] = q /\ deleting[ServerOf[q]][reads[q]] = "none"
  BY DEF Locks, ReadersTypes
<1>2. ASSUME UNCHANGED <<reading, reads, mediaLock, deleting>> PROVE Goal
  BY <1>1, <1>2
<1>3. ASSUME NEW b \in Readers, ReaderTurn(b) PROVE Goal
  <2>1. ASSUME NEW v \in Variants, ReaderLooks(b, v) PROVE Goal
    <3>1. \A s \in Servers : deleting[s][v] = "none"
      BY <2>1 DEF ReaderLooks, Locks
    <3>2. QED
      BY <1>1, <2>1, <3>1 DEF ReaderLooks, ReadersTypes
  <2>2. CASE Leaves(b)
    BY <1>1, <2>2 DEF Leaves, ReadersTypes
  <2>3. CASE reading[b] = "looked" /\ Reads(b, "condemning") /\ UNCHANGED <<reads, deleteVars>>
    BY <1>1, <2>3 DEF deleteVars, ReadersTypes
  <2>4. CASE StreamOpens(b) \/ StreamVerifies(b)
    <3>1. UNCHANGED <<reads, mediaLock, deleting>> /\ (reading'[q] \in HoldsLock => reading[q] \in HoldsLock)
      BY <2>4 DEF StreamOpens, StreamVerifies, deleteVars, ReadersTypes
    <3>2. QED
      BY <1>1, <3>1
  <2>5. QED
    BY <1>3, <2>1, <2>2, <2>3, <2>4 DEF ReaderTurn, ReaderChecks, ReaderCondemns, StreamEnds
<1>4. ASSUME NEW s \in Servers, NEW v \in Variants, DeleteRow(s, v) \/ DeletionRepeats(s, v) PROVE Goal
  <2>1. /\ UNCHANGED <<reading, reads>> /\ mediaLock[s][v] = Nil
        /\ mediaLock' = [mediaLock EXCEPT ![s][v] = v]
        /\ deleting' = [deleting EXCEPT ![s][v] = "removing"]
    BY <1>4 DEF DeleteRow, DeletionRepeats, readerVars
  <2>2. QED
    BY <1>1, <2>1 DEF ReadersTypes
<1>5. ASSUME NEW s \in Servers, NEW v \in Variants, DeleteDirectory(s, v) PROVE Goal
  BY <1>1, <1>5 DEF DeleteDirectory, readerVars, ReadersTypes
<1>6. ASSUME NEW s \in Servers, ServerCrashes(s) PROVE Goal
  BY <1>1, <1>6 DEF ServerCrashes, ReadersTypes
<1>7. CASE \/ \E v \in Variants : CascadeRemoves(v)
           \/ DeleteRenderedRun \/ DeleteItsProject
  BY <1>2, <1>7 DEF CascadeRemoves, DeleteRenderedRun, DeleteItsProject, CascadeTo, readerVars
<1>8. QED
  BY <1>2, <1>3, <1>4, <1>5, <1>6, <1>7, LockSteps DEF deleteVars

LEMMA LocksNext ==
  ASSUME IInv, WorkersTypes, ReadersTypes, Locks, [RendersNext]_mediaVars
  PROVE  Locks'
<1>1. ASSUME NEW v \in deletedVariants' PROVE variantStatus'[v] = "absent"
  <2>1. v \in Variants
    BY <1>1, ReadersTypesNext DEF ReadersTypes
  <2>2. CASE v \in deletedVariants
    BY <2>1, <2>2, VariantSteps DEF Locks
  <2>3. QED
    BY <1>1, <2>2, DeletedStays
<1>2. QED
  BY <1>1, DeletionsNext, StreamsHoldLocks DEF Locks

-----------------------------------------------------------------------------
(* Files. *)

\* The files of a variant change by its worker, by damage, or with its directory.
LEMMA FileSteps ==
  ASSUME WorkersTypes, [RendersNext]_mediaVars, NEW v \in Variants
  PROVE  \/ UNCHANGED <<master[v], cover[v]>>
         \/ \E a \in Attempts : /\ renders[a] = v /\ working[a] \in Holding
                                /\ MoveAside(a) \/ MoveIn(a) \/ UndoPublication(a)
         \/ DamageMaster(v) \/ Emptied(v)
<1> DEFINE Goal ==
      \/ UNCHANGED <<master[v], cover[v]>>
      \/ \E a \in Attempts : /\ renders[a] = v /\ working[a] \in Holding
                             /\ MoveAside(a) \/ MoveIn(a) \/ UndoPublication(a)
      \/ DamageMaster(v) \/ Emptied(v)
<1>1. ASSUME UNCHANGED <<master, cover>> PROVE Goal
  BY <1>1
<1>2. ASSUME NEW a \in Attempts, MoveAside(a) \/ MoveIn(a) \/ UndoPublication(a) PROVE Goal
  <2>1. working[a] \in Holding
    BY <1>2 DEF MoveAside, MoveIn, UndoPublication, Holding, WorkerPlaces
  <2>2. /\ master' = [master EXCEPT ![renders[a]] = master'[renders[a]]]
        /\ cover' = [cover EXCEPT ![renders[a]] = cover'[renders[a]]]
    BY <1>2 DEF MoveAside, MoveIn, UndoPublication, WorkersTypes
  <2>3. CASE renders[a] = v
    BY <1>2, <2>1, <2>3
  <2>4. CASE renders[a] # v
    BY <2>2, <2>4 DEF WorkersTypes
  <2>5. QED
    BY <2>3, <2>4
<1>3. ASSUME NEW a \in Attempts, RenderTurn(a) PROVE Goal
  <2>1. CASE \/ RenderStarts(a) \/ RenderProduces(a) \/ RenderCompletes(a) \/ RemoveStaging(a)
             \/ RenderFails(a) \/ RenderEnds(a) \/ RenderCrashes(a) \/ RenderIsReaped(a)
             \/ StopRender(a)
    BY <1>1, <2>1 DEF RenderStarts, RenderProduces, RenderCompletes, RemoveStaging, RenderFails,
       RenderEnds, RenderCrashes, RenderIsReaped, StopRender, masterVars
  <2>2. QED
    BY <1>2, <1>3, <2>1 DEF RenderTurn
<1>4. ASSUME NEW u \in Variants, DamageMaster(u) PROVE Goal
  <2>1. cover' = cover /\ (u # v => master'[v] = master[v])
    BY <1>4 DEF DamageMaster, WorkersTypes
  <2>2. QED
    BY <1>4, <2>1
<1>5. ASSUME NEW u \in Variants, Emptied(u) PROVE Goal
  <2>1. u # v => UNCHANGED <<master[v], cover[v]>>
    BY <1>5 DEF Emptied, EmptyDirectory, WorkersTypes
  <2>2. QED
    BY <1>5, <2>1
<1>6. QED
  BY <1>1, <1>3, <1>4, <1>5, FileTurns

\* A directory is removed when the row is gone ...
LEMMA EmptiedIsDeleted ==
  ASSUME Locks, NEW v \in Variants, Emptied(v)
  PROVE  v \in deletedVariants
  BY DEF Emptied, CascadeRemoves, DeleteDirectory, Locks

\* ... and nobody works on the variant.
LEMMA RemovedIsFree ==
  ASSUME IInv, WorkersTypes, ReadersTypes, Claims, Locks, NEW a \in Attempts,
         working[a] \in Holding
  PROVE  renders[a] \in Variants /\ renders[a] \notin deletedVariants /\ ~Emptied(renders[a])
<1>1. variantStatus[renders[a]] = "rendering" /\ renders[a] \in Variants
  BY HeldIsRendering DEF WorkersTypes, Holding
<1>2. QED
  BY <1>1, EmptiedIsDeleted DEF Locks

\* While a worker publishes, the files of its variant are its own.
LEMMA HeldFiles ==
  ASSUME IInv, WorkersTypes, ReadersTypes, Claims, Locks, [RendersNext]_mediaVars,
         NEW a \in Attempts, working[a] \in Holding, NEW v \in Variants, renders[a] = v
  PROVE  \/ UNCHANGED <<master[v], cover[v]>>
         \/ MoveAside(a) \/ MoveIn(a) \/ UndoPublication(a)
<1>1. ~DamageMaster(v)
  BY DEF DamageMaster, RendersNow, Holding
<1>2. ~Emptied(v)
  BY RemovedIsFree
<1>3. ASSUME NEW b \in Attempts, renders[b] = v, working[b] \in Holding PROVE b = a
  BY <1>3, LoneWorker
<1>4. QED
  BY <1>1, <1>2, <1>3, FileSteps

\* Other workers leave an attempt's place and staging directory alone; a
\* deletion may empty it.
LEMMA OtherSteps ==
  ASSUME WorkersTypes, [RendersNext]_mediaVars, NEW a \in Attempts
  PROVE  \/ RenderTurn(a)
         \/ /\ UNCHANGED <<working[a], renders[a]>>
            /\ \/ UNCHANGED <<oldMaster[a], oldCover[a]>>
               \/ renders[a] \in Variants /\ Emptied(renders[a]) /\ oldCover'[a] = Nil
<1> DEFINE Quiet == UNCHANGED <<working[a], renders[a], oldMaster[a], oldCover[a]>>
<1>1. ASSUME UNCHANGED renderVars PROVE Quiet
  BY <1>1 DEF renderVars, stagingVars
<1>2. ASSUME NEW b \in Attempts, b # a, RenderTurn(b) PROVE Quiet
  <2>1. CASE \/ RenderStarts(b) \/ RenderProduces(b) \/ MoveAside(b) \/ MoveIn(b)
             \/ RenderCompletes(b) \/ RemoveStaging(b)
    BY <1>2, <2>1 DEF RenderStarts, RenderProduces, MoveAside, MoveIn, RenderCompletes,
       RemoveStaging, WorksOn, stagingVars, WorkersTypes
  <2>2. CASE RenderFails(b) \/ UndoPublication(b) \/ RenderEnds(b) \/ RenderCrashes(b)
    BY <1>2, <2>2 DEF RenderFails, UndoPublication, RenderEnds, RenderCrashes, WorksOn, stagingVars,
       WorkersTypes
  <2>3. CASE RenderIsReaped(b) \/ StopRender(b)
    BY <1>1, <2>3 DEF RenderIsReaped, StopRender
  <2>4. QED
    BY <1>2, <2>1, <2>2, <2>3 DEF RenderTurn
<1>3. ASSUME NEW v \in Variants, Emptied(v)
      PROVE  /\ UNCHANGED <<working[a], renders[a]>>
             /\ \/ UNCHANGED <<oldMaster[a], oldCover[a]>>
                \/ renders[a] \in Variants /\ Emptied(renders[a]) /\ oldCover'[a] = Nil
  <2>1. CASE renders[a] = v
    BY <1>3, <2>1 DEF Emptied, EmptyDirectory, SetAll, WorkersTypes
  <2>2. CASE renders[a] # v
    BY <1>3, <2>2 DEF Emptied, EmptyDirectory, SetAll, WorkersTypes
  <2>3. QED
    BY <2>1, <2>2
<1>4. QED
  BY <1>1, <1>2, <1>3, FileTurns

-----------------------------------------------------------------------------
(* What a worker has moved. *)

\* What lies in place when a worker records it, and that no cover is aside before
\* a worker has moved one.
InPlace ==
  \A a \in Attempts :
    /\ working[a] \in {"inMaster", "in"} => master[renders[a]] = a
    /\ working[a] = "in" => cover[renders[a]] = a
    /\ working[a] \in {"none", "preparing", "produced", "asideMaster"} => oldCover[a] = Nil

LEMMA InPlaceNext ==
  ASSUME IInv, WorkersTypes, ReadersTypes, Claims, Locks, InPlace, [RendersNext]_mediaVars
  PROVE  InPlace'
<1> DEFINE P(a) == /\ working[a] \in {"inMaster", "in"} => master[renders[a]] = a
                   /\ working[a] = "in" => cover[renders[a]] = a
                   /\ working[a] \in {"none", "preparing", "produced", "asideMaster"} =>
                        oldCover[a] = Nil
<1> SUFFICES ASSUME NEW a \in Attempts PROVE P(a)'
  BY DEF InPlace
<1>1. P(a)
  BY DEF InPlace
<1>2. ASSUME UNCHANGED <<working[a], renders[a]>>, ~RenderTurn(a) PROVE P(a)'
  <2>1. ASSUME working[a] \in {"inMaster", "in"}
        PROVE  UNCHANGED <<master[renders[a]], cover[renders[a]]>>
    <3>1. working[a] \in Holding /\ renders[a] \in Variants
      BY <2>1 DEF Holding, WorkerPlaces, WorkersTypes
    <3>2. QED
      BY <1>2, <3>1, HeldFiles DEF RenderTurn
  <2>2. oldCover'[a] = oldCover[a] \/ oldCover'[a] = Nil
    BY <1>2, OtherSteps
  <2>3. QED
    BY <1>1, <1>2, <2>1, <2>2
<1>3. CASE RenderTurn(a)
  <2> USE DEF WorksOn, WorkersTypes, stagingVars, masterVars
  <2>1. CASE RenderStarts(a)
    BY <1>1, <2>1 DEF RenderStarts
  <2>2. CASE RenderProduces(a)
    BY <1>1, <2>2 DEF RenderProduces
  <2>3. CASE MoveAside(a)
    BY <1>1, <2>3 DEF MoveAside
  <2>4. CASE MoveIn(a)
    BY <1>1, <2>4 DEF MoveIn
  <2>5. CASE RenderCompletes(a) \/ RemoveStaging(a) \/ RenderEnds(a) \/ RenderCrashes(a)
    BY <1>1, <2>5 DEF RenderCompletes, RemoveStaging, RenderEnds, RenderCrashes
  <2>6. CASE RenderFails(a)
    BY <1>1, <2>6 DEF RenderFails
  <2>7. CASE UndoPublication(a)
    BY <1>1, <2>7 DEF UndoPublication
  <2>8. CASE RenderIsReaped(a) \/ StopRender(a)
    BY <1>1, <2>8 DEF RenderIsReaped, StopRender, renderVars
  <2>9. QED
    BY <1>3, <2>1, <2>2, <2>3, <2>4, <2>5, <2>6, <2>7, <2>8 DEF RenderTurn
<1>4. QED
  BY <1>2, <1>3, OtherSteps

-----------------------------------------------------------------------------
(* Recorded masters. *)

\* The recorded master changes with a completion or with its row.
LEMMA RecordSteps ==
  ASSUME IInv, WorkersTypes, [RendersNext]_mediaVars, NEW v \in Variants
  PROVE  \/ recorded'[v] = recorded[v]
         \/ \E a \in Attempts : RenderCompletes(a) /\ renders[a] = v
         \/ recorded'[v] = Nil /\ v \in deletedVariants'
<1> DEFINE Goal == \/ recorded'[v] = recorded[v]
                   \/ \E a \in Attempts : RenderCompletes(a) /\ renders[a] = v
                   \/ recorded'[v] = Nil /\ v \in deletedVariants'
<1>1. ASSUME UNCHANGED recorded PROVE Goal
  BY <1>1
<1>2. ASSUME NEW a \in Attempts, RenderTurn(a) PROVE Goal
  <2>1. CASE RenderCompletes(a)
    BY <2>1 DEF RenderCompletes, WorkersTypes
  <2>2. QED
    BY <1>1, <1>2, <2>1 DEF RenderTurn, RenderStarts, RenderProduces, MoveAside, MoveIn,
       RemoveStaging, RenderFails, UndoPublication, RenderEnds, RenderCrashes, RenderIsReaped,
       StopRender, masterVars
<1>3. ASSUME NEW q \in Readers, ReaderTurn(q) PROVE Goal
  BY <1>1, <1>3 DEF ReaderTurn, ReaderLooks, ReaderChecks, StreamOpens, StreamVerifies,
     ReaderCondemns, StreamEnds, masterVars
<1>4. ASSUME NEW u \in Variants, VariantTurn(u) PROVE Goal
  <2>1. CASE \E s \in Servers : DeleteRow(s, u)
    BY <2>1 DEF DeleteRow, WorkersTypes
  <2>2. QED
    BY <1>1, <1>4, <2>1 DEF VariantTurn, RequestRender, Recover, DamageMaster, CascadeRemoves,
       DeletionRepeats, DeleteDirectory, masterVars
<1>5. CASE UNCHANGED mediaVars \/ \E s \in Servers : ServerCrashes(s)
  BY <1>1, <1>5 DEF ServerCrashes, mediaVars, masterVars
<1>6. CASE DeleteRenderedRun \/ DeleteItsProject
  <2>1. PICK gone \in SUBSET Variants : CascadeTo(gone)
    BY <1>6, CascadeGoes
  <2>2. QED
    BY <2>1 DEF CascadeTo, SetAll, WorkersTypes
<1>7. QED
  BY <1>2, <1>3, <1>4, <1>5, <1>6 DEF RendersNext

\* The recorded attempt has rendered the variant.
RecordsAreOwn ==
  \A v \in Variants : recorded[v] \in Attempts =>
    working[recorded[v]] # "none" /\ renders[recorded[v]] = v

LEMMA RecordsNext ==
  ASSUME IInv, WorkersTypes, InPlace, RecordsAreOwn, [RendersNext]_mediaVars
  PROVE  RecordsAreOwn'
<1> SUFFICES ASSUME NEW v \in Variants, recorded'[v] \in Attempts
             PROVE  working'[recorded'[v]] # "none" /\ renders'[recorded'[v]] = v
  BY DEF RecordsAreOwn
<1>1. ASSUME NEW a \in Attempts, working[a] # "none", renders[a] = v
      PROVE  working'[a] # "none" /\ renders'[a] = v
  BY <1>1, WorkSteps DEF RenderStarts
<1>2. ASSUME NEW a \in Attempts, RenderCompletes(a), renders[a] = v PROVE recorded'[v] = a
  BY <1>2 DEF RenderCompletes, InPlace, WorkersTypes
<1>3. ASSUME NEW a \in Attempts, RenderCompletes(a) PROVE working[a] # "none"
  BY <1>3 DEF RenderCompletes
<1>4. QED
  BY <1>1, <1>2, <1>3, RecordSteps, RendersAssumption DEF RecordsAreOwn, Attempts

LEMMA ReadyNext ==
  ASSUME IInv, WorkersTypes, ReadersTypes, Claims, Locks, InPlace, ReadyMasterIsRecorded,
         [RendersNext]_mediaVars
  PROVE  ReadyMasterIsRecorded'
<1> SUFFICES ASSUME NEW v \in Variants, variantStatus'[v] = "ready"
             PROVE  /\ recorded'[v] \in Attempts
                    /\ master'[v] \in {recorded'[v], Damaged}
                    /\ cover'[v] = recorded'[v]
  BY DEF ReadyMasterIsRecorded
<1>1. ASSUME NEW a \in Attempts, RenderCompletes(a), renders[a] = v
      PROVE  recorded'[v] = a /\ master'[v] = a /\ cover'[v] = a
  BY <1>1 DEF RenderCompletes, InPlace, WorkersTypes
<1>2. CASE variantStatus[v] = "ready" /\ ~\E a \in Attempts : RenderCompletes(a) /\ renders[a] = v
  <2>1. recorded[v] \in Attempts /\ master[v] \in {recorded[v], Damaged} /\ cover[v] = recorded[v]
    BY <1>2 DEF ReadyMasterIsRecorded
  <2>2. v \notin deletedVariants' /\ v \notin deletedVariants
    BY <1>2, LocksNext DEF Locks
  <2>4. recorded'[v] = recorded[v]
    BY <1>2, <2>2, RecordSteps
  <2>5. \A a \in Attempts : renders[a] = v => working[a] \notin Holding
    BY <1>2, HeldIsRendering
  <2>6. ~Emptied(v)
    BY <2>2, EmptiedIsDeleted
  <2>7. ASSUME DamageMaster(v) PROVE master'[v] = Damaged /\ cover'[v] = cover[v]
    BY <2>7 DEF DamageMaster, WorkersTypes
  <2>8. QED
    BY <2>1, <2>4, <2>5, <2>6, <2>7, FileSteps
<1>3. QED
  BY <1>1, <1>2, VariantSteps

-----------------------------------------------------------------------------
(* Pairs. *)

Paired(m, c) ==
  /\ m = Nil <=> c = Nil
  /\ m \in Attempts => c = m

\* While no worker of the variant has crashed.
NoCrash(v) == \A a \in Attempts : renders[a] = v => working[a] # "crashed"
Held(v) == \E a \in Attempts : renders[a] = v /\ working[a] \in Holding

\* The pair in place, or aside, at each step of a worker.
PairedAt(a) ==
  LET v == renders[a] IN
  /\ working[a] \in {"preparing", "produced", "cleaning", "ending"} => Paired(master[v], cover[v])
  /\ working[a] = "asideMaster" => master[v] = Nil /\ Paired(oldMaster[a], cover[v])
  /\ working[a] = "aside" => master[v] = Nil /\ cover[v] = Nil
  /\ working[a] \in {"inMaster", "undoMaster"} => cover[v] = Nil
  /\ working[a] \in {"aside", "inMaster", "undoMaster", "in", "undoIn", "undoInCover"} =>
       Paired(oldMaster[a], oldCover[a])
  /\ working[a] \in {"undoInCover", "undoAside"} => master[v] = Nil
  /\ working[a] = "undoAside" =>
       \/ cover[v] = Nil /\ Paired(oldMaster[a], oldCover[a])
       \/ oldCover[a] = Nil /\ Paired(oldMaster[a], cover[v])
  /\ working[a] = "undoCover" =>
       \/ cover[v] = Nil /\ Paired(master[v], oldCover[a])
       \/ oldCover[a] = Nil /\ Paired(master[v], cover[v])

Pairs ==
  \A v \in Variants : NoCrash(v) =>
    /\ ~Held(v) => Paired(master[v], cover[v])
    /\ \A a \in Attempts : renders[a] = v /\ working[a] \in Holding => PairedAt(a)

LEMMA NoCrashBefore ==
  ASSUME IInv, WorkersTypes, [RendersNext]_mediaVars, NEW v \in Variants, NoCrash(v)'
  PROVE  NoCrash(v)
<1> SUFFICES ASSUME NEW a \in Attempts, renders[a] = v, working[a] = "crashed" PROVE FALSE
  BY DEF NoCrash
<1>1. ~RenderStarts(a)
  BY DEF RenderStarts
<1>2. renders'[a] = v /\ working'[a] = "crashed"
  BY <1>1, WorkSteps
<1>3. QED
  BY <1>2 DEF NoCrash

\* A worker's own steps.
LEMMA OwnPairs ==
  ASSUME IInv, WorkersTypes, ReadersTypes, Claims, InPlace, NEW a \in Attempts, RenderTurn(a),
         NEW v \in Variants, renders'[a] = v, working'[a] \in Holding,
         ~RenderStarts(a) => renders[a] = v /\ working[a] \in Holding /\ PairedAt(a),
         RenderStarts(a) => Paired(master[v], cover[v])
  PROVE  PairedAt(a)'
<1> USE RendersAssumption DEF WorksOn, stagingVars, masterVars
<1>1. /\ working \in [Attempts -> WorkerPlaces] /\ renders \in [Attempts -> Variants \cup {Nil}]
      /\ master \in [Variants -> Attempts \cup {Nil, Damaged}]
      /\ cover \in [Variants -> Attempts \cup {Nil}]
      /\ oldMaster \in [Attempts -> Attempts \cup {Nil, Damaged}]
      /\ oldCover \in [Attempts -> Attempts \cup {Nil}]
  BY DEF WorkersTypes
<1>2. a # Nil
  BY DEF Attempts
<1>3. Paired(Nil, Nil)
  BY <1>2, RendersAssumption DEF Paired, Attempts
<1>4. CASE RenderStarts(a)
  <2>1. working'[a] = "preparing" /\ UNCHANGED <<master, cover>>
    BY <1>1, <1>4 DEF RenderStarts
  <2>2. QED
    BY <1>4, <2>1 DEF PairedAt
<1> SUFFICES ASSUME ~RenderStarts(a) PROVE PairedAt(a)'
  BY <1>4
<1>5. renders[a] = v /\ working[a] \in Holding /\ PairedAt(a)
  OBVIOUS
<1>6. CASE RenderProduces(a)
  <2>1. working[a] = "preparing" /\ working'[a] = "produced" /\ UNCHANGED <<master, cover>>
    BY <1>1, <1>6 DEF RenderProduces
  <2>2. QED
    BY <1>5, <2>1 DEF PairedAt
<1>7. CASE MoveAside(a)
  <2>1. \/ /\ working[a] = "produced" /\ working'[a] = "asideMaster"
           /\ master'[v] = Nil /\ oldMaster'[a] = master[v] /\ UNCHANGED <<cover, oldCover>>
        \/ /\ working[a] = "asideMaster" /\ working'[a] = "aside"
           /\ cover'[v] = Nil /\ oldCover'[a] = cover[v] /\ UNCHANGED <<master, oldMaster>>
    BY <1>1, <1>5, <1>7 DEF MoveAside
  <2>2. QED
    BY <1>5, <2>1 DEF PairedAt
<1>8. CASE MoveIn(a)
  <2>1. /\ UNCHANGED <<oldMaster, oldCover>>
        /\ \/ working[a] = "aside" /\ working'[a] = "inMaster" /\ UNCHANGED cover
           \/ working[a] = "inMaster" /\ working'[a] = "in"
    BY <1>1, <1>5, <1>8 DEF MoveIn
  <2>2. QED
    BY <1>5, <2>1 DEF PairedAt
<1>9. CASE RemoveStaging(a)
  <2>1. working[a] = "cleaning" /\ working'[a] = "ending" /\ UNCHANGED <<master, cover>>
    BY <1>1, <1>5, <1>9 DEF RemoveStaging, Holding
  <2>2. QED
    BY <1>5, <2>1 DEF PairedAt
<1>10. CASE RenderFails(a)
  <2>1. UNCHANGED <<master, cover, oldMaster, oldCover>>
    BY <1>10 DEF RenderFails
  <2>2. \/ working[a] = "in" /\ working'[a] = "undoIn"
        \/ working[a] = "inMaster" /\ working'[a] = "undoMaster"
        \/ working[a] \in {"asideMaster", "aside"} /\ working'[a] = "undoAside"
        \/ working[a] \in {"preparing", "produced"} /\ working'[a] = "cleaning"
    BY <1>1, <1>10 DEF RenderFails
  <2>3. working[a] = "asideMaster" => oldCover[a] = Nil
    BY DEF InPlace
  <2>4. QED
    BY <1>5, <2>1, <2>2, <2>3 DEF PairedAt
<1>11. CASE UndoPublication(a)
  <2>1. UNCHANGED <<oldMaster, oldCover>>
    BY <1>11 DEF UndoPublication
  <2>2. \/ /\ working[a] = "undoIn" /\ working'[a] = "undoInCover" /\ master'[v] = Nil
        \/ /\ working[a] = "undoMaster" /\ working'[a] = "undoAside" /\ master'[v] = Nil
           /\ UNCHANGED cover
        \/ /\ working[a] = "undoInCover" /\ working'[a] = "undoAside" /\ cover'[v] = Nil
           /\ UNCHANGED master
        \/ /\ working[a] = "undoAside" /\ working'[a] = "undoCover"
           /\ master'[v] = (IF oldMaster[a] = Nil THEN master[v] ELSE oldMaster[a]) /\ UNCHANGED cover
        \/ /\ working[a] = "undoCover" /\ working'[a] = "cleaning"
           /\ cover'[v] = (IF oldCover[a] = Nil THEN cover[v] ELSE oldCover[a]) /\ UNCHANGED master
    BY <1>1, <1>5, <1>11 DEF UndoPublication
  <2>3. QED
    BY <1>5, <2>1, <2>2 DEF PairedAt
<1>12. CASE RenderIsReaped(a) \/ StopRender(a)
  <2>1. UNCHANGED <<working, master, cover, oldMaster, oldCover>>
    BY <1>12 DEF RenderIsReaped, StopRender, renderVars
  <2>2. QED
    BY <1>5, <2>1 DEF PairedAt
<1>13. CASE RenderCompletes(a) \/ RenderEnds(a) \/ RenderCrashes(a)
  <2>1. working'[a] \in {"committed", "gone", "crashed"}
    BY <1>1, <1>13 DEF RenderCompletes, RenderEnds, RenderCrashes
  <2>2. QED
    BY <2>1 DEF Holding
<1>14. QED
  BY <1>6, <1>7, <1>8, <1>9, <1>10, <1>11, <1>12, <1>13 DEF RenderTurn

\* A worker of the variant after a step.
LEMMA HeldPairsNext ==
  ASSUME IInv, WorkersTypes, ReadersTypes, Claims, Locks, InPlace, Pairs, [RendersNext]_mediaVars,
         NEW v \in Variants, NoCrash(v), NEW a \in Attempts, renders'[a] = v, working'[a] \in Holding
  PROVE  PairedAt(a)'
<1>1. CASE RenderStarts(a)
  <2>1. attOwner[a] = v
    BY <1>1 DEF RenderStarts, WorkersTypes
  <2>2. ~Held(v)
    BY <1>1, <2>1, StartIsAlone DEF Held
  <2>3. Paired(master[v], cover[v]) /\ RenderTurn(a)
    BY <1>1, <2>2 DEF Pairs, RenderTurn
  <2>4. QED
    BY <1>1, <2>3, OwnPairs
<1>2. CASE ~RenderStarts(a)
  <2>1. renders[a] = v /\ working[a] \in Holding
    BY <1>2, WorkSteps
  <2>2. PairedAt(a)
    BY <2>1 DEF Pairs
  <2>3. CASE RenderTurn(a)
    BY <1>2, <2>1, <2>2, <2>3, OwnPairs
  <2>4. CASE ~RenderTurn(a)
    <3>1. ~Emptied(v)
      BY <2>1, RemovedIsFree
    <3>2. UNCHANGED <<working[a], renders[a], oldMaster[a], oldCover[a]>>
      BY <2>1, <2>4, <3>1, OtherSteps
    <3>3. UNCHANGED <<master[v], cover[v]>>
      BY <2>1, <2>4, HeldFiles DEF RenderTurn
    <3>4. QED
      BY <2>1, <2>2, <3>2, <3>3 DEF PairedAt
  <2>5. QED
    BY <2>3, <2>4
<1>3. QED
  BY <1>1, <1>2

\* A worker that lets go of its variant.
LEMMA ReleasedPairs ==
  ASSUME IInv, WorkersTypes, ReadersTypes, Claims, Locks, InPlace, [RendersNext]_mediaVars,
         NEW v \in Variants, NoCrash(v)', NEW a \in Attempts, renders[a] = v,
         working[a] \in Holding, working'[a] \notin Holding, PairedAt(a)
  PROVE  Paired(master'[v], cover'[v])
<1>1. renders'[a] = v /\ RenderTurn(a)
  <2>1. RenderTurn(a)
    BY OtherSteps
  <2>2. ~RenderStarts(a)
    BY DEF RenderStarts, Holding
  <2>3. QED
    BY <2>1, <2>2, WorkSteps
<1>2. working'[a] # "crashed"
  BY <1>1 DEF NoCrash
<1> USE DEF WorksOn, WorkersTypes, masterVars
<1>3. CASE RenderCompletes(a)
  <2>1. master'[v] = a /\ cover'[v] = a
    BY <1>3 DEF RenderCompletes, InPlace
  <2>2. QED
    BY <2>1, RendersAssumption DEF Paired, Attempts
<1>4. CASE RenderEnds(a)
  <2>1. working[a] = "ending" /\ UNCHANGED <<master, cover>>
    BY <1>4 DEF RenderEnds
  <2>2. QED
    BY <2>1 DEF PairedAt
<1>5. CASE RenderCrashes(a)
  BY <1>2, <1>5 DEF RenderCrashes
<1>6. CASE RenderStarts(a) \/ RenderProduces(a) \/ MoveAside(a) \/ MoveIn(a)
  <2>1. working'[a] \in {"preparing", "produced", "asideMaster", "aside", "inMaster", "in"}
    BY <1>6 DEF RenderStarts, RenderProduces, MoveAside, MoveIn
  <2>2. QED
    BY <2>1 DEF Holding, WorkerPlaces
<1>7. CASE RemoveStaging(a) \/ RenderFails(a)
  <2>1. working'[a] \in {"ending", "undoIn", "undoMaster", "undoAside", "cleaning"}
    BY <1>7 DEF RemoveStaging, RenderFails, Holding
  <2>2. QED
    BY <2>1 DEF Holding, WorkerPlaces
<1>8. CASE UndoPublication(a)
  <2>1. working'[a] \in {"undoInCover", "undoAside", "undoCover", "cleaning"}
    BY <1>8 DEF UndoPublication
  <2>2. QED
    BY <2>1 DEF Holding, WorkerPlaces
<1>9. CASE RenderIsReaped(a) \/ StopRender(a)
  BY <1>9 DEF RenderIsReaped, StopRender, renderVars
<1>10. QED
  BY <1>1, <1>3, <1>4, <1>5, <1>6, <1>7, <1>8, <1>9 DEF RenderTurn

LEMMA PairsNext ==
  ASSUME IInv, WorkersTypes, ReadersTypes, Claims, Locks, InPlace, Pairs, [RendersNext]_mediaVars
  PROVE  Pairs'
<1> SUFFICES ASSUME NEW v \in Variants, NoCrash(v)'
             PROVE  /\ ~Held(v)' => Paired(master'[v], cover'[v])
                    /\ \A a \in Attempts : renders'[a] = v /\ working'[a] \in Holding => PairedAt(a)'
  BY DEF Pairs, Paired
<1>1. NoCrash(v)
  BY NoCrashBefore
<1>2. ASSUME NEW a \in Attempts, renders'[a] = v, working'[a] \in Holding PROVE PairedAt(a)'
  BY <1>1, <1>2, HeldPairsNext
<1>3. ASSUME ~Held(v)' PROVE Paired(master'[v], cover'[v])
  <2>1. CASE Held(v)
    <3>1. PICK a \in Attempts : renders[a] = v /\ working[a] \in Holding
      BY <2>1 DEF Held
    <3>2. PairedAt(a)
      BY <1>1, <3>1 DEF Pairs
    <3>3. ~RenderStarts(a)
      BY <3>1 DEF RenderStarts, Holding
    <3>4. working'[a] \notin Holding
      BY <1>3, <3>1, <3>3, WorkSteps DEF Held
    <3>5. QED
      BY <3>1, <3>2, <3>4, ReleasedPairs
  <2>2. CASE ~Held(v)
    <3>1. Paired(master[v], cover[v])
      BY <1>1, <2>2 DEF Pairs
    <3>2. CASE UNCHANGED <<master[v], cover[v]>>
      BY <3>1, <3>2
    <3>3. CASE DamageMaster(v)
      <4>1. master'[v] = Damaged /\ cover'[v] = cover[v] /\ master[v] \in Attempts
        BY <3>3 DEF DamageMaster, WorkersTypes
      <4>2. Damaged \notin Attempts /\ Damaged # Nil /\ Nil \notin Attempts
        BY StoreAssumption, RendersAssumption DEF Damaged, Attempts
      <4>3. QED
        BY <3>1, <4>1, <4>2 DEF Paired
    <3>4. CASE Emptied(v)
      <4>1. master'[v] = Nil /\ cover'[v] = Nil
        BY <3>4 DEF Emptied, EmptyDirectory, WorkersTypes
      <4>2. Nil \notin Attempts
        BY RendersAssumption DEF Attempts
      <4>3. QED
        BY <4>1, <4>2 DEF Paired
    <3>5. QED
      BY <2>2, <3>2, <3>3, <3>4, FileSteps DEF Held
  <2>3. QED
    BY <2>1, <2>2
<1>4. QED
  BY <1>2, <1>3

-----------------------------------------------------------------------------
(* Deleted variants. *)

\* A staging directory appears with its worker only.
LEMMA StagingSteps ==
  ASSUME WorkersTypes, [RendersNext]_mediaVars, NEW a \in Attempts, a \in staging'
  PROVE  a \in staging \/ RenderStarts(a)
<1>1. ASSUME NEW b \in Attempts, RenderTurn(b) PROVE a \in staging \/ RenderStarts(a)
  <2>1. CASE RenderStarts(b)
    <3>1. a \in staging \/ a = b
      BY <2>1 DEF RenderStarts
    <3>2. CASE a = b
      BY <2>1, <3>2, Zenon
    <3>3. QED
      BY <3>1, <3>2
  <2>2. QED
    BY <1>1, <2>1 DEF RenderTurn, RenderProduces, MoveAside, MoveIn, RenderCompletes, RemoveStaging,
       RenderFails, UndoPublication, RenderEnds, RenderCrashes, RenderIsReaped, StopRender,
       stagingVars, renderVars
<1>2. ASSUME NEW v \in Variants, Emptied(v) PROVE a \in staging
  BY <1>2 DEF Emptied, EmptyDirectory
<1>3. CASE UNCHANGED renderVars
  BY <1>3 DEF renderVars, stagingVars
<1>4. QED
  BY <1>1, <1>2, <1>3, FileTurns

\* A deletion that has answered.
Answered(v) == cascade[v] = "done" \/ \E s \in Servers : deleting[s][v] = "done"

LEMMA DoneSteps ==
  ASSUME ReadersTypes, [RendersNext]_mediaVars, NEW v \in Variants, Answered(v)'
  PROVE  Answered(v) \/ Emptied(v)
<1> DEFINE Goal == Answered(v) \/ Emptied(v)
<1> USE DEF Answered
<1>1. ASSUME UNCHANGED <<cascade, deleting>> PROVE Goal
  BY <1>1
<1>2. ASSUME NEW q \in Readers, ReaderTurn(q) PROVE Goal
  BY <1>1, <1>2 DEF ReaderTurn, ReaderLooks, ReaderChecks, StreamOpens, StreamVerifies,
     ReaderCondemns, StreamEnds, Leaves, deleteVars
<1>3. ASSUME NEW s \in Servers, NEW u \in Variants, DeleteRow(s, u) \/ DeletionRepeats(s, u) PROVE Goal
  BY <1>3 DEF DeleteRow, DeletionRepeats, ReadersTypes
<1>4. ASSUME NEW s \in Servers, NEW u \in Variants, DeleteDirectory(s, u) PROVE Goal
  <2>1. Emptied(u)
    BY <1>4 DEF DeleteDirectory, Emptied
  <2>2. u # v => \A t \in Servers : deleting'[t][v] = deleting[t][v]
    BY <1>4 DEF DeleteDirectory, ReadersTypes
  <2>3. cascade' = cascade
    BY <1>4 DEF DeleteDirectory
  <2>4. QED
    BY <2>1, <2>2, <2>3
<1>5. ASSUME NEW u \in Variants, CascadeRemoves(u) PROVE Goal
  <2>1. Emptied(u)
    BY <1>5 DEF CascadeRemoves, Emptied
  <2>2. (u # v => cascade'[v] = cascade[v]) /\ deleting' = deleting
    BY <1>5 DEF CascadeRemoves, ReadersTypes
  <2>3. QED
    BY <2>1, <2>2
<1>6. ASSUME NEW s \in Servers, ServerCrashes(s) PROVE Goal
  BY <1>6 DEF ServerCrashes, ReadersTypes
<1>7. CASE DeleteRenderedRun \/ DeleteItsProject
  <2>1. PICK gone : CascadeTo(gone)
    BY <1>7 DEF DeleteRenderedRun, DeleteItsProject
  <2>2. QED
    BY <2>1 DEF CascadeTo, SetAll, ReadersTypes
<1>8. QED
  BY <1>1, <1>2, <1>3, <1>4, <1>5, <1>6, <1>7, LockSteps DEF deleteVars

LEMMA DeletedNext ==
  ASSUME IInv, WorkersTypes, ReadersTypes, Claims, Locks, DeletedVariantLeavesNothing,
         [RendersNext]_mediaVars
  PROVE  DeletedVariantLeavesNothing'
<1> SUFFICES ASSUME NEW v \in Variants, Answered(v)'
             PROVE  /\ master'[v] = Nil /\ cover'[v] = Nil
                    /\ \A a \in Attempts : renders'[a] = v => a \notin staging'
  BY DEF DeletedVariantLeavesNothing, Answered
<1>1. CASE Emptied(v)
  BY <1>1 DEF Emptied, EmptyDirectory, WorkersTypes
<1>2. CASE Answered(v) /\ ~Emptied(v)
  <2>1. variantStatus[v] = "absent" /\ \A a \in Attempts : attOwner[a] # v
    BY <1>2 DEF Answered, Locks, IInv, NoOrphanRows
  <2>2. master[v] = Nil /\ cover[v] = Nil /\ \A a \in Attempts : renders[a] = v => a \notin staging
    BY <1>2 DEF Answered, DeletedVariantLeavesNothing
  <2>3. \A a \in Attempts : renders[a] = v => working[a] \notin Holding
    BY <2>1, HeldIsRendering
  <2>4. master'[v] = Nil /\ cover'[v] = Nil
    <3>1. ~DamageMaster(v)
      BY <2>2, RendersAssumption DEF DamageMaster, Attempts
    <3>2. QED
      BY <1>2, <2>2, <2>3, <3>1, FileSteps
  <2>5. ASSUME NEW a \in Attempts, renders'[a] = v PROVE a \notin staging'
    <3>1. ~RenderStarts(a)
      BY <2>1, <2>5 DEF RenderStarts, WorkersTypes
    <3>2. renders[a] = v
      BY <2>5, <3>1, WorkSteps
    <3>3. QED
      BY <2>2, <3>1, <3>2, StagingSteps
  <2>6. QED
    BY <2>4, <2>5
<1>3. QED
  BY <1>1, <1>2, DoneSteps

-----------------------------------------------------------------------------
(* Streams. *)

\* A stream saw a master that a render of its variant recorded, and plays that
\* file once it has verified the one it opened.
StreamSaw ==
  \A q \in Readers :
    /\ reading[q] \in HoldsLock =>
         saw[q] \in Attempts /\ working[saw[q]] # "none" /\ renders[saw[q]] = reads[q]
    /\ reading[q] = "streaming" => stream[q] \in {saw[q], Damaged}

LEMMA StreamSteps ==
  ASSUME ReadersTypes, [RendersNext]_mediaVars, NEW q \in Readers, reading'[q] \in HoldsLock
  PROVE  \/ \E v \in Variants : /\ variantStatus[v] = "ready" /\ reading'[q] = "found"
                                /\ reads'[q] = v /\ saw'[q] = recorded[v]
         \/ /\ reading[q] \in HoldsLock /\ reads'[q] = reads[q] /\ saw'[q] = saw[q]
            /\ reading'[q] = "streaming" =>
                 \/ reading[q] = "streaming" /\ stream'[q] \in {stream[q], Damaged}
                 \/ stream'[q] = saw'[q]
<1> DEFINE Goal ==
      \/ \E v \in Variants : /\ variantStatus[v] = "ready" /\ reading'[q] = "found"
                             /\ reads'[q] = v /\ saw'[q] = recorded[v]
      \/ /\ reading[q] \in HoldsLock /\ reads'[q] = reads[q] /\ saw'[q] = saw[q]
         /\ reading'[q] = "streaming" =>
              \/ reading[q] = "streaming" /\ stream'[q] \in {stream[q], Damaged}
              \/ stream'[q] = saw'[q]
<1> USE DEF HoldsLock
<1>1. ASSUME UNCHANGED readerVars PROVE Goal
  BY <1>1 DEF readerVars
<1>2. ASSUME NEW b \in Readers, ReaderTurn(b) PROVE Goal
  <2> USE DEF Reads, ReadersTypes
  <2>1. ASSUME NEW v \in Variants, ReaderLooks(b, v) PROVE Goal
    BY <2>1 DEF ReaderLooks
  <2>2. CASE Leaves(b)
    BY <2>2 DEF Leaves
  <2>3. CASE reading[b] = "looked" /\ Reads(b, "condemning") /\ UNCHANGED <<reads, saw, stream>>
    BY <2>3
  <2>4. CASE StreamOpens(b)
    BY <2>4 DEF StreamOpens
  <2>5. CASE StreamVerifies(b)
    BY <2>5 DEF StreamVerifies
  <2>6. QED
    BY <1>2, <2>1, <2>2, <2>3, <2>4, <2>5 DEF ReaderTurn, ReaderChecks, ReaderCondemns, StreamEnds
<1>3. ASSUME NEW a \in Attempts, RenderTurn(a) PROVE Goal
  BY <1>1, <1>3 DEF RenderTurn, RenderStarts, RenderProduces, MoveAside, MoveIn, RenderCompletes,
     RemoveStaging, RenderFails, UndoPublication, RenderEnds, RenderCrashes, RenderIsReaped,
     StopRender
<1>4. ASSUME NEW v \in Variants, DamageMaster(v) PROVE Goal
  <2>1. UNCHANGED <<reading, reads, saw>> /\ stream'[q] \in {stream[q], Damaged}
    BY <1>4 DEF DamageMaster
  <2>2. QED
    BY <2>1
<1>5. ASSUME NEW v \in Variants, VariantTurn(v), ~DamageMaster(v) PROVE Goal
  BY <1>1, <1>5 DEF VariantTurn, RequestRender, Recover, CascadeRemoves, DeleteRow, DeletionRepeats,
     DeleteDirectory
<1>6. ASSUME NEW s \in Servers, ServerCrashes(s) PROVE Goal
  BY <1>6 DEF ServerCrashes
<1>7. CASE DeleteRenderedRun \/ DeleteItsProject \/ UNCHANGED mediaVars
  BY <1>1, <1>7 DEF DeleteRenderedRun, DeleteItsProject, CascadeTo, mediaVars
<1>8. QED
  BY <1>2, <1>3, <1>4, <1>5, <1>6, <1>7 DEF RendersNext

LEMMA StreamsNext ==
  ASSUME WorkersTypes, ReadersTypes, ReadyMasterIsRecorded, RecordsAreOwn, StreamSaw,
         [RendersNext]_mediaVars
  PROVE  StreamSaw'
<1> SUFFICES ASSUME NEW q \in Readers, reading'[q] \in HoldsLock
             PROVE  /\ saw'[q] \in Attempts /\ working'[saw'[q]] # "none"
                    /\ renders'[saw'[q]] = reads'[q]
                    /\ reading'[q] = "streaming" => stream'[q] \in {saw'[q], Damaged}
  BY DEF StreamSaw, HoldsLock
<1>1. ASSUME NEW a \in Attempts, NEW v, working[a] # "none", renders[a] = v
      PROVE  working'[a] # "none" /\ renders'[a] = v
  BY <1>1, WorkSteps DEF RenderStarts
<1>2. CASE \E v \in Variants : /\ variantStatus[v] = "ready" /\ reading'[q] = "found"
                               /\ reads'[q] = v /\ saw'[q] = recorded[v]
  BY <1>1, <1>2 DEF ReadyMasterIsRecorded, RecordsAreOwn
<1>3. CASE /\ reading[q] \in HoldsLock /\ reads'[q] = reads[q] /\ saw'[q] = saw[q]
           /\ reading'[q] = "streaming" =>
                \/ reading[q] = "streaming" /\ stream'[q] \in {stream[q], Damaged}
                \/ stream'[q] = saw'[q]
  BY <1>1, <1>3 DEF StreamSaw
<1>4. QED
  BY <1>2, <1>3, StreamSteps

-----------------------------------------------------------------------------
(* Theorems. *)

\* What workers, readers and deletions rely on.
RendersInv ==
  /\ IInv /\ WorkersTypes /\ ReadersTypes
  /\ Claims /\ Locks /\ InPlace /\ Pairs
  /\ ReadyMasterIsRecorded /\ RecordsAreOwn /\ DeletedVariantLeavesNothing /\ StreamSaw

LEMMA InitRendersInv == RendersInit => RendersInv
<1> SUFFICES ASSUME RendersInit PROVE RendersInv
  OBVIOUS
<1>1. IInv /\ WorkersTypes /\ ReadersTypes
  BY InitRows, InitRendersTypes
<1>2. Claims /\ Locks /\ InPlace
  BY DEF RendersInit, Claims, Locks, InPlace, Holding, HoldsLock
<1>3. Pairs
  <2>1. /\ \A v \in Variants : master[v] = Nil /\ cover[v] = Nil
        /\ \A a \in Attempts : working[a] \notin Holding
    BY DEF RendersInit, Holding
  <2>2. Nil \notin Attempts
    BY RendersAssumption DEF Attempts
  <2>3. QED
    BY <2>1, <2>2 DEF Pairs, Paired
<1>4. ReadyMasterIsRecorded /\ RecordsAreOwn /\ DeletedVariantLeavesNothing /\ StreamSaw
  <2>1. Nil \notin Attempts
    BY RendersAssumption DEF Attempts
  <2>2. QED
    BY <2>1 DEF RendersInit, ReadyMasterIsRecorded, RecordsAreOwn, DeletedVariantLeavesNothing,
       StreamSaw, HoldsLock
<1>5. QED
  BY <1>1, <1>2, <1>3, <1>4 DEF RendersInv

LEMMA NextRendersInv == RendersInv /\ [RendersNext]_mediaVars => RendersInv'
<1> SUFFICES ASSUME RendersInv, [RendersNext]_mediaVars PROVE RendersInv'
  OBVIOUS
<1>1. IInv'
  BY RowsAreTheStores, NextIInv DEF RendersInv
<1>2. WorkersTypes' /\ ReadersTypes'
  BY WorkersTypesNext, ReadersTypesNext DEF RendersInv
<1>3. Claims' /\ Locks' /\ InPlace' /\ Pairs'
  BY ClaimsNext, LocksNext, InPlaceNext, PairsNext DEF RendersInv
<1>4. ReadyMasterIsRecorded' /\ RecordsAreOwn' /\ DeletedVariantLeavesNothing' /\ StreamSaw'
  BY ReadyNext, RecordsNext, DeletedNext, StreamsNext DEF RendersInv
<1>5. QED
  BY <1>1, <1>2, <1>3, <1>4 DEF RendersInv

\* What workers, readers and deletions rely on is kept by each of their steps, with
\* any number of variants, readers, servers and attempts.
THEOREM RendersInvariant == RendersSpec => []RendersInv
  BY InitRendersInv, NextRendersInv, PTL DEF RendersSpec

\* From a completed run on, workers, readers and deletions change rows as the
\* managed store allows, and the store's inductive invariant holds.
THEOREM RendersRunTheStore == RendersSpec => []IInv /\ [][Next]_vars
<1>1. RendersInv /\ [RendersNext]_mediaVars => [Next]_vars
  BY RowsAreTheStores DEF RendersInv
<1>2. RendersInv => IInv
  BY DEF RendersInv
<1>3. QED
  BY <1>1, <1>2, RendersInvariant, PTL DEF RendersSpec

\* A ready variant has the files of the attempt it records, whatever crashes,
\* roll-backs and repeated renders came before.
THEOREM ReadyMastersAreRecorded == RendersSpec => []ReadyMasterIsRecorded
  BY RendersInvariant, PTL DEF RendersInv

\* Unless one of its workers has crashed, a variant nobody renders has a master
\* and a cover of one attempt, or neither.
THEOREM FilesStayInPairs == RendersSpec => []FilesComeInPairs
<1>1. RendersInv => FilesComeInPairs
  <2> SUFFICES ASSUME RendersInv, NEW v \in Variants, ~RendersNow(v), NoCrash(v)
               PROVE  Paired(master[v], cover[v])
    BY DEF FilesComeInPairs, Paired, NoCrash
  <2>1. ~Held(v)
    BY DEF Held, RendersNow, Holding
  <2>2. QED
    BY <2>1 DEF RendersInv, Pairs
<1>2. QED
  BY <1>1, RendersInvariant, PTL

\* A stream plays the file it has verified, which a render of its variant recorded,
\* and its own server's deletion of the variant waits for it, whatever renders,
\* roll-backs, damage, crashes and other deletions come in between.
THEOREM StreamsPlayWhatTheyVerified == RendersSpec => []StreamPlaysWhatItVerified
<1>1. RendersInv => StreamPlaysWhatItVerified
  BY DEF RendersInv, StreamPlaysWhatItVerified, StreamSaw, Locks, HoldsLock
<1>2. QED
  BY <1>1, RendersInvariant, PTL

\* A deletion of the variant, its run or its project that has answered has removed
\* every file of the variant for good.
THEOREM DeletedVariantsLeaveNothing == RendersSpec => []DeletedVariantLeavesNothing
  BY RendersInvariant, PTL DEF RendersInv
=============================================================================
