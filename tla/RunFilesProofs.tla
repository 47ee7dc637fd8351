--------------------------- MODULE RunFilesProofs ---------------------------
(***************************************************************************)
(* Proofs about the files of runs.  The workers and services of RunFiles   *)
(* change rows as the managed store allows, and a checkpoint that a row or *)
(* a pin names is on disk, for any number of runs, attempts and ids, also  *)
(* when live workers are taken for orphans: every file that is about to be *)
(* unlinked is one that no row names, and nobody else carries.  Where live *)
(* workers keep their leases, complete runs keep their plans and deleted   *)
(* ones leave nothing.  The plan of a guided revision is lost to a rival   *)
(* request only.                                                           *)
(***************************************************************************)
EXTENDS RunFiles, ManagedStoreProofs

Places == {"none", "preparing", "planning", "saving", "switched", "planned", "bundled",
           "completing", "clearing", "cleared", "cancelling", "stopping", "failing",
           "interrupting", "marking", "gone"}

\* Types, where a worker has a run, and what it carries.
FilesTypes ==
  /\ at \in [Attempts -> Places]
  /\ works \in [Attempts -> Runs \cup {Nil}]
  /\ carried \in [Attempts -> Checkpoints \cup {Nil}]
  /\ published \in [Attempts -> SUBSET {"plan", "bundle"}]
  /\ todo \in [Attempts -> SUBSET {"plan", "bundle"}]
  /\ planOn \in [Runs -> Attempts \cup {Nil}] /\ bundleOn \in [Runs -> Attempts \cup {Nil}]
  /\ ckFile \in [Checkpoints -> Runs \cup {Nil}]
  /\ validated \in [Runs -> Checkpoints \cup {Nil}] /\ discard \subseteq Checkpoints
  /\ removing \subseteq deleted /\ deleted \subseteq Runs

Placed ==
  \A a \in Attempts :
    /\ at[a] # "none" => works[a] \in Runs
    /\ at[a] = "saving" => carried[a] # Nil
    /\ carried[a] # Nil => at[a] \in {"saving", "switched", "cleared", "gone"}
    /\ todo[a] \subseteq published[a]

\* The store's operations that RunFiles calls, claims and changes of checkpoint
\* rows apart.
PlainOperation ==
  \/ \E p \in Projects : CreateProject(p)
  \/ \E r \in Runs \ deleted : CreateRun(r)
  \/ \E r \in Runs, c \in Checkpoints : ResumeRun(r, c)
  \/ \E r \in Runs, a \in Attempts, e \in Edits : CompleteRun(r, a, e)
  \/ \E a \in Attempts : MarkAttemptInterrupted(a) \/ MarkAttemptFailed(a) \/ RequestStop(a)
  \/ \E source, e \in Edits : CreateRevision(source, e)

RowStep ==
  \/ UNCHANGED vars
  \/ PlainOperation
  \/ \E a \in Attempts : WorkerStarts(a)
  \/ \E a \in Attempts : SaveCheckpointRow(a)
  \/ \E a \in Attempts : WorkerClears(a) /\ ClearRunCheckpoint(works[a])
  \/ \E r \in Runs : Retry(r) \/ Delete(r)

-----------------------------------------------------------------------------
(* Rows. *)

LEMMA WorkerRows ==
  ASSUME FilesTypes, Placed, NEW a \in Attempts,
         WorkerTurn(a) \/ WorkerCrashes(a) \/ AttemptIsReaped(a) \/ StopRun(a)
  PROVE  RowStep
<1>1. CASE \/ WorkerPrepares(a) \/ SaveIsRefused(a) \/ UnlinkCarried(a) \/ PublishPlan(a)
           \/ PublishBundle(a) \/ LastLook(a) \/ WorkerSeesStop(a) \/ WorkerFails(a)
           \/ UnlinkPublished(a) \/ WorkerDecides(a) \/ WorkerCrashes(a)
           \/ \E c \in Checkpoints : SaveCheckpointFile(a, c)
  BY <1>1 DEF WorkerPrepares, SaveIsRefused, UnlinkCarried, PublishPlan, PublishBundle, LastLook,
     WorkerSeesStop, WorkerFails, Unwinds, UnlinkPublished, WorkerDecides, WorkerCrashes,
     SaveCheckpointFile, RowStep
<1>2. CASE WorkerStarts(a) \/ SaveCheckpointRow(a)
  BY <1>2 DEF RowStep
<1>3. CASE WorkerCompletes(a)
  <2>1. works[a] \in Runs
    BY <1>3 DEF WorkerCompletes, Move, Placed
  <2>2. QED
    BY <1>3, <2>1 DEF WorkerCompletes, RowStep, PlainOperation
<1>4. CASE WorkerClears(a)
  BY <1>4 DEF WorkerClears, RowStep
<1>5. CASE WorkerInterrupts(a) \/ WorkerMarks(a) \/ AttemptIsReaped(a) \/ StopRun(a)
  BY <1>5 DEF WorkerInterrupts, WorkerMarks, AttemptIsReaped, StopRun, RowStep, PlainOperation
<1>6. QED
  BY <1>1, <1>2, <1>3, <1>4, <1>5 DEF WorkerTurn

LEMMA ServiceRows ==
  ASSUME FilesTypes, NEW r \in Runs, ServiceTurn(r)
  PROVE  RowStep
<1>1. CASE ResumeLooks(r) \/ RemoveDirectory(r)
  BY <1>1 DEF ResumeLooks, RemoveDirectory, RowStep
<1>2. CASE ResumeQueues(r)
  <2>1. validated[r] \in Checkpoints
    BY <1>2 DEF ResumeQueues, FilesTypes
  <2>2. QED
    BY <1>2, <2>1 DEF ResumeQueues, RowStep, PlainOperation
<1>3. CASE CreateRunOnce(r)
  BY <1>3 DEF CreateRunOnce, RowStep, PlainOperation
<1>4. QED
  BY <1>1, <1>2, <1>3 DEF ServiceTurn, RowStep

LEMMA RevisionRows ==
  ASSUME NEW q \in Requests, RevisionTurn(q)
  PROVE  RowStep
<1>1. RevisionOf \in Edits /\ Revision \in Edits
  BY FilesAssumption
<1>2. QED
  BY <1>1 DEF RevisionTurn, RevisionLooks, RevisionWrites, RevisionCommits, RevisionFails,
     RevisionIsCut, RowStep, PlainOperation

LEMMA StepRows == FilesTypes /\ Placed /\ FilesNext => RowStep
<1> SUFFICES ASSUME FilesTypes, Placed, FilesNext PROVE RowStep
  OBVIOUS
<1>1. ASSUME NEW c \in Checkpoints, DiscardCheckpoint(c) PROVE RowStep
  BY <1>1 DEF DiscardCheckpoint, RowStep
<1>2. QED
  BY <1>1, WorkerRows, ServiceRows, RevisionRows DEF FilesNext

LEMMA PlainIsNext == PlainOperation => Next
<1> SUFFICES ASSUME PlainOperation PROVE Next
  OBVIOUS
<1>1. CASE \/ \E p \in Projects : CreateProject(p)
           \/ \E r \in Runs : CreateRun(r) \/ \E c \in Checkpoints : ResumeRun(r, c)
           \/ \E source, e \in Edits : CreateRevision(source, e)
  BY <1>1 DEF Next, ProjectStep
<1>2. CASE \E r \in Runs, a \in Attempts, e \in Edits : CompleteRun(r, a, e)
  BY <1>2 DEF Next, RunStep
<1>3. CASE \E a \in Attempts : MarkAttemptInterrupted(a) \/ MarkAttemptFailed(a) \/ RequestStop(a)
  BY <1>3 DEF Next, JobStep
<1>4. QED
  BY <1>1, <1>2, <1>3 DEF PlainOperation

LEMMA RowsAreTheStores == FilesTypes /\ Placed /\ [FilesNext]_allVars => [Next]_vars
<1> SUFFICES ASSUME FilesTypes, Placed, FilesNext PROVE [Next]_vars
  BY DEF allVars
<1>1. ASSUME NEW a \in Attempts, WorkerStarts(a) PROVE Next
  BY <1>1 DEF WorkerStarts, Next, JobStep
<1>2. ASSUME NEW a \in Attempts, SaveCheckpointRow(a) PROVE Next
  <2>1. works[a] \in Runs /\ carried[a] \in Checkpoints
    BY <1>2 DEF SaveCheckpointRow, FilesTypes, Placed
  <2>2. QED
    BY <1>2, <2>1 DEF SaveCheckpointRow, Next, RunStep
<1>3. ASSUME NEW a \in Attempts, WorkerClears(a), ClearRunCheckpoint(works[a]) PROVE Next
  <2>1. works[a] \in Runs
    BY <1>3 DEF WorkerClears, Placed
  <2>2. QED
    BY <1>3, <2>1 DEF Next, ProjectStep
<1>4. ASSUME NEW r \in Runs, Retry(r) \/ Delete(r) PROVE Next
  BY <1>4 DEF Retry, Delete, Next, ProjectStep
<1>5. QED
  BY <1>1, <1>2, <1>3, <1>4, StepRows, PlainIsNext DEF RowStep

-----------------------------------------------------------------------------
(* Types. *)

LEMMA InitFilesTypes == FilesInit => FilesTypes /\ Placed
<1> SUFFICES ASSUME FilesInit PROVE FilesTypes /\ Placed
  OBVIOUS
<1>1. FilesTypes
  BY DEF FilesInit, FilesTypes, Places
<1>2. Placed
  BY DEF FilesInit, Placed
<1>3. QED
  BY <1>1, <1>2

\* A worker that moves without touching what it carries or the files.
LEMMA MoveTypes ==
  ASSUME FilesTypes, Placed, NEW a \in Attempts, NEW where \in Places \ {"none", "saving"},
         at' = [at EXCEPT ![a] = where], at[a] # "none",
         carried[a] = Nil \/ where = "gone",
         UNCHANGED <<works, carried, published, fileVars, serviceVars>>,
         \/ todo' = todo
         \/ \E T : T \subseteq published[a] /\ todo' = [todo EXCEPT ![a] = T]
  PROVE  FilesTypes' /\ Placed'
<1>1. /\ at' \in [Attempts -> Places]
      /\ \A b \in Attempts : at'[b] = IF b = a THEN where ELSE at[b]
  BY DEF FilesTypes
<1>2. /\ todo' \in [Attempts -> SUBSET {"plan", "bundle"}]
      /\ \A b \in Attempts : todo'[b] \subseteq published[b]
  <2>1. CASE todo' = todo
    BY <2>1 DEF FilesTypes, Placed
  <2>2. ASSUME NEW T, T \subseteq published[a], todo' = [todo EXCEPT ![a] = T]
        PROVE  /\ todo' \in [Attempts -> SUBSET {"plan", "bundle"}]
               /\ \A b \in Attempts : todo'[b] \subseteq published[b]
    BY <2>2 DEF FilesTypes, Placed
  <2>3. QED
    BY <2>1, <2>2
<1>3. FilesTypes'
  BY <1>1, <1>2 DEF FilesTypes, fileVars, serviceVars
<1>4. Placed'
  BY <1>1, <1>2 DEF FilesTypes, Placed
<1>5. QED
  BY <1>3, <1>4

\* Workers that neither start nor touch a checkpoint's file.
LEMMA WorkerMoves ==
  ASSUME FilesTypes, Placed, NEW a \in Attempts,
         \/ WorkerPrepares(a) \/ LastLook(a) \/ WorkerCompletes(a) \/ WorkerSeesStop(a)
         \/ WorkerFails(a) \/ WorkerInterrupts(a) \/ WorkerDecides(a) \/ WorkerMarks(a)
         \/ WorkerCrashes(a)
  PROVE  FilesTypes' /\ Placed'
<1>1. UNCHANGED <<works, carried, published, fileVars, serviceVars>>
  BY DEF WorkerPrepares, LastLook, WorkerCompletes, WorkerSeesStop, WorkerFails, WorkerInterrupts,
     WorkerDecides, WorkerMarks, WorkerCrashes, Move, Unwinds
<1>2. CASE WorkerPrepares(a) \/ WorkerCompletes(a)
  <2>1. PICK where \in {"planning", "clearing"} : at' = [at EXCEPT ![a] = where]
    BY <1>2 DEF WorkerPrepares, WorkerCompletes, Move, GoTo
  <2>2. at[a] # "none" /\ carried[a] = Nil /\ todo' = todo
    BY <1>2 DEF WorkerPrepares, WorkerCompletes, Move, FilesTypes, Placed
  <2>3. where \in Places \ {"none", "saving"}
    BY DEF Places
  <2>4. QED
    BY <1>1, <2>1, <2>2, <2>3, MoveTypes
<1>3. CASE LastLook(a) \/ WorkerSeesStop(a) \/ WorkerFails(a)
  <2>1. PICK where \in {"stopping", "completing", "cancelling", "failing"} :
          at' = [at EXCEPT ![a] = where]
    BY <1>3 DEF LastLook, WorkerSeesStop, WorkerFails, Unwinds, GoTo
  <2>2. at[a] # "none" /\ carried[a] = Nil
    BY <1>3 DEF LastLook, WorkerSeesStop, WorkerFails, FilesTypes, Placed
  <2>3. \E T : T \subseteq published[a] /\ todo' = [todo EXCEPT ![a] = T]
    BY <1>3 DEF LastLook, WorkerSeesStop, WorkerFails, Unwinds
  <2>4. where \in Places \ {"none", "saving"}
    BY DEF Places
  <2>5. QED
    BY <1>1, <2>1, <2>2, <2>3, <2>4, MoveTypes
<1>4. CASE WorkerInterrupts(a)
  <2>1. PICK where \in {"gone", "failing"} : at' = [at EXCEPT ![a] = where]
    BY <1>4 DEF WorkerInterrupts, GoTo
  <2>2. at[a] # "none" /\ carried[a] = Nil
    BY <1>4 DEF WorkerInterrupts, FilesTypes, Placed
  <2>3. todo' = todo \/ \E T : T \subseteq published[a] /\ todo' = [todo EXCEPT ![a] = T]
    BY <1>4 DEF WorkerInterrupts
  <2>4. where \in Places \ {"none", "saving"}
    BY DEF Places
  <2>5. QED
    BY <1>1, <2>1, <2>2, <2>3, <2>4, MoveTypes
<1>5. CASE WorkerDecides(a)
  <2>1. PICK where \in {"gone", "interrupting", "marking"} : at' = [at EXCEPT ![a] = where]
    BY <1>5 DEF WorkerDecides, GoTo
  <2>2. at[a] # "none" /\ carried[a] = Nil /\ todo' = todo
    BY <1>5 DEF WorkerDecides, FilesTypes, Placed
  <2>3. where \in Places \ {"none", "saving"}
    BY DEF Places
  <2>4. QED
    BY <1>1, <2>1, <2>2, <2>3, MoveTypes
<1>6. CASE WorkerMarks(a) \/ WorkerCrashes(a)
  <2>1. at' = [at EXCEPT ![a] = "gone"] /\ at[a] # "none" /\ todo' = todo
    BY <1>6 DEF WorkerMarks, WorkerCrashes, Live, GoTo
  <2>2. "gone" \in Places \ {"none", "saving"}
    BY DEF Places
  <2>3. QED
    BY <1>1, <2>1, <2>2, MoveTypes
<1>7. QED
  BY <1>2, <1>3, <1>4, <1>5, <1>6

\* Workers that start, publish or unlink.
LEMMA WorkerChanges ==
  ASSUME FilesTypes, Placed, NEW a \in Attempts,
         \/ WorkerStarts(a) \/ SaveCheckpointRow(a) \/ SaveIsRefused(a) \/ UnlinkCarried(a)
         \/ PublishPlan(a) \/ PublishBundle(a) \/ WorkerClears(a) \/ UnlinkPublished(a)
         \/ \E c \in Checkpoints : SaveCheckpointFile(a, c),
         checkpoint \in [Runs -> Checkpoints \cup {Nil}]
  PROVE  FilesTypes' /\ Placed'
<1> USE DEF FilesTypes, Placed, fileVars, serviceVars, GoTo
<1>1. CASE WorkerStarts(a)
  <2>1. attOwner[a] \in Runs /\ "preparing" \in Places
    BY <1>1 DEF WorkerStarts, Places
  <2>2. FilesTypes'
    BY <1>1, <2>1 DEF WorkerStarts
  <2>3. Placed'
    BY <1>1, <2>1 DEF WorkerStarts
  <2>4. QED
    BY <2>2, <2>3
<1>2. CASE SaveCheckpointRow(a)
  <2>1. checkpoint[works[a]] \in Checkpoints \cup {Nil} /\ "switched" \in Places
    BY <1>2 DEF SaveCheckpointRow, Places
  <2>2. FilesTypes'
    BY <1>2, <2>1 DEF SaveCheckpointRow
  <2>3. Placed'
    BY <1>2, <2>1 DEF SaveCheckpointRow
  <2>4. QED
    BY <2>2, <2>3
<1>3. CASE SaveIsRefused(a)
  <2>1. "failing" \in Places /\ Nil \in Checkpoints \cup {Nil}
    BY DEF Places
  <2>2. FilesTypes'
    BY <1>3, <2>1 DEF SaveIsRefused, Unlinked
  <2>3. Placed'
    BY <1>3, <2>1 DEF SaveIsRefused
  <2>4. QED
    BY <2>2, <2>3
<1>4. CASE UnlinkCarried(a)
  <2>1. "planning" \in Places /\ "gone" \in Places /\ Nil \in Checkpoints \cup {Nil}
    BY DEF Places
  <2>2. FilesTypes'
    BY <1>4, <2>1 DEF UnlinkCarried, Unlinked
  <2>3. Placed'
    BY <1>4, <2>1 DEF UnlinkCarried
  <2>4. QED
    BY <2>2, <2>3
<1>5. CASE PublishPlan(a) \/ PublishBundle(a)
  <2>1. "planned" \in Places /\ "bundled" \in Places
    BY DEF Places
  <2>2. FilesTypes'
    BY <1>5, <2>1 DEF PublishPlan, PublishBundle
  <2>3. Placed'
    BY <1>5, <2>1 DEF PublishPlan, PublishBundle
  <2>4. QED
    BY <2>2, <2>3
<1>6. CASE WorkerClears(a)
  <2>1. "cleared" \in Places /\ (works[a] \in Runs => checkpoint[works[a]] \in Checkpoints \cup {Nil})
    BY DEF Places
  <2>2. works[a] \in Runs
    BY <1>6 DEF WorkerClears
  <2>3. FilesTypes'
    BY <1>6, <2>1, <2>2 DEF WorkerClears
  <2>4. Placed'
    BY <1>6, <2>1, <2>2 DEF WorkerClears
  <2>5. QED
    BY <2>3, <2>4
<1>7. CASE UnlinkPublished(a)
  <2>1. FilesTypes'
    BY <1>7 DEF UnlinkPublished
  <2>2. Placed'
    BY <1>7 DEF UnlinkPublished
  <2>3. QED
    BY <2>1, <2>2
<1>8. ASSUME NEW c \in Checkpoints, SaveCheckpointFile(a, c) PROVE FilesTypes' /\ Placed'
  <2>1. "saving" \in Places /\ works[a] \in Runs /\ c # Nil
    BY <1>8, StoreAssumption DEF SaveCheckpointFile, Places
  <2>2. FilesTypes'
    BY <1>8, <2>1 DEF SaveCheckpointFile
  <2>3. Placed'
    BY <1>8, <2>1 DEF SaveCheckpointFile
  <2>4. QED
    BY <2>2, <2>3
<1>9. QED
  BY <1>1, <1>2, <1>3, <1>4, <1>5, <1>6, <1>7, <1>8

LEMMA ServiceTypes ==
  ASSUME FilesTypes, Placed, NEW r \in Runs, ServiceTurn(r),
         checkpoint \in [Runs -> Checkpoints \cup {Nil}]
  PROVE  FilesTypes' /\ Placed'
<1> USE DEF FilesTypes, Placed, workerVars, fileVars, serviceVars
<1>1. CASE CreateRunOnce(r)
  BY <1>1 DEF CreateRunOnce
<1>2. CASE ResumeLooks(r)
  BY <1>2 DEF ResumeLooks
<1>3. CASE ResumeQueues(r)
  BY <1>3 DEF ResumeQueues
<1>4. CASE Retry(r)
  BY <1>4 DEF Retry
<1>5. CASE Delete(r)
  BY <1>5 DEF Delete
<1>6. CASE RemoveDirectory(r)
  BY <1>6 DEF RemoveDirectory
<1>7. QED
  BY <1>1, <1>2, <1>3, <1>4, <1>5, <1>6 DEF ServiceTurn

LEMMA NextFilesTypes ==
  FilesTypes /\ Placed /\ TypeOK /\ [FilesNext]_allVars => FilesTypes' /\ Placed'
<1> SUFFICES ASSUME FilesTypes, Placed, TypeOK, [FilesNext]_allVars PROVE FilesTypes' /\ Placed'
  OBVIOUS
<1>1. checkpoint \in [Runs -> Checkpoints \cup {Nil}]
  BY DEF TypeOK
<1>2. ASSUME UNCHANGED <<workerVars, fileVars, serviceVars>> PROVE FilesTypes' /\ Placed'
  BY <1>2 DEF workerVars, fileVars, serviceVars, FilesTypes, Placed
<1>3. CASE UNCHANGED allVars
  BY <1>2, <1>3 DEF allVars
<1>4. ASSUME NEW a \in Attempts,
             WorkerTurn(a) \/ WorkerCrashes(a) \/ AttemptIsReaped(a) \/ StopRun(a)
      PROVE  FilesTypes' /\ Placed'
  <2>1. CASE AttemptIsReaped(a) \/ StopRun(a)
    BY <1>2, <2>1 DEF AttemptIsReaped, StopRun
  <2>2. QED
    BY <1>1, <1>4, <2>1, WorkerMoves, WorkerChanges DEF WorkerTurn
<1>5. ASSUME NEW c \in Checkpoints, DiscardCheckpoint(c) PROVE FilesTypes' /\ Placed'
  BY <1>5 DEF DiscardCheckpoint, Unlinked, workerVars, FilesTypes, Placed
<1>6. ASSUME NEW q \in Requests, RevisionTurn(q) PROVE FilesTypes' /\ Placed'
  BY <1>2, <1>6 DEF RevisionTurn, RevisionLooks, RevisionWrites, RevisionCommits, RevisionFails,
     RevisionIsCut
<1>7. QED
  BY <1>1, <1>3, <1>4, <1>5, <1>6, ServiceTypes DEF FilesNext

-----------------------------------------------------------------------------
(* Attempts. *)

\* A claimed attempt has a worker.
ClaimedHasWorker ==
  \A a \in Attempts : attStatus[a] \in ClaimedStatuses => at[a] # "none"

\* An attempt is claimed only by its own worker's start; while it is claimed it
\* keeps its owner and its pin.
LEMMA AttemptSteps ==
  ASSUME IInv, FilesTypes, Placed, [FilesNext]_allVars, NEW a \in Attempts,
         attStatus'[a] \in ClaimedStatuses
  PROVE  \/ attStatus[a] \in ClaimedStatuses /\ attOwner'[a] = attOwner[a] /\ attPin'[a] = attPin[a]
         \/ WorkerStarts(a) /\ attStatus[a] = "queued"
<1> DEFINE Goal ==
      \/ attStatus[a] \in ClaimedStatuses /\ attOwner'[a] = attOwner[a] /\ attPin'[a] = attPin[a]
      \/ WorkerStarts(a) /\ attStatus[a] = "queued"
<1>1. /\ attStatus \in [Attempts -> AttemptStatus \cup {"absent"}]
      /\ AttemptTypes /\ JobMirrorsAttempt
  BY TypeParts DEF IInv, TypeOK
<1>2. ASSUME UNCHANGED <<attStatus, attOwner, attPin>> PROVE Goal
  BY <1>2
<1>3. ASSUME NEW o \in Owners, NEW pin \in Checkpoints \cup {Nil}, InsertAttempt(o, pin) PROVE Goal
  <2>1. \A b \in Attempts :
          /\ attOwner'[b] = IF b = created + 1 THEN o ELSE attOwner[b]
          /\ attStatus'[b] = IF b = created + 1 THEN "queued" ELSE attStatus[b]
          /\ attPin'[b] = IF b = created + 1 THEN pin ELSE attPin[b]
    BY <1>1, <1>3, InsertValues
  <2>2. QED
    BY <2>1, StatusSets
<1>4. ASSUME NEW A, NEW s \in TerminalStatuses, FinishAttempts(A, s) PROVE Goal
  <2>1. attStatus'[a] = IF a \in A THEN s ELSE attStatus[a]
    BY <1>1, <1>4 DEF FinishAttempts, SetAll
  <2>2. QED
    BY <1>4, <2>1, StatusSets DEF FinishAttempts
<1>5. CASE PlainOperation
  <2>1. Nil \in Checkpoints \cup {Nil} /\ Runs \subseteq Owners
    BY DEF Owners
  <2>2. ASSUME NEW p \in Projects, CreateProject(p) PROVE Goal
    BY <1>2, <2>2 DEF CreateProject, attemptVars
  <2>3. ASSUME NEW r \in Runs, CreateRun(r) \/ \E c \in Checkpoints : ResumeRun(r, c) PROVE Goal
    BY <1>3, <2>1, <2>3 DEF CreateRun, ResumeRun, QueueRun
  <2>4. ASSUME NEW r \in Runs, NEW b \in Attempts, NEW e \in Edits, CompleteRun(r, b, e) PROVE Goal
    BY <1>4, <2>4 DEF CompleteRun, TerminalStatuses
  <2>5. ASSUME NEW b \in Attempts, MarkAttemptInterrupted(b) \/ MarkAttemptFailed(b) PROVE Goal
    BY <1>4, <2>5
    DEF MarkAttemptInterrupted, MarkAttemptFailed, TransitionAttempt, TerminalStatuses
  <2>6. ASSUME NEW b \in Attempts, RequestStop(b) PROVE Goal
    <3>1. CASE FinishAttempts({b}, "interrupted")
      BY <1>4, <3>1 DEF TerminalStatuses
    <3>2. CASE /\ attStatus[b] \in ClaimedStatuses
               /\ attStatus' = [attStatus EXCEPT ![b] = "stopping"]
               /\ UNCHANGED <<attOwner, attPin>>
      BY <1>1, <3>2
    <3>3. QED
      BY <2>6, <3>1, <3>2 DEF RequestStop
  <2>7. ASSUME NEW source \in Edits, NEW e \in Edits, CreateRevision(source, e) PROVE Goal
    BY <1>2, <2>7 DEF CreateRevision, attemptVars
  <2>8. QED
    BY <1>5, <2>2, <2>3, <2>4, <2>5, <2>6, <2>7 DEF PlainOperation
<1>6. ASSUME NEW b \in Attempts, WorkerStarts(b) PROVE Goal
  <2>1. PICK w \in Workers : ClaimNextJob(b, w)
    BY <1>6 DEF WorkerStarts
  <2>2. /\ attStatus[b] = "queued" /\ UNCHANGED <<attOwner, attPin>>
        /\ attStatus'[a] = IF a = b THEN "running" ELSE attStatus[a]
    BY <1>1, <2>1 DEF ClaimNextJob, QueuedJobs, ClaimJobRow
  <2>3. QED
    BY <1>6, <2>2
<1>7. ASSUME NEW b \in Attempts, SaveCheckpointRow(b) \/ WorkerClears(b) PROVE Goal
  BY <1>2, <1>7
  DEF SaveCheckpointRow, WorkerClears, PublishRunCheckpoint, ClearRunCheckpoint, attemptVars, vars
<1>8. ASSUME NEW r \in Runs, Retry(r) PROVE Goal
  BY <1>3, <1>8 DEF Retry, RetryRun, QueueRun, Owners
<1>9. ASSUME NEW r \in Runs, Delete(r) PROVE Goal
  <2>1. /\ attStatus'[a] = IF attOwner[a] \in RunFamily(r) THEN "absent" ELSE attStatus[a]
        /\ attOwner'[a] = IF attOwner[a] \in RunFamily(r) THEN Nil ELSE attOwner[a]
        /\ attPin'[a] = IF attOwner[a] \in RunFamily(r) THEN Nil ELSE attPin[a]
    BY <1>1, <1>9 DEF Delete, DeleteRun, DeleteFamily, SetAll, AttemptTypes
  <2>2. QED
    BY <2>1, StatusSets
<1>10. CASE UNCHANGED vars
  BY <1>2, <1>10 DEF vars, attemptVars
<1>11. QED
  BY <1>5, <1>6, <1>7, <1>8, <1>9, <1>10, StepRows DEF RowStep, allVars

\* No worker returns to where none has started.
LEMMA PlacesStay ==
  ASSUME FilesTypes, [FilesNext]_allVars, NEW a \in Attempts
  PROVE  /\ at[a] # "none" => at'[a] # "none"
         /\ at'[a] = "none" => at[a] = "none"
         /\ at'[a] = "preparing" => at[a] = "preparing" \/ WorkerStarts(a)
<1> DEFINE Goal == /\ at[a] # "none" => at'[a] # "none"
                   /\ at'[a] = "none" => at[a] = "none"
                   /\ at'[a] = "preparing" => at[a] = "preparing" \/ WorkerStarts(a)
<1>1. ASSUME NEW b \in Attempts,
             \/ at' = [at EXCEPT ![b] = at'[b]] /\ at'[b] \notin {"none", "preparing"}
             \/ at' = at
      PROVE  Goal
  BY <1>1 DEF FilesTypes
<1>2. ASSUME NEW b \in Attempts,
             WorkerTurn(b) \/ WorkerCrashes(b) \/ AttemptIsReaped(b) \/ StopRun(b)
      PROVE  Goal
  <2>1. CASE WorkerStarts(b)
    BY <2>1 DEF WorkerStarts, GoTo, FilesTypes
  <2>2. CASE \/ WorkerPrepares(b) \/ SaveCheckpointRow(b) \/ SaveIsRefused(b)
             \/ UnlinkCarried(b) \/ PublishPlan(b) \/ PublishBundle(b) \/ LastLook(b)
             \/ \E c \in Checkpoints : SaveCheckpointFile(b, c)
    BY <1>1, <2>2 DEF WorkerPrepares, SaveCheckpointRow, SaveIsRefused, UnlinkCarried, PublishPlan,
       PublishBundle, LastLook, SaveCheckpointFile, Move, GoTo, FilesTypes
  <2>3. CASE \/ WorkerCompletes(b) \/ WorkerClears(b) \/ WorkerSeesStop(b) \/ WorkerFails(b)
             \/ UnlinkPublished(b) \/ WorkerInterrupts(b) \/ WorkerDecides(b) \/ WorkerMarks(b)
    BY <1>1, <2>3 DEF WorkerCompletes, WorkerClears, WorkerSeesStop, WorkerFails, UnlinkPublished,
       WorkerInterrupts, WorkerDecides, WorkerMarks, Move, Unwinds, GoTo, FilesTypes
  <2>4. CASE WorkerCrashes(b) \/ AttemptIsReaped(b) \/ StopRun(b)
    BY <1>1, <2>4 DEF WorkerCrashes, AttemptIsReaped, StopRun, GoTo, workerVars, FilesTypes
  <2>5. QED
    BY <1>2, <2>1, <2>2, <2>3, <2>4 DEF WorkerTurn
<1>3. CASE \/ UNCHANGED allVars \/ \E r \in Runs : ServiceTurn(r)
           \/ \E c \in Checkpoints : DiscardCheckpoint(c)
           \/ \E q \in Requests : RevisionTurn(q)
  BY <1>3 DEF allVars, workerVars, ServiceTurn, CreateRunOnce, ResumeLooks, ResumeQueues, Retry,
     Delete, RemoveDirectory, DiscardCheckpoint, RevisionTurn, RevisionLooks, RevisionWrites,
     RevisionCommits, RevisionFails,
     RevisionIsCut
<1>4. QED
  BY <1>2, <1>3 DEF FilesNext

LEMMA ClaimedHasWorkerNext ==
  ASSUME IInv, FilesTypes, Placed, ClaimedHasWorker, [FilesNext]_allVars
  PROVE  ClaimedHasWorker'
<1> SUFFICES ASSUME NEW a \in Attempts, attStatus'[a] \in ClaimedStatuses
             PROVE  at'[a] # "none"
  BY DEF ClaimedHasWorker
<1>1. CASE WorkerStarts(a)
  BY <1>1 DEF WorkerStarts, GoTo, FilesTypes
<1>2. CASE attStatus[a] \in ClaimedStatuses
  BY <1>2, PlacesStay DEF ClaimedHasWorker
<1>3. QED
  BY <1>1, <1>2, AttemptSteps

-----------------------------------------------------------------------------
(* Pins. *)

\* What an attempt that has not loaded its checkpoint has pinned is published.
PinsArePublished ==
  \A a \in Attempts :
    (/\ attPin[a] # Nil /\ attStatus[a] \in ActiveStatuses
     /\ at[a] \in {"none", "preparing"}) => checkpoint[attOwner[a]] = attPin[a]

LEMMA PlainKeepsCheckpoints == PlainOperation => UNCHANGED checkpoint
  BY DEF PlainOperation, CreateProject, CreateRun, QueueRun, ResumeRun, CompleteRun,
     MarkAttemptInterrupted, MarkAttemptFailed, TransitionAttempt, UpdateOwnersTerminal,
     RequestStop, ownerVars, CreateRevision

LEMMA StartKeepsCheckpoints ==
  ASSUME NEW a \in Attempts, WorkerStarts(a) PROVE UNCHANGED checkpoint
  BY DEF WorkerStarts, ClaimNextJob, ClaimJobRow

\* The checkpoint of a run with a claimed attempt is replaced by that attempt's
\* worker only.
LEMMA ClaimedKeepsCheckpoint ==
  ASSUME IInv, FilesTypes, Placed, [FilesNext]_allVars,
         NEW a \in Attempts, attStatus[a] \in ClaimedStatuses, attOwner[a] \in Runs,
         at[a] # "saving"
  PROVE  checkpoint'[attOwner[a]] = checkpoint[attOwner[a]]
<1> DEFINE o == attOwner[a]
<1>1. checkpoint \in [Runs -> Checkpoints \cup {Nil}] /\ OneActiveAttempt
  BY DEF IInv, TypeOK
<1>2. attStatus[a] \in ActiveStatuses /\ attStatus[a] # "absent"
  BY StatusSets
<1>3. IsLatest(a)
  BY <1>1, <1>2, ActiveIsLatest
<1>4. runStatus[o] = "planners"
  BY <1>2, <1>3, ClaimedOwners DEF IInv, OwnerFollowsLatestAttempt
<1>5. ASSUME NEW b \in Attempts, SaveCheckpointRow(b) PROVE checkpoint'[o] = checkpoint[o]
  <2>1. attOwner[b] = works[b] /\ attStatus[b] \in ClaimedStatuses /\ at[b] = "saving"
    BY <1>5 DEF SaveCheckpointRow, PublishRunCheckpoint
  <2>2. attStatus[b] \in ActiveStatuses
    BY <2>1, StatusSets
  <2>3. IsLatest(b)
    BY <1>1, <2>2, ActiveIsLatest
  <2>4. works[b] # o
    BY <1>3, <2>1, <2>3, LatestIsUnique
  <2>5. checkpoint' = [checkpoint EXCEPT ![works[b]] = carried[b]]
    BY <1>5 DEF SaveCheckpointRow, PublishRunCheckpoint
  <2>6. QED
    BY <1>1, <2>4, <2>5
<1>6. ASSUME NEW r \in Runs, ClearRunCheckpoint(r) \/ Retry(r) PROVE checkpoint'[o] = checkpoint[o]
  <2>1. checkpoint' = [checkpoint EXCEPT ![r] = Nil] /\ runStatus[r] # "planners"
    BY <1>6 DEF ClearRunCheckpoint, Retry, RetryRun
  <2>2. QED
    BY <1>1, <1>4, <2>1
<1>7. ASSUME NEW r \in Runs, Delete(r) PROVE checkpoint'[o] = checkpoint[o]
  <2>1. o \notin RunFamily(r)
    BY <1>2, <1>7 DEF Delete, DeleteRun, ActiveAttempts
  <2>2. QED
    BY <1>1, <1>7, <2>1 DEF Delete, DeleteRun, DeleteFamily, SetAll
<1>8. ASSUME NEW b \in Attempts, WorkerClears(b), ClearRunCheckpoint(works[b])
      PROVE  checkpoint'[o] = checkpoint[o]
  BY <1>6, <1>8 DEF WorkerClears, Placed
<1>9. ASSUME UNCHANGED checkpoint PROVE checkpoint'[o] = checkpoint[o]
  BY <1>9
<1>10. CASE UNCHANGED vars
  BY <1>9, <1>10 DEF vars, ownerVars
<1>11. CASE PlainOperation \/ \E b \in Attempts : WorkerStarts(b)
  BY <1>9, <1>11, PlainKeepsCheckpoints, StartKeepsCheckpoints
<1>12. CASE UNCHANGED allVars
  BY <1>10, <1>12 DEF allVars
<1>13. QED
  BY <1>5, <1>6, <1>7, <1>8, <1>10, <1>11, <1>12, StepRows DEF RowStep

LEMMA PinsArePublishedNext ==
  ASSUME IInv, IInv', FilesTypes, Placed, ClaimedHasWorker, PinsArePublished, [FilesNext]_allVars
  PROVE  PinsArePublished'
<1> SUFFICES ASSUME NEW a \in Attempts, attPin'[a] # Nil, attStatus'[a] \in ActiveStatuses,
                    at'[a] \in {"none", "preparing"}
             PROVE  checkpoint'[attOwner'[a]] = attPin'[a]
  BY DEF PinsArePublished
<1>1. CASE attStatus'[a] = "queued"
  BY <1>1 DEF IInv, QueuedResumeKeepsItsCheckpoint
<1>2. CASE attStatus'[a] \in ClaimedStatuses /\ WorkerStarts(a) /\ attStatus[a] = "queued"
  <2>1. attPin' = attPin /\ attOwner' = attOwner /\ checkpoint' = checkpoint
    BY <1>2 DEF WorkerStarts, ClaimNextJob, ClaimJobRow
  <2>2. checkpoint[attOwner[a]] = attPin[a]
    BY <1>2, <2>1 DEF IInv, QueuedResumeKeepsItsCheckpoint
  <2>3. QED
    BY <2>1, <2>2
<1>3. CASE /\ attStatus'[a] \in ClaimedStatuses /\ attStatus[a] \in ClaimedStatuses
           /\ attOwner'[a] = attOwner[a] /\ attPin'[a] = attPin[a]
  <2>1. ~WorkerStarts(a)
    BY <1>3, StatusSets DEF WorkerStarts, ClaimNextJob, QueuedJobs
  <2>2. at[a] \in {"none", "preparing"}
    BY <2>1, PlacesStay
  <2>3. attOwner[a] \in Runs /\ attStatus[a] \in ActiveStatuses
    BY <1>3, StatusSets DEF IInv, PinsAreOfRuns
  <2>4. checkpoint[attOwner[a]] = attPin[a]
    BY <1>3, <2>2, <2>3 DEF PinsArePublished
  <2>5. checkpoint'[attOwner[a]] = checkpoint[attOwner[a]]
    BY <1>3, <2>2, <2>3, ClaimedKeepsCheckpoint
  <2>6. QED
    BY <1>3, <2>4, <2>5
<1>4. attStatus'[a] = "queued" \/ attStatus'[a] \in ClaimedStatuses
  BY DEF ActiveStatuses
<1>5. QED
  BY <1>1, <1>2, <1>3, <1>4, AttemptSteps

-----------------------------------------------------------------------------
(* Deleted runs. *)

\* A deleted run has no row: its id is never given to another.
DeletedAbsent == \A r \in deleted : runStatus[r] = "absent"

LEMMA AbsentStays ==
  ASSUME IInv, FilesTypes, Placed, [FilesNext]_allVars, NEW r \in Runs, runStatus[r] = "absent"
  PROVE  runStatus'[r] = "absent" \/ r \notin deleted
<1> DEFINE Goal == runStatus'[r] = "absent" \/ r \notin deleted
<1>1. /\ runStatus \in [Runs -> RunStatus \cup {"absent"}]
      /\ \A a \in Attempts : attOwner[a] # r
  BY DEF IInv, TypeOK, NoOrphanRows
<1>2. ASSUME UNCHANGED runStatus PROVE Goal
  BY <1>2
<1>3. ASSUME NEW q \in Runs, q # r, NEW s, runStatus' = [runStatus EXCEPT ![q] = s] PROVE Goal
  BY <1>1, <1>3
<1>4. ASSUME NEW a \in Attempts, NEW s, UpdateOwnersTerminal({a}, s) PROVE Goal
  BY <1>1, <1>4 DEF UpdateOwnersTerminal, SetAll
<1>5. CASE PlainOperation
  <2>1. ASSUME NEW q \in Runs, \E c \in Checkpoints : ResumeRun(q, c) PROVE Goal
    BY <1>3, <2>1 DEF ResumeRun, QueueRun
  <2>2. ASSUME NEW q \in Runs \ deleted, CreateRun(q) PROVE Goal
    BY <1>3, <2>2 DEF CreateRun, QueueRun
  <2>3. ASSUME NEW q \in Runs, NEW a \in Attempts, NEW e \in Edits, CompleteRun(q, a, e) PROVE Goal
    BY <1>3, <2>3 DEF CompleteRun
  <2>4. ASSUME NEW a \in Attempts,
               MarkAttemptInterrupted(a) \/ MarkAttemptFailed(a) \/ RequestStop(a)
        PROVE  Goal
    BY <1>2, <1>4, <2>4
    DEF MarkAttemptInterrupted, MarkAttemptFailed, TransitionAttempt, RequestStop, ownerVars
  <2>5. CASE \/ \E q \in Projects : CreateProject(q)
             \/ \E source, e \in Edits : CreateRevision(source, e)
    BY <1>2, <2>5 DEF CreateProject, CreateRevision
  <2>6. QED
    BY <1>5, <2>1, <2>2, <2>3, <2>4, <2>5 DEF PlainOperation
<1>6. ASSUME NEW a \in Attempts, WorkerStarts(a) PROVE Goal
  BY <1>1, <1>6 DEF WorkerStarts, ClaimNextJob, ClaimJobRow, SetAll
<1>7. ASSUME NEW a \in Attempts, SaveCheckpointRow(a) \/ WorkerClears(a) PROVE Goal
  BY <1>2, <1>7
  DEF SaveCheckpointRow, WorkerClears, PublishRunCheckpoint, ClearRunCheckpoint, vars, ownerVars
<1>8. ASSUME NEW q \in Runs, Retry(q) PROVE Goal
  BY <1>3, <1>8 DEF Retry, RetryRun, QueueRun
<1>9. ASSUME NEW q \in Runs, Delete(q) PROVE Goal
  BY <1>1, <1>9 DEF Delete, DeleteRun, DeleteFamily, SetAll
<1>10. CASE UNCHANGED vars
  BY <1>2, <1>10 DEF vars, ownerVars
<1>11. QED
  BY <1>5, <1>6, <1>7, <1>8, <1>9, <1>10, StepRows DEF RowStep, allVars

LEMMA DeletedSteps ==
  ASSUME [FilesNext]_allVars
  PROVE  deleted' = deleted \/ \E r \in Runs : Delete(r)
<1>1. ASSUME NEW a \in Attempts,
             WorkerTurn(a) \/ WorkerCrashes(a) \/ AttemptIsReaped(a) \/ StopRun(a)
      PROVE  deleted' = deleted
  BY <1>1 DEF WorkerTurn, WorkerStarts, WorkerPrepares, SaveCheckpointRow, SaveIsRefused,
     UnlinkCarried, PublishPlan, PublishBundle, LastLook, WorkerCompletes, WorkerClears,
     WorkerSeesStop, WorkerFails, UnlinkPublished, WorkerInterrupts, WorkerDecides, WorkerMarks,
     SaveCheckpointFile, WorkerCrashes, AttemptIsReaped, StopRun, Unwinds, serviceVars
<1>2. ASSUME NEW r \in Runs, ServiceTurn(r) PROVE deleted' = deleted \/ Delete(r)
  BY <1>2 DEF ServiceTurn, CreateRunOnce, ResumeLooks, ResumeQueues, Retry, RemoveDirectory,
     serviceVars
<1>3. ASSUME NEW c \in Checkpoints, DiscardCheckpoint(c) PROVE deleted' = deleted
  BY <1>3 DEF DiscardCheckpoint
<1>4. ASSUME NEW q \in Requests, RevisionTurn(q) PROVE deleted' = deleted
  BY <1>4 DEF RevisionTurn, RevisionLooks, RevisionWrites, RevisionCommits, RevisionFails,
     RevisionIsCut, serviceVars
<1>5. QED
  BY <1>1, <1>2, <1>3, <1>4 DEF FilesNext, allVars, serviceVars

LEMMA DeletedAbsentNext ==
  ASSUME IInv, FilesTypes, Placed, DeletedAbsent, [FilesNext]_allVars
  PROVE  DeletedAbsent'
<1> SUFFICES ASSUME NEW r \in deleted' PROVE runStatus'[r] = "absent"
  BY DEF DeletedAbsent
<1>1. CASE r \in deleted
  <2>1. r \in Runs /\ runStatus[r] = "absent"
    BY <1>1 DEF FilesTypes, DeletedAbsent
  <2>2. QED
    BY <1>1, <2>1, AbsentStays
<1>2. CASE r \notin deleted
  <2>1. PICK q \in Runs : Delete(q)
    BY <1>2, DeletedSteps
  <2>2. r = q
    BY <1>2, <2>1 DEF Delete
  <2>3. runStatus \in [Runs -> RunStatus \cup {"absent"}]
    BY DEF IInv, TypeOK
  <2>4. QED
    BY <2>1, <2>2, <2>3 DEF Delete, DeleteRun, DeleteFamily, RunFamily, SetAll
<1>3. QED
  BY <1>1, <1>2

-----------------------------------------------------------------------------
(* Checkpoint files. *)

\* What workers carry and the service discards, no row names; no two workers
\* carry the same.
Apart ==
  /\ \A a \in Attempts : carried[a] # Nil =>
       carried[a] \notin discard /\ \A r \in Runs : checkpoint[r] # carried[a]
  /\ \A a, b \in Attempts : carried[a] # Nil /\ carried[a] = carried[b] => a = b
  /\ \A c \in discard, r \in Runs : checkpoint[r] # c

\* A checkpoint that is about to get its row is on disk.
SavedOnDisk ==
  \A a \in Attempts :
    (at[a] = "saving" /\ attOwner[a] = works[a] /\ attStatus[a] \in ClaimedStatuses)
      => ckFile[carried[a]] = works[a]

DiskInv == Apart /\ SavedOnDisk /\ PublishedCheckpointOnDisk

\* No two runs publish the same checkpoint.
LEMMA CheckpointsDiffer ==
  ASSUME PublishedCheckpointOnDisk, NEW q \in Runs, NEW r \in Runs,
         checkpoint[q] # Nil, checkpoint[q] = checkpoint[r]
  PROVE  q = r
  BY DEF PublishedCheckpointOnDisk

\* The attempts that are saving after a step were saving before, or save now.
LEMMA SavingSteps ==
  ASSUME FilesTypes, [FilesNext]_allVars, NEW a \in Attempts, at'[a] = "saving"
  PROVE  \/ at[a] = "saving" /\ works'[a] = works[a]
         \/ \E c \in Checkpoints : SaveCheckpointFile(a, c)
<1> DEFINE Goal == \/ at[a] = "saving" /\ works'[a] = works[a]
                   \/ \E c \in Checkpoints : SaveCheckpointFile(a, c)
<1>1. ASSUME NEW b \in Attempts, at' = [at EXCEPT ![b] = at'[b]] \/ at' = at,
             at' # at => at'[b] # "saving", works' = works
      PROVE  Goal
  BY <1>1 DEF FilesTypes
<1>2. ASSUME NEW b \in Attempts,
             WorkerTurn(b) \/ WorkerCrashes(b) \/ AttemptIsReaped(b) \/ StopRun(b)
      PROVE  Goal
  <2>1. CASE WorkerStarts(b)
    BY <2>1 DEF WorkerStarts, GoTo, FilesTypes
  <2>2. CASE \/ WorkerPrepares(b) \/ SaveCheckpointRow(b) \/ SaveIsRefused(b)
             \/ UnlinkCarried(b) \/ PublishPlan(b) \/ PublishBundle(b) \/ LastLook(b)
    BY <1>1, <2>2 DEF WorkerPrepares, SaveCheckpointRow, SaveIsRefused, UnlinkCarried, PublishPlan,
       PublishBundle, LastLook, Move, GoTo, FilesTypes
  <2>3. CASE \/ WorkerCompletes(b) \/ WorkerClears(b) \/ WorkerSeesStop(b) \/ WorkerFails(b)
             \/ UnlinkPublished(b) \/ WorkerInterrupts(b) \/ WorkerDecides(b) \/ WorkerMarks(b)
    BY <1>1, <2>3 DEF WorkerCompletes, WorkerClears, WorkerSeesStop, WorkerFails, UnlinkPublished,
       WorkerInterrupts, WorkerDecides, WorkerMarks, Move, Unwinds, GoTo, FilesTypes
  <2>4. CASE WorkerCrashes(b) \/ AttemptIsReaped(b) \/ StopRun(b)
    BY <1>1, <2>4 DEF WorkerCrashes, AttemptIsReaped, StopRun, GoTo, workerVars, FilesTypes
  <2>5. ASSUME NEW c \in Checkpoints, SaveCheckpointFile(b, c) PROVE Goal
    BY <2>5 DEF SaveCheckpointFile, GoTo, FilesTypes
  <2>6. QED
    BY <1>2, <2>1, <2>2, <2>3, <2>4, <2>5 DEF WorkerTurn
<1>3. CASE \/ UNCHANGED allVars \/ \E r \in Runs : ServiceTurn(r)
           \/ \E c \in Checkpoints : DiscardCheckpoint(c)
           \/ \E q \in Requests : RevisionTurn(q)
  BY <1>3 DEF allVars, workerVars, ServiceTurn, CreateRunOnce, ResumeLooks, ResumeQueues, Retry,
     Delete, RemoveDirectory, DiscardCheckpoint, RevisionTurn, RevisionLooks, RevisionWrites,
     RevisionCommits, RevisionFails,
     RevisionIsCut
<1>4. QED
  BY <1>2, <1>3 DEF FilesNext

\* What the actions that touch checkpoints keep: of what is saved, published and
\* carried.
StillSaved ==
  \A a \in Attempts :
    (/\ at[a] = "saving" /\ attOwner[a] = works[a] /\ attStatus[a] \in ClaimedStatuses
     /\ at'[a] = "saving") => ckFile'[carried'[a]] = works[a]

Keeps == Apart' /\ PublishedCheckpointOnDisk' /\ StillSaved

LEMMA QuietKeeps ==
  ASSUME DiskInv, UNCHANGED <<ckFile, carried, discard, checkpoint>>
  PROVE  Keeps
  BY DEF DiskInv, Keeps, Apart, PublishedCheckpointOnDisk, SavedOnDisk, StillSaved

\* A worker's save: the file, the row, and the file again when it is refused.
LEMMA SaveKeeps ==
  ASSUME IInv, FilesTypes, Placed, DiskInv, NEW a \in Attempts,
         \/ \E c \in Checkpoints : SaveCheckpointFile(a, c)
         \/ SaveCheckpointRow(a) \/ SaveIsRefused(a) \/ UnlinkCarried(a)
  PROVE  Keeps
<1> USE DEF GoTo, Unlinked
<1>1. checkpoint \in [Runs -> Checkpoints \cup {Nil}]
  BY DEF IInv, TypeOK
<1>2. ASSUME NEW c \in Checkpoints, SaveCheckpointFile(a, c) PROVE Keeps
  <2>1. c # Nil /\ carried[a] = Nil
    BY <1>2, StoreAssumption DEF SaveCheckpointFile, Placed
  <2>2. /\ \A b \in Attempts : carried'[b] = IF b = a THEN c ELSE carried[b]
        /\ \A d \in Checkpoints : ckFile'[d] = IF d = c THEN works[a] ELSE ckFile[d]
        /\ checkpoint' = checkpoint /\ discard' = discard
        /\ \A b \in Attempts : carried[b] # c
        /\ \A r \in Runs : checkpoint[r] # c
        /\ c \notin discard
    BY <1>2 DEF SaveCheckpointFile, FilesTypes, vars, ownerVars, serviceVars
  <2>3. Apart'
    BY <2>2 DEF DiskInv, Apart
  <2>4. PublishedCheckpointOnDisk'
    BY <1>1, <2>2 DEF DiskInv, PublishedCheckpointOnDisk
  <2>5. StillSaved
    <3> SUFFICES ASSUME NEW b \in Attempts, at[b] = "saving", attOwner[b] = works[b],
                        attStatus[b] \in ClaimedStatuses
                 PROVE  ckFile'[carried'[b]] = works[b]
      BY DEF StillSaved
    <3>1. b # a /\ carried[b] \in Checkpoints
      BY <1>2 DEF SaveCheckpointFile, Placed, FilesTypes
    <3>2. QED
      BY <2>2, <3>1 DEF DiskInv, SavedOnDisk
  <2>6. QED
    BY <2>3, <2>4, <2>5 DEF Keeps
<1>3. CASE SaveCheckpointRow(a)
  <2> DEFINE r == works[a]
  <2>1. /\ r \in Runs /\ carried[a] # Nil /\ at[a] = "saving"
        /\ attOwner[a] = r /\ attStatus[a] \in ClaimedStatuses
    BY <1>3 DEF SaveCheckpointRow, PublishRunCheckpoint, Placed
  <2>2. /\ \A b \in Attempts : carried'[b] = IF b = a THEN checkpoint[r] ELSE carried[b]
        /\ \A q \in Runs : checkpoint'[q] = IF q = r THEN carried[a] ELSE checkpoint[q]
        /\ ckFile' = ckFile /\ discard' = discard /\ at'[a] = "switched"
    BY <1>1, <1>3 DEF SaveCheckpointRow, PublishRunCheckpoint, FilesTypes, fileVars, serviceVars
  <2>3. ckFile[carried[a]] = r
    BY <2>1 DEF DiskInv, SavedOnDisk
  <2>4. Apart'
    <3>1. \A q \in Runs : q # r /\ checkpoint[r] # Nil => checkpoint[q] # checkpoint[r]
      BY <2>1, CheckpointsDiffer DEF DiskInv
    <3>2. QED
      BY <2>1, <2>2, <3>1 DEF DiskInv, Apart
  <2>5. PublishedCheckpointOnDisk'
    BY <2>2, <2>3 DEF DiskInv, PublishedCheckpointOnDisk
  <2>6. StillSaved
    BY <2>2 DEF DiskInv, SavedOnDisk, StillSaved
  <2>7. QED
    BY <2>4, <2>5, <2>6 DEF Keeps
<1>4. CASE SaveIsRefused(a) \/ UnlinkCarried(a)
  <2>1. /\ checkpoint' = checkpoint /\ discard' = discard
        /\ \A b \in Attempts : carried'[b] = IF b = a THEN Nil ELSE carried[b]
        /\ \A d \in Checkpoints : d # carried[a] => ckFile'[d] = ckFile[d]
    BY <1>4 DEF SaveIsRefused, UnlinkCarried, FilesTypes, vars, ownerVars, serviceVars
  <2>2. Apart'
    BY <2>1 DEF DiskInv, Apart
  <2>3. PublishedCheckpointOnDisk'
    BY <1>1, <2>1 DEF DiskInv, Apart, PublishedCheckpointOnDisk
  <2>4. StillSaved
    <3> SUFFICES ASSUME NEW b \in Attempts, at[b] = "saving", attOwner[b] = works[b],
                        attStatus[b] \in ClaimedStatuses, at'[b] = "saving"
                 PROVE  ckFile'[carried'[b]] = works[b]
      BY DEF StillSaved
    <3>1. b # a
      BY <1>4 DEF SaveIsRefused, UnlinkCarried, FilesTypes
    <3>2. carried[b] # Nil /\ carried[b] \in Checkpoints /\ carried[b] # carried[a]
      BY <3>1 DEF Placed, FilesTypes, DiskInv, Apart
    <3>3. QED
      BY <2>1, <3>1, <3>2 DEF DiskInv, SavedOnDisk
  <2>5. QED
    BY <2>2, <2>3, <2>4 DEF Keeps
<1>5. QED
  BY <1>2, <1>3, <1>4

\* The checkpoints of completed, retried and deleted runs.
LEMMA ClearKeeps ==
  ASSUME IInv, FilesTypes, Placed, DiskInv, DeletedAbsent,
         \/ \E a \in Attempts : WorkerClears(a)
         \/ \E r \in Runs : Retry(r) \/ Delete(r) \/ RemoveDirectory(r)
         \/ \E c \in Checkpoints : DiscardCheckpoint(c)
  PROVE  Keeps
<1>1. /\ checkpoint \in [Runs -> Checkpoints \cup {Nil}]
      /\ \A r \in Runs : checkpoint[r] # Nil => runStatus[r] # "absent"
      /\ \A r \in Runs : (\E a \in Attempts : attOwner[a] = r) => runStatus[r] # "absent"
  BY DEF IInv, TypeOK, NoOrphanRows
<1>2. ASSUME NEW a \in Attempts, WorkerClears(a) PROVE Keeps
  <2> DEFINE r == works[a]
  <2>1. CASE ClearRunCheckpoint(r) /\ carried' = [carried EXCEPT ![a] = checkpoint[r]]
    <3>1. r \in Runs /\ carried[a] = Nil /\ at[a] # "saving"
      BY <1>2 DEF WorkerClears, Placed
    <3>2. /\ \A b \in Attempts : carried'[b] = IF b = a THEN checkpoint[r] ELSE carried[b]
          /\ \A q \in Runs : checkpoint'[q] = IF q = r THEN Nil ELSE checkpoint[q]
          /\ ckFile' = ckFile /\ discard' = discard
      BY <1>1, <1>2, <2>1 DEF WorkerClears, ClearRunCheckpoint, FilesTypes, fileVars, serviceVars
    <3>3. \A q \in Runs : q # r /\ checkpoint[r] # Nil => checkpoint[q] # checkpoint[r]
      BY <3>1, CheckpointsDiffer DEF DiskInv
    <3>4. Nil \notin discard
      BY StoreAssumption DEF FilesTypes
    <3>5. Apart'
      BY <3>1, <3>2, <3>3, <3>4 DEF DiskInv, Apart
    <3>6. PublishedCheckpointOnDisk'
      BY <3>2 DEF DiskInv, PublishedCheckpointOnDisk
    <3>7. StillSaved
      BY <3>1, <3>2 DEF DiskInv, SavedOnDisk, StillSaved
    <3>8. QED
      BY <3>5, <3>6, <3>7 DEF Keeps
  <2>2. CASE UNCHANGED <<vars, carried>>
    BY <1>2, <2>2, QuietKeeps DEF WorkerClears, vars, ownerVars, fileVars, serviceVars
  <2>3. QED
    BY <1>2, <2>1, <2>2 DEF WorkerClears
<1>3. ASSUME NEW r \in Runs, Retry(r) PROVE Keeps
  <2>1. /\ \A q \in Runs : checkpoint'[q] = IF q = r THEN Nil ELSE checkpoint[q]
        /\ discard' = discard \cup ({checkpoint[r]} \ {Nil})
        /\ ckFile' = ckFile /\ carried' = carried
    BY <1>1, <1>3 DEF Retry, RetryRun, workerVars, fileVars
  <2>2. \A q \in Runs : q # r /\ checkpoint[r] # Nil => checkpoint[q] # checkpoint[r]
    BY CheckpointsDiffer DEF DiskInv
  <2>3. Nil \notin discard'
    BY <2>1, StoreAssumption DEF FilesTypes
  <2>4. Apart'
    BY <2>1, <2>2, <2>3 DEF DiskInv, Apart
  <2>5. PublishedCheckpointOnDisk'
    BY <2>1 DEF DiskInv, PublishedCheckpointOnDisk
  <2>6. StillSaved
    BY <2>1 DEF DiskInv, SavedOnDisk, StillSaved
  <2>7. QED
    BY <2>4, <2>5, <2>6 DEF Keeps
<1>4. ASSUME NEW r \in Runs, Delete(r) PROVE Keeps
  <2>1. /\ \A q \in Runs : checkpoint'[q] = Nil \/ checkpoint'[q] = checkpoint[q]
        /\ discard' = discard /\ ckFile' = ckFile /\ carried' = carried
    BY <1>1, <1>4 DEF Delete, DeleteRun, DeleteFamily, SetAll, workerVars, fileVars
  <2>2. Nil \notin discard
    BY StoreAssumption DEF FilesTypes
  <2>3. Apart'
    BY <2>1, <2>2 DEF DiskInv, Apart
  <2>4. PublishedCheckpointOnDisk'
    BY <2>1 DEF DiskInv, PublishedCheckpointOnDisk
  <2>5. StillSaved
    BY <2>1 DEF DiskInv, SavedOnDisk, StillSaved
  <2>6. QED
    BY <2>3, <2>4, <2>5 DEF Keeps
<1>5. ASSUME NEW r \in Runs, RemoveDirectory(r) PROVE Keeps
  <2>1. /\ checkpoint' = checkpoint /\ discard' = discard /\ carried' = carried
        /\ \A c \in Checkpoints : ckFile'[c] = IF ckFile[c] = r THEN Nil ELSE ckFile[c]
    BY <1>5 DEF RemoveDirectory, vars, ownerVars, workerVars
  <2>2. checkpoint[r] = Nil /\ \A a \in Attempts : attOwner[a] # r
    BY <1>1, <1>5 DEF RemoveDirectory, FilesTypes, DeletedAbsent
  <2>3. Apart'
    BY <2>1 DEF DiskInv, Apart
  <2>4. PublishedCheckpointOnDisk'
    BY <1>1, <2>1, <2>2 DEF DiskInv, PublishedCheckpointOnDisk
  <2>5. StillSaved
    BY <2>1, <2>2 DEF DiskInv, SavedOnDisk, StillSaved, Placed, FilesTypes
  <2>6. QED
    BY <2>3, <2>4, <2>5 DEF Keeps
<1>6. ASSUME NEW c \in Checkpoints, DiscardCheckpoint(c) PROVE Keeps
  <2>1. /\ checkpoint' = checkpoint /\ carried' = carried /\ discard' \subseteq discard
        /\ c \in discard /\ \A d \in Checkpoints : d # c => ckFile'[d] = ckFile[d]
    BY <1>6 DEF DiscardCheckpoint, Unlinked, vars, ownerVars, workerVars, FilesTypes
  <2>2. Apart'
    BY <2>1 DEF DiskInv, Apart
  <2>3. PublishedCheckpointOnDisk'
    BY <1>1, <2>1 DEF DiskInv, Apart, PublishedCheckpointOnDisk
  <2>4. StillSaved
    BY <2>1 DEF DiskInv, Apart, SavedOnDisk, StillSaved, Placed, FilesTypes
  <2>5. QED
    BY <2>2, <2>3, <2>4 DEF Keeps
<1>7. QED
  BY <1>2, <1>3, <1>4, <1>5, <1>6

\* Every other step leaves checkpoints alone.
LEMMA DiskSteps ==
  ASSUME [FilesNext]_allVars
  PROVE  \/ UNCHANGED <<ckFile, carried, discard, checkpoint>>
         \/ \E a \in Attempts :
              \/ \E c \in Checkpoints : SaveCheckpointFile(a, c)
              \/ SaveCheckpointRow(a) \/ SaveIsRefused(a) \/ UnlinkCarried(a) \/ WorkerClears(a)
         \/ \E r \in Runs : Retry(r) \/ Delete(r) \/ RemoveDirectory(r)
         \/ \E c \in Checkpoints : DiscardCheckpoint(c)
<1> DEFINE Quiet == UNCHANGED <<ckFile, carried, discard, checkpoint>>
<1>1. ASSUME NEW a \in Attempts,
             MarkAttemptInterrupted(a) \/ MarkAttemptFailed(a) \/ RequestStop(a)
      PROVE  UNCHANGED checkpoint
  BY <1>1, PlainKeepsCheckpoints DEF PlainOperation
<1>2. ASSUME NEW a \in Attempts,
             \/ WorkerPrepares(a) \/ PublishPlan(a) \/ PublishBundle(a) \/ LastLook(a)
             \/ WorkerSeesStop(a) \/ WorkerFails(a) \/ UnlinkPublished(a) \/ WorkerDecides(a)
             \/ WorkerCrashes(a)
      PROVE  Quiet
  BY <1>2 DEF WorkerPrepares, PublishPlan, PublishBundle, LastLook, WorkerSeesStop, WorkerFails,
     UnlinkPublished, WorkerDecides, WorkerCrashes, Move, Unwinds, vars, ownerVars, fileVars,
     serviceVars
<1>3. ASSUME NEW a \in Attempts,
             WorkerInterrupts(a) \/ WorkerMarks(a) \/ AttemptIsReaped(a) \/ StopRun(a)
      PROVE  Quiet
  BY <1>1, <1>3 DEF WorkerInterrupts, WorkerMarks, AttemptIsReaped, StopRun, vars, ownerVars,
     workerVars, fileVars, serviceVars
<1>4. ASSUME NEW a \in Attempts, WorkerStarts(a) \/ WorkerCompletes(a) PROVE Quiet
  BY <1>4, StartKeepsCheckpoints DEF WorkerStarts, WorkerCompletes, CompleteRun, Move, fileVars,
     serviceVars
<1>5. ASSUME NEW r \in Runs, CreateRunOnce(r) \/ ResumeLooks(r) \/ ResumeQueues(r) PROVE Quiet
  BY <1>5 DEF CreateRunOnce, CreateProject, CreateRun, QueueRun, ResumeLooks, ResumeQueues,
     ResumeRun, vars, ownerVars, workerVars, fileVars, serviceVars
<1>6. ASSUME NEW q \in Requests, RevisionTurn(q) PROVE Quiet
  BY <1>6 DEF RevisionTurn, RevisionLooks, RevisionWrites, RevisionCommits, RevisionFails,
     RevisionIsCut, CreateRevision, vars, ownerVars, workerVars, fileVars, serviceVars
<1>7. CASE UNCHANGED allVars
  BY <1>7 DEF allVars, vars, ownerVars, workerVars, fileVars, serviceVars
<1>8. ASSUME NEW a \in Attempts,
             WorkerTurn(a) \/ WorkerCrashes(a) \/ AttemptIsReaped(a) \/ StopRun(a)
      PROVE  \/ Quiet
             \/ \E c \in Checkpoints : SaveCheckpointFile(a, c)
             \/ SaveCheckpointRow(a) \/ SaveIsRefused(a) \/ UnlinkCarried(a) \/ WorkerClears(a)
  BY <1>2, <1>3, <1>4, <1>8 DEF WorkerTurn
<1>9. QED
  BY <1>5, <1>6, <1>7, <1>8 DEF FilesNext, ServiceTurn

LEMMA DiskNext ==
  ASSUME IInv, FilesTypes, Placed, DiskInv, DeletedAbsent, [FilesNext]_allVars
  PROVE  DiskInv'
<1>1. Keeps
  BY DiskSteps, QuietKeeps, SaveKeeps, ClearKeeps
<1>2. SavedOnDisk'
  <2> SUFFICES ASSUME NEW a \in Attempts, at'[a] = "saving", attOwner'[a] = works'[a],
                      attStatus'[a] \in ClaimedStatuses
               PROVE  ckFile'[carried'[a]] = works'[a]
    BY DEF SavedOnDisk
  <2>1. ASSUME NEW c \in Checkpoints, SaveCheckpointFile(a, c) PROVE ckFile'[carried'[a]] = works'[a]
    BY <2>1 DEF SaveCheckpointFile, FilesTypes
  <2>2. CASE at[a] = "saving" /\ works'[a] = works[a]
    <3>1. ~WorkerStarts(a)
      BY <2>2 DEF WorkerStarts
    <3>2. attStatus[a] \in ClaimedStatuses /\ attOwner'[a] = attOwner[a]
      BY <3>1, AttemptSteps
    <3>3. QED
      BY <1>1, <2>2, <3>2 DEF Keeps, StillSaved
  <2>3. QED
    BY <2>1, <2>2, SavingSteps
<1>3. QED
  BY <1>1, <1>2 DEF Keeps, DiskInv

-----------------------------------------------------------------------------
(* Theorems. *)

FilesInv ==
  /\ IInv /\ FilesTypes /\ Placed
  /\ ClaimedHasWorker /\ PinsArePublished /\ DeletedAbsent /\ DiskInv

LEMMA InitFilesInv == FilesInit => FilesInv
<1> SUFFICES ASSUME FilesInit PROVE FilesInv
  OBVIOUS
<1>1. IInv /\ FilesTypes /\ Placed
  BY InitIInv, InitFilesTypes DEF FilesInit
<1>2. ClaimedHasWorker /\ PinsArePublished
  BY StatusSets DEF FilesInit, Init, ClaimedHasWorker, PinsArePublished
<1>3. DeletedAbsent /\ DiskInv
  BY DEF FilesInit, Init, DeletedAbsent, DiskInv, Apart, SavedOnDisk, PublishedCheckpointOnDisk
<1>4. QED
  BY <1>1, <1>2, <1>3 DEF FilesInv

LEMMA NextFilesInv == FilesInv /\ [FilesNext]_allVars => FilesInv'
<1> SUFFICES ASSUME FilesInv, [FilesNext]_allVars PROVE FilesInv'
  OBVIOUS
<1>1. IInv'
  BY RowsAreTheStores, NextIInv DEF FilesInv
<1>2. FilesTypes' /\ Placed'
  BY NextFilesTypes DEF FilesInv, IInv
<1>3. ClaimedHasWorker' /\ PinsArePublished'
  BY <1>1, ClaimedHasWorkerNext, PinsArePublishedNext DEF FilesInv
<1>4. DeletedAbsent' /\ DiskInv'
  BY DeletedAbsentNext, DiskNext DEF FilesInv
<1>5. QED
  BY <1>1, <1>2, <1>3, <1>4 DEF FilesInv

\* The conjunction of what the workers and the service rely on is kept by each of
\* their steps.
THEOREM FilesInvariant == FilesSpec => []FilesInv
  BY InitFilesInv, NextFilesInv, PTL DEF FilesSpec

\* The workers and the run service use the store as the store allows, whatever
\* they do to files: all that is proved of the store holds with files too.
THEOREM FilesRunTheStore == FilesSpec => Spec
<1>1. FilesInit => Init
  BY DEF FilesInit
<1>2. FilesInv /\ [FilesNext]_allVars => [Next]_vars
  BY RowsAreTheStores DEF FilesInv
<1>3. QED
  BY <1>1, <1>2, FilesInvariant, PTL DEF FilesSpec, Spec

\* Workers and files keep their types, and only a worker that publishes or
\* removes a checkpoint carries one.
THEOREM FilesTypeCorrect == FilesSpec => []FilesTypeOK
<1>1. FilesInv => FilesTypeOK
  BY DEF FilesInv, FilesTypes, Placed, FilesTypeOK, Places
<1>2. QED
  BY <1>1, FilesInvariant, PTL

\* The checkpoint a run's row names is always on disk.
THEOREM PublishedCheckpointsOnDisk == FilesSpec => []PublishedCheckpointOnDisk
  BY FilesInvariant, PTL DEF FilesInv, DiskInv

\* A resume finds the file it pinned, however long its attempt waits.
THEOREM PinnedCheckpointsLoad == FilesSpec => []PinnedCheckpointLoads
<1>1. FilesInv => PinnedCheckpointLoads
  <2> SUFFICES ASSUME FilesInv, NEW a \in Attempts, attPin[a] # Nil,
                      attStatus[a] \in ActiveStatuses, at[a] \in {"none", "preparing"}
               PROVE  ckFile[attPin[a]] = attOwner[a]
    BY DEF PinnedCheckpointLoads
  <2>1. attOwner[a] \in Runs /\ checkpoint[attOwner[a]] = attPin[a]
    BY DEF FilesInv, IInv, PinsAreOfRuns, PinsArePublished
  <2>2. QED
    BY <2>1 DEF FilesInv, DiskInv, PublishedCheckpointOnDisk
<1>2. QED
  BY <1>1, FilesInvariant, PTL

-----------------------------------------------------------------------------
(* Plans and bundles, where a live worker keeps its lease. *)

\* The places of a worker whose attempt it has not ended.
AtWork == Places \ {"none", "clearing", "cleared", "gone"}

\* A worker at work holds its attempt, which is one of the run it works on.
Held ==
  \A a \in Attempts :
    at[a] \in AtWork => attStatus[a] \in ClaimedStatuses /\ attOwner[a] = works[a]

\* What a worker has published is there until it ends its attempt.
Laid ==
  \A a \in Attempts :
    /\ at[a] \in {"planned", "bundled", "completing"} => planOn[works[a]] = a
    /\ at[a] \in {"bundled", "completing"} => bundleOn[works[a]] = a

\* Nothing is left where the directory of a deleted run has been removed.
Swept ==
  \A r \in deleted \ removing :
    /\ planOn[r] = Nil /\ bundleOn[r] = Nil
    /\ \A c \in Checkpoints : ckFile[c] # r

ArtifactsInv == Held /\ Laid /\ Swept /\ CompleteRunKeepsItsArtifacts

\* A step leaves an attempt with its owner, claimed if it was claimed and ended as it had
\* ended, unless its own worker or reaper ends it or its run is deleted.
EndsAttempt(a) ==
  /\ attStatus[a] \in ClaimedStatuses
  /\ WorkerCompletes(a) \/ WorkerInterrupts(a) \/ WorkerMarks(a) \/ AttemptIsReaped(a)

Kept(a) ==
  /\ attOwner'[a] = attOwner[a]
  /\ attStatus[a] \in ClaimedStatuses => attStatus'[a] \in ClaimedStatuses
  /\ attStatus[a] \in TerminalStatuses => attStatus'[a] = attStatus[a]

DeletesRunOf(a) ==
  /\ attStatus[a] \in TerminalStatuses
  /\ \E r \in Runs : Delete(r) /\ attOwner[a] \in RunFamily(r)

LEMMA AttemptStays ==
  ASSUME IInv, FilesTypes, Placed, [FilesNext]_allVars, NEW a \in Attempts,
         attStatus[a] # "absent"
  PROVE  Kept(a) \/ EndsAttempt(a) \/ DeletesRunOf(a)
<1> DEFINE Goal == Kept(a) \/ EndsAttempt(a) \/ DeletesRunOf(a)
<1>1. AttemptTypes /\ JobMirrorsAttempt
  BY TypeParts DEF IInv
<1>2. ASSUME UNCHANGED <<attStatus, attOwner>> PROVE Goal
  BY <1>2 DEF Kept
<1>3. ASSUME NEW o \in Owners, NEW pin \in Checkpoints \cup {Nil}, InsertAttempt(o, pin) PROVE Goal
  BY <1>1, <1>3, InsertValues DEF Kept
<1>4. ASSUME NEW b \in Attempts, b # a, NEW s, FinishAttempts({b}, s) PROVE Goal
  BY <1>1, <1>4 DEF FinishAttempts, SetAll, AttemptTypes, Kept
<1>5. ASSUME NEW s, FinishAttempts({a}, s), attStatus[a] = "queued" PROVE Goal
  BY <1>5, StatusSets DEF FinishAttempts, Kept
<1>6. ASSUME NEW b \in Attempts, attStatus[b] \in ActiveStatuses, NEW s, FinishAttempts({b}, s),
             attStatus[b] \notin ClaimedStatuses \/ a # b
      PROVE  Goal
  BY <1>4, <1>5, <1>6 DEF ActiveStatuses
<1>7. ASSUME NEW b \in Attempts, WorkerStarts(b) PROVE Goal
  BY <1>1, <1>7, StatusSets
  DEF WorkerStarts, ClaimNextJob, QueuedJobs, ClaimJobRow, AttemptTypes, ClaimedStatuses, Kept
<1>8. ASSUME NEW b \in Attempts,
             \/ WorkerPrepares(b) \/ SaveCheckpointRow(b) \/ SaveIsRefused(b) \/ UnlinkCarried(b)
             \/ PublishPlan(b) \/ PublishBundle(b) \/ LastLook(b) \/ WorkerClears(b)
             \/ WorkerSeesStop(b) \/ WorkerFails(b) \/ UnlinkPublished(b) \/ WorkerDecides(b)
             \/ WorkerCrashes(b) \/ \E c \in Checkpoints : SaveCheckpointFile(b, c)
      PROVE  Goal
  <2>1. UNCHANGED attemptVars
    BY <1>8 DEF WorkerPrepares, SaveCheckpointRow, SaveIsRefused, UnlinkCarried, PublishPlan,
       PublishBundle, LastLook, WorkerClears, WorkerSeesStop, WorkerFails, UnlinkPublished,
       WorkerDecides, WorkerCrashes, SaveCheckpointFile, Move, Unwinds, PublishRunCheckpoint,
       ClearRunCheckpoint, vars
  <2>2. QED
    BY <1>2, <2>1 DEF attemptVars
<1>9. ASSUME NEW b \in Attempts,
             WorkerCompletes(b) \/ WorkerInterrupts(b) \/ WorkerMarks(b) \/ AttemptIsReaped(b)
      PROVE  Goal
  <2>1. \/ UNCHANGED vars
        \/ /\ attStatus[b] \in ActiveStatuses
           /\ \E s : FinishAttempts({b}, s)
    BY <1>9 DEF WorkerCompletes, WorkerInterrupts, WorkerMarks, AttemptIsReaped, CompleteRun,
       MarkAttemptInterrupted, MarkAttemptFailed, TransitionAttempt, ActiveStatuses,
       ClaimedStatuses
  <2>2. CASE a = b /\ attStatus[a] \in ClaimedStatuses
    BY <1>9, <2>2 DEF EndsAttempt
  <2>3. CASE UNCHANGED vars
    BY <1>2, <2>3 DEF vars, attemptVars
  <2>4. QED
    BY <1>6, <2>1, <2>2, <2>3
<1>10. ASSUME NEW b \in Attempts, StopRun(b) PROVE Goal
  <2>1. CASE FinishAttempts({b}, "interrupted") /\ attStatus[b] = "queued"
    BY <1>6, <2>1, StatusSets
  <2>2. CASE /\ attStatus[b] \in ClaimedStatuses
             /\ attStatus' = [attStatus EXCEPT ![b] = "stopping"]
             /\ attOwner' = attOwner
    BY <1>1, <2>2, StatusSets DEF AttemptTypes, ClaimedStatuses, Kept
  <2>3. QED
    BY <1>10, <2>1, <2>2 DEF StopRun, RequestStop
<1>11. ASSUME NEW r \in Runs, CreateRunOnce(r) \/ ResumeLooks(r) \/ ResumeQueues(r) \/ Retry(r)
       PROVE  Goal
  <2>1. \/ UNCHANGED attemptVars
        \/ \E pin \in Checkpoints \cup {Nil} : InsertAttempt(r, pin)
    BY <1>11 DEF CreateRunOnce, ResumeLooks, ResumeQueues, Retry, CreateProject, CreateRun,
       ResumeRun, RetryRun, QueueRun, vars, FilesTypes
  <2>2. r \in Owners
    BY DEF Owners
  <2>3. QED
    BY <1>2, <1>3, <2>1, <2>2 DEF attemptVars
<1>12. ASSUME NEW r \in Runs, Delete(r) PROVE Goal
  <2>1. /\ attStatus'[a] = IF attOwner[a] \in RunFamily(r) THEN "absent" ELSE attStatus[a]
        /\ attOwner'[a] = IF attOwner[a] \in RunFamily(r) THEN Nil ELSE attOwner[a]
    BY <1>1, <1>12 DEF Delete, DeleteRun, DeleteFamily, SetAll, AttemptTypes
  <2>2. attOwner[a] \in RunFamily(r) => attStatus[a] \in TerminalStatuses
    BY <1>1, <1>12 DEF Delete, DeleteRun, ActiveAttempts, AttemptTypes, AttemptStatus
  <2>3. QED
    BY <1>12, <2>1, <2>2 DEF Kept, DeletesRunOf
<1>13. ASSUME NEW r \in Runs, RemoveDirectory(r) PROVE Goal
  BY <1>2, <1>13 DEF RemoveDirectory, vars, attemptVars
<1>14. ASSUME NEW c \in Checkpoints, DiscardCheckpoint(c) PROVE Goal
  BY <1>2, <1>14 DEF DiscardCheckpoint, vars, attemptVars
<1>15. ASSUME NEW q \in Requests, RevisionTurn(q) PROVE Goal
  BY <1>2, <1>15 DEF RevisionTurn, RevisionLooks, RevisionWrites, RevisionCommits, RevisionFails,
     RevisionIsCut, CreateRevision, vars, attemptVars
<1>16. CASE UNCHANGED allVars
  BY <1>2, <1>16 DEF allVars, vars, attemptVars
<1>17. QED
  BY <1>7, <1>8, <1>9, <1>10, <1>11, <1>12, <1>13, <1>14, <1>15, <1>16
  DEF FilesNext, WorkerTurn, ServiceTurn

\* The workers at work after a step were at work before, or start.
LEMMA WorkGoesOn ==
  ASSUME FilesTypes, [FilesNext]_allVars, NEW a \in Attempts, at'[a] \in AtWork
  PROVE  WorkerStarts(a) \/ (at[a] \in AtWork /\ works'[a] = works[a])
<1> DEFINE Goal == WorkerStarts(a) \/ (at[a] \in AtWork /\ works'[a] = works[a])
<1>1. ASSUME NEW b \in Attempts, NEW where,
             \/ at' = at
             \/ (at[b] \in AtWork \/ where \notin AtWork) /\ at' = [at EXCEPT ![b] = where],
             works' = works
      PROVE  Goal
  BY <1>1 DEF FilesTypes
<1>2. ASSUME NEW b \in Attempts,
             WorkerTurn(b) \/ WorkerCrashes(b) \/ AttemptIsReaped(b) \/ StopRun(b)
      PROVE  Goal
  <2>1. CASE WorkerStarts(b)
    BY <2>1 DEF WorkerStarts, GoTo, FilesTypes
  <2>2. CASE \/ WorkerPrepares(b) \/ SaveCheckpointRow(b) \/ SaveIsRefused(b)
             \/ PublishPlan(b) \/ PublishBundle(b) \/ LastLook(b)
             \/ \E c \in Checkpoints : SaveCheckpointFile(b, c)
    <3>1. at[b] \in AtWork /\ works' = works
      BY <2>2 DEF WorkerPrepares, SaveCheckpointRow, SaveIsRefused, PublishPlan, PublishBundle,
         LastLook, SaveCheckpointFile, Move, AtWork, Places
    <3>2. \E where : at' = [at EXCEPT ![b] = where]
      BY <2>2 DEF WorkerPrepares, SaveCheckpointRow, SaveIsRefused, PublishPlan, PublishBundle,
         LastLook, SaveCheckpointFile, Move, GoTo
    <3>3. QED
      BY <1>1, <3>1, <3>2
  <2>3. CASE \/ WorkerSeesStop(b) \/ WorkerFails(b) \/ WorkerInterrupts(b) \/ WorkerDecides(b)
             \/ WorkerMarks(b)
    <3>1. at[b] \in AtWork /\ works' = works
      BY <2>3 DEF WorkerSeesStop, WorkerFails, WorkerInterrupts, WorkerDecides, WorkerMarks,
         Unwinds, AtWork, Places
    <3>2. \E where : at' = [at EXCEPT ![b] = where]
      BY <2>3 DEF WorkerSeesStop, WorkerFails, WorkerInterrupts, WorkerDecides, WorkerMarks,
         Unwinds, GoTo
    <3>3. QED
      BY <1>1, <3>1, <3>2
  <2>4. CASE UnlinkCarried(b) \/ WorkerCompletes(b) \/ WorkerClears(b) \/ WorkerCrashes(b)
    <3>1. works' = works
      BY <2>4 DEF UnlinkCarried, WorkerCompletes, WorkerClears, WorkerCrashes, Move
    <3>2. \E where : /\ at' = [at EXCEPT ![b] = where]
                     /\ at[b] \in AtWork \/ where \notin AtWork
      BY <2>4 DEF UnlinkCarried, WorkerCompletes, WorkerClears, WorkerCrashes, Move, GoTo, AtWork,
         Places
    <3>3. QED
      BY <1>1, <3>1, <3>2
  <2>5. CASE UnlinkPublished(b) \/ AttemptIsReaped(b) \/ StopRun(b)
    BY <1>1, <2>5 DEF UnlinkPublished, AttemptIsReaped, StopRun, workerVars
  <2>6. QED
    BY <1>2, <2>1, <2>2, <2>3, <2>4, <2>5 DEF WorkerTurn
<1>3. CASE \/ UNCHANGED allVars \/ \E r \in Runs : ServiceTurn(r)
           \/ \E c \in Checkpoints : DiscardCheckpoint(c)
           \/ \E q \in Requests : RevisionTurn(q)
  BY <1>3 DEF allVars, workerVars, ServiceTurn, CreateRunOnce, ResumeLooks, ResumeQueues, Retry,
     Delete, RemoveDirectory, DiscardCheckpoint, RevisionTurn, RevisionLooks, RevisionWrites,
     RevisionCommits, RevisionFails,
     RevisionIsCut
<1>4. QED
  BY <1>2, <1>3 DEF FilesNext

LEMMA HeldNext ==
  ASSUME LeasesLost = FALSE, IInv, FilesTypes, Placed, Held, [FilesNext]_allVars
  PROVE  Held'
<1> SUFFICES ASSUME NEW a \in Attempts, at'[a] \in AtWork
             PROVE  attStatus'[a] \in ClaimedStatuses /\ attOwner'[a] = works'[a]
  BY DEF Held
<1>1. CASE WorkerStarts(a)
  <2>1. attOwner' = attOwner /\ works'[a] = attOwner[a] /\ attStatus'[a] = "running"
    BY <1>1 DEF WorkerStarts, ClaimNextJob, ClaimJobRow, FilesTypes, IInv, TypeOK
  <2>2. QED
    BY <2>1 DEF ClaimedStatuses
<1>2. CASE at[a] \in AtWork /\ works'[a] = works[a]
  <2>1. attStatus[a] \in ClaimedStatuses /\ attOwner[a] = works[a]
    BY <1>2 DEF Held
  <2>2. ~EndsAttempt(a)
    <3>1. ~WorkerCompletes(a) /\ ~WorkerMarks(a)
      BY DEF WorkerCompletes, WorkerMarks, Move, GoTo, FilesTypes, AtWork
    <3>2. ~WorkerInterrupts(a)
      BY <2>1 DEF WorkerInterrupts, GoTo, FilesTypes, AtWork
    <3>3. ~AttemptIsReaped(a)
      BY <1>2 DEF AttemptIsReaped, AtWork
    <3>4. QED
      BY <3>1, <3>2, <3>3 DEF EndsAttempt
  <2>3. Kept(a)
    BY <2>1, <2>2, AttemptStays, StatusSets DEF DeletesRunOf
  <2>4. QED
    BY <1>2, <2>1, <2>3 DEF Kept
<1>3. QED
  BY <1>1, <1>2, WorkGoesOn

\* A run somebody works on is with its planners, and nobody else works on it.
LEMMA WorkedOn ==
  ASSUME IInv, Placed, Held, NEW a \in Attempts, at[a] \in AtWork
  PROVE  /\ works[a] \in Runs /\ runStatus[works[a]] = "planners"
         /\ \A b \in Attempts : at[b] \in AtWork /\ works[b] = works[a] => a = b
<1>1. works[a] \in Runs
  BY DEF Placed, AtWork
<1>2. ASSUME NEW b \in Attempts, at[b] \in AtWork
      PROVE  /\ attStatus[b] \in ClaimedStatuses /\ attStatus[b] \in ActiveStatuses
             /\ attOwner[b] = works[b] /\ IsLatest(b)
  BY <1>2, StatusSets, ActiveIsLatest DEF Held, IInv
<1>3. runStatus[works[a]] = "planners"
  BY <1>1, <1>2, StatusSets, ClaimedOwners DEF IInv, OwnerFollowsLatestAttempt
<1>4. QED
  BY <1>1, <1>2, <1>3, LatestIsUnique

\* Plans and bundles change when a worker publishes or unlinks its own, and when the
\* directory of a deleted run goes.
LEMMA ArtifactSteps ==
  ASSUME FilesTypes, Placed, [FilesNext]_allVars, NEW r \in Runs
  PROVE  \/ planOn'[r] = planOn[r] /\ bundleOn'[r] = bundleOn[r]
         \/ \E b \in Attempts :
              works[b] = r /\ (PublishPlan(b) \/ PublishBundle(b) \/ UnlinkPublished(b))
         \/ RemoveDirectory(r)
<1> DEFINE Goal == planOn'[r] = planOn[r] /\ bundleOn'[r] = bundleOn[r]
<1>1. ASSUME NEW b \in Attempts,
             WorkerTurn(b) \/ WorkerCrashes(b) \/ AttemptIsReaped(b) \/ StopRun(b),
             ~(works[b] = r /\ (PublishPlan(b) \/ PublishBundle(b) \/ UnlinkPublished(b)))
      PROVE  Goal
  <2>1. CASE PublishPlan(b) \/ PublishBundle(b) \/ UnlinkPublished(b)
    BY <1>1, <2>1 DEF PublishPlan, PublishBundle, UnlinkPublished, FilesTypes
  <2>2. CASE \/ WorkerStarts(b) \/ WorkerPrepares(b) \/ SaveCheckpointRow(b) \/ SaveIsRefused(b)
             \/ UnlinkCarried(b) \/ LastLook(b) \/ WorkerCompletes(b) \/ WorkerClears(b)
             \/ WorkerSeesStop(b) \/ WorkerFails(b) \/ WorkerInterrupts(b) \/ WorkerDecides(b)
             \/ WorkerMarks(b) \/ WorkerCrashes(b) \/ AttemptIsReaped(b) \/ StopRun(b)
             \/ \E c \in Checkpoints : SaveCheckpointFile(b, c)
    BY <2>2 DEF WorkerStarts, WorkerPrepares, SaveCheckpointRow, SaveIsRefused, UnlinkCarried,
       LastLook, WorkerCompletes, WorkerClears, WorkerSeesStop, WorkerFails, WorkerInterrupts,
       WorkerDecides, WorkerMarks, WorkerCrashes, AttemptIsReaped, StopRun, SaveCheckpointFile,
       Unwinds, fileVars
  <2>3. QED
    BY <1>1, <2>1, <2>2 DEF WorkerTurn
<1>2. ASSUME NEW q \in Runs, ServiceTurn(q), q # r \/ ~RemoveDirectory(r) PROVE Goal
  BY <1>2 DEF ServiceTurn, CreateRunOnce, ResumeLooks, ResumeQueues, Retry, Delete,
     RemoveDirectory, fileVars, FilesTypes
<1>3. CASE \/ UNCHANGED allVars \/ \E c \in Checkpoints : DiscardCheckpoint(c)
           \/ \E q \in Requests : RevisionTurn(q)
  BY <1>3 DEF DiscardCheckpoint, RevisionTurn, RevisionLooks, RevisionWrites, RevisionCommits,
     RevisionFails, RevisionIsCut, allVars, fileVars
<1>4. QED
  BY <1>1, <1>2, <1>3 DEF FilesNext

\* The artifacts of a run that is complete, or that its one worker has laid, stay.
LEMMA ArtifactsStay ==
  ASSUME IInv, FilesTypes, Placed, DeletedAbsent, Held, [FilesNext]_allVars, NEW r \in Runs,
         runStatus[r] # "absent",
         \A b \in Attempts : at[b] \in AtWork /\ works[b] = r =>
           ~PublishPlan(b) /\ ~PublishBundle(b) /\ ~UnlinkPublished(b)
  PROVE  planOn'[r] = planOn[r] /\ bundleOn'[r] = bundleOn[r]
<1>1. ~RemoveDirectory(r)
  BY DEF RemoveDirectory, FilesTypes, DeletedAbsent
<1>2. ASSUME NEW b \in Attempts, PublishPlan(b) \/ PublishBundle(b) \/ UnlinkPublished(b)
      PROVE  at[b] \in AtWork
  BY <1>2 DEF PublishPlan, PublishBundle, UnlinkPublished, AtWork, Places
<1>3. QED
  BY <1>1, <1>2, ArtifactSteps

\* A worker comes to where it has published by publishing.
LEMMA PublishingSteps ==
  ASSUME FilesTypes, [FilesNext]_allVars, NEW a \in Attempts,
         at'[a] \in {"planned", "bundled", "completing"}
  PROVE  /\ works'[a] = works[a]
         /\ \/ at'[a] = at[a]
            \/ at'[a] = "planned" /\ PublishPlan(a)
            \/ at'[a] = "bundled" /\ PublishBundle(a)
            \/ at'[a] = "completing" /\ LastLook(a)
<1> DEFINE Published == {"planned", "bundled", "completing"}
           Goal == /\ works'[a] = works[a]
                   /\ \/ at'[a] = at[a]
                      \/ at'[a] = "planned" /\ PublishPlan(a)
                      \/ at'[a] = "bundled" /\ PublishBundle(a)
                      \/ at'[a] = "completing" /\ LastLook(a)
<1>1. ASSUME NEW b \in Attempts, NEW where, where \notin Published,
             at' = at \/ at' = [at EXCEPT ![b] = where],
             works' = works
      PROVE  Goal
  BY <1>1 DEF FilesTypes
<1>2. ASSUME NEW b \in Attempts,
             WorkerTurn(b) \/ WorkerCrashes(b) \/ AttemptIsReaped(b) \/ StopRun(b)
      PROVE  Goal
  <2>1. CASE WorkerStarts(b)
    BY <2>1 DEF WorkerStarts, GoTo, FilesTypes
  <2>2. CASE PublishPlan(b) \/ PublishBundle(b) \/ LastLook(b)
    BY <2>2 DEF PublishPlan, PublishBundle, LastLook, GoTo, FilesTypes
  <2>3. CASE \/ WorkerPrepares(b) \/ SaveCheckpointRow(b) \/ SaveIsRefused(b)
             \/ UnlinkCarried(b) \/ WorkerCompletes(b) \/ WorkerClears(b) \/ WorkerCrashes(b)
             \/ \E c \in Checkpoints : SaveCheckpointFile(b, c)
    <3>1. works' = works /\ \E where : where \notin Published /\ at' = [at EXCEPT ![b] = where]
      BY <2>3 DEF WorkerPrepares, SaveCheckpointRow, SaveIsRefused, UnlinkCarried,
         WorkerCompletes, WorkerClears, WorkerCrashes, SaveCheckpointFile, Move, GoTo
    <3>2. QED
      BY <1>1, <3>1
  <2>4. CASE WorkerSeesStop(b) \/ WorkerFails(b) \/ WorkerInterrupts(b) \/ WorkerDecides(b)
             \/ WorkerMarks(b)
    <3>1. works' = works /\ \E where : where \notin Published /\ at' = [at EXCEPT ![b] = where]
      BY <2>4 DEF WorkerSeesStop, WorkerFails, WorkerInterrupts, WorkerDecides, WorkerMarks,
         Unwinds, GoTo
    <3>2. QED
      BY <1>1, <3>1
  <2>5. CASE UnlinkPublished(b) \/ AttemptIsReaped(b) \/ StopRun(b)
    BY <2>5 DEF UnlinkPublished, AttemptIsReaped, StopRun, workerVars
  <2>6. QED
    BY <1>2, <2>1, <2>2, <2>3, <2>4, <2>5 DEF WorkerTurn
<1>3. CASE \/ UNCHANGED allVars \/ \E r \in Runs : ServiceTurn(r)
           \/ \E c \in Checkpoints : DiscardCheckpoint(c)
           \/ \E q \in Requests : RevisionTurn(q)
  BY <1>3 DEF allVars, workerVars, ServiceTurn, CreateRunOnce, ResumeLooks, ResumeQueues, Retry,
     Delete, RemoveDirectory, DiscardCheckpoint, RevisionTurn, RevisionLooks, RevisionWrites,
     RevisionCommits, RevisionFails,
     RevisionIsCut
<1>4. QED
  BY <1>2, <1>3 DEF FilesNext

LEMMA LaidNext ==
  ASSUME IInv, FilesTypes, Placed, DeletedAbsent, Held, Laid, [FilesNext]_allVars
  PROVE  Laid'
<1> SUFFICES ASSUME NEW a \in Attempts, at'[a] \in {"planned", "bundled", "completing"}
             PROVE  /\ planOn'[works'[a]] = a
                    /\ at'[a] \in {"bundled", "completing"} => bundleOn'[works'[a]] = a
  BY DEF Laid
<1> DEFINE r == works[a]
<1>1. works'[a] = r
  BY PublishingSteps
<1>2. CASE PublishPlan(a)
  <2>1. r \in Runs /\ at'[a] = "planned"
    BY <1>2 DEF PublishPlan, GoTo, FilesTypes, Placed
  <2>2. QED
    BY <1>1, <1>2, <2>1 DEF PublishPlan, FilesTypes
<1>3. CASE PublishBundle(a)
  <2>1. r \in Runs /\ planOn[r] = a
    BY <1>3 DEF PublishBundle, FilesTypes, Placed, Laid
  <2>2. QED
    BY <1>1, <1>3, <2>1 DEF PublishBundle, FilesTypes
<1>4. CASE ~PublishPlan(a) /\ ~PublishBundle(a)
  <2>1. /\ at[a] \in {"planned", "bundled", "completing"}
        /\ at'[a] \in {"bundled", "completing"} => at[a] \in {"bundled", "completing"}
    BY <1>4, PublishingSteps DEF LastLook
  <2>2. at[a] \in AtWork /\ ~UnlinkPublished(a)
    BY <2>1 DEF AtWork, Places, UnlinkPublished
  <2>3. /\ r \in Runs /\ runStatus[r] # "absent"
        /\ \A b \in Attempts : at[b] \in AtWork /\ works[b] = r => a = b
    BY <2>2, WorkedOn
  <2>4. planOn'[r] = planOn[r] /\ bundleOn'[r] = bundleOn[r]
    BY <1>4, <2>2, <2>3, ArtifactsStay
  <2>5. QED
    BY <1>1, <2>1, <2>4 DEF Laid
<1>5. QED
  BY <1>2, <1>3, <1>4

\* A run becomes complete by its worker's completion.
LEMMA CompleteSteps ==
  ASSUME IInv, FilesTypes, Placed, [FilesNext]_allVars, NEW r \in Runs,
         runStatus'[r] = "complete", runStatus[r] # "complete"
  PROVE  \E a \in Attempts : WorkerCompletes(a) /\ works[a] = r
<1> SUFFICES ASSUME \A a \in Attempts : ~(WorkerCompletes(a) /\ works[a] = r) PROVE FALSE
  OBVIOUS
<1>1. runStatus \in [Runs -> RunStatus \cup {"absent"}]
  BY DEF IInv, TypeOK
<1>2. ASSUME UNCHANGED runStatus PROVE FALSE
  BY <1>2
<1>3. ASSUME NEW q \in Runs, NEW s, s # "complete" \/ q # r,
             runStatus' = [runStatus EXCEPT ![q] = s]
      PROVE  FALSE
  BY <1>1, <1>3
<1>4. ASSUME NEW S, NEW s, s # "complete", runStatus' = SetAll(runStatus, S, s) PROVE FALSE
  BY <1>1, <1>4 DEF SetAll
<1>5. ASSUME NEW a \in Attempts,
             MarkAttemptInterrupted(a) \/ MarkAttemptFailed(a) \/ RequestStop(a)
      PROVE  FALSE
  BY <1>2, <1>4, <1>5
  DEF MarkAttemptInterrupted, MarkAttemptFailed, TransitionAttempt, RequestStop, ownerVars,
      UpdateOwnersTerminal
<1>6. ASSUME NEW a \in Attempts,
             WorkerTurn(a) \/ WorkerCrashes(a) \/ AttemptIsReaped(a) \/ StopRun(a)
      PROVE  FALSE
  <2>1. CASE WorkerCompletes(a)
    <3>1. at[a] = "completing"
      BY <2>1 DEF WorkerCompletes, Move
    <3>2. works[a] \in Runs
      BY <3>1 DEF Placed
    <3>3. runStatus' = [runStatus EXCEPT ![works[a]] = "complete"]
      BY <2>1 DEF WorkerCompletes, CompleteRun
    <3>4. works[a] # r
      BY <2>1
    <3>5. QED
      BY <1>3, <3>2, <3>3, <3>4
  <2>2. CASE WorkerStarts(a)
    <3>1. UNCHANGED runStatus \/ \E S : runStatus' = SetAll(runStatus, S, "planners")
      BY <2>2 DEF WorkerStarts, ClaimNextJob, ClaimJobRow
    <3>2. QED
      BY <1>2, <1>4, <3>1
  <2>3. CASE WorkerInterrupts(a) \/ WorkerMarks(a) \/ AttemptIsReaped(a) \/ StopRun(a)
    BY <1>2, <1>5, <2>3 DEF WorkerInterrupts, WorkerMarks, AttemptIsReaped, StopRun, vars, ownerVars
  <2>4. CASE \/ WorkerPrepares(a) \/ SaveCheckpointRow(a) \/ SaveIsRefused(a) \/ UnlinkCarried(a)
             \/ PublishPlan(a) \/ PublishBundle(a) \/ LastLook(a) \/ WorkerClears(a)
             \/ WorkerSeesStop(a) \/ WorkerFails(a) \/ UnlinkPublished(a) \/ WorkerDecides(a)
             \/ WorkerCrashes(a) \/ \E c \in Checkpoints : SaveCheckpointFile(a, c)
    BY <1>2, <2>4 DEF WorkerPrepares, SaveCheckpointRow, SaveIsRefused, UnlinkCarried,
       PublishPlan, PublishBundle, LastLook, WorkerClears, WorkerSeesStop, WorkerFails,
       UnlinkPublished, WorkerDecides, WorkerCrashes, SaveCheckpointFile, Move, Unwinds,
       PublishRunCheckpoint, ClearRunCheckpoint, vars, ownerVars
  <2>5. QED
    BY <1>6, <2>1, <2>2, <2>3, <2>4 DEF WorkerTurn
<1>7. ASSUME NEW q \in Runs, ServiceTurn(q) PROVE FALSE
  <2>1. CASE CreateRunOnce(q) \/ ResumeQueues(q) \/ Retry(q)
    <3>1. UNCHANGED runStatus \/ runStatus' = [runStatus EXCEPT ![q] = "queued"]
      BY <2>1 DEF CreateRunOnce, ResumeQueues, Retry, CreateProject, CreateRun, ResumeRun,
         RetryRun, QueueRun, vars, ownerVars
    <3>2. QED
      BY <1>2, <1>3, <3>1
  <2>2. CASE Delete(q)
    BY <1>4, <2>2 DEF Delete, DeleteRun, DeleteFamily
  <2>3. CASE ResumeLooks(q) \/ RemoveDirectory(q)
    BY <1>2, <2>3 DEF ResumeLooks, RemoveDirectory, vars, ownerVars
  <2>4. QED
    BY <1>7, <2>1, <2>2, <2>3 DEF ServiceTurn
<1>8. CASE \/ UNCHANGED allVars \/ \E c \in Checkpoints : DiscardCheckpoint(c)
           \/ \E q \in Requests : RevisionTurn(q)
  BY <1>2, <1>8 DEF DiscardCheckpoint, RevisionTurn, RevisionLooks, RevisionWrites,
     RevisionCommits, RevisionFails, RevisionIsCut, CreateRevision, allVars, vars, ownerVars
<1>9. QED
  BY <1>6, <1>7, <1>8 DEF FilesNext

LEMMA CompleteNext ==
  ASSUME IInv, FilesTypes, Placed, DeletedAbsent, Held, Laid, CompleteRunKeepsItsArtifacts,
         [FilesNext]_allVars
  PROVE  CompleteRunKeepsItsArtifacts'
<1> SUFFICES ASSUME NEW r \in Runs, runStatus'[r] = "complete"
             PROVE  \E a \in Attempts : /\ attOwner'[a] = r /\ attStatus'[a] = "complete"
                                        /\ planOn'[r] = a /\ bundleOn'[r] = a
  BY DEF CompleteRunKeepsItsArtifacts
<1>1. CASE runStatus[r] = "complete"
  <2>1. PICK a \in Attempts : /\ attOwner[a] = r /\ attStatus[a] = "complete"
                              /\ planOn[r] = a /\ bundleOn[r] = a
    BY <1>1 DEF CompleteRunKeepsItsArtifacts
  <2>2. planOn'[r] = planOn[r] /\ bundleOn'[r] = bundleOn[r]
    <3>1. \A b \in Attempts : at[b] \in AtWork => works[b] # r
      BY <1>1, WorkedOn
    <3>2. QED
      BY <1>1, <3>1, ArtifactsStay
  <2>3. ~DeletesRunOf(a)
    <3> SUFFICES ASSUME NEW q \in Runs, Delete(q), r \in RunFamily(q) PROVE FALSE
      BY <2>1 DEF DeletesRunOf
    <3>1. runStatus'[r] = "absent"
      BY DEF Delete, DeleteRun, DeleteFamily, SetAll, IInv, TypeOK
    <3>2. QED
      BY <3>1
  <2>4. Kept(a) /\ attStatus[a] \in TerminalStatuses
    BY <2>1, <2>3, AttemptStays DEF EndsAttempt, ClaimedStatuses, TerminalStatuses
  <2>5. QED
    BY <2>1, <2>2, <2>4 DEF Kept
<1>2. CASE runStatus[r] # "complete"
  <2>1. PICK a \in Attempts : WorkerCompletes(a) /\ works[a] = r
    BY <1>2, CompleteSteps
  <2>2. attOwner'[a] = r /\ attStatus'[a] = "complete" /\ UNCHANGED fileVars
    BY <2>1 DEF WorkerCompletes, CompleteRun, FinishAttempts, SetAll, IInv, TypeOK
  <2>3. planOn[r] = a /\ bundleOn[r] = a
    BY <2>1 DEF WorkerCompletes, Move, Laid
  <2>4. QED
    BY <2>2, <2>3 DEF fileVars
<1>3. QED
  BY <1>1, <1>2

\* A checkpoint's file comes with its worker.
LEMMA CheckpointFileSteps ==
  ASSUME FilesTypes, Placed, [FilesNext]_allVars, NEW c \in Checkpoints
  PROVE  \/ ckFile'[c] \in {ckFile[c], Nil}
         \/ \E a \in Attempts : SaveCheckpointFile(a, c) /\ ckFile'[c] = works[a]
<1>1. CASE UNCHANGED <<ckFile, carried, discard, checkpoint>>
  BY <1>1
<1>2. ASSUME NEW a \in Attempts,
             \/ \E d \in Checkpoints : SaveCheckpointFile(a, d)
             \/ SaveCheckpointRow(a) \/ SaveIsRefused(a) \/ UnlinkCarried(a) \/ WorkerClears(a)
      PROVE  \/ ckFile'[c] \in {ckFile[c], Nil}
             \/ SaveCheckpointFile(a, c) /\ ckFile'[c] = works[a]
  <2>1. ASSUME NEW d \in Checkpoints, SaveCheckpointFile(a, d)
        PROVE  ckFile'[c] = ckFile[c] \/ (SaveCheckpointFile(a, c) /\ ckFile'[c] = works[a])
    <3>1. ckFile' = [ckFile EXCEPT ![d] = works[a]]
      BY <2>1 DEF SaveCheckpointFile
    <3>2. QED
      BY <2>1, <3>1 DEF FilesTypes
  <2>2. CASE SaveCheckpointRow(a) \/ SaveIsRefused(a) \/ UnlinkCarried(a) \/ WorkerClears(a)
    BY <2>2 DEF SaveCheckpointRow, SaveIsRefused, UnlinkCarried, WorkerClears, Unlinked, fileVars,
       FilesTypes
  <2>3. QED
    BY <1>2, <2>1, <2>2
<1>3. ASSUME NEW r \in Runs, Retry(r) \/ Delete(r) \/ RemoveDirectory(r)
      PROVE  ckFile'[c] \in {ckFile[c], Nil}
  BY <1>3 DEF Retry, Delete, RemoveDirectory, fileVars
<1>4. ASSUME NEW d \in Checkpoints, DiscardCheckpoint(d) PROVE ckFile'[c] \in {ckFile[c], Nil}
  BY <1>4 DEF DiscardCheckpoint, Unlinked, FilesTypes
<1>5. QED
  BY <1>1, <1>2, <1>3, <1>4, DiskSteps

\* A directory that has been removed stays so.
LEMMA RemovedStays ==
  ASSUME [FilesNext]_allVars, NEW r \in deleted' \ removing'
  PROVE  r \in deleted \ removing \/ (r \in Runs /\ RemoveDirectory(r))
<1>1. ASSUME UNCHANGED <<deleted, removing>> PROVE r \in deleted \ removing
  BY <1>1
<1>2. ASSUME NEW a \in Attempts,
             WorkerTurn(a) \/ WorkerCrashes(a) \/ AttemptIsReaped(a) \/ StopRun(a)
      PROVE  UNCHANGED <<deleted, removing>>
  BY <1>2 DEF WorkerTurn, WorkerStarts, WorkerPrepares, SaveCheckpointRow, SaveIsRefused,
     UnlinkCarried, PublishPlan, PublishBundle, LastLook, WorkerCompletes, WorkerClears,
     WorkerSeesStop, WorkerFails, UnlinkPublished, WorkerInterrupts, WorkerDecides, WorkerMarks,
     SaveCheckpointFile, WorkerCrashes, AttemptIsReaped, StopRun, Unwinds, serviceVars
<1>3. ASSUME NEW q \in Runs, ServiceTurn(q)
      PROVE  r \in deleted \ removing \/ (r \in Runs /\ RemoveDirectory(r))
  BY <1>3 DEF ServiceTurn, CreateRunOnce, ResumeLooks, ResumeQueues, Retry, Delete,
     RemoveDirectory, serviceVars
<1>4. CASE \/ UNCHANGED allVars \/ \E c \in Checkpoints : DiscardCheckpoint(c)
           \/ \E q \in Requests : RevisionTurn(q)
  BY <1>4 DEF DiscardCheckpoint, RevisionTurn, RevisionLooks, RevisionWrites, RevisionCommits,
     RevisionFails, RevisionIsCut, allVars, serviceVars
<1>5. QED
  BY <1>1, <1>2, <1>3, <1>4 DEF FilesNext

LEMMA SweptNext ==
  ASSUME IInv, FilesTypes, FilesTypes', Placed, DeletedAbsent, Held, Swept, [FilesNext]_allVars
  PROVE  Swept'
<1> SUFFICES ASSUME NEW r \in deleted' \ removing'
             PROVE  /\ planOn'[r] = Nil /\ bundleOn'[r] = Nil
                    /\ \A c \in Checkpoints : ckFile'[c] # r
  BY DEF Swept
<1>1. r \in Runs /\ r # Nil
  BY StoreAssumption DEF FilesTypes, Owners
<1>2. CASE RemoveDirectory(r)
  BY <1>1, <1>2 DEF RemoveDirectory, FilesTypes
<1>3. CASE r \in deleted \ removing
  <2>1. runStatus[r] = "absent" /\ ~RemoveDirectory(r)
    BY <1>3 DEF DeletedAbsent, RemoveDirectory
  <2>2. \A a \in Attempts : at[a] \in AtWork => works[a] # r
    BY <2>1, WorkedOn
  <2>3. planOn'[r] = planOn[r] /\ bundleOn'[r] = bundleOn[r]
    <3>1. ASSUME NEW b \in Attempts, PublishPlan(b) \/ PublishBundle(b) \/ UnlinkPublished(b)
          PROVE  at[b] \in AtWork
      BY <3>1 DEF PublishPlan, PublishBundle, UnlinkPublished, AtWork, Places
    <3>2. QED
      BY <1>1, <2>1, <2>2, <3>1, ArtifactSteps
  <2>4. ASSUME NEW c \in Checkpoints PROVE ckFile'[c] # r
    <3>1. ASSUME NEW a \in Attempts, SaveCheckpointFile(a, c) PROVE works[a] # r
      BY <2>2, <3>1 DEF SaveCheckpointFile, AtWork, Places
    <3>2. QED
      BY <1>1, <1>3, <3>1, CheckpointFileSteps DEF Swept
  <2>5. QED
    BY <1>3, <2>3, <2>4 DEF Swept
<1>4. QED
  BY <1>2, <1>3, RemovedStays

LEMMA ArtifactsInit == FilesInit => ArtifactsInv
<1> SUFFICES ASSUME FilesInit PROVE ArtifactsInv
  OBVIOUS
<1>1. Held /\ Laid /\ Swept
  BY DEF FilesInit, Held, Laid, Swept, AtWork
<1>2. CompleteRunKeepsItsArtifacts
  BY DEF FilesInit, Init, CompleteRunKeepsItsArtifacts
<1>3. QED
  BY <1>1, <1>2 DEF ArtifactsInv

LEMMA ArtifactsNext ==
  ASSUME LeasesLost = FALSE, FilesInv, FilesInv', ArtifactsInv, [FilesNext]_allVars
  PROVE  ArtifactsInv'
<1>1. IInv /\ FilesTypes /\ FilesTypes' /\ Placed /\ DeletedAbsent
  BY DEF FilesInv
<1>2. QED
  BY <1>1, HeldNext, LaidNext, SweptNext, CompleteNext DEF ArtifactsInv

-----------------------------------------------------------------------------
(* Guided revisions, whatever commits fail and whatever happens to leases. *)

\* A request that took its file back while another one, which committed, was under way.
Rivals(q, p) ==
  /\ request[q] = "undone" /\ request[p] = "committed"
  /\ q \notin earlier[p] /\ p \notin earlier[q]
LostToRival == \E q, p \in Requests : Rivals(q, p)

TakenBackSince(q) == \E p \in Requests : request[p] = "undone" /\ p \notin earlier[q]
CommittedSince(q) == \E p \in Requests : request[p] = "committed" /\ p \notin earlier[q]

RevisionTypes ==
  /\ request \in [Requests -> {"new", "found", "writing", "wrote", "committed", "undone", "failed"}]
  /\ earlier \in [Requests -> SUBSET Requests]
  /\ revisionOn \in BOOLEAN

\* What had ended when a request began has ended now.
EarlierEnded == \A q \in Requests : earlier[q] \subseteq Ended

\* A committed revision has its plan or lost it to a rival; a request about to commit has
\* the plan, or a rival has taken it back since it began; and a request that writes, or has
\* written, the plan of a committed revision began before the commit ended.
RequestReady(q) ==
  /\ request[q] \in {"found", "wrote"} =>
       \/ revisionOn \/ TakenBackSince(q) \/ EditRun[RevisionOf] \in deleted
       \/ EditRun[Revision] # EditRun[RevisionOf]
  /\ request[q] \in {"writing", "wrote"} /\ editOrigin[Revision] # "absent" =>
       LostToRival \/ CommittedSince(q)

RevisionReady ==
  /\ editOrigin[Revision] # "absent" => revisionOn \/ LostToRival
  /\ \A q \in Requests : RequestReady(q)

RevisionInv == RevisionTypes /\ EarlierEnded /\ (Requests # {} => RevisionReady)

\* Edits come and go by the completion of a run, by the one revision and with their run.
LEMMA EditSteps ==
  ASSUME TypeOK, Placed, [FilesNext]_allVars
  PROVE  \/ /\ \A e \in Edits : editOrigin[e] # "absent" => editOrigin'[e] # "absent"
            /\ Revision \in Edits /\ editOrigin'[Revision] # "absent" =>
                 editOrigin[Revision] # "absent"
         \/ \E q \in Requests : RevisionCommits(q) /\ CreateRevision(RevisionOf, Revision)
         \/ \E r \in Runs : Delete(r)
<1> DEFINE Goal ==
      /\ \A e \in Edits : editOrigin[e] # "absent" => editOrigin'[e] # "absent"
      /\ Revision \in Edits /\ editOrigin'[Revision] # "absent" =>
           editOrigin[Revision] # "absent"
<1>1. ASSUME UNCHANGED editOrigin PROVE Goal
  BY <1>1
<1>2. ASSUME NEW a \in Attempts,
             MarkAttemptInterrupted(a) \/ MarkAttemptFailed(a) \/ RequestStop(a)
      PROVE  UNCHANGED editOrigin
  BY <1>2 DEF MarkAttemptInterrupted, MarkAttemptFailed, TransitionAttempt, RequestStop,
     ownerVars, UpdateOwnersTerminal
<1>3. ASSUME NEW a \in Attempts,
             WorkerTurn(a) \/ WorkerCrashes(a) \/ AttemptIsReaped(a) \/ StopRun(a)
      PROVE  Goal
  <2>1. CASE WorkerCompletes(a)
    <3>1. PICK e \in Edits \ {Revision} : CompleteRun(works[a], a, e)
      BY <2>1 DEF WorkerCompletes
    <3>2. editOrigin' = [editOrigin EXCEPT ![e] = "initial"]
      BY <3>1 DEF CompleteRun
    <3>3. QED
      BY <3>2 DEF TypeOK
  <2>2. CASE WorkerInterrupts(a) \/ WorkerMarks(a) \/ AttemptIsReaped(a) \/ StopRun(a)
    BY <1>1, <1>2, <2>2 DEF WorkerInterrupts, WorkerMarks, AttemptIsReaped, StopRun, vars, ownerVars
  <2>3. CASE \/ WorkerStarts(a) \/ WorkerPrepares(a) \/ SaveCheckpointRow(a) \/ SaveIsRefused(a)
             \/ UnlinkCarried(a) \/ PublishPlan(a) \/ PublishBundle(a) \/ LastLook(a)
             \/ WorkerClears(a) \/ WorkerSeesStop(a) \/ WorkerFails(a) \/ UnlinkPublished(a)
             \/ WorkerDecides(a) \/ WorkerCrashes(a)
             \/ \E c \in Checkpoints : SaveCheckpointFile(a, c)
    BY <1>1, <2>3 DEF WorkerStarts, ClaimNextJob, ClaimJobRow, WorkerPrepares, SaveCheckpointRow,
       SaveIsRefused, UnlinkCarried, PublishPlan, PublishBundle, LastLook, WorkerClears,
       WorkerSeesStop, WorkerFails, UnlinkPublished, WorkerDecides, WorkerCrashes,
       SaveCheckpointFile, Move, Unwinds, PublishRunCheckpoint, ClearRunCheckpoint, vars, ownerVars
  <2>4. QED
    BY <1>3, <2>1, <2>2, <2>3 DEF WorkerTurn
<1>4. ASSUME NEW r \in Runs, ServiceTurn(r) PROVE Goal \/ Delete(r)
  BY <1>1, <1>4 DEF ServiceTurn, CreateRunOnce, ResumeLooks, ResumeQueues, Retry, RemoveDirectory,
     CreateProject, CreateRun, ResumeRun, RetryRun, QueueRun, vars, ownerVars
<1>5. ASSUME NEW q \in Requests, RevisionTurn(q)
      PROVE  Goal \/ (RevisionCommits(q) /\ CreateRevision(RevisionOf, Revision))
  BY <1>1, <1>5 DEF RevisionTurn, RevisionLooks, RevisionWrites, RevisionCommits, RevisionFails,
     RevisionIsCut, vars, ownerVars
<1>6. CASE UNCHANGED allVars \/ \E c \in Checkpoints : DiscardCheckpoint(c)
  BY <1>1, <1>6 DEF DiscardCheckpoint, allVars, vars, ownerVars
<1>7. QED
  BY <1>3, <1>4, <1>5, <1>6 DEF FilesNext

\* Only the requests and the removal of a directory touch the revision.
LEMMA RevisionSteps ==
  ASSUME [FilesNext]_allVars
  PROVE  \/ UNCHANGED revisionVars
         \/ \E q \in Requests : RevisionTurn(q)
         \/ \E r \in Runs : RemoveDirectory(r)
<1>1. ASSUME NEW a \in Attempts,
             WorkerTurn(a) \/ WorkerCrashes(a) \/ AttemptIsReaped(a) \/ StopRun(a)
      PROVE  UNCHANGED revisionVars
  BY <1>1 DEF WorkerTurn, WorkerStarts, WorkerPrepares, SaveCheckpointRow, SaveIsRefused,
     UnlinkCarried, PublishPlan, PublishBundle, LastLook, WorkerCompletes, WorkerClears,
     WorkerSeesStop, WorkerFails, UnlinkPublished, WorkerInterrupts, WorkerDecides, WorkerMarks,
     SaveCheckpointFile, WorkerCrashes, AttemptIsReaped, StopRun, Unwinds
<1>2. ASSUME NEW r \in Runs, ServiceTurn(r) PROVE UNCHANGED revisionVars \/ RemoveDirectory(r)
  BY <1>2 DEF ServiceTurn, CreateRunOnce, ResumeLooks, ResumeQueues, Retry, Delete
<1>3. ASSUME NEW c \in Checkpoints, DiscardCheckpoint(c) PROVE UNCHANGED revisionVars
  BY <1>3 DEF DiscardCheckpoint
<1>4. QED
  BY <1>1, <1>2, <1>3 DEF FilesNext, allVars

LEMMA RevisionTypesNext ==
  ASSUME RevisionTypes, [FilesNext]_allVars
  PROVE  RevisionTypes'
<1>1. CASE UNCHANGED revisionVars
  BY <1>1 DEF revisionVars, RevisionTypes
<1>2. ASSUME NEW q \in Requests, RevisionTurn(q) PROVE RevisionTypes'
  BY <1>2 DEF RevisionTurn, RevisionLooks, RevisionWrites, RevisionCommits, RevisionFails,
     RevisionIsCut, RequestGoesTo, Ended, RevisionTypes
<1>3. ASSUME NEW r \in Runs, RemoveDirectory(r) PROVE RevisionTypes'
  BY <1>3 DEF RemoveDirectory, RevisionTypes
<1>4. QED
  BY <1>1, <1>2, <1>3, RevisionSteps

\* A request that has ended stays as it is, and what a request knew when it began does too.
LEMMA EndedStay ==
  ASSUME RevisionTypes, EarlierEnded, NEW q \in Requests, RevisionTurn(q)
  PROVE  /\ EarlierEnded'
         /\ q \notin Ended
         /\ \A p \in Requests : p # q => request'[p] = request[p] /\ earlier'[p] = earlier[p]
         /\ request[q] # "new" => earlier'[q] = earlier[q]
         /\ LostToRival => LostToRival'
         /\ \A p \in Requests : request[p] # "new" =>
              (TakenBackSince(p) => TakenBackSince(p)') /\ (CommittedSince(p) => CommittedSince(p)')
<1>1. q \notin Ended
  BY DEF RevisionTurn, RevisionLooks, RevisionWrites, RevisionCommits, RevisionFails,
     RevisionIsCut, Ended
<1>2. /\ \A p \in Requests : p # q => request'[p] = request[p] /\ earlier'[p] = earlier[p]
      /\ request[q] # "new" => earlier'[q] = earlier[q]
      /\ earlier'[q] = earlier[q] \/ earlier'[q] = Ended
  BY DEF RevisionTurn, RevisionLooks, RevisionWrites, RevisionCommits, RevisionFails,
     RevisionIsCut, RequestGoesTo, RevisionTypes
<1>3. /\ Ended \subseteq Ended'
      /\ \A p \in Ended : request'[p] = request[p] /\ earlier'[p] = earlier[p]
  BY <1>1, <1>2 DEF Ended
<1>4. EarlierEnded'
  BY <1>2, <1>3 DEF EarlierEnded
<1>5. \A p \in Requests : request[p] \in {"undone", "committed"} => p \in Ended
  BY DEF Ended
<1>6. LostToRival => LostToRival'
  BY <1>3, <1>5 DEF LostToRival, Rivals
<1>7. ASSUME NEW p \in Requests, request[p] # "new"
      PROVE  (TakenBackSince(p) => TakenBackSince(p)') /\ (CommittedSince(p) => CommittedSince(p)')
  BY <1>2, <1>3, <1>5, <1>7 DEF TakenBackSince, CommittedSince
<1>8. QED
  BY <1>1, <1>2, <1>4, <1>6, <1>7

\* Rows come with a commit only, and a deleted run stays deleted.
RowsStay ==
  /\ editOrigin'[Revision] # "absent" => editOrigin[Revision] # "absent"
  /\ deleted \subseteq deleted'

LEMMA RowsThatStay ==
  ASSUME IInv, FilesTypes, Placed, Requests # {}, [FilesNext]_allVars
  PROVE  \/ RowsStay
         \/ \E q \in Requests : RevisionCommits(q) /\ CreateRevision(RevisionOf, Revision)
<1>1. RevisionOf \in Edits /\ Revision \in Edits /\ TypeOK
  BY FilesAssumption DEF IInv
<1>2. CASE \E r \in Runs : Delete(r)
  <2>1. PICK r \in Runs : Delete(r)
    BY <1>2
  <2>2. /\ deleted' = deleted \cup {r}
        /\ \A e \in Edits :
             editOrigin'[e] = IF EditRun[e] \in RunFamily(r) THEN "absent" ELSE editOrigin[e]
    BY <1>1, <2>1 DEF Delete, DeleteRun, DeleteFamily, SetAll, TypeOK
  <2>3. QED
    BY <1>1, <2>2 DEF RowsStay
<1>3. CASE /\ editOrigin'[Revision] # "absent" => editOrigin[Revision] # "absent"
           /\ ~ \E r \in Runs : Delete(r)
  BY <1>3, DeletedSteps DEF RowsStay
<1>4. QED
  BY <1>1, <1>2, <1>3, EditSteps

\* A commit that creates the edit: the plan is there, or a rival took it back meanwhile.
LEMMA CommitReady ==
  ASSUME IInv, FilesTypes, DeletedAbsent, RevisionTypes, EarlierEnded, RevisionReady,
         NEW q \in Requests, RevisionCommits(q), CreateRevision(RevisionOf, Revision)
  PROVE  RevisionReady'
<1>1. /\ RevisionOf \in Edits /\ Revision \in Edits
      /\ EditRun[RevisionOf] \in Runs /\ EditRun[Revision] \in Runs
      /\ \A e \in Edits : editOrigin[e] # "absent" => runStatus[EditRun[e]] # "absent"
  BY FilesAssumption, StoreAssumption DEF IInv, NoOrphanRows
<1>2. /\ editOrigin[RevisionOf] # "absent" /\ EditRun[Revision] = EditRun[RevisionOf]
      /\ revisionOn' = revisionOn /\ deleted' = deleted /\ earlier' = earlier
      /\ request' = [request EXCEPT ![q] = "committed"] /\ request[q] \in {"found", "wrote"}
  BY <1>1 DEF RevisionCommits, CreateRevision, RequestGoesTo, serviceVars
<1>3. RevisionTurn(q)
  BY DEF RevisionTurn
<1>4. revisionOn \/ TakenBackSince(q)
  BY <1>1, <1>2 DEF RevisionReady, RequestReady, DeletedAbsent
<1>5. request'[q] = "committed" /\ \A p \in Requests : q \notin earlier'[p]
  BY <1>2, <1>3, EndedStay DEF EarlierEnded, RevisionTypes
<1>6. TakenBackSince(q) => LostToRival'
  <2>1. SUFFICES ASSUME NEW p \in Requests, request[p] = "undone", p \notin earlier[q]
                 PROVE  LostToRival'
    BY DEF TakenBackSince
  <2>2. request'[p] = "undone" /\ p \notin earlier'[q]
    BY <1>2, <2>1 DEF RevisionTypes
  <2>3. QED
    BY <1>5, <2>2 DEF LostToRival, Rivals
<1>7. \A p \in Requests : CommittedSince(p)'
  BY <1>5 DEF CommittedSince
<1>8. ASSUME NEW p \in Requests, request'[p] \in {"found", "wrote"}
      PROVE  revisionOn' \/ TakenBackSince(p)'
  <2>1. p # q /\ request[p] \in {"found", "wrote"} /\ request[p] # "new"
    BY <1>2, <1>5, <1>8 DEF RevisionTypes
  <2>2. revisionOn \/ TakenBackSince(p)
    BY <1>1, <1>2, <2>1 DEF RevisionReady, RequestReady, DeletedAbsent
  <2>3. QED
    BY <1>2, <1>3, <2>1, <2>2, EndedStay
<1>9. QED
  BY <1>2, <1>4, <1>6, <1>7, <1>8 DEF RevisionReady, RequestReady

\* A failed commit: the file goes, and the request is a rival of any that has committed.
LEMMA FailReady ==
  ASSUME FilesTypes, RevisionTypes, EarlierEnded, RevisionReady,
         NEW q \in Requests, RevisionFails(q)
  PROVE  RevisionReady'
<1>1. /\ editOrigin' = editOrigin /\ deleted' = deleted /\ earlier' = earlier
      /\ request[q] \in {"found", "wrote"}
      /\ \A p \in Requests : p # q => request'[p] = request[p]
      /\ request'[q] = IF request[q] = "found" THEN "failed" ELSE "undone"
      /\ revisionOn' = (revisionOn /\ request[q] = "found")
  BY DEF RevisionFails, RequestGoesTo, RevisionTypes, vars, ownerVars, serviceVars
<1>2. RevisionTurn(q)
  BY DEF RevisionTurn
<1>3. \A p \in Requests : q \notin earlier'[p]
  BY <1>1, <1>2, EndedStay DEF EarlierEnded
<1>4. CASE request[q] = "found"
  <2>1. revisionOn' = revisionOn /\ request'[q] = "failed"
    BY <1>1, <1>4 DEF RevisionTypes
  <2>2. ASSUME NEW p \in Requests, request'[p] \in {"found", "writing", "wrote"}
        PROVE  request[p] = request'[p] /\ request[p] # "new"
    BY <1>1, <2>1, <2>2
  <2>3. QED
    BY <1>1, <1>2, <2>1, <2>2, EndedStay DEF RevisionReady, RequestReady
<1>5. CASE request[q] = "wrote"
  <2>1. request'[q] = "undone" /\ revisionOn' = FALSE
    BY <1>1, <1>5
  <2>2. \A p \in Requests : TakenBackSince(p)'
    BY <1>3, <2>1 DEF TakenBackSince
  <2>3. CommittedSince(q) => LostToRival'
    <3>1. SUFFICES ASSUME NEW p \in Requests, request[p] = "committed", p \notin earlier[q]
                   PROVE  LostToRival'
      BY DEF CommittedSince
    <3>2. request'[p] = "committed" /\ p \notin earlier'[q]
      BY <1>1, <1>5, <3>1
    <3>3. QED
      BY <1>3, <2>1, <3>2 DEF LostToRival, Rivals
  <2>4. editOrigin[Revision] # "absent" => LostToRival'
    BY <1>2, <1>5, <2>3, EndedStay DEF RevisionReady, RequestReady
  <2>5. QED
    BY <1>1, <2>2, <2>4 DEF RevisionReady, RequestReady
<1>6. QED
  BY <1>1, <1>4, <1>5

\* The other steps of a request.
LEMMA TurnReady ==
  ASSUME FilesTypes, RevisionTypes, EarlierEnded, RevisionReady, RowsStay,
         NEW q \in Requests,
         \/ RevisionLooks(q) \/ RevisionWrites(q) \/ RevisionIsCut(q) \/ RevisionCommits(q)
  PROVE  RevisionReady'
<1>1. RevisionTurn(q)
  BY DEF RevisionTurn
<1>2. /\ revisionOn => revisionOn'
      /\ \A p \in Requests : p # q => request'[p] = request[p]
  BY DEF RevisionLooks, RevisionWrites, RevisionIsCut, RevisionCommits, RequestGoesTo, RevisionTypes
<1>3. editOrigin'[Revision] # "absent" => revisionOn' \/ LostToRival'
  BY <1>1, <1>2, EndedStay DEF RowsStay, RevisionReady, RequestReady
<1>4. ASSUME NEW p \in Requests, p # q PROVE RequestReady(p)'
  BY <1>1, <1>2, <1>4, EndedStay DEF RowsStay, RevisionReady, RequestReady
<1>5. RequestReady(q)'
  <2>1. CASE RevisionLooks(q)
    <3>1. /\ request'[q] = IF revisionOn THEN "found" ELSE "writing"
          /\ revisionOn' = revisionOn
      BY <2>1 DEF RevisionLooks, RequestGoesTo, RevisionTypes
    <3>2. QED
      BY <1>3, <3>1 DEF RequestReady
  <2>2. CASE RevisionWrites(q)
    <3>1. request[q] = "writing" /\ revisionOn'
      BY <2>2 DEF RevisionWrites
    <3>2. editOrigin'[Revision] # "absent" => LostToRival' \/ CommittedSince(q)'
      BY <1>1, <3>1, EndedStay DEF RowsStay, RevisionReady, RequestReady
    <3>3. QED
      BY <3>1, <3>2 DEF RequestReady
  <2>3. CASE RevisionIsCut(q) \/ RevisionCommits(q)
    <3>1. request'[q] \in {"failed", "committed"}
      BY <2>3 DEF RevisionIsCut, RevisionCommits, RequestGoesTo, RevisionTypes
    <3>2. QED
      BY <3>1 DEF RequestReady
  <2>4. QED
    BY <2>1, <2>2, <2>3
<1>6. QED
  BY <1>3, <1>4, <1>5 DEF RevisionReady, RequestReady

LEMMA RevisionReadyNext ==
  ASSUME IInv, FilesTypes, Placed, DeletedAbsent, Requests # {},
         RevisionTypes, EarlierEnded, RevisionReady, [FilesNext]_allVars
  PROVE  EarlierEnded' /\ RevisionReady'
<1>1. CASE \E q \in Requests : RevisionTurn(q)
  <2>1. PICK q \in Requests : RevisionTurn(q)
    BY <1>1
  <2>2. EarlierEnded'
    BY <2>1, EndedStay
  <2>3. CASE RevisionFails(q)
    BY <2>2, <2>3, FailReady
  <2>4. CASE RevisionCommits(q)
    <3>1. CASE CreateRevision(RevisionOf, Revision)
      BY <2>2, <2>4, <3>1, CommitReady
    <3>2. CASE UNCHANGED vars
      <4>1. RowsStay
        BY <2>4, <3>2 DEF RevisionCommits, RowsStay, vars, ownerVars, serviceVars
      <4>2. QED
        BY <2>2, <2>4, <4>1, TurnReady
    <3>3. QED
      BY <2>4, <3>1, <3>2 DEF RevisionCommits
  <2>5. CASE RevisionLooks(q) \/ RevisionWrites(q) \/ RevisionIsCut(q)
    <3>1. RowsStay
      BY <2>5 DEF RevisionLooks, RevisionWrites, RevisionIsCut, RowsStay, vars, ownerVars,
         serviceVars
    <3>2. QED
      BY <2>2, <2>5, <3>1, TurnReady
  <2>6. QED
    BY <2>1, <2>3, <2>4, <2>5 DEF RevisionTurn
<1>2. CASE ~ \E q \in Requests : RevisionTurn(q)
  <2>1. RowsStay
    BY <1>2, RowsThatStay DEF RevisionTurn
  <2>2. request' = request /\ earlier' = earlier
    BY <1>2, RevisionSteps DEF revisionVars, RemoveDirectory
  <2>3. EarlierEnded'
    BY <2>2 DEF EarlierEnded, Ended
  <2>4. /\ LostToRival' <=> LostToRival
        /\ \A p \in Requests : /\ TakenBackSince(p)' <=> TakenBackSince(p)
                               /\ CommittedSince(p)' <=> CommittedSince(p)
    BY <2>2 DEF LostToRival, Rivals, TakenBackSince, CommittedSince
  <2>5. CASE UNCHANGED revisionVars
    BY <2>1, <2>2, <2>3, <2>4, <2>5 DEF revisionVars, RowsStay, RevisionReady, RequestReady
  <2>6. ASSUME NEW r \in Runs, RemoveDirectory(r) PROVE RevisionReady'
    <3>1. /\ r \in deleted /\ deleted' = deleted /\ editOrigin' = editOrigin
          /\ revisionOn' = (revisionOn /\ EditRun[Revision] # r)
      BY <2>6 DEF RemoveDirectory, FilesTypes, vars, ownerVars
    <3>2. EditRun[Revision] = r => editOrigin[Revision] = "absent"
      <4>1. Revision \in Edits
        BY FilesAssumption
      <4>2. editOrigin[Revision] # "absent" => runStatus[EditRun[Revision]] # "absent"
        BY <4>1 DEF IInv, NoOrphanRows
      <4>3. QED
        BY <3>1, <4>2 DEF DeletedAbsent
    <3>3. QED
      BY <2>2, <2>4, <3>1, <3>2 DEF RevisionReady, RequestReady
  <2>7. QED
    BY <1>2, <2>3, <2>5, <2>6, RevisionSteps
<1>3. QED
  BY <1>1, <1>2

-----------------------------------------------------------------------------
(* Theorems about plans, bundles and revisions. *)

\* What workers have published is there, and what a deleted run had is gone, where a live
\* worker keeps its lease.
THEOREM ArtifactsInvariant ==
  ASSUME LeasesLost = FALSE
  PROVE  FilesSpec => []ArtifactsInv
  BY FilesInvariant, ArtifactsInit, ArtifactsNext, PTL DEF FilesSpec

\* A complete run keeps the plan and the bundle of the attempt that completed it, however
\* late the clean-up of the others (execute_run_job's published paths).
THEOREM CompleteRunsKeepTheirArtifacts ==
  ASSUME LeasesLost = FALSE
  PROVE  FilesSpec => []CompleteRunKeepsItsArtifacts
  BY ArtifactsInvariant, PTL DEF ArtifactsInv

\* No file of a deleted run is left once its directory is gone, and none comes back.
THEOREM DeletedRunsLeaveNothing ==
  ASSUME LeasesLost = FALSE
  PROVE  FilesSpec => []DeletedRunLeavesNothing
<1>1. Swept => DeletedRunLeavesNothing
  BY DEF Swept, DeletedRunLeavesNothing
<1>2. QED
  BY <1>1, ArtifactsInvariant, PTL DEF ArtifactsInv

\* Only a rival takes the plan of a committed revision away, for any number of requests
\* that write one file, take it back when their commit fails, or are cut
\* (save_guided_revision's clean-up), whether or not leases are lost.
THEOREM RevisionsLosePlansToRivalsOnly ==
  FilesSpec => []RevisionLosesPlanToRivalOnly
<1>1. FilesInit => RevisionInv
  <2> SUFFICES ASSUME FilesInit PROVE RevisionInv
    OBVIOUS
  <2>1. RevisionTypes /\ EarlierEnded /\ \A q \in Requests : request[q] = "new"
    BY DEF FilesInit, RevisionTypes, EarlierEnded
  <2>2. \A e \in Edits : editOrigin[e] = "absent"
    BY DEF FilesInit, Init
  <2>3. QED
    BY <2>1, <2>2, FilesAssumption DEF RevisionInv, RevisionReady, RequestReady
<1>2. FilesInv /\ RevisionInv /\ [FilesNext]_allVars => RevisionInv'
  <2> SUFFICES ASSUME FilesInv, RevisionInv, [FilesNext]_allVars PROVE RevisionInv'
    OBVIOUS
  <2>1. RevisionTypes'
    BY RevisionTypesNext DEF RevisionInv
  <2>2. CASE Requests = {}
    BY <2>1, <2>2 DEF RevisionInv, EarlierEnded
  <2>3. CASE Requests # {}
    BY <2>1, <2>3, RevisionReadyNext DEF FilesInv, RevisionInv
  <2>4. QED
    BY <2>2, <2>3
<1>3. RevisionInv => RevisionLosesPlanToRivalOnly
  BY DEF RevisionInv, RevisionReady, LostToRival, Rivals, RevisionLosesPlanToRivalOnly
<1>4. QED
  BY <1>1, <1>2, <1>3, FilesInvariant, PTL DEF FilesSpec
=============================================================================
