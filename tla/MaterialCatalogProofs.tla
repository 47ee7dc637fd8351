--------------------------- MODULE MaterialCatalogProofs ---------------------------
(***************************************************************************)
(* Proofs about the Material Library.  No lock spans two looks of an       *)
(* actor but the material's own, so that what keeps references ready is    *)
(* who holds that lock when: a deletion has it from its second look to its *)
(* rename, a consumer from its look to its commit, an analysis from the    *)
(* sidecar it reads to the memory it publishes.  The first invariant holds *)
(* whichever writes of the manifest fail, the second while the commands    *)
(* that delete can write it.                                               *)
(***************************************************************************)
EXTENDS MaterialCatalog, ManagedStoreProofs

Sidecars       == {"none", "file", "bound"}
ImportPlaces   == {"none", "added", "leased", "attached", "failing", "submitted", "released",
                   "rolledback", "crashed"}
AnalysisPlaces == {"none", "open", "locked", "analysing", "publishing", "done", "failing",
                   "cancelled", "interrupting", "marking", "gone"}
ConsumerPlaces == {"idle", "locked", "holding"}
DeletionPlaces == {"idle", "looked", "catalog", "unreferenced", "locked", "checked", "renamed",
                   "unlisted", "purging", "answered"}
Holders == Materials \cup Attempts \cup Deletions

\* Types of the files and of the rows that refer to them.
DiskTypes ==
  /\ listed \subseteq Materials /\ tampered \subseteq Materials
  /\ directory \in [Materials -> {"none", "live", "staged"}]
  /\ result \in [Materials -> Attempts \cup {Nil}]
  /\ subtitle \in [Materials -> Sidecars]
  /\ selected \subseteq Materials

\* Types of the locks.
LockTypes ==
  /\ exclusive \in [Materials -> Holders \cup {Nil}]
  /\ sharing \in [Materials -> SUBSET Consumers]

\* Types of imports, workers and consumers; a consumer has its material.
WorkTypes ==
  /\ import \in [Materials -> ImportPlaces] /\ requeuing \subseteq Materials
  /\ analysis \in [Attempts -> AnalysisPlaces]
  /\ heard \in [Attempts -> Sidecars]
  /\ consuming \in [Consumers -> ConsumerPlaces]
  /\ consumes \in [Consumers -> Materials \cup {Nil}]
  /\ \A c \in Consumers : consuming[c] # "idle" => consumes[c] \in Materials

\* Types of deletions; a deletion that has begun has its material.
DeletionTypes ==
  /\ deletion \in [Deleters -> DeletionPlaces]
  /\ deletes \in [Deleters -> Materials \cup {Nil}]
  /\ receipts \subseteq Deleters
  /\ \A d \in Deleters : deletion[d] # "idle" \/ d \in receipts => deletes[d] \in Materials

-----------------------------------------------------------------------------
\* A material is listed after its import only, and its directory is in place
\* under its own name only while it is listed.
Listing ==
  \A m \in Materials :
    /\ m \in listed => import[m] # "none" /\ directory[m] # "none"
    /\ m \notin listed => directory[m] # "live"

\* What a deletion has reached.  A roll-back deletes the material of its import.
Reached ==
  \A d \in Deleters :
    /\ deletes[d] \in Materials => import[deletes[d]] # "none"
    /\ deletion[d] = "renamed" => deletes[d] \in listed /\ directory[deletes[d]] = "staged"
    /\ deletion[d] \in {"unlisted", "purging", "answered"} => deletes[d] \notin listed
    /\ d \in Materials /\ deletion[d] # "idle" => deletes[d] = d /\ import[d] = "rolledback"

\* One deletion at a time holds the manifest lock.
OneRemoval ==
  \A d, e \in Deleters :
    deletion[d] \in {"renamed", "unlisted"} /\ deletion[e] \in {"renamed", "unlisted"} => d = e

\* An import that has submitted nothing has no analysis.
Unsubmitted == {"none", "added", "leased", "attached", "failing", "rolledback"}
NothingToAnalyse ==
  \A m \in Materials : import[m] \in Unsubmitted =>
    /\ result[m] = Nil /\ exclusive[m] \notin Attempts
    /\ \A a \in Attempts : attOwner[a] # m

\* Who holds a lock is where the code holds it, and no lock is shared and exclusive.
Leased == {"locked", "analysing", "publishing"}
Locks ==
  /\ \A m \in Materials : exclusive[m] # Nil => sharing[m] = {}
  /\ \A m \in Materials, c \in Consumers :
       c \in sharing[m] <=> consuming[c] # "idle" /\ consumes[c] = m
  /\ \A m \in Materials : import[m] \in {"leased", "released"} => exclusive[m] = m
  /\ \A a \in Attempts : analysis[a] \in Leased => \E m \in Materials : exclusive[m] = a
  /\ \A m \in Materials, a \in Attempts : exclusive[m] = a =>
       /\ analysis[a] \in Leased
       /\ \A n \in Materials : exclusive[n] = a => n = m

\* Under its lock an analysis works with the sidecar it has read, and what it has
\* published it has published once.
Memories ==
  /\ \A m \in Materials, a \in Attempts :
       /\ exclusive[m] = a /\ analysis[a] # "locked" /\ m \in listed =>
            heard[a] = subtitle[m] /\ subtitle[m] # "file"
       /\ result[m] = a => analysis[a] \notin Leased \cup {"none", "open"}
       /\ result[m] = a /\ m \in listed => heard[a] = subtitle[m] /\ subtitle[m] # "file"

\* What is submitted for a material that is gone is not analysed.
Doomed ==
  \A d \in Deleters, a \in Attempts :
    deletion[d] = "answered" /\ attOwner[a] = deletes[d] =>
      /\ attStatus[a] # "complete"
      /\ attStatus[a] \in ClaimedStatuses => analysis[a] \in {"marking", "gone"}

CatalogInv ==
  /\ DiskTypes /\ LockTypes /\ WorkTypes /\ DeletionTypes
  /\ Listing /\ Reached /\ OneRemoval /\ NothingToAnalyse /\ Locks /\ Memories /\ Doomed

-----------------------------------------------------------------------------
\* A deletion has the lock of a directory it finds in place, unless the
\* directory is back from a roll-back that could not be written.
Guarded ==
  \A d \in Deletions :
    /\ deletion[d] \in {"locked", "checked"}
    /\ directory[deletes[d]] = "live" /\ import[deletes[d]] # "rolledback"
    => exclusive[deletes[d]] = d

Ready(m) == m \in listed /\ directory[m] = "live" /\ result[m] # Nil

\* A consumer holds, and a row refers to, what is ready, and no deletion past its
\* second look deletes what a row refers to.
References ==
  /\ \A c \in Consumers : consuming[c] = "holding" => Ready(consumes[c])
  /\ \A m \in selected : Ready(m)
  /\ \A d \in Deleters :
       deletion[d] \in {"checked", "renamed", "unlisted"} => deletes[d] \notin selected

ReadyInv == Guarded /\ References
-----------------------------------------------------------------------------
(* Rows. *)

\* The store's operations that imports, workers and deletions call.
RowStep ==
  \/ UNCHANGED vars
  \/ \E m \in Materials : EnqueueMaterialAnalysis(m) /\ ImportSubmits(m)
  \/ \E m \in Materials : RequeueMaterialAnalysis(m)
  \/ \E a \in Attempts : AnalysisStarts(a) \/ RequestStop(a)
  \/ \E a \in Attempts : CompleteMaterialAttempt(a) /\ analysis[a] = "done"
  \/ \E a \in Attempts : MarkAttemptInterrupted(a) \/ MarkAttemptFailed(a)
  \/ \E d \in Deleters : DeletePurges(d)

LEMMA StepRows ==
  ASSUME [CatalogNext]_catalogVars
  PROVE  RowStep
<1>1. ASSUME NEW m \in Materials, ImportTurn(m) PROVE RowStep
  <2>1. CASE ImportSubmits(m)
    BY <2>1 DEF ImportSubmits, RowStep
  <2>2. QED
    BY <1>1, <2>1 DEF ImportTurn, AddMaterial, ImportLocks, AttachSubtitle, ImportUnlocks,
       ImportFails, ImportCrashes, RowStep
<1>2. ASSUME NEW m \in Materials, RequeueLooks(m) \/ RequeueSubmits(m) \/ Tamper(m) \/ DropReference(m)
      PROVE  RowStep
  BY <1>2 DEF RequeueLooks, RequeueSubmits, Tamper, DropReference, RowStep
<1>3. ASSUME NEW a \in Attempts, AnalysisTurn(a) PROVE RowStep
  <2>1. CASE AnalysisStarts(a)
    BY <2>1 DEF RowStep
  <2>2. CASE AnalysisCompletes(a) \/ AnalysisMarks(a)
    BY <2>2 DEF AnalysisCompletes, AnalysisMarks, RowStep
  <2>3. QED
    BY <1>3, <2>1, <2>2 DEF AnalysisTurn, AnalysisLocks, AnalysisHolds, AnalysisStages, PublishAnalysis,
       AnalysisSeesStop, AnalysisFails, AnalysisDecides, RowStep
<1>4. ASSUME NEW a \in Attempts, AnalysisCrashes(a) \/ AnalysisIsReaped(a) \/ StopAnalysis(a)
      PROVE  RowStep
  BY <1>4 DEF AnalysisCrashes, AnalysisIsReaped, StopAnalysis, RowStep
<1>5. ASSUME NEW c \in Consumers, ConsumerTurn(c) PROVE RowStep
  BY <1>5 DEF ConsumerTurn, ConsumerLocks, ConsumerHolds, CommitReference, ConsumerUnlocks, RowStep
<1>6. ASSUME NEW d \in Deleters, DeletionTurn(d) \/ DeleteCrashes(d) PROVE RowStep
  <2>1. CASE DeletePurges(d)
    BY <2>1 DEF RowStep
  <2>2. QED
    BY <1>6, <2>1 DEF DeletionTurn, DeleteLooks, DeleteRecords, DeleteChecks, DeleteLocks,
       DeleteChecksAgain, DeleteRenames, DeleteUnlists, DeleteRestores, DeleteRemoves, DeleteFails,
       DeleteCrashes, RowStep
<1>7. CASE UNCHANGED catalogVars
  BY <1>7 DEF catalogVars, RowStep
<1>8. QED
  BY <1>1, <1>2, <1>3, <1>4, <1>5, <1>6, <1>7 DEF CatalogNext

LEMMA RowsAreTheStores ==
  ASSUME DeletionTypes, [CatalogNext]_catalogVars
  PROVE  [Next]_vars
<1>1. ASSUME NEW m \in Materials,
             EnqueueMaterialAnalysis(m) \/ RequeueMaterialAnalysis(m) \/ PurgeMaterialAttempts(m)
      PROVE  Next
  BY <1>1 DEF Next, MaterialStep
<1>2. ASSUME NEW a \in Attempts,
             \/ RequestStop(a) \/ MarkAttemptInterrupted(a) \/ MarkAttemptFailed(a)
             \/ CompleteMaterialAttempt(a)
      PROVE  Next
  BY <1>2 DEF Next, JobStep
<1>3. ASSUME NEW a \in Attempts, AnalysisStarts(a) PROVE Next
  BY <1>3 DEF AnalysisStarts, Next, JobStep
<1>4. ASSUME NEW d \in Deleters, DeletePurges(d) PROVE Next
  <2>1. deletes[d] \in Materials
    BY <1>4 DEF DeletePurges, DeletionTypes
  <2>2. QED
    BY <1>1, <1>4, <2>1 DEF DeletePurges
<1>5. QED
  BY <1>1, <1>2, <1>3, <1>4, StepRows DEF RowStep

-----------------------------------------------------------------------------
(* Types. *)

LEMMA InitCatalogTypes == CatalogInit => DiskTypes /\ LockTypes /\ WorkTypes /\ DeletionTypes
  BY DEF CatalogInit, DiskTypes, LockTypes, WorkTypes, DeletionTypes, Sidecars, ImportPlaces,
     AnalysisPlaces, ConsumerPlaces, DeletionPlaces

LEMMA LockKeepsType ==
  ASSUME LockTypes, NEW m \in Materials, NEW who \in Holders, Lock(m, who) \/ Unlock(who)
  PROVE  LockTypes'
  BY DEF LockTypes, Lock, Unlock

LEMMA ImportTurnTypes ==
  ASSUME DiskTypes, LockTypes, WorkTypes, DeletionTypes, NEW m \in Materials, ImportTurn(m)
  PROVE  DiskTypes' /\ LockTypes' /\ WorkTypes' /\ DeletionTypes'
<1> USE DEF diskVars, lockVars, importVars, analysisVars, consumerVars, deletionVars
<1>1. DiskTypes'
  <2>1. CASE AddMaterial(m)
    BY <2>1 DEF AddMaterial, DiskTypes
  <2>2. CASE AttachSubtitle(m) \/ ImportUnlocks(m)
    BY <2>2 DEF AttachSubtitle, ImportUnlocks, DiskTypes, Sidecars
  <2>3. QED
    BY <2>1, <2>2 DEF ImportTurn, ImportLocks, ImportSubmits, ImportFails, ImportCrashes, DiskTypes
<1>2. LockTypes'
  <2>1. m \in Holders
    BY DEF Holders
  <2>2. CASE ImportLocks(m) \/ ImportUnlocks(m) \/ ImportCrashes(m)
    BY <2>1, <2>2, LockKeepsType DEF ImportLocks, ImportUnlocks, ImportCrashes
  <2>3. QED
    BY <2>2 DEF ImportTurn, AddMaterial, AttachSubtitle, ImportSubmits, ImportFails, LockTypes
<1>3. WorkTypes'
  <2>1. ASSUME NEW where \in ImportPlaces, ImportGoesTo(m, where),
               UNCHANGED <<analysisVars, consumerVars>>
        PROVE  WorkTypes'
    BY <2>1 DEF ImportGoesTo, WorkTypes
  <2>2. CASE AttachSubtitle(m)
    BY <2>2 DEF AttachSubtitle, WorkTypes
  <2>3. QED
    BY <2>1, <2>2 DEF ImportTurn, AddMaterial, ImportLocks, ImportUnlocks, ImportSubmits, ImportFails,
       ImportCrashes, ImportPlaces
<1>4. DeletionTypes'
  <2>1. CASE ImportFails(m)
    BY <2>1 DEF ImportFails, DeletionTypes, Deleters, DeletionPlaces
  <2>2. QED
    BY <2>1 DEF ImportTurn, AddMaterial, ImportLocks, AttachSubtitle, ImportUnlocks, ImportSubmits,
       ImportCrashes, DeletionTypes
<1>5. QED
  BY <1>1, <1>2, <1>3, <1>4

\* The lease of an analysis is on one material.
LEMMA Lease ==
  ASSUME Locks, NEW a \in Attempts, analysis[a] \in Leased
  PROVE  /\ (CHOOSE x \in Materials : exclusive[x] = a) \in Materials
         /\ exclusive[CHOOSE x \in Materials : exclusive[x] = a] = a
  BY DEF Locks

LEMMA AnalysisTurnTypes ==
  ASSUME DiskTypes, LockTypes, WorkTypes, DeletionTypes, Locks, NEW a \in Attempts,
         AnalysisTurn(a) \/ AnalysisCrashes(a) \/ AnalysisIsReaped(a) \/ StopAnalysis(a)
  PROVE  DiskTypes' /\ LockTypes' /\ WorkTypes' /\ DeletionTypes'
<1> USE DEF diskVars, lockVars, importVars, analysisVars, consumerVars, deletionVars
<1>1. DiskTypes'
  <2>1. CASE PublishAnalysis(a)
    <3> DEFINE m == CHOOSE x \in Materials : exclusive[x] = a
    <3>1. m \in Materials
      BY <2>1, Lease DEF PublishAnalysis, Leased
    <3>2. result' = [result EXCEPT ![m] = a] /\ UNCHANGED <<listed, directory, tampered, subtitle, selected>>
      BY <2>1 DEF PublishAnalysis
    <3> HIDE DEF m
    <3>3. QED
      BY <3>1, <3>2 DEF DiskTypes
  <2>2. QED
    BY <2>1 DEF AnalysisTurn, AnalysisStarts, AnalysisLocks, AnalysisHolds, AnalysisStages,
       AnalysisCompletes, AnalysisSeesStop, AnalysisFails, AnalysisDecides, AnalysisMarks,
       AnalysisCrashes, AnalysisIsReaped, StopAnalysis, AnalysisLeaves, DiskTypes
<1>2. LockTypes'
  <2>1. a \in Holders
    BY DEF Holders
  <2>2. ASSUME UNCHANGED lockVars PROVE LockTypes'
    BY <2>2 DEF LockTypes
  <2>3. CASE AnalysisLocks(a)
    BY <2>1, <2>2, <2>3, LockKeepsType DEF AnalysisLocks, DiskTypes
  <2>4. CASE AnalysisHolds(a)
    BY <2>1, <2>2, <2>4, LockKeepsType DEF AnalysisHolds, LockTypes, Unlock
  <2>5. CASE PublishAnalysis(a) \/ AnalysisSeesStop(a) \/ AnalysisFails(a) \/ AnalysisCrashes(a)
    BY <2>1, <2>5, LockKeepsType
    DEF PublishAnalysis, AnalysisSeesStop, AnalysisFails, AnalysisCrashes, AnalysisLeaves, LockTypes, Unlock
  <2>6. QED
    BY <2>2, <2>3, <2>4, <2>5 DEF AnalysisTurn, AnalysisStarts, AnalysisStages, AnalysisCompletes,
       AnalysisDecides, AnalysisMarks, AnalysisIsReaped, StopAnalysis
<1>3. WorkTypes'
  <2>1. ASSUME NEW where \in AnalysisPlaces, AnalysisGoesTo(a, where),
               heard' \in [Attempts -> Sidecars], UNCHANGED <<importVars, consumerVars>>
        PROVE  WorkTypes'
    BY <2>1 DEF AnalysisGoesTo, WorkTypes
  <2>2. CASE AnalysisHolds(a)
    <3> DEFINE m == CHOOSE x \in Materials : exclusive[x] = a
    <3>1. m \in Materials
      BY <2>2, Lease DEF AnalysisHolds, Leased
    <3>2. /\ UNCHANGED <<importVars, consumerVars>>
          /\ \/ heard' = [heard EXCEPT ![a] = subtitle[m]] \/ heard' = heard
          /\ \E where \in {"analysing", "done", "failing"} : AnalysisGoesTo(a, where)
      BY <2>2 DEF AnalysisHolds
    <3> HIDE DEF m
    <3>3. heard' \in [Attempts -> Sidecars]
      BY <3>1, <3>2 DEF WorkTypes, DiskTypes
    <3>4. QED
      BY <2>1, <3>2, <3>3 DEF AnalysisPlaces
  <2>3. CASE AnalysisIsReaped(a) \/ StopAnalysis(a)
    BY <2>3 DEF AnalysisIsReaped, StopAnalysis, WorkTypes
  <2>4. heard \in [Attempts -> Sidecars]
    BY DEF WorkTypes
  <2>5. CASE \/ AnalysisStarts(a) \/ AnalysisLocks(a) \/ AnalysisStages(a) \/ PublishAnalysis(a)
             \/ AnalysisCompletes(a)
    BY <2>1, <2>4, <2>5 DEF AnalysisStarts, AnalysisLocks, AnalysisStages, PublishAnalysis,
       AnalysisCompletes, AnalysisPlaces
  <2>6. CASE \/ AnalysisSeesStop(a) \/ AnalysisFails(a) \/ AnalysisDecides(a) \/ AnalysisMarks(a)
             \/ AnalysisCrashes(a)
    BY <2>1, <2>4, <2>6 DEF AnalysisSeesStop, AnalysisFails, AnalysisDecides, AnalysisMarks,
       AnalysisCrashes, AnalysisLeaves, AnalysisPlaces
  <2>7. QED
    BY <2>2, <2>3, <2>5, <2>6 DEF AnalysisTurn
<1>4. DeletionTypes'
  BY DEF AnalysisTurn, AnalysisStarts, AnalysisLocks, AnalysisHolds, AnalysisStages, PublishAnalysis,
     AnalysisCompletes, AnalysisSeesStop, AnalysisFails, AnalysisDecides, AnalysisMarks,
     AnalysisCrashes, AnalysisIsReaped, StopAnalysis, AnalysisLeaves, DeletionTypes
<1>5. QED
  BY <1>1, <1>2, <1>3, <1>4

LEMMA ConsumerTurnTypes ==
  ASSUME DiskTypes, LockTypes, WorkTypes, DeletionTypes, NEW c \in Consumers, ConsumerTurn(c)
  PROVE  DiskTypes' /\ LockTypes' /\ WorkTypes' /\ DeletionTypes'
<1> USE DEF diskVars, lockVars, importVars, analysisVars, consumerVars, deletionVars, ConsumerPlaces
<1>1. CASE \E m \in Materials : ConsumerLocks(c, m)
  BY <1>1 DEF ConsumerLocks, ConsumerGoesTo, DiskTypes, LockTypes, WorkTypes, DeletionTypes
<1>2. CASE ConsumerHolds(c)
  BY <1>2 DEF ConsumerHolds, ConsumerGoesTo, DiskTypes, LockTypes, WorkTypes, DeletionTypes
<1>3. CASE ConsumerUnlocks(c)
  BY <1>3 DEF ConsumerUnlocks, ConsumerGoesTo, DiskTypes, LockTypes, WorkTypes, DeletionTypes
<1>4. CASE CommitReference(c)
  BY <1>4 DEF CommitReference, DiskTypes, LockTypes, WorkTypes, DeletionTypes
<1>5. QED
  BY <1>1, <1>2, <1>3, <1>4 DEF ConsumerTurn

LEMMA DeletionTurnTypes ==
  ASSUME DiskTypes, LockTypes, WorkTypes, DeletionTypes, NEW d \in Deleters,
         DeletionTurn(d) \/ DeleteCrashes(d)
  PROVE  DiskTypes' /\ LockTypes' /\ WorkTypes' /\ DeletionTypes'
<1> USE DEF diskVars, lockVars, importVars, analysisVars, consumerVars, deletionVars
<1>1. DiskTypes'
  <2>1. CASE DeleteRenames(d) \/ DeleteUnlists(d) \/ DeleteRestores(d) \/ DeleteRemoves(d)
    <3>1. deletes[d] \in Materials
      BY <2>1 DEF DeleteRenames, DeleteUnlists, DeleteRestores, DeleteRemoves, DeletionTypes
    <3>2. QED
      BY <2>1, <3>1 DEF DeleteRenames, DeleteUnlists, DeleteRestores, DeleteRemoves, DiskTypes, Sidecars
  <2>2. QED
    BY <2>1 DEF DeletionTurn, DeleteLooks, DeleteRecords, DeleteChecks, DeleteLocks, DeleteChecksAgain,
       DeletePurges, DeleteFails, DeleteCrashes, DiskTypes
<1>2. LockTypes'
  <2>1. d \in Holders
    BY DEF Holders, Deleters
  <2>2. CASE DeleteLocks(d)
    <3>1. deletes[d] \in Materials
      BY <2>2 DEF DeleteLocks, DeletionTypes
    <3>2. QED
      BY <2>1, <2>2, <3>1, LockKeepsType DEF DeleteLocks, LockTypes
  <2>3. CASE DeleteRestores(d) \/ DeleteRemoves(d) \/ DeleteFails(d) \/ DeleteCrashes(d)
    BY <2>1, <2>3 DEF DeleteRestores, DeleteRemoves, DeleteFails, DeleteCrashes, DeletionLeaves, Unlock,
       LockTypes
  <2>4. QED
    BY <2>2, <2>3 DEF DeletionTurn, DeleteLooks, DeleteRecords, DeleteChecks, DeleteChecksAgain,
       DeleteRenames, DeleteUnlists, DeletePurges, LockTypes
<1>3. WorkTypes'
  BY DEF DeletionTurn, DeleteLooks, DeleteRecords, DeleteChecks, DeleteLocks, DeleteChecksAgain,
     DeleteRenames, DeleteUnlists, DeleteRestores, DeleteRemoves, DeletePurges, DeleteFails,
     DeleteCrashes, WorkTypes
<1>4. DeletionTypes'
  <2>1. ASSUME NEW where \in DeletionPlaces, DeletionGoesTo(d, where), deletion[d] # "idle",
               UNCHANGED deletes, receipts' \in {receipts, receipts \cup {d}}
        PROVE  DeletionTypes'
    BY <2>1 DEF DeletionGoesTo, DeletionTypes
  <2>2. CASE \E m \in Materials : DeleteLooks(d, m)
    BY <2>2 DEF DeleteLooks, DeletionGoesTo, DeletionTypes, DeletionPlaces
  <2>3. CASE \/ DeleteRecords(d) \/ DeleteChecks(d) \/ DeleteLocks(d) \/ DeleteChecksAgain(d)
             \/ DeleteRenames(d) \/ DeleteUnlists(d) \/ DeletePurges(d)
    BY <2>1, <2>3 DEF DeleteRecords, DeleteChecks, DeleteLocks, DeleteChecksAgain, DeleteRenames,
       DeleteUnlists, DeletePurges, DeletionPlaces
  <2>4. CASE DeleteRestores(d) \/ DeleteRemoves(d) \/ DeleteFails(d) \/ DeleteCrashes(d)
    BY <2>1, <2>4 DEF DeleteRestores, DeleteRemoves, DeleteFails, DeleteCrashes, DeletionLeaves,
       DeletionPlaces
  <2>5. QED
    BY <2>2, <2>3, <2>4 DEF DeletionTurn
<1>5. QED
  BY <1>1, <1>2, <1>3, <1>4

LEMMA TypesNext ==
  ASSUME DiskTypes, LockTypes, WorkTypes, DeletionTypes, Locks, [CatalogNext]_catalogVars
  PROVE  DiskTypes' /\ LockTypes' /\ WorkTypes' /\ DeletionTypes'
<1> USE DEF diskVars, lockVars, importVars, analysisVars, consumerVars, deletionVars
<1>1. ASSUME NEW m \in Materials, Tamper(m) \/ DropReference(m) \/ RequeueLooks(m) \/ RequeueSubmits(m)
      PROVE  DiskTypes' /\ LockTypes' /\ WorkTypes' /\ DeletionTypes'
  BY <1>1 DEF Tamper, DropReference, RequeueLooks, RequeueSubmits, DiskTypes, LockTypes, WorkTypes,
     DeletionTypes
<1>2. CASE UNCHANGED catalogVars
  BY <1>2 DEF catalogVars, DiskTypes, LockTypes, WorkTypes, DeletionTypes
<1>3. QED
  BY <1>1, <1>2, ImportTurnTypes, AnalysisTurnTypes, ConsumerTurnTypes, DeletionTurnTypes
  DEF CatalogNext
-----------------------------------------------------------------------------
(* What a step may change at one place. *)

\* An import goes one way, and a roll-back ends it.
LEMMA ImportSteps ==
  ASSUME WorkTypes, [CatalogNext]_catalogVars, NEW m \in Materials
  PROVE  /\ import[m] # "none" => import'[m] # "none"
         /\ import[m] = "rolledback" => import'[m] = "rolledback"
         /\ import'[m] = "rolledback" => import[m] = "rolledback" \/ ImportFails(m)
         /\ import'[m] \in Unsubmitted => import[m] \in Unsubmitted
         /\ import'[m] \in {"leased", "released"} => import'[m] = import[m] \/ ImportLocks(m)
<1> DEFINE Goal ==
      /\ import[m] # "none" => import'[m] # "none"
      /\ import[m] = "rolledback" => import'[m] = "rolledback"
      /\ import'[m] = "rolledback" => import[m] = "rolledback" \/ ImportFails(m)
      /\ import'[m] \in Unsubmitted => import[m] \in Unsubmitted
      /\ import'[m] \in {"leased", "released"} => import'[m] = import[m] \/ ImportLocks(m)
<1>1. ASSUME import' = import PROVE Goal
  BY <1>1
<1>2. ASSUME NEW n \in Materials, ImportTurn(n) PROVE Goal
  <2>1. CASE n # m
    <3>1. ASSUME NEW where, ImportGoesTo(n, where) PROVE import'[m] = import[m]
      BY <2>1, <3>1 DEF ImportGoesTo, WorkTypes
    <3>2. import'[m] = import[m]
      BY <1>2, <3>1 DEF ImportTurn, AddMaterial, ImportLocks, AttachSubtitle, ImportUnlocks,
         ImportSubmits, ImportFails, ImportCrashes, importVars
    <3>3. QED
      BY <3>2
  <2>2. CASE n = m
    <3>1. ASSUME NEW where, ImportGoesTo(m, where) PROVE import'[m] = where
      BY <3>1 DEF ImportGoesTo, WorkTypes
    <3>2. CASE AddMaterial(m) \/ ImportUnlocks(m) \/ ImportSubmits(m) \/ ImportCrashes(m)
      BY <3>1, <3>2 DEF AddMaterial, ImportUnlocks, ImportSubmits, ImportCrashes, Unsubmitted
    <3>3. CASE ImportLocks(m) \/ ImportFails(m)
      BY <3>1, <3>3 DEF ImportLocks, ImportFails, Unsubmitted
    <3>4. CASE AttachSubtitle(m)
      BY <1>1, <3>4 DEF AttachSubtitle, importVars
    <3>5. QED
      BY <1>2, <2>2, <3>2, <3>3, <3>4 DEF ImportTurn
  <2>3. QED
    BY <2>1, <2>2
<1>3. ASSUME NEW n \in Materials, Tamper(n) \/ DropReference(n) \/ RequeueLooks(n) \/ RequeueSubmits(n)
      PROVE  Goal
  BY <1>1, <1>3 DEF Tamper, DropReference, RequeueLooks, RequeueSubmits, importVars
<1>4. ASSUME NEW a \in Attempts,
             AnalysisTurn(a) \/ AnalysisCrashes(a) \/ AnalysisIsReaped(a) \/ StopAnalysis(a)
      PROVE  Goal
  BY <1>1, <1>4 DEF AnalysisTurn, AnalysisStarts, AnalysisLocks, AnalysisHolds, AnalysisStages,
     PublishAnalysis, AnalysisCompletes, AnalysisSeesStop, AnalysisFails, AnalysisDecides,
     AnalysisMarks, AnalysisCrashes, AnalysisIsReaped, StopAnalysis, AnalysisLeaves, importVars
<1>5. ASSUME NEW c \in Consumers, ConsumerTurn(c) PROVE Goal
  BY <1>1, <1>5 DEF ConsumerTurn, ConsumerLocks, ConsumerHolds, CommitReference, ConsumerUnlocks,
     importVars
<1>6. ASSUME NEW d \in Deleters, DeletionTurn(d) \/ DeleteCrashes(d) PROVE Goal
  BY <1>1, <1>6 DEF DeletionTurn, DeleteLooks, DeleteRecords, DeleteChecks, DeleteLocks,
     DeleteChecksAgain, DeleteRenames, DeleteUnlists, DeleteRestores, DeleteRemoves, DeletePurges,
     DeleteFails, DeleteCrashes, importVars
<1>7. CASE UNCHANGED catalogVars
  BY <1>1, <1>7 DEF catalogVars, importVars
<1>8. QED
  BY <1>2, <1>3, <1>4, <1>5, <1>6, <1>7 DEF CatalogNext

\* The effects of the catalog's steps on the disk.
LEMMA DiskSteps ==
  ASSUME DiskTypes, DeletionTypes, [CatalogNext]_catalogVars, NEW m \in Materials
  PROVE  \/ directory'[m] = directory[m] /\ (m \in listed' <=> m \in listed)
         \/ AddMaterial(m) /\ directory'[m] = "live" /\ m \in listed'
         \/ \E d \in Deleters :
              /\ deletes[d] = m
              /\ \/ /\ DeleteRenames(d) /\ (m \in listed' <=> m \in listed)
                    /\ directory'[m] = IF directory[m] = "live" THEN "staged" ELSE directory[m]
                 \/ DeleteUnlists(d) /\ m \notin listed' /\ directory'[m] = directory[m]
                 \/ /\ DeleteRestores(d) /\ (m \in listed' <=> m \in listed)
                    /\ directory'[m] = IF directory[m] = "staged" THEN "live" ELSE directory[m]
                 \/ /\ DeleteRemoves(d) /\ directory'[m] = "none" /\ (m \in listed' <=> m \in listed)
<1> DEFINE Goal ==
         \/ directory'[m] = directory[m] /\ (m \in listed' <=> m \in listed)
         \/ AddMaterial(m) /\ directory'[m] = "live" /\ m \in listed'
         \/ \E d \in Deleters :
              /\ deletes[d] = m
              /\ \/ /\ DeleteRenames(d) /\ (m \in listed' <=> m \in listed)
                    /\ directory'[m] = IF directory[m] = "live" THEN "staged" ELSE directory[m]
                 \/ DeleteUnlists(d) /\ m \notin listed' /\ directory'[m] = directory[m]
                 \/ /\ DeleteRestores(d) /\ (m \in listed' <=> m \in listed)
                    /\ directory'[m] = IF directory[m] = "staged" THEN "live" ELSE directory[m]
                 \/ /\ DeleteRemoves(d) /\ directory'[m] = "none" /\ (m \in listed' <=> m \in listed)
<1>1. ASSUME UNCHANGED <<listed, directory>> PROVE Goal
  BY <1>1
<1>2. ASSUME NEW n \in Materials, ImportTurn(n) PROVE Goal
  <2>1. CASE AddMaterial(n)
    <3>1. listed' = listed \cup {n} /\ directory' = [directory EXCEPT ![n] = "live"]
      BY <2>1 DEF AddMaterial
    <3>2. CASE n = m
      BY <2>1, <3>1, <3>2 DEF DiskTypes
    <3>3. CASE n # m
      BY <3>1, <3>3 DEF DiskTypes
    <3>4. QED
      BY <3>2, <3>3
  <2>2. QED
    BY <1>1, <1>2, <2>1 DEF ImportTurn, ImportLocks, AttachSubtitle, ImportUnlocks, ImportSubmits,
       ImportFails, ImportCrashes, diskVars
<1>3. ASSUME NEW n \in Materials, Tamper(n) \/ DropReference(n) \/ RequeueLooks(n) \/ RequeueSubmits(n)
      PROVE  Goal
  BY <1>1, <1>3 DEF Tamper, DropReference, RequeueLooks, RequeueSubmits, diskVars
<1>4. ASSUME NEW a \in Attempts,
             AnalysisTurn(a) \/ AnalysisCrashes(a) \/ AnalysisIsReaped(a) \/ StopAnalysis(a)
      PROVE  Goal
  BY <1>1, <1>4 DEF AnalysisTurn, AnalysisStarts, AnalysisLocks, AnalysisHolds, AnalysisStages,
     PublishAnalysis, AnalysisCompletes, AnalysisSeesStop, AnalysisFails, AnalysisDecides,
     AnalysisMarks, AnalysisCrashes, AnalysisIsReaped, StopAnalysis, AnalysisLeaves, diskVars
<1>5. ASSUME NEW c \in Consumers, ConsumerTurn(c) PROVE Goal
  BY <1>1, <1>5 DEF ConsumerTurn, ConsumerLocks, ConsumerHolds, CommitReference, ConsumerUnlocks,
     diskVars
<1>6. ASSUME NEW d \in Deleters, DeletionTurn(d) \/ DeleteCrashes(d) PROVE Goal
  <2>1. CASE DeleteRenames(d)
    <3>1. /\ directory' = [directory EXCEPT ![deletes[d]] = IF @ = "live" THEN "staged" ELSE @]
          /\ listed' = listed
      BY <2>1 DEF DeleteRenames
    <3>2. QED
      BY <2>1, <3>1 DEF DiskTypes
  <2>2. CASE DeleteUnlists(d)
    <3>1. listed' = listed \ {deletes[d]} /\ directory' = directory
      BY <2>2 DEF DeleteUnlists
    <3>2. QED
      BY <2>2, <3>1 DEF DiskTypes
  <2>3. CASE DeleteRestores(d)
    <3>1. /\ directory' = [directory EXCEPT ![deletes[d]] = IF @ = "staged" THEN "live" ELSE @]
          /\ listed' = listed
      BY <2>3 DEF DeleteRestores
    <3>2. QED
      BY <2>3, <3>1 DEF DiskTypes
  <2>4. CASE DeleteRemoves(d)
    <3>1. listed' = listed /\ directory' = [directory EXCEPT ![deletes[d]] = "none"]
      BY <2>4 DEF DeleteRemoves
    <3>2. QED
      BY <2>4, <3>1 DEF DiskTypes
  <2>5. QED
    BY <1>1, <1>6, <2>1, <2>2, <2>3, <2>4 DEF DeletionTurn, DeleteLooks, DeleteRecords, DeleteChecks,
       DeleteLocks, DeleteChecksAgain, DeletePurges, DeleteFails, DeleteCrashes, diskVars
<1>7. CASE UNCHANGED catalogVars
  BY <1>1, <1>7 DEF catalogVars, diskVars
<1>8. QED
  BY <1>2, <1>3, <1>4, <1>5, <1>6, <1>7 DEF CatalogNext

\* A deletion changes by its own turns; the import of a material begins its roll-back.
LEMMA DeletionSteps ==
  ASSUME DeletionTypes, [CatalogNext]_catalogVars, NEW d \in Deleters
  PROVE  \/ deletion'[d] \in {deletion[d], "idle"} /\ deletes'[d] = deletes[d]
         \/ ImportFails(d) /\ d \in Materials /\ deletion'[d] = "catalog" /\ deletes'[d] = d
         \/ DeletionTurn(d)
<1> DEFINE Goal ==
         \/ deletion'[d] \in {deletion[d], "idle"} /\ deletes'[d] = deletes[d]
         \/ ImportFails(d) /\ d \in Materials /\ deletion'[d] = "catalog" /\ deletes'[d] = d
         \/ DeletionTurn(d)
<1>1. ASSUME UNCHANGED <<deletion, deletes>> PROVE Goal
  BY <1>1
<1>2. ASSUME NEW n \in Materials, ImportTurn(n) PROVE Goal
  <2>1. CASE ImportFails(n)
    <3>1. /\ deletion' = [deletion EXCEPT ![n] = "catalog"]
          /\ deletes' = [deletes EXCEPT ![n] = n]
      BY <2>1 DEF ImportFails
    <3>2. CASE n = d
      BY <2>1, <3>1, <3>2 DEF DeletionTypes
    <3>3. CASE n # d
      BY <3>1, <3>3 DEF DeletionTypes
    <3>4. QED
      BY <3>2, <3>3
  <2>2. QED
    BY <1>1, <1>2, <2>1 DEF ImportTurn, AddMaterial, ImportLocks, AttachSubtitle, ImportUnlocks,
       ImportSubmits, ImportCrashes, deletionVars
<1>3. ASSUME NEW n \in Materials, Tamper(n) \/ DropReference(n) \/ RequeueLooks(n) \/ RequeueSubmits(n)
      PROVE  Goal
  BY <1>1, <1>3 DEF Tamper, DropReference, RequeueLooks, RequeueSubmits, deletionVars
<1>4. ASSUME NEW a \in Attempts,
             AnalysisTurn(a) \/ AnalysisCrashes(a) \/ AnalysisIsReaped(a) \/ StopAnalysis(a)
      PROVE  Goal
  BY <1>1, <1>4 DEF AnalysisTurn, AnalysisStarts, AnalysisLocks, AnalysisHolds, AnalysisStages,
     PublishAnalysis, AnalysisCompletes, AnalysisSeesStop, AnalysisFails, AnalysisDecides,
     AnalysisMarks, AnalysisCrashes, AnalysisIsReaped, StopAnalysis, AnalysisLeaves, deletionVars
<1>5. ASSUME NEW c \in Consumers, ConsumerTurn(c) PROVE Goal
  BY <1>1, <1>5 DEF ConsumerTurn, ConsumerLocks, ConsumerHolds, CommitReference, ConsumerUnlocks,
     deletionVars
<1>6. ASSUME NEW e \in Deleters, DeletionTurn(e) \/ DeleteCrashes(e) PROVE Goal
  <2>1. CASE e = d
    <3>1. CASE DeleteCrashes(d)
      BY <3>1 DEF DeleteCrashes, DeletionLeaves, DeletionGoesTo, DeletionTypes
    <3>2. QED
      BY <1>6, <2>1, <3>1
  <2>2. CASE e # d
    <3>1. ASSUME NEW where, DeletionGoesTo(e, where) PROVE deletion'[d] = deletion[d]
      BY <2>2, <3>1 DEF DeletionGoesTo, DeletionTypes
    <3>2. \E where : DeletionGoesTo(e, where)
      BY <1>6 DEF DeletionTurn, DeleteLooks, DeleteRecords, DeleteChecks, DeleteLocks,
         DeleteChecksAgain, DeleteRenames, DeleteUnlists, DeleteRestores, DeleteRemoves, DeletePurges,
         DeleteFails, DeleteCrashes, DeletionLeaves
    <3>3. deletes'[d] = deletes[d]
      BY <1>6, <2>2 DEF DeletionTurn, DeleteLooks, DeleteRecords, DeleteChecks, DeleteLocks,
         DeleteChecksAgain, DeleteRenames, DeleteUnlists, DeleteRestores, DeleteRemoves, DeletePurges,
         DeleteFails, DeleteCrashes, DeletionTypes
    <3>4. QED
      BY <3>1, <3>2, <3>3
  <2>3. QED
    BY <2>1, <2>2
<1>7. CASE UNCHANGED catalogVars
  BY <1>1, <1>7 DEF catalogVars, deletionVars
<1>8. QED
  BY <1>2, <1>3, <1>4, <1>5, <1>6, <1>7 DEF CatalogNext

\* The places a deletion reaches by its own turn.
LEMMA DeletionTurns ==
  ASSUME DeletionTypes, NEW d \in Deleters, DeletionTurn(d)
  PROVE  \/ /\ d \in Deletions /\ deletion[d] = "idle" /\ deletes[d] \in {deletes'[d], Nil}
            /\ DeleteLooks(d, deletes'[d]) /\ deletes'[d] \in Materials
            /\ deletion'[d] = IF deletes'[d] \in listed THEN "looked" ELSE "purging"
            /\ UNCHANGED <<listed, directory>>
         \/ /\ deletes'[d] = deletes[d] /\ deletion[d] # "idle"
            /\ \/ deletion[d] = "looked" /\ deletion'[d] = "catalog"
               \/ deletion[d] = "catalog" /\ deletion'[d] = "unreferenced"
               \/ DeleteLocks(d) /\ deletion'[d] = "locked"
               \/ DeleteChecksAgain(d) /\ deletion'[d] = "checked"
               \/ DeleteRenames(d) /\ deletion'[d] = "renamed"
               \/ DeleteUnlists(d) /\ deletion'[d] = "unlisted"
               \/ DeleteRemoves(d) /\ deletion'[d] = "purging"
               \/ DeletePurges(d) /\ deletion'[d] = "answered"
               \/ deletion'[d] = "idle"
<1>0. ASSUME NEW where, DeletionGoesTo(d, where) PROVE deletion'[d] = where
  BY <1>0 DEF DeletionGoesTo, DeletionTypes
<1>1. ASSUME NEW m \in Materials, DeleteLooks(d, m)
      PROVE  /\ d \in Deletions /\ deletion[d] = "idle" /\ deletes[d] \in {deletes'[d], Nil}
             /\ DeleteLooks(d, deletes'[d]) /\ deletes'[d] \in Materials
             /\ deletion'[d] = IF deletes'[d] \in listed THEN "looked" ELSE "purging"
             /\ UNCHANGED <<listed, directory>>
  <2>1. deletes'[d] = m
    BY <1>1 DEF DeleteLooks, DeletionTypes
  <2>2. DeleteLooks(d, deletes'[d])
    BY <1>1, <2>1, Zenon
  <2>3. deletion'[d] = IF m \in listed THEN "looked" ELSE "purging"
    BY <1>0, <1>1 DEF DeleteLooks
  <2>4. QED
    BY <1>1, <2>1, <2>2, <2>3 DEF DeleteLooks, diskVars
<1>2. CASE DeleteRecords(d) \/ DeleteChecks(d) \/ DeleteLocks(d) \/ DeleteChecksAgain(d)
  BY <1>0, <1>2 DEF DeleteRecords, DeleteChecks, DeleteLocks, DeleteChecksAgain
<1>3. CASE DeleteRenames(d) \/ DeleteUnlists(d) \/ DeletePurges(d)
  BY <1>0, <1>3 DEF DeleteRenames, DeleteUnlists, DeletePurges
<1>4. CASE DeleteRestores(d) \/ DeleteRemoves(d) \/ DeleteFails(d)
  BY <1>0, <1>4 DEF DeleteRestores, DeleteRemoves, DeleteFails, DeletionLeaves
<1>5. QED
  BY <1>1, <1>2, <1>3, <1>4 DEF DeletionTurn
-----------------------------------------------------------------------------
(* The manifest, the directories and the deletions. *)

CatalogTypes == DiskTypes /\ LockTypes /\ WorkTypes /\ DeletionTypes

LEMMA OneRemovalNext ==
  ASSUME DeletionTypes, OneRemoval, [CatalogNext]_catalogVars
  PROVE  OneRemoval'
<1>1. ASSUME NEW d \in Deleters, deletion'[d] \in {"renamed", "unlisted"}
      PROVE  \/ deletion[d] \in {"renamed", "unlisted"}
             \/ DeleteRenames(d) /\ ManifestFree
  <2>1. CASE DeletionTurn(d)
    BY <1>1, <2>1, DeletionTurns DEF DeleteRenames, DeleteUnlists
  <2>2. QED
    BY <1>1, <2>1, DeletionSteps
<1>2. ASSUME NEW d \in Deleters, NEW e \in Deleters, DeleteRenames(d), DeleteRenames(e)
      PROVE  d = e
  <2>1. deletion[e] = "checked" /\ deletion'[e] = "renamed"
    BY <1>2 DEF DeleteRenames, DeletionGoesTo, DeletionTypes
  <2>2. d # e => deletion'[e] = deletion[e]
    BY <1>2 DEF DeleteRenames, DeletionGoesTo, DeletionTypes
  <2>3. QED
    BY <2>1, <2>2
<1>3. ASSUME NEW d \in Deleters, NEW e \in Deleters, DeleteRenames(d),
             deletion[e] \in {"renamed", "unlisted"}
      PROVE  FALSE
  BY <1>3 DEF DeleteRenames, ManifestFree
<1>4. QED
  BY <1>1, <1>2, <1>3 DEF OneRemoval

LEMMA ListingNext ==
  ASSUME CatalogTypes, Listing, Reached, [CatalogNext]_catalogVars
  PROVE  Listing'
<1> SUFFICES ASSUME NEW m \in Materials
             PROVE  /\ m \in listed' => import'[m] # "none" /\ directory'[m] # "none"
                    /\ m \notin listed' => directory'[m] # "live"
  BY DEF Listing
<1>1. import[m] # "none" => import'[m] # "none"
  BY ImportSteps DEF CatalogTypes
<1>2. CASE directory'[m] = directory[m] /\ (m \in listed' <=> m \in listed)
  BY <1>1, <1>2 DEF Listing
<1>3. CASE AddMaterial(m) /\ directory'[m] = "live" /\ m \in listed'
  BY <1>3 DEF AddMaterial, ImportGoesTo, CatalogTypes, WorkTypes
<1>4. ASSUME NEW d \in Deleters, deletes[d] = m,
             \/ /\ DeleteRenames(d) /\ (m \in listed' <=> m \in listed)
                /\ directory'[m] = IF directory[m] = "live" THEN "staged" ELSE directory[m]
             \/ DeleteUnlists(d) /\ m \notin listed' /\ directory'[m] = directory[m]
             \/ /\ DeleteRestores(d) /\ (m \in listed' <=> m \in listed)
                /\ directory'[m] = IF directory[m] = "staged" THEN "live" ELSE directory[m]
             \/ /\ DeleteRemoves(d) /\ directory'[m] = "none" /\ (m \in listed' <=> m \in listed)
      PROVE  /\ m \in listed' => import'[m] # "none" /\ directory'[m] # "none"
             /\ m \notin listed' => directory'[m] # "live"
  <2>1. CASE DeleteRenames(d) /\ (m \in listed' <=> m \in listed)
             /\ directory'[m] = IF directory[m] = "live" THEN "staged" ELSE directory[m]
    BY <1>1, <2>1 DEF Listing
  <2>2. CASE DeleteUnlists(d) /\ m \notin listed' /\ directory'[m] = directory[m]
    BY <1>4, <2>2 DEF DeleteUnlists, Reached
  <2>3. CASE DeleteRestores(d) /\ (m \in listed' <=> m \in listed)
             /\ directory'[m] = IF directory[m] = "staged" THEN "live" ELSE directory[m]
    BY <1>1, <1>4, <2>3 DEF DeleteRestores, Reached, Listing
  <2>4. CASE DeleteRemoves(d) /\ directory'[m] = "none" /\ (m \in listed' <=> m \in listed)
    BY <1>4, <2>4 DEF DeleteRemoves, Reached
  <2>5. QED
    BY <1>4, <2>1, <2>2, <2>3, <2>4
<1>5. QED
  BY <1>2, <1>3, <1>4, DiskSteps DEF CatalogTypes

\* While a deletion is between its rename and its end, no other step changes what
\* the manifest and the file system say of its material.
LEMMA RemovalIsAlone ==
  ASSUME CatalogTypes, OneRemoval, [CatalogNext]_catalogVars, NEW d \in Deleters,
         deletion[d] \in {"renamed", "unlisted"}, NEW m \in Materials
  PROVE  \/ directory'[m] = directory[m] /\ (m \in listed' <=> m \in listed)
         \/ deletes[d] = m /\ deletion'[d] # deletion[d]
<1>1. ~AddMaterial(m)
  BY DEF AddMaterial, ManifestFree
<1>2. ASSUME NEW e \in Deleters,
             DeleteRenames(e) \/ DeleteUnlists(e) \/ DeleteRestores(e) \/ DeleteRemoves(e)
      PROVE  e = d /\ deletion'[d] # deletion[d]
  <2>1. ~DeleteRenames(e)
    BY DEF DeleteRenames, ManifestFree
  <2>2. deletion[e] \in {"renamed", "unlisted"}
    BY <1>2, <2>1 DEF DeleteUnlists, DeleteRestores, DeleteRemoves
  <2>3. e = d
    BY <2>2 DEF OneRemoval
  <2>4. \E where \in {"unlisted", "idle", "purging"} : DeletionGoesTo(e, where) /\ deletion[e] # where
    BY <1>2, <2>1 DEF DeleteUnlists, DeleteRestores, DeleteRemoves, DeletionLeaves
  <2>5. QED
    BY <2>3, <2>4 DEF DeletionGoesTo, CatalogTypes, DeletionTypes
<1>3. QED
  BY <1>1, <1>2, DiskSteps DEF CatalogTypes

\* A material that is not listed after its import is never listed again.
LEMMA GoneForGood ==
  ASSUME CatalogTypes, [CatalogNext]_catalogVars, NEW m \in Materials, m \notin listed,
         import[m] # "none"
  PROVE  m \notin listed'
<1>1. ~AddMaterial(m)
  BY DEF AddMaterial
<1>2. QED
  BY <1>1, DiskSteps DEF CatalogTypes

LEMMA ReachedNext ==
  ASSUME CatalogTypes, Listing, Reached, OneRemoval, [CatalogNext]_catalogVars
  PROVE  Reached'
<1> USE DEF CatalogTypes
<1> SUFFICES ASSUME NEW d \in Deleters
             PROVE  /\ deletes'[d] \in Materials => import'[deletes'[d]] # "none"
                    /\ deletion'[d] = "renamed" =>
                         deletes'[d] \in listed' /\ directory'[deletes'[d]] = "staged"
                    /\ deletion'[d] \in {"unlisted", "purging", "answered"} => deletes'[d] \notin listed'
                    /\ d \in Materials /\ deletion'[d] # "idle" =>
                         deletes'[d] = d /\ import'[d] = "rolledback"
  BY DEF Reached
<1> DEFINE m == deletes'[d]
<1>0. Materials \cap Deletions = {} /\ Nil \notin Materials
  BY CatalogAssumption, StoreAssumption DEF Owners
<1>1. m \in Materials => import[m] # "none"
  <2>1. CASE deletes'[d] = deletes[d]
    BY <2>1 DEF Reached
  <2>2. CASE ImportFails(d) /\ d \in Materials /\ deletes'[d] = d
    BY <2>2 DEF ImportFails
  <2>3. CASE DeletionTurn(d) /\ deletes'[d] # deletes[d]
    <3>1. DeleteLooks(d, m) /\ deletes[d] \in {m, Nil} /\ m \in Materials
      BY <2>3, DeletionTurns
    <3>2. m \in listed \/ deletes[d] \in Materials
      BY <3>1 DEF DeleteLooks, DeletionTypes
    <3>3. QED
      BY <1>0, <3>1, <3>2 DEF Listing, Reached
  <2>4. QED
    BY <2>1, <2>2, <2>3, DeletionSteps
<1>2. m \in Materials => import'[m] # "none"
  BY <1>1, ImportSteps
<1>3. deletion'[d] # "idle" => m \in Materials
  <2>1. CASE DeletionTurn(d)
    BY <2>1, DeletionTurns DEF DeletionTypes
  <2>2. QED
    BY <2>1, DeletionSteps DEF DeletionTypes
<1>4. ASSUME deletion'[d] = "renamed" PROVE m \in listed' /\ directory'[m] = "staged"
  <2>1. CASE deletion[d] = "renamed" /\ deletes'[d] = deletes[d]
    BY <1>3, <1>4, <2>1, RemovalIsAlone DEF Reached
  <2>2. CASE DeleteRenames(d) /\ deletes'[d] = deletes[d]
    <3>1. /\ directory' = [directory EXCEPT ![deletes[d]] = IF @ = "live" THEN "staged" ELSE @]
          /\ listed' = listed /\ m \in listed /\ m \in Materials
      BY <1>3, <1>4, <2>2 DEF DeleteRenames
    <3>2. directory[m] \in {"live", "staged"}
      BY <3>1 DEF Listing, DiskTypes
    <3>3. QED
      BY <2>2, <3>1, <3>2 DEF DiskTypes
  <2>3. QED
    BY <1>4, <2>1, <2>2, DeletionSteps, DeletionTurns
<1>5. ASSUME deletion'[d] \in {"unlisted", "purging", "answered"} PROVE m \notin listed'
  <2>1. CASE m \notin listed
    BY <1>1, <1>3, <1>5, <2>1, GoneForGood
  <2>2. CASE DeleteUnlists(d) /\ deletes'[d] = deletes[d]
    BY <2>2 DEF DeleteUnlists
  <2>3. CASE deletion[d] \in {"unlisted", "purging", "answered"} /\ deletes'[d] = deletes[d]
    BY <2>1, <2>3 DEF Reached
  <2>4. QED
    BY <1>5, <2>1, <2>2, <2>3, DeletionSteps, DeletionTurns DEF DeleteRemoves, DeletePurges
<1>6. ASSUME d \in Materials, deletion'[d] # "idle" PROVE m = d /\ import'[d] = "rolledback"
  <2>1. CASE ImportFails(d) /\ deletes'[d] = d
    BY <1>6, <2>1 DEF ImportFails, ImportGoesTo, WorkTypes
  <2>2. CASE deletion[d] # "idle" /\ deletes'[d] = deletes[d]
    BY <1>6, <2>2, ImportSteps DEF Reached
  <2>3. QED
    BY <1>0, <1>6, <2>1, <2>2, DeletionSteps, DeletionTurns
<1>7. QED
  BY <1>2, <1>4, <1>5, <1>6
-----------------------------------------------------------------------------
(* Workers, consumers and locks. *)

\* How the worker of an analysis goes on: it takes its lease once, loses it when
\* it leaves its leased places, and reads the sidecar once.
LEMMA AnalysisSteps ==
  ASSUME CatalogTypes, [CatalogNext]_catalogVars, NEW a \in Attempts
  PROVE  /\ analysis[a] # "none" => analysis'[a] # "none"
         /\ analysis'[a] = "open" => analysis[a] = "open" \/ AnalysisStarts(a)
         /\ analysis'[a] = "locked" => analysis[a] = "locked" \/ AnalysisLocks(a)
         /\ analysis'[a] = "analysing" => analysis[a] = "analysing" \/ AnalysisHolds(a)
         /\ analysis'[a] = "publishing" => analysis[a] \in {"analysing", "publishing"}
         /\ analysis[a] \in {"marking", "gone"} => analysis'[a] \in {"marking", "gone"}
         /\ heard'[a] # heard[a] => AnalysisHolds(a)
         /\ analysis[a] \in Leased /\ analysis'[a] \notin Leased =>
              \A m \in Materials : exclusive'[m] # a
<1> DEFINE Goal ==
         /\ analysis[a] # "none" => analysis'[a] # "none"
         /\ analysis'[a] = "open" => analysis[a] = "open" \/ AnalysisStarts(a)
         /\ analysis'[a] = "locked" => analysis[a] = "locked" \/ AnalysisLocks(a)
         /\ analysis'[a] = "analysing" => analysis[a] = "analysing" \/ AnalysisHolds(a)
         /\ analysis'[a] = "publishing" => analysis[a] \in {"analysing", "publishing"}
         /\ analysis[a] \in {"marking", "gone"} => analysis'[a] \in {"marking", "gone"}
         /\ heard'[a] # heard[a] => AnalysisHolds(a)
         /\ analysis[a] \in Leased /\ analysis'[a] \notin Leased =>
              \A m \in Materials : exclusive'[m] # a
<1>0. Nil # a
  BY CatalogAssumption
<1>1. ASSUME UNCHANGED <<analysis, heard>> PROVE Goal
  BY <1>1
<1>2. ASSUME NEW n \in Materials, ImportTurn(n) PROVE Goal
  BY <1>1, <1>2 DEF ImportTurn, AddMaterial, ImportLocks, AttachSubtitle, ImportUnlocks, ImportSubmits,
     ImportFails, ImportCrashes, analysisVars
<1>3. ASSUME NEW n \in Materials, Tamper(n) \/ DropReference(n) \/ RequeueLooks(n) \/ RequeueSubmits(n)
      PROVE  Goal
  BY <1>1, <1>3 DEF Tamper, DropReference, RequeueLooks, RequeueSubmits, analysisVars
<1>4. ASSUME NEW b \in Attempts, AnalysisTurn(b) \/ AnalysisCrashes(b) PROVE Goal
  <2>1. CASE b # a
    <3>1. ASSUME NEW where, AnalysisGoesTo(b, where) PROVE analysis'[a] = analysis[a]
      BY <2>1, <3>1 DEF AnalysisGoesTo, CatalogTypes, WorkTypes
    <3>2. \E where : AnalysisGoesTo(b, where)
      BY <1>4 DEF AnalysisTurn, AnalysisStarts, AnalysisLocks, AnalysisHolds, AnalysisStages,
         PublishAnalysis, AnalysisCompletes, AnalysisSeesStop, AnalysisFails, AnalysisDecides,
         AnalysisMarks, AnalysisCrashes, AnalysisLeaves
    <3>3. CASE AnalysisHolds(b)
      <4>1. heard'[a] = heard[a]
        BY <2>1, <3>3 DEF AnalysisHolds, CatalogTypes, WorkTypes
      <4>2. QED
        BY <3>1, <3>2, <4>1
    <3>4. heard'[a] = heard[a]
      BY <1>4, <3>3, <2>1 DEF AnalysisTurn, AnalysisStarts, AnalysisLocks, AnalysisHolds, AnalysisStages,
         PublishAnalysis, AnalysisCompletes, AnalysisSeesStop, AnalysisFails, AnalysisDecides,
         AnalysisMarks, AnalysisCrashes, AnalysisLeaves, analysisVars, CatalogTypes, WorkTypes
    <3>5. QED
      BY <3>1, <3>2, <3>4
  <2>2. CASE b = a
    <3>1. ASSUME NEW where, AnalysisGoesTo(a, where) PROVE analysis'[a] = where
      BY <3>1 DEF AnalysisGoesTo, CatalogTypes, WorkTypes
    <3>2. ASSUME Unlock(a) PROVE \A m \in Materials : exclusive'[m] # a
      BY <1>0, <3>2 DEF Unlock, CatalogTypes, LockTypes
    <3>3. CASE AnalysisStarts(a) \/ AnalysisLocks(a) \/ AnalysisStages(a) \/ AnalysisCompletes(a)
      BY <3>1, <3>3 DEF AnalysisStarts, AnalysisLocks, AnalysisStages, AnalysisCompletes, Leased
    <3>4. CASE AnalysisHolds(a)
      <4>1. \/ analysis'[a] = "analysing"
            \/ analysis'[a] \in {"done", "failing"} /\ Unlock(a)
        BY <3>1, <3>4 DEF AnalysisHolds
      <4>2. QED
        BY <3>2, <3>4, <4>1 DEF AnalysisHolds, Leased
    <3>5. CASE PublishAnalysis(a)
      BY <3>1, <3>2, <3>5 DEF PublishAnalysis, Leased
    <3>6. CASE AnalysisSeesStop(a) \/ AnalysisFails(a) \/ AnalysisCrashes(a)
      BY <3>1, <3>2, <3>6 DEF AnalysisSeesStop, AnalysisFails, AnalysisCrashes, AnalysisLeaves, Leased
    <3>7. CASE AnalysisDecides(a) \/ AnalysisMarks(a)
      BY <3>1, <3>7 DEF AnalysisDecides, AnalysisMarks, Leased
    <3>8. QED
      BY <1>4, <2>2, <3>3, <3>4, <3>5, <3>6, <3>7 DEF AnalysisTurn
  <2>3. QED
    BY <2>1, <2>2
<1>5. ASSUME NEW b \in Attempts, AnalysisIsReaped(b) \/ StopAnalysis(b) PROVE Goal
  BY <1>1, <1>5 DEF AnalysisIsReaped, StopAnalysis, analysisVars
<1>6. ASSUME NEW c \in Consumers, ConsumerTurn(c) PROVE Goal
  BY <1>1, <1>6 DEF ConsumerTurn, ConsumerLocks, ConsumerHolds, CommitReference, ConsumerUnlocks,
     analysisVars
<1>7. ASSUME NEW d \in Deleters, DeletionTurn(d) \/ DeleteCrashes(d) PROVE Goal
  BY <1>1, <1>7 DEF DeletionTurn, DeleteLooks, DeleteRecords, DeleteChecks, DeleteLocks,
     DeleteChecksAgain, DeleteRenames, DeleteUnlists, DeleteRestores, DeleteRemoves, DeletePurges,
     DeleteFails, DeleteCrashes, analysisVars
<1>8. CASE UNCHANGED catalogVars
  BY <1>1, <1>8 DEF catalogVars, analysisVars
<1>9. QED
  BY <1>2, <1>3, <1>4, <1>5, <1>6, <1>7, <1>8 DEF CatalogNext

\* A lock is taken while nobody has it, and given back by its holder.
LEMMA LockSteps ==
  ASSUME CatalogTypes, [CatalogNext]_catalogVars, NEW m \in Materials
  PROVE  \/ exclusive'[m] = exclusive[m]
         \/ /\ exclusive[m] # Nil /\ exclusive'[m] = Nil
            /\ \/ exclusive[m] \in Attempts /\ analysis'[exclusive[m]] \notin Leased
               \/ exclusive[m] \in Materials /\ import'[exclusive[m]] \notin {"leased", "released"}
               \/ /\ exclusive[m] \in Deleters /\ deletion[exclusive[m]] # "idle"
                  /\ deletion'[exclusive[m]] \in {"idle", "purging"}
         \/ /\ LockFree(m)
            /\ \/ ImportLocks(m) /\ exclusive'[m] = m
               \/ \E a \in Attempts : AnalysisLocks(a) /\ attOwner[a] = m /\ exclusive'[m] = a
               \/ \E d \in Deleters : DeleteLocks(d) /\ deletes[d] = m /\ exclusive'[m] = d
<1> DEFINE Given ==
         /\ exclusive[m] # Nil /\ exclusive'[m] = Nil
         /\ \/ exclusive[m] \in Attempts /\ analysis'[exclusive[m]] \notin Leased
            \/ exclusive[m] \in Materials /\ import'[exclusive[m]] \notin {"leased", "released"}
            \/ /\ exclusive[m] \in Deleters /\ deletion[exclusive[m]] # "idle"
               /\ deletion'[exclusive[m]] \in {"idle", "purging"}
<1> DEFINE Taken ==
         /\ LockFree(m)
         /\ \/ ImportLocks(m) /\ exclusive'[m] = m
            \/ \E a \in Attempts : AnalysisLocks(a) /\ attOwner[a] = m /\ exclusive'[m] = a
            \/ \E d \in Deleters : DeleteLocks(d) /\ deletes[d] = m /\ exclusive'[m] = d
<1> DEFINE Goal == exclusive'[m] = exclusive[m] \/ Given \/ Taken
<1> USE DEF CatalogTypes
<1>1. ASSUME exclusive' = exclusive PROVE Goal
  BY <1>1
<1>2. ASSUME NEW who \in Holders, Unlock(who)
      PROVE  \/ exclusive'[m] = exclusive[m]
             \/ exclusive[m] = who /\ exclusive'[m] = Nil /\ exclusive[m] # Nil
  BY <1>2, CatalogAssumption, StoreAssumption DEF Unlock, LockTypes, Holders, Owners
<1>3. ASSUME NEW n \in Materials, NEW who \in Holders, Lock(n, who)
      PROVE  exclusive'[m] = IF m = n THEN who ELSE exclusive[m]
  BY <1>3 DEF Lock, LockTypes
<1>4. /\ \A n \in Materials : n \in Holders
      /\ \A a \in Attempts : a \in Holders
      /\ \A d \in Deleters : d \in Holders
  BY DEF Holders, Deleters
<1>5. ASSUME NEW n \in Materials, ImportTurn(n) PROVE Goal
  <2>1. CASE ImportLocks(n)
    <3>1. CASE n = m
      BY <1>3, <1>4, <2>1, <3>1 DEF ImportLocks
    <3>2. CASE n # m
      BY <1>3, <1>4, <2>1, <3>2 DEF ImportLocks
    <3>3. QED
      BY <3>1, <3>2
  <2>2. CASE ImportUnlocks(n) \/ ImportCrashes(n)
    <3>1. Unlock(n) /\ import'[n] \notin {"leased", "released"}
      BY <2>2 DEF ImportUnlocks, ImportCrashes, ImportGoesTo, WorkTypes
    <3>2. QED
      BY <1>2, <1>4, <3>1
  <2>3. QED
    BY <1>1, <1>5, <2>1, <2>2 DEF ImportTurn, AddMaterial, AttachSubtitle, ImportSubmits, ImportFails,
       lockVars
<1>6. ASSUME NEW n \in Materials, Tamper(n) \/ DropReference(n) \/ RequeueLooks(n) \/ RequeueSubmits(n)
      PROVE  Goal
  BY <1>1, <1>6 DEF Tamper, DropReference, RequeueLooks, RequeueSubmits, lockVars
<1>7. ASSUME NEW a \in Attempts, AnalysisTurn(a) \/ AnalysisCrashes(a) PROVE Goal
  <2>1. ASSUME Unlock(a), NEW where, AnalysisGoesTo(a, where), where \notin Leased PROVE Goal
    <3>1. analysis'[a] \notin Leased
      BY <2>1 DEF AnalysisGoesTo, WorkTypes
    <3>2. QED
      BY <1>2, <1>4, <2>1, <3>1
  <2>2. CASE AnalysisLocks(a)
    <3>1. CASE UNCHANGED lockVars
      BY <1>1, <3>1 DEF lockVars
    <3>2. CASE /\ attOwner[a] \in listed /\ LockFree(attOwner[a]) /\ Lock(attOwner[a], a)
      BY <1>3, <1>4, <2>2, <3>2 DEF DiskTypes
    <3>3. QED
      BY <2>2, <3>1, <3>2 DEF AnalysisLocks
  <2>3. CASE AnalysisHolds(a)
    <3>1. \/ UNCHANGED lockVars
          \/ Unlock(a) /\ \E where \in {"done", "failing"} : AnalysisGoesTo(a, where)
      BY <2>3 DEF AnalysisHolds
    <3>2. QED
      BY <1>1, <2>1, <3>1 DEF lockVars, Leased
  <2>4. CASE PublishAnalysis(a) \/ AnalysisSeesStop(a) \/ AnalysisFails(a) \/ AnalysisCrashes(a)
    BY <2>1, <2>4
    DEF PublishAnalysis, AnalysisSeesStop, AnalysisFails, AnalysisCrashes, AnalysisLeaves, Leased
  <2>5. QED
    BY <1>1, <1>7, <2>2, <2>3, <2>4 DEF AnalysisTurn, AnalysisStarts, AnalysisStages,
       AnalysisCompletes, AnalysisDecides, AnalysisMarks, lockVars
<1>8. ASSUME NEW a \in Attempts, AnalysisIsReaped(a) \/ StopAnalysis(a) PROVE Goal
  BY <1>1, <1>8 DEF AnalysisIsReaped, StopAnalysis, lockVars
<1>9. ASSUME NEW c \in Consumers, ConsumerTurn(c) PROVE Goal
  BY <1>1, <1>9 DEF ConsumerTurn, ConsumerLocks, ConsumerHolds, CommitReference, ConsumerUnlocks,
     lockVars
<1>10. ASSUME NEW d \in Deleters, DeletionTurn(d) \/ DeleteCrashes(d) PROVE Goal
  <2>1. CASE DeleteLocks(d)
    <3>1. CASE UNCHANGED lockVars
      BY <1>1, <3>1 DEF lockVars
    <3>2. CASE LockFree(deletes[d]) /\ Lock(deletes[d], d)
      <4>1. deletes[d] \in Materials
        BY <2>1 DEF DeleteLocks, DeletionTypes
      <4>2. QED
        BY <1>3, <1>4, <2>1, <3>2, <4>1
    <3>3. QED
      BY <2>1, <3>1, <3>2 DEF DeleteLocks
  <2>2. CASE DeleteRestores(d) \/ DeleteRemoves(d) \/ DeleteFails(d) \/ DeleteCrashes(d)
    <3>1. Unlock(d) /\ deletion[d] # "idle" /\ deletion'[d] \in {"idle", "purging"}
      BY <2>2 DEF DeleteRestores, DeleteRemoves, DeleteFails, DeleteCrashes, DeletionLeaves,
         DeletionGoesTo, DeletionTypes
    <3>2. QED
      BY <1>2, <1>4, <3>1
  <2>3. QED
    BY <1>1, <1>10, <2>1, <2>2 DEF DeletionTurn, DeleteLooks, DeleteRecords, DeleteChecks,
       DeleteChecksAgain, DeleteRenames, DeleteUnlists, DeletePurges, lockVars
<1>11. CASE UNCHANGED catalogVars
  BY <1>1, <1>11 DEF catalogVars, lockVars
<1>12. QED
  BY <1>5, <1>6, <1>7, <1>8, <1>9, <1>10, <1>11 DEF CatalogNext

\* Shared locks come and go with their consumers.
LEMMA ConsumerSteps ==
  ASSUME CatalogTypes, [CatalogNext]_catalogVars
  PROVE  \/ UNCHANGED <<sharing, consuming, consumes>>
         \/ \E c \in Consumers, m \in Materials :
              /\ ConsumerLocks(c, m) /\ UNCHANGED exclusive
              /\ sharing' = [sharing EXCEPT ![m] = @ \cup {c}]
              /\ consuming' = [consuming EXCEPT ![c] = "locked"]
              /\ consumes' = [consumes EXCEPT ![c] = m]
         \/ \E c \in Consumers :
              /\ ConsumerUnlocks(c) /\ UNCHANGED exclusive /\ consumes[c] \in Materials
              /\ sharing' = [sharing EXCEPT ![consumes[c]] = @ \ {c}]
              /\ consuming' = [consuming EXCEPT ![c] = "idle"]
              /\ consumes' = [consumes EXCEPT ![c] = Nil]
         \/ \E c \in Consumers :
              /\ ConsumerHolds(c) /\ UNCHANGED <<exclusive, sharing, consumes>>
              /\ consuming' = [consuming EXCEPT ![c] = "holding"]
<1> USE DEF CatalogTypes, lockVars, consumerVars
<1>1. ASSUME NEW n \in Materials, ImportTurn(n) PROVE UNCHANGED <<sharing, consuming, consumes>>
  BY <1>1 DEF ImportTurn, AddMaterial, ImportLocks, AttachSubtitle, ImportUnlocks, ImportSubmits,
     ImportFails, ImportCrashes, Lock, Unlock
<1>2. ASSUME NEW n \in Materials, Tamper(n) \/ DropReference(n) \/ RequeueLooks(n) \/ RequeueSubmits(n)
      PROVE  UNCHANGED <<sharing, consuming, consumes>>
  BY <1>2 DEF Tamper, DropReference, RequeueLooks, RequeueSubmits
<1>3. ASSUME NEW a \in Attempts,
             AnalysisTurn(a) \/ AnalysisCrashes(a) \/ AnalysisIsReaped(a) \/ StopAnalysis(a)
      PROVE  UNCHANGED <<sharing, consuming, consumes>>
  BY <1>3 DEF AnalysisTurn, AnalysisStarts, AnalysisLocks, AnalysisHolds, AnalysisStages,
     PublishAnalysis, AnalysisCompletes, AnalysisSeesStop, AnalysisFails, AnalysisDecides,
     AnalysisMarks, AnalysisCrashes, AnalysisIsReaped, StopAnalysis, AnalysisLeaves, Lock, Unlock
<1>4. ASSUME NEW d \in Deleters, DeletionTurn(d) \/ DeleteCrashes(d)
      PROVE  UNCHANGED <<sharing, consuming, consumes>>
  BY <1>4 DEF DeletionTurn, DeleteLooks, DeleteRecords, DeleteChecks, DeleteLocks,
     DeleteChecksAgain, DeleteRenames, DeleteUnlists, DeleteRestores, DeleteRemoves, DeletePurges,
     DeleteFails, DeleteCrashes, DeletionLeaves, Lock, Unlock
<1>5. ASSUME NEW c \in Consumers, ConsumerUnlocks(c)
      PROVE  /\ ConsumerUnlocks(c) /\ UNCHANGED exclusive /\ consumes[c] \in Materials
             /\ sharing' = [sharing EXCEPT ![consumes[c]] = @ \ {c}]
             /\ consuming' = [consuming EXCEPT ![c] = "idle"]
             /\ consumes' = [consumes EXCEPT ![c] = Nil]
  BY <1>5 DEF ConsumerUnlocks, ConsumerGoesTo, WorkTypes
<1>6. ASSUME NEW c \in Consumers, NEW m \in Materials, ConsumerLocks(c, m)
      PROVE  /\ ConsumerLocks(c, m) /\ UNCHANGED exclusive
             /\ sharing' = [sharing EXCEPT ![m] = @ \cup {c}]
             /\ consuming' = [consuming EXCEPT ![c] = "locked"]
             /\ consumes' = [consumes EXCEPT ![c] = m]
  BY <1>6 DEF ConsumerLocks, ConsumerGoesTo
<1>7. ASSUME NEW c \in Consumers, ConsumerHolds(c)
      PROVE  /\ ConsumerHolds(c) /\ UNCHANGED <<exclusive, sharing, consumes>>
             /\ consuming' = [consuming EXCEPT ![c] = "holding"]
  BY <1>7 DEF ConsumerHolds, ConsumerGoesTo
<1>8. ASSUME NEW c \in Consumers, CommitReference(c) PROVE UNCHANGED <<sharing, consuming, consumes>>
  BY <1>8 DEF CommitReference
<1>9. CASE UNCHANGED catalogVars
  BY <1>9 DEF catalogVars
<1>10. QED
  BY <1>1, <1>2, <1>3, <1>4, <1>5, <1>6, <1>7, <1>8, <1>9 DEF CatalogNext, ConsumerTurn
-----------------------------------------------------------------------------
(* The discipline of the locks. *)

LEMMA HoldersApart ==
  /\ Materials \cap Attempts = {} /\ Deletions \cap Attempts = {} /\ Deletions \cap Materials = {}
  /\ Nil \notin Materials /\ Nil \notin Attempts /\ Nil \notin Deletions
  BY CatalogAssumption, StoreAssumption DEF Owners

LEMMA LocksNext ==
  ASSUME CatalogTypes, Reached, Locks, [CatalogNext]_catalogVars
  PROVE  Locks'
<1> USE HoldersApart
<1>1. ASSUME NEW m \in Materials, exclusive'[m] # Nil PROVE sharing'[m] = {}
  <2>1. CASE sharing' = sharing
    BY <1>1, <2>1, LockSteps DEF Locks, LockFree
  <2>2. ASSUME NEW c \in Consumers, NEW n \in Materials, ConsumerLocks(c, n), exclusive' = exclusive,
               sharing' = [sharing EXCEPT ![n] = @ \cup {c}]
        PROVE  sharing'[m] = {}
    BY <1>1, <2>2 DEF ConsumerLocks, Locks, CatalogTypes, LockTypes
  <2>3. ASSUME NEW c \in Consumers, exclusive' = exclusive, consumes[c] \in Materials,
               sharing' = [sharing EXCEPT ![consumes[c]] = @ \ {c}]
        PROVE  sharing'[m] = {}
    BY <1>1, <2>3 DEF Locks, CatalogTypes, LockTypes
  <2>4. QED
    BY <2>1, <2>2, <2>3, ConsumerSteps
<1>2. ASSUME NEW m \in Materials, NEW e \in Consumers
      PROVE  e \in sharing'[m] <=> consuming'[e] # "idle" /\ consumes'[e] = m
  <2>0. e \in sharing[m] <=> consuming[e] # "idle" /\ consumes[e] = m
    BY DEF Locks
  <2>1. CASE UNCHANGED <<sharing, consuming, consumes>>
    BY <2>0, <2>1
  <2>2. ASSUME NEW c \in Consumers, NEW n \in Materials, ConsumerLocks(c, n),
               sharing' = [sharing EXCEPT ![n] = @ \cup {c}],
               consuming' = [consuming EXCEPT ![c] = "locked"], consumes' = [consumes EXCEPT ![c] = n]
        PROVE  e \in sharing'[m] <=> consuming'[e] # "idle" /\ consumes'[e] = m
    BY <2>0, <2>2 DEF ConsumerLocks, CatalogTypes, LockTypes, WorkTypes
  <2>3. ASSUME NEW c \in Consumers, ConsumerUnlocks(c), consumes[c] \in Materials,
               sharing' = [sharing EXCEPT ![consumes[c]] = @ \ {c}],
               consuming' = [consuming EXCEPT ![c] = "idle"], consumes' = [consumes EXCEPT ![c] = Nil]
        PROVE  e \in sharing'[m] <=> consuming'[e] # "idle" /\ consumes'[e] = m
    BY <2>0, <2>3 DEF CatalogTypes, LockTypes, WorkTypes
  <2>4. ASSUME NEW c \in Consumers, ConsumerHolds(c), UNCHANGED <<sharing, consumes>>,
               consuming' = [consuming EXCEPT ![c] = "holding"]
        PROVE  e \in sharing'[m] <=> consuming'[e] # "idle" /\ consumes'[e] = m
    BY <2>0, <2>4 DEF ConsumerHolds, CatalogTypes, WorkTypes
  <2>5. QED
    BY <2>1, <2>2, <2>3, <2>4, ConsumerSteps
<1>3. ASSUME NEW m \in Materials, import'[m] \in {"leased", "released"} PROVE exclusive'[m] = m
  <2>1. CASE ImportLocks(m)
    BY <2>1 DEF ImportLocks, Lock, CatalogTypes, LockTypes
  <2>2. CASE import'[m] = import[m]
    <3>1. exclusive[m] = m
      BY <1>3, <2>2 DEF Locks
    <3>2. m \in Deleters => deletion[m] = "idle"
      BY <1>3, <2>2 DEF Reached
    <3>3. QED
      BY <1>3, <3>1, <3>2, LockSteps DEF LockFree
  <2>3. QED
    BY <1>3, <2>1, <2>2, ImportSteps DEF CatalogTypes
<1>4. ASSUME NEW a \in Attempts, AnalysisLocks(a), NEW m \in Materials, exclusive'[m] = a
      PROVE  analysis'[a] \in Leased /\ attOwner[a] = m
  <2>1. analysis[a] = "open"
    BY <1>4 DEF AnalysisLocks
  <2>2. \A n \in Materials : exclusive[n] # a
    BY <2>1 DEF Locks, Leased
  <2>3. \/ Lock(attOwner[a], a) /\ AnalysisGoesTo(a, "locked")
        \/ UNCHANGED lockVars
    BY <1>4 DEF AnalysisLocks
  <2>4. QED
    BY <1>4, <2>2, <2>3 DEF Lock, AnalysisGoesTo, lockVars, Leased, CatalogTypes, LockTypes, WorkTypes
<1>5. ASSUME NEW a \in Attempts, NEW m \in Materials, exclusive'[m] = a
      PROVE  exclusive[m] = a \/ AnalysisLocks(a)
  <2>1. ASSUME NEW d \in Deleters, deletion[d] # "idle" PROVE d # a
    BY <2>1 DEF Deleters
  <2>2. ASSUME NEW d \in Deleters, DeleteLocks(d) PROVE d # a
    BY DEF Deleters
  <2>3. QED
    BY <1>5, <2>2, LockSteps
<1>6. ASSUME NEW a \in Attempts, NEW m \in Materials, exclusive'[m] = a
      PROVE  /\ analysis'[a] \in Leased
             /\ \A n \in Materials : exclusive'[n] = a => n = m
  <2>1. CASE AnalysisLocks(a)
    BY <1>4, <1>6, <2>1
  <2>2. CASE ~AnalysisLocks(a)
    <3>1. \A n \in Materials : exclusive'[n] = a => exclusive[n] = a
      BY <1>5, <2>2
    <3>2. analysis[a] \in Leased
      BY <1>6, <3>1 DEF Locks
    <3>3. analysis'[a] \in Leased
      BY <1>6, <3>2, AnalysisSteps
    <3>4. QED
      BY <1>6, <3>1, <3>3 DEF Locks
  <2>3. QED
    BY <2>1, <2>2
<1>7. ASSUME NEW a \in Attempts, analysis'[a] \in Leased PROVE \E m \in Materials : exclusive'[m] = a
  <2>1. CASE analysis[a] \in Leased
    <3>1. PICK m \in Materials : exclusive[m] = a
      BY <2>1 DEF Locks
    <3>2. a \notin Deleters
      BY DEF Deleters
    <3>3. exclusive'[m] = a
      BY <1>7, <3>1, <3>2, LockSteps DEF LockFree
    <3>4. QED
      BY <3>3
  <2>2. CASE AnalysisLocks(a) /\ analysis'[a] = "locked"
    <3>1. attOwner[a] \in listed /\ Lock(attOwner[a], a)
      BY <2>2 DEF AnalysisLocks, AnalysisGoesTo, CatalogTypes, WorkTypes
    <3>2. QED
      BY <3>1 DEF Lock, CatalogTypes, DiskTypes, LockTypes
  <2>3. QED
    BY <1>7, <2>1, <2>2, AnalysisSteps DEF Leased, AnalysisHolds
<1>8. QED
  BY <1>1, <1>2, <1>3, <1>6, <1>7 DEF Locks

-----------------------------------------------------------------------------
(* Results and sidecars. *)

\* What a step may change of the memory of a material.
LEMMA MemorySteps ==
  ASSUME CatalogTypes, Locks, [CatalogNext]_catalogVars, NEW m \in Materials
  PROVE  \/ result'[m] = result[m] /\ subtitle'[m] = subtitle[m]
         \/ AttachSubtitle(m) /\ result'[m] = result[m] /\ subtitle'[m] = "file"
         \/ /\ ImportUnlocks(m) /\ result'[m] = result[m]
            /\ subtitle'[m] = IF subtitle[m] = "file" THEN subtitle'[m] ELSE subtitle[m]
         \/ \E a \in Attempts :
              /\ PublishAnalysis(a) /\ exclusive[m] = a /\ Consistent(m)
              /\ result'[m] = a /\ subtitle'[m] = subtitle[m]
         \/ \E d \in Deleters : DeleteRemoves(d) /\ deletes[d] = m /\ result'[m] = Nil
<1> DEFINE Goal ==
         \/ result'[m] = result[m] /\ subtitle'[m] = subtitle[m]
         \/ AttachSubtitle(m) /\ result'[m] = result[m] /\ subtitle'[m] = "file"
         \/ /\ ImportUnlocks(m) /\ result'[m] = result[m]
            /\ subtitle'[m] = IF subtitle[m] = "file" THEN subtitle'[m] ELSE subtitle[m]
         \/ \E a \in Attempts :
              /\ PublishAnalysis(a) /\ exclusive[m] = a /\ Consistent(m)
              /\ result'[m] = a /\ subtitle'[m] = subtitle[m]
         \/ \E d \in Deleters : DeleteRemoves(d) /\ deletes[d] = m /\ result'[m] = Nil
<1> USE DEF CatalogTypes
<1>1. ASSUME UNCHANGED <<result, subtitle>> PROVE Goal
  BY <1>1
<1>2. ASSUME NEW n \in Materials, ImportTurn(n) PROVE Goal
  <2>1. CASE AttachSubtitle(n)
    <3>1. result' = result /\ subtitle' = [subtitle EXCEPT ![n] = "file"]
      BY <2>1 DEF AttachSubtitle
    <3>2. QED
      BY <2>1, <3>1 DEF DiskTypes
  <2>2. CASE ImportUnlocks(n)
    <3>1. /\ result' = result
          /\ \/ subtitle[n] \in {"file", "bound"} /\ subtitle' = [subtitle EXCEPT ![n] = "bound"]
             \/ subtitle' = [subtitle EXCEPT ![n] = IF @ = "file" THEN "none" ELSE @]
      BY <2>2 DEF ImportUnlocks
    <3>2. QED
      BY <2>2, <3>1 DEF DiskTypes
  <2>3. QED
    BY <1>1, <1>2, <2>1, <2>2 DEF ImportTurn, AddMaterial, ImportLocks, ImportSubmits, ImportFails,
       ImportCrashes, diskVars
<1>3. ASSUME NEW n \in Materials, Tamper(n) \/ DropReference(n) \/ RequeueLooks(n) \/ RequeueSubmits(n)
      PROVE  Goal
  BY <1>1, <1>3 DEF Tamper, DropReference, RequeueLooks, RequeueSubmits, diskVars
<1>4. ASSUME NEW a \in Attempts,
             AnalysisTurn(a) \/ AnalysisCrashes(a) \/ AnalysisIsReaped(a) \/ StopAnalysis(a)
      PROVE  Goal
  <2>1. CASE PublishAnalysis(a)
    <3> DEFINE n == CHOOSE x \in Materials : exclusive[x] = a
    <3>1. n \in Materials /\ exclusive[n] = a
      BY <2>1, Lease DEF PublishAnalysis, Leased
    <3>2. Consistent(n) /\ result' = [result EXCEPT ![n] = a] /\ subtitle' = subtitle
      BY <2>1 DEF PublishAnalysis
    <3> HIDE DEF n
    <3>3. CASE n = m
      BY <2>1, <3>1, <3>2, <3>3 DEF DiskTypes
    <3>4. CASE n # m
      BY <3>1, <3>2, <3>4 DEF DiskTypes
    <3>5. QED
      BY <3>3, <3>4
  <2>2. QED
    BY <1>1, <1>4, <2>1 DEF AnalysisTurn, AnalysisStarts, AnalysisLocks, AnalysisHolds, AnalysisStages,
       AnalysisCompletes, AnalysisSeesStop, AnalysisFails, AnalysisDecides, AnalysisMarks,
       AnalysisCrashes, AnalysisIsReaped, StopAnalysis, AnalysisLeaves, diskVars
<1>5. ASSUME NEW c \in Consumers, ConsumerTurn(c) PROVE Goal
  BY <1>1, <1>5 DEF ConsumerTurn, ConsumerLocks, ConsumerHolds, CommitReference, ConsumerUnlocks,
     diskVars
<1>6. ASSUME NEW d \in Deleters, DeletionTurn(d) \/ DeleteCrashes(d) PROVE Goal
  <2>1. CASE DeleteRemoves(d)
    <3>1. result' = [result EXCEPT ![deletes[d]] = Nil] /\ subtitle' = [subtitle EXCEPT ![deletes[d]] = "none"]
      BY <2>1 DEF DeleteRemoves
    <3>2. QED
      BY <2>1, <3>1 DEF DiskTypes
  <2>2. QED
    BY <1>1, <1>6, <2>1 DEF DeletionTurn, DeleteLooks, DeleteRecords, DeleteChecks, DeleteLocks,
       DeleteChecksAgain, DeleteRenames, DeleteUnlists, DeleteRestores, DeletePurges, DeleteFails,
       DeleteCrashes, diskVars
<1>7. CASE UNCHANGED catalogVars
  BY <1>1, <1>7 DEF catalogVars, diskVars
<1>8. QED
  BY <1>2, <1>3, <1>4, <1>5, <1>6, <1>7 DEF CatalogNext

LEMMA MemoriesNext ==
  ASSUME CatalogTypes, NothingToAnalyse, Reached, Locks, Memories, [CatalogNext]_catalogVars
  PROVE  Memories'
<1> USE HoldersApart DEF CatalogTypes
<1> SUFFICES ASSUME NEW m \in Materials, NEW a \in Attempts
             PROVE  /\ exclusive'[m] = a /\ analysis'[a] # "locked" /\ m \in listed' =>
                         heard'[a] = subtitle'[m] /\ subtitle'[m] # "file"
                    /\ result'[m] = a => analysis'[a] \notin Leased \cup {"none", "open"}
                    /\ result'[m] = a /\ m \in listed' =>
                         heard'[a] = subtitle'[m] /\ subtitle'[m] # "file"
  BY DEF Memories
<1>0. exclusive'[m] = a => exclusive[m] = a \/ AnalysisLocks(a)
  <2>1. a \notin Deleters
    BY DEF Deleters
  <2>2. QED
    BY <2>1, LockSteps
<1>1. ASSUME result[m] = a PROVE analysis'[a] \notin Leased \cup {"none", "open"} /\ heard'[a] = heard[a]
  <2>1. analysis[a] \notin Leased \cup {"none", "open"}
    BY <1>1 DEF Memories
  <2>2. QED
    BY <2>1, AnalysisSteps DEF Leased, AnalysisStarts, AnalysisLocks, AnalysisHolds
<1>2. ASSUME NEW d \in Deleters, DeleteRemoves(d), deletes[d] = m PROVE m \notin listed'
  BY <1>2 DEF DeleteRemoves, Reached
<1>3. ASSUME m \in listed', m \notin listed PROVE result'[m] # a /\ exclusive'[m] # a
  <2>1. AddMaterial(m)
    BY <1>3, DiskSteps
  <2>2. UNCHANGED <<result, exclusive>> /\ import[m] \in Unsubmitted
    BY <2>1 DEF AddMaterial, lockVars, Unsubmitted
  <2>3. QED
    BY <2>2 DEF NothingToAnalyse
<1>4. ASSUME m \in listed, subtitle'[m] # subtitle[m], m \in listed'
      PROVE  exclusive[m] = m /\ (subtitle[m] = "file" \/ result[m] = Nil)
  <2>1. ~(\E d \in Deleters : DeleteRemoves(d) /\ deletes[d] = m)
    BY <1>2, <1>4
  <2>2. CASE AttachSubtitle(m)
    BY <2>2 DEF AttachSubtitle, Locks
  <2>3. CASE ImportUnlocks(m) /\ subtitle'[m] = IF subtitle[m] = "file" THEN subtitle'[m] ELSE subtitle[m]
    BY <1>4, <2>3 DEF ImportUnlocks, Locks
  <2>4. QED
    BY <1>4, <2>1, <2>2, <2>3, MemorySteps
<1>5. ASSUME exclusive'[m] = a, analysis'[a] # "locked", m \in listed'
      PROVE  heard'[a] = subtitle'[m] /\ subtitle'[m] # "file"
  <2>1. m \in listed
    BY <1>3, <1>5
  <2>2. ~AnalysisLocks(a)
    <3>1. ASSUME AnalysisLocks(a) PROVE analysis'[a] \in {"locked", "failing"}
      BY <3>1 DEF AnalysisLocks, AnalysisGoesTo, WorkTypes
    <3>2. analysis'[a] \in Leased
      BY <1>5, LocksNext DEF Locks
    <3>3. QED
      BY <1>5, <3>1, <3>2 DEF Leased
  <2>3. exclusive[m] = a /\ analysis[a] \in Leased
    BY <1>0, <1>5, <2>2 DEF Locks
  <2>4. subtitle'[m] = subtitle[m]
    BY <1>4, <1>5, <2>1, <2>3
  <2>5. CASE AnalysisHolds(a)
    <3> DEFINE n == CHOOSE x \in Materials : exclusive[x] = a
    <3>1. n = m
      BY <2>3, Lease DEF Locks
    <3>2. analysis'[a] \in Leased
      BY <1>5, LocksNext DEF Locks
    <3>3. \/ subtitle[n] # "file" /\ heard' = [heard EXCEPT ![a] = subtitle[n]]
          \/ AnalysisGoesTo(a, "failing")
      BY <2>5 DEF AnalysisHolds
    <3>4. subtitle[m] # "file" /\ heard' = [heard EXCEPT ![a] = subtitle[m]]
      BY <3>1, <3>2, <3>3 DEF AnalysisGoesTo, WorkTypes, Leased
    <3>5. QED
      BY <2>4, <3>4 DEF WorkTypes
  <2>6. CASE ~AnalysisHolds(a)
    <3>1. heard'[a] = heard[a]
      BY <2>6, AnalysisSteps
    <3>2. analysis[a] # "locked"
      <4>1. analysis'[a] \in {"analysing", "publishing"}
        BY <1>5, LocksNext DEF Locks, Leased
      <4>2. QED
        BY <2>6, <4>1, AnalysisSteps
    <3>3. QED
      BY <2>1, <2>3, <2>4, <3>1, <3>2 DEF Memories
  <2>7. QED
    BY <2>5, <2>6
<1>6. CASE result'[m] = result[m]
  <2>1. ASSUME result'[m] = a PROVE analysis'[a] \notin Leased \cup {"none", "open"}
    BY <1>1, <1>6, <2>1
  <2>2. ASSUME result'[m] = a, m \in listed' PROVE heard'[a] = subtitle'[m] /\ subtitle'[m] # "file"
    <3>1. m \in listed /\ heard'[a] = heard[a] /\ heard[a] = subtitle[m] /\ subtitle[m] # "file"
      BY <1>1, <1>3, <1>6, <2>2 DEF Memories
    <3>2. subtitle'[m] = subtitle[m]
      BY <1>4, <1>6, <2>2, <3>1
    <3>3. QED
      BY <3>1, <3>2
  <2>3. QED
    BY <1>5, <2>1, <2>2
<1>7. CASE result'[m] # result[m] /\ result'[m] = a
  <2>1. /\ PublishAnalysis(a) /\ exclusive[m] = a /\ m \in listed
        /\ subtitle'[m] = subtitle[m]
    BY <1>7, MemorySteps DEF Consistent
  <2>2. analysis[a] = "publishing" /\ analysis'[a] = "done" /\ heard' = heard
    BY <2>1 DEF PublishAnalysis, AnalysisGoesTo, WorkTypes
  <2>3. heard[a] = subtitle[m] /\ subtitle[m] # "file"
    BY <2>1, <2>2 DEF Memories
  <2>4. QED
    BY <1>5, <2>1, <2>2, <2>3 DEF Leased
<1>8. QED
  BY <1>5, <1>6, <1>7
-----------------------------------------------------------------------------
(* The attempts of materials. *)

LEMMA OneAttemptEnds ==
  ASSUME IInv, NEW b \in Attempts, NEW s, FinishAttempts({b}, s), NEW a \in Attempts
  PROVE  attOwner'[a] = attOwner[a] /\ attStatus'[a] = IF a = b THEN s ELSE attStatus[a]
  BY DEF FinishAttempts, SetAll, IInv, TypeOK

\* What the row of an attempt may become.
LEMMA AttemptSteps ==
  ASSUME IInv, CatalogTypes, [CatalogNext]_catalogVars, NEW a \in Attempts
  PROVE  \/ attOwner'[a] = attOwner[a] /\ attStatus'[a] = attStatus[a]
         \/ attOwner'[a] = Nil
         \/ /\ attStatus'[a] = "queued"
            /\ \/ ImportSubmits(attOwner'[a]) /\ attOwner'[a] \in Materials
               \/ \E b \in Attempts : attOwner[b] = attOwner'[a]
         \/ /\ attOwner'[a] = attOwner[a]
            /\ \/ AnalysisStarts(a)
               \/ attStatus'[a] \in {"interrupted", "failed"}
               \/ attStatus'[a] = "stopping" /\ attStatus[a] \in ClaimedStatuses
               \/ attStatus[a] \in ClaimedStatuses /\ analysis[a] = "done"
<1> DEFINE Goal ==
         \/ attOwner'[a] = attOwner[a] /\ attStatus'[a] = attStatus[a]
         \/ attOwner'[a] = Nil
         \/ /\ attStatus'[a] = "queued"
            /\ \/ ImportSubmits(attOwner'[a]) /\ attOwner'[a] \in Materials
               \/ \E b \in Attempts : attOwner[b] = attOwner'[a]
         \/ /\ attOwner'[a] = attOwner[a]
            /\ \/ AnalysisStarts(a)
               \/ attStatus'[a] \in {"interrupted", "failed"}
               \/ attStatus'[a] = "stopping" /\ attStatus[a] \in ClaimedStatuses
               \/ attStatus[a] \in ClaimedStatuses /\ analysis[a] = "done"
<1>1. /\ attOwner \in [Attempts -> Owners \cup {Nil}]
      /\ attStatus \in [Attempts -> AttemptStatus \cup {"absent"}]
  BY DEF IInv, TypeOK
<1>2. ASSUME NEW m \in Materials, InsertAttempt(m, Nil)
      PROVE  \/ attOwner'[a] = attOwner[a] /\ attStatus'[a] = attStatus[a]
             \/ attOwner'[a] = m /\ attStatus'[a] = "queued"
  BY <1>1, <1>2 DEF InsertAttempt
<1>3. ASSUME NEW m \in Materials, EnqueueMaterialAnalysis(m), ImportSubmits(m) PROVE Goal
  BY <1>2, <1>3, Zenon DEF EnqueueMaterialAnalysis
<1>4. ASSUME NEW m \in Materials, RequeueMaterialAnalysis(m) PROVE Goal
  BY <1>2, <1>4 DEF RequeueMaterialAnalysis
<1>5. ASSUME NEW b \in Attempts, AnalysisStarts(b) PROVE Goal
  <2>1. PICK w \in Workers : ClaimJobRow(b, w)
    BY <1>5 DEF AnalysisStarts, ClaimNextJob
  <2>2. attOwner' = attOwner /\ attStatus' = [attStatus EXCEPT ![b] = "running"]
    BY <2>1 DEF ClaimJobRow
  <2>3. CASE a = b
    BY <1>5, <2>2, <2>3, Zenon
  <2>4. CASE a # b
    BY <1>1, <2>2, <2>4
  <2>5. QED
    BY <2>3, <2>4
<1>6. ASSUME NEW b \in Attempts, RequestStop(b) PROVE Goal
  <2>1. CASE FinishAttempts({b}, "interrupted")
    BY <2>1, OneAttemptEnds
  <2>2. CASE /\ attStatus[b] \in ClaimedStatuses /\ attOwner' = attOwner
             /\ attStatus' = [attStatus EXCEPT ![b] = "stopping"]
    BY <1>1, <2>2
  <2>3. QED
    BY <1>6, <2>1, <2>2 DEF RequestStop
<1>7. ASSUME NEW b \in Attempts, CompleteMaterialAttempt(b), analysis[b] = "done" PROVE Goal
  BY <1>7, OneAttemptEnds DEF CompleteMaterialAttempt, TransitionAttempt
<1>8. ASSUME NEW b \in Attempts, MarkAttemptInterrupted(b) \/ MarkAttemptFailed(b) PROVE Goal
  BY <1>8, OneAttemptEnds DEF MarkAttemptInterrupted, MarkAttemptFailed, TransitionAttempt
<1>9. ASSUME NEW d \in Deleters, DeletePurges(d) PROVE Goal
  <2>1. attOwner'[a] = Nil \/ (attOwner'[a] = attOwner[a] /\ attStatus'[a] = attStatus[a])
    BY <1>1, <1>9 DEF DeletePurges, PurgeMaterialAttempts, DeleteFamily, SetAll
  <2>2. QED
    BY <2>1
<1>10. CASE UNCHANGED vars
  BY <1>10 DEF vars, attemptVars
<1>11. QED
  BY <1>3, <1>4, <1>5, <1>6, <1>7, <1>8, <1>9, <1>10, StepRows DEF RowStep

LEMMA NothingToAnalyseNext ==
  ASSUME IInv, CatalogTypes, NothingToAnalyse, Locks, [CatalogNext]_catalogVars
  PROVE  NothingToAnalyse'
<1> SUFFICES ASSUME NEW m \in Materials, import'[m] \in Unsubmitted
             PROVE  /\ result'[m] = Nil /\ exclusive'[m] \notin Attempts
                    /\ \A a \in Attempts : attOwner'[a] # m
  BY DEF NothingToAnalyse
<1> USE HoldersApart
<1>1. import[m] \in Unsubmitted
  BY ImportSteps DEF CatalogTypes
<1>2. result[m] = Nil /\ exclusive[m] \notin Attempts /\ \A a \in Attempts : attOwner[a] # m
  BY <1>1 DEF NothingToAnalyse
<1>3. result'[m] = Nil
  BY <1>2, MemorySteps
<1>4. exclusive'[m] \notin Attempts
  <2>1. \A d \in Deleters : d \notin Attempts
    BY DEF Deleters
  <2>2. QED
    BY <1>2, <2>1, LockSteps
<1>5. ASSUME NEW a \in Attempts, attOwner'[a] = m PROVE FALSE
  <2>1. ~ImportSubmits(m)
    BY DEF ImportSubmits, ImportGoesTo, CatalogTypes, WorkTypes, Unsubmitted
  <2>2. ~ImportSubmits(attOwner'[a])
    BY <1>5, <2>1, Zenon
  <2>3. QED
    BY <1>2, <1>5, <2>2, AttemptSteps
<1>6. QED
  BY <1>3, <1>4, <1>5

LEMMA DoomedNext ==
  ASSUME IInv, CatalogTypes, Reached, Doomed, [CatalogNext]_catalogVars
  PROVE  Doomed'
<1> SUFFICES ASSUME NEW d \in Deleters, NEW a \in Attempts,
                    deletion'[d] = "answered", attOwner'[a] = deletes'[d]
             PROVE  /\ attStatus'[a] # "complete"
                    /\ attStatus'[a] \in ClaimedStatuses => analysis'[a] \in {"marking", "gone"}
  BY DEF Doomed
<1> USE HoldersApart DEF CatalogTypes
<1>1. CASE DeletePurges(d)
  <2>1. deletes[d] \in Materials /\ deletes'[d] = deletes[d]
    BY <1>1 DEF DeletePurges, DeletionTypes
  <2>2. attOwner'[a] # deletes[d]
    BY <1>1, <2>1 DEF DeletePurges, PurgeMaterialAttempts, DeleteFamily, SetAll, IInv, TypeOK
  <2>3. QED
    BY <2>1, <2>2
<1>2. CASE deletion[d] = "answered" /\ deletes'[d] = deletes[d]
  <2>1. deletes[d] \in Materials /\ deletes[d] \notin listed
    BY <1>2 DEF Reached, DeletionTypes
  <2>2. "queued" # "complete" /\ "queued" \notin ClaimedStatuses /\ "interrupted" \notin ClaimedStatuses
        /\ "failed" \notin ClaimedStatuses
    BY DEF ClaimedStatuses
  <2>3. CASE attOwner'[a] = attOwner[a]
    <3>0. /\ attStatus[a] # "complete"
          /\ attStatus[a] \in ClaimedStatuses => analysis[a] \in {"marking", "gone"}
      BY <1>2, <2>3 DEF Doomed
    <3>1. CASE AnalysisStarts(a)
      <4>1. attOwner[a] \notin listed
        BY <1>2, <2>1, <2>3
      <4>2. analysis'[a] = "marking"
        BY <3>1, <4>1 DEF AnalysisStarts, AnalysisGoesTo, WorkTypes
      <4>3. PICK w \in Workers : ClaimJobRow(a, w)
        BY <3>1 DEF AnalysisStarts, ClaimNextJob
      <4>4. attStatus'[a] = "running"
        BY <4>3 DEF ClaimJobRow, IInv, TypeOK
      <4>5. QED
        BY <4>2, <4>4
    <3>2. CASE attStatus'[a] = attStatus[a]
      BY <3>0, <3>2, AnalysisSteps
    <3>3. CASE attStatus'[a] \in {"interrupted", "failed", "queued"}
      BY <2>2, <3>3
    <3>4. CASE attStatus'[a] = "stopping" /\ attStatus[a] \in ClaimedStatuses
      BY <3>0, <3>4, AnalysisSteps
    <3>5. CASE attStatus[a] \in ClaimedStatuses /\ analysis[a] = "done"
      BY <3>0, <3>5
    <3>6. attOwner'[a] # Nil
      BY <1>2, <2>1
    <3>7. QED
      BY <3>1, <3>2, <3>3, <3>4, <3>5, <3>6, AttemptSteps
  <2>4. CASE attOwner'[a] # attOwner[a]
    BY <1>2, <2>1, <2>2, <2>4, AttemptSteps
  <2>5. QED
    BY <2>3, <2>4
<1>3. QED
  BY <1>1, <1>2, DeletionSteps, DeletionTurns

-----------------------------------------------------------------------------
(* The invariant that holds whichever writes fail. *)

CatalogInvariant == IInv /\ CatalogInv

LEMMA InitCatalogInvariant == CatalogInit => CatalogInvariant
<1> SUFFICES ASSUME CatalogInit PROVE CatalogInvariant
  OBVIOUS
<1>1. IInv
  BY InitIInv DEF CatalogInit
<1>2. DiskTypes /\ LockTypes /\ WorkTypes /\ DeletionTypes
  BY InitCatalogTypes
<1>3. Listing /\ Reached /\ OneRemoval
  BY HoldersApart DEF CatalogInit, Listing, Reached, OneRemoval
<1>4. NothingToAnalyse
  BY HoldersApart DEF CatalogInit, Init, NothingToAnalyse
<1>5. Locks
  BY HoldersApart DEF CatalogInit, Locks, Leased
<1>6. Memories /\ Doomed
  BY HoldersApart DEF CatalogInit, Memories, Doomed
<1>7. QED
  BY <1>1, <1>2, <1>3, <1>4, <1>5, <1>6 DEF CatalogInvariant, CatalogInv

LEMMA NextCatalogInvariant ==
  ASSUME CatalogInvariant, [CatalogNext]_catalogVars
  PROVE  CatalogInvariant'
<1> USE DEF CatalogInvariant, CatalogInv
<1>0. CatalogTypes
  BY DEF CatalogTypes
<1>1. IInv'
  BY RowsAreTheStores, NextIInv
<1>2. DiskTypes' /\ LockTypes' /\ WorkTypes' /\ DeletionTypes'
  BY TypesNext
<1>3. Listing' /\ Reached' /\ OneRemoval'
  BY <1>0, ListingNext, ReachedNext, OneRemovalNext
<1>4. NothingToAnalyse' /\ Locks' /\ Memories' /\ Doomed'
  BY <1>0, NothingToAnalyseNext, LocksNext, MemoriesNext, DoomedNext
<1>5. QED
  BY <1>1, <1>2, <1>3, <1>4
-----------------------------------------------------------------------------
(* References. *)

\* The manifest can be written by every command that deletes; the roll-back of an
\* import may still fail to.
DeletionsCanWrite == FailingWrites \cap Deletions = {}

LEMMA RestoresRollBack ==
  ASSUME DeletionsCanWrite, CatalogTypes, Reached, NEW d \in Deleters, DeleteRestores(d)
  PROVE  d \in Materials /\ deletes[d] = d /\ import[d] = "rolledback"
<1>1. d \in FailingWrites /\ deletion[d] # "idle"
  BY DEF DeleteRestores
<1>2. d \in Materials
  BY <1>1 DEF DeletionsCanWrite, Deleters
<1>3. QED
  BY <1>1, <1>2 DEF Reached

LEMMA GuardedNext ==
  ASSUME DeletionsCanWrite, CatalogTypes, Reached, Guarded, [CatalogNext]_catalogVars
  PROVE  Guarded'
<1> USE HoldersApart DEF CatalogTypes
<1> SUFFICES ASSUME NEW d \in Deletions, deletion'[d] \in {"locked", "checked"},
                    directory'[deletes'[d]] = "live", import'[deletes'[d]] # "rolledback"
             PROVE  exclusive'[deletes'[d]] = d
  BY DEF Guarded
<1> DEFINE m == deletes[d]
<1>0. d \in Deleters
  BY DEF Deleters
<1>1. CASE deletion[d] \in {"locked", "checked"} /\ deletes'[d] = deletes[d]
  <2>1. m \in Materials /\ import[m] # "none" /\ import[m] # "rolledback"
    BY <1>0, <1>1, ImportSteps DEF DeletionTypes, Reached
  <2>2. ~AddMaterial(m)
    BY <2>1 DEF AddMaterial
  <2>3. ASSUME NEW e \in Deleters, deletes[e] = m, DeleteRestores(e) PROVE FALSE
    BY <2>1, <2>3, RestoresRollBack
  <2>4. directory[m] = "live"
    BY <1>1, <2>1, <2>2, <2>3, DiskSteps
  <2>5. exclusive[m] = d
    BY <1>1, <2>1, <2>4 DEF Guarded
  <2>6. exclusive'[m] = d
    BY <1>1, <2>1, <2>5, LockSteps DEF LockFree
  <2>7. QED
    BY <1>1, <2>6
<1>2. CASE DeleteLocks(d) /\ deletes'[d] = deletes[d]
  <2>1. m \in Materials /\ directory' = directory
    BY <1>0, <1>2 DEF DeleteLocks, DeletionTypes, diskVars
  <2>2. LockFree(m) /\ Lock(m, d)
    BY <1>2, <2>1 DEF DeleteLocks
  <2>3. QED
    BY <1>2, <2>1, <2>2 DEF Lock, LockTypes
<1>3. QED
  BY <1>0, <1>1, <1>2, DeletionSteps, DeletionTurns DEF DeleteChecksAgain

\* What is ready stays so and in place unless it is renamed for its deletion.
LEMMA ReadyStays ==
  ASSUME CatalogTypes, Reached, Locks, [CatalogNext]_catalogVars, NEW m \in Materials, Ready(m),
         \A d \in Deleters : DeleteRenames(d) => deletes[d] # m
  PROVE  /\ Ready(m)' /\ directory'[m] = directory[m]
         /\ exclusive[m] = Nil => result'[m] = result[m] /\ subtitle'[m] = subtitle[m]
<1> USE HoldersApart
<1>1. ASSUME NEW d \in Deleters, deletes[d] = m PROVE ~DeleteUnlists(d) /\ ~DeleteRestores(d) /\ ~DeleteRemoves(d)
  BY <1>1 DEF DeleteUnlists, DeleteRestores, DeleteRemoves, Reached, Ready
<1>2. ~AddMaterial(m) \/ (m \in listed' /\ directory'[m] = "live")
  BY DiskSteps DEF AddMaterial, CatalogTypes, DiskTypes
<1>3. directory'[m] = directory[m] /\ m \in listed'
  BY <1>1, <1>2, DiskSteps DEF Ready, CatalogTypes
<1>4. result'[m] = result[m] \/ \E a \in Attempts : exclusive[m] = a /\ result'[m] = a
  BY <1>1, MemorySteps
<1>5. result'[m] # Nil
  BY <1>4 DEF Ready
<1>6. exclusive[m] = Nil => ~AttachSubtitle(m) /\ ~ImportUnlocks(m)
  BY DEF AttachSubtitle, ImportUnlocks, Locks
<1>7. exclusive[m] = Nil => result'[m] = result[m] /\ subtitle'[m] = subtitle[m]
  BY <1>1, <1>6, MemorySteps
<1>8. QED
  BY <1>3, <1>5, <1>7 DEF Ready

\* A deletion that may rename what is ready holds its lock.
LEMMA CheckedIsLocked ==
  ASSUME CatalogTypes, Reached, NothingToAnalyse, Guarded, NEW d \in Deleters,
         deletion[d] = "checked", NEW m \in Materials, deletes[d] = m, Ready(m)
  PROVE  exclusive[m] = d /\ d # Nil
<1> USE HoldersApart
<1>1. import[m] # "rolledback"
  BY DEF NothingToAnalyse, Unsubmitted, Ready
<1>2. d \in Deletions
  BY <1>1 DEF Reached, Deleters
<1>3. QED
  BY <1>1, <1>2 DEF Guarded, Ready

\* References are committed by a consumer that holds the material.
LEMMA SelectedSteps ==
  ASSUME [CatalogNext]_catalogVars, NEW m \in selected', m \notin selected
  PROVE  \E c \in Consumers :
           /\ consuming[c] = "holding" /\ consumes[c] = m
           /\ UNCHANGED <<diskVars, deletionVars, consumerVars>>
<1>1. selected' # selected
  OBVIOUS
<1>2. ASSUME NEW n \in Materials, ImportTurn(n) PROVE FALSE
  BY <1>1, <1>2 DEF ImportTurn, AddMaterial, ImportLocks, AttachSubtitle, ImportUnlocks,
     ImportSubmits, ImportFails, ImportCrashes
<1>3. ASSUME NEW n \in Materials, Tamper(n) \/ DropReference(n) \/ RequeueLooks(n) \/ RequeueSubmits(n)
      PROVE  FALSE
  BY <1>1, <1>3 DEF Tamper, DropReference, RequeueLooks, RequeueSubmits
<1>4. ASSUME NEW a \in Attempts,
             AnalysisTurn(a) \/ AnalysisCrashes(a) \/ AnalysisIsReaped(a) \/ StopAnalysis(a)
      PROVE  FALSE
  BY <1>1, <1>4 DEF AnalysisTurn, AnalysisStarts, AnalysisLocks, AnalysisHolds, AnalysisStages,
     PublishAnalysis, AnalysisCompletes, AnalysisSeesStop, AnalysisFails, AnalysisDecides,
     AnalysisMarks, AnalysisCrashes, AnalysisIsReaped, StopAnalysis, AnalysisLeaves
<1>5. ASSUME NEW d \in Deleters, DeletionTurn(d) \/ DeleteCrashes(d) PROVE FALSE
  BY <1>1, <1>5 DEF DeletionTurn, DeleteLooks, DeleteRecords, DeleteChecks, DeleteLocks,
     DeleteChecksAgain, DeleteRenames, DeleteUnlists, DeleteRestores, DeleteRemoves, DeletePurges,
     DeleteFails, DeleteCrashes
<1>6. ASSUME NEW c \in Consumers, ConsumerTurn(c) PROVE CommitReference(c)
  BY <1>1, <1>6 DEF ConsumerTurn, ConsumerLocks, ConsumerHolds, ConsumerUnlocks
<1>7. ~UNCHANGED catalogVars
  BY <1>1 DEF catalogVars
<1>8. PICK c \in Consumers : CommitReference(c)
  BY <1>2, <1>3, <1>4, <1>5, <1>6, <1>7 DEF CatalogNext
<1>9. QED
  BY <1>8 DEF CommitReference

LEMMA ReferencesNext ==
  ASSUME CatalogInvariant, Guarded, References, [CatalogNext]_catalogVars
  PROVE  References'
<1> USE HoldersApart DEF CatalogInvariant, CatalogInv, CatalogTypes
<1>1. ASSUME NEW c \in Consumers, consuming[c] = "holding", NEW m \in Materials, consumes[c] = m
      PROVE  Ready(m) /\ sharing[m] # {} /\ exclusive[m] = Nil
  BY <1>1 DEF References, Locks
<1>2. ASSUME NEW m \in Materials, Ready(m), m \in selected \/ sharing[m] # {} PROVE Ready(m)'
  <2>1. ASSUME NEW d \in Deleters, DeleteRenames(d), deletes[d] = m PROVE FALSE
    <3>1. deletion[d] = "checked"
      BY <2>1 DEF DeleteRenames
    <3>2. m \notin selected
      BY <2>1, <3>1 DEF References
    <3>3. sharing[m] = {}
      BY <1>2, <2>1, <3>1, CheckedIsLocked DEF Locks
    <3>4. QED
      BY <1>2, <3>2, <3>3
  <2>2. QED
    BY <1>2, <2>1, ReadyStays
<1>3. ASSUME NEW c \in Consumers, consuming'[c] = "holding" PROVE Ready(consumes[c])'
  <2>1. CASE ConsumerHolds(c)
    BY <2>1 DEF ConsumerHolds, Consistent, Ready, diskVars
  <2>2. CASE consuming[c] = "holding" /\ consumes'[c] = consumes[c]
    <3>1. PICK m \in Materials : consumes[c] = m
      BY <2>2 DEF WorkTypes
    <3>2. Ready(m)'
      BY <1>1, <1>2, <2>2, <3>1
    <3>3. consumes'[c] = m
      BY <2>2, <3>1
    <3>4. QED
      BY <3>2, <3>3 DEF Ready
  <2>3. QED
    <3>1. CASE UNCHANGED <<sharing, consuming, consumes>>
      BY <1>3, <2>2, <3>1
    <3>2. ASSUME NEW e \in Consumers, NEW m \in Materials, ConsumerLocks(e, m),
                 consuming' = [consuming EXCEPT ![e] = "locked"],
                 consumes' = [consumes EXCEPT ![e] = m]
          PROVE  consuming[c] = "holding" /\ consumes'[c] = consumes[c]
      BY <1>3, <3>2 DEF WorkTypes
    <3>3. ASSUME NEW e \in Consumers, consuming' = [consuming EXCEPT ![e] = "idle"],
                 consumes' = [consumes EXCEPT ![e] = Nil]
          PROVE  consuming[c] = "holding" /\ consumes'[c] = consumes[c]
      BY <1>3, <3>3 DEF WorkTypes
    <3>4. ASSUME NEW e \in Consumers, ConsumerHolds(e), consumes' = consumes,
                 consuming' = [consuming EXCEPT ![e] = "holding"], e # c
          PROVE  consuming[c] = "holding" /\ consumes'[c] = consumes[c]
      BY <1>3, <3>4 DEF WorkTypes
    <3>5. QED
      BY <2>1, <2>2, <3>1, <3>2, <3>3, <3>4, ConsumerSteps
<1>4. ASSUME NEW m \in selected' PROVE Ready(m)'
  <2>1. CASE m \in selected
    BY <1>2, <2>1 DEF References, DiskTypes
  <2>2. CASE m \notin selected
    <3>1. PICK c \in Consumers : /\ consuming[c] = "holding" /\ consumes[c] = m
                                 /\ UNCHANGED <<diskVars, deletionVars, consumerVars>>
      BY <2>2, SelectedSteps
    <3>2. Ready(m)
      BY <3>1 DEF References
    <3>3. QED
      BY <3>1, <3>2 DEF Ready, diskVars
  <2>3. QED
    BY <2>1, <2>2
<1>5. ASSUME NEW d \in Deleters, deletion'[d] \in {"checked", "renamed", "unlisted"},
             deletes'[d] \in selected'
      PROVE  FALSE
  <2>1. PICK m \in selected' : deletes'[d] = m
    BY <1>5
  <2>2. CASE m \in selected
    <3>1. ~DeleteChecksAgain(d)
      BY <2>1, <2>2 DEF DeleteChecksAgain, Referenced
    <3>2. deletion[d] \in {"checked", "renamed", "unlisted"} /\ deletes[d] = m
      BY <1>5, <2>1, <3>1, DeletionSteps, DeletionTurns DEF DeleteRenames, DeleteUnlists
    <3>3. QED
      BY <2>2, <3>2 DEF References
  <2>3. CASE m \notin selected
    <3>1. PICK c \in Consumers : /\ consuming[c] = "holding" /\ consumes[c] = m
                                 /\ UNCHANGED <<diskVars, deletionVars, consumerVars>>
      BY <2>3, SelectedSteps
    <3>2. deletion[d] \in {"checked", "renamed", "unlisted"} /\ deletes[d] = m
      BY <1>5, <2>1, <3>1 DEF deletionVars
    <3>3. m \in Materials /\ Ready(m) /\ exclusive[m] = Nil
      BY <1>1, <3>1 DEF WorkTypes
    <3>4. deletion[d] = "checked"
      BY <3>2, <3>3 DEF Reached, Ready
    <3>5. QED
      BY <3>2, <3>3, <3>4, CheckedIsLocked
  <2>4. QED
    BY <2>2, <2>3
<1>6. QED
  BY <1>3, <1>4, <1>5 DEF References

-----------------------------------------------------------------------------
(* Theorems. *)

\* What imports, workers and deletions rely on is kept by each of their steps: the
\* manifest and the directories agree, locks are where their holders are, and the
\* rows are those the managed store allows.
THEOREM CatalogKeepsInvariant == CatalogSpec => []CatalogInvariant
  BY InitCatalogInvariant, NextCatalogInvariant, PTL DEF CatalogSpec

\* Every step of an import, an analysis worker, a consumer or a deletion is a step
\* of the managed store or leaves its rows alone.
THEOREM CatalogRunsTheStore == CatalogSpec => Spec
<1>1. CatalogInit => Init
  BY DEF CatalogInit
<1>2. CatalogInvariant /\ [CatalogNext]_catalogVars => [Next]_vars
  BY RowsAreTheStores DEF CatalogInvariant, CatalogInv
<1>3. QED
  BY <1>1, <1>2, CatalogKeepsInvariant, PTL DEF CatalogSpec, Spec

\* A published memory describes the sidecar its material has, whichever writes of
\* the manifest fail.
THEOREM MemoriesKnowTheirSubtitles == CatalogSpec => []MemoryKnowsItsSubtitle
<1>1. CatalogInvariant => MemoryKnowsItsSubtitle
  <2> SUFFICES ASSUME CatalogInvariant, NEW m \in Materials, m \in listed, result[m] # Nil
               PROVE  heard[result[m]] = subtitle[m]
    BY DEF MemoryKnowsItsSubtitle
  <2>1. result[m] \in Attempts
    BY DEF CatalogInvariant, CatalogInv, DiskTypes
  <2>2. QED
    BY <2>1 DEF CatalogInvariant, CatalogInv, Memories
<1>2. QED
  BY <1>1, CatalogKeepsInvariant, PTL

\* A deletion that has been answered is final, whichever writes of the manifest
\* failed before and whatever a late import or retry submits.
THEOREM AnsweredDeletionsAreFinal == CatalogSpec => []AnsweredDeletionIsFinal
<1>1. CatalogInvariant => AnsweredDeletionIsFinal
  <2> SUFFICES ASSUME CatalogInvariant, NEW d \in Deleters, deletion[d] = "answered"
               PROVE  /\ deletes[d] \notin listed /\ directory[deletes[d]] # "live"
                      /\ \A a \in Attempts : attOwner[a] = deletes[d] => attStatus[a] # "complete"
    BY DEF AnsweredDeletionIsFinal
  <2>1. deletes[d] \in Materials
    BY DEF CatalogInvariant, CatalogInv, DeletionTypes
  <2>2. QED
    BY <2>1 DEF CatalogInvariant, CatalogInv, Reached, Listing, Doomed
<1>2. QED
  BY <1>1, CatalogKeepsInvariant, PTL

\* While no deletion command fails to write the manifest, consumers hold, and rows
\* refer to, what is ready, and no deletion past its second look deletes it.
THEOREM ReferencesHold ==
  ASSUME DeletionsCanWrite
  PROVE  CatalogSpec => []ReadyInv
<1>1. CatalogInit => ReadyInv
  BY HoldersApart DEF CatalogInit, ReadyInv, Guarded, References, Deleters
<1>2. CatalogInvariant /\ ReadyInv /\ [CatalogNext]_catalogVars => ReadyInv'
  <2> SUFFICES ASSUME CatalogInvariant, ReadyInv, [CatalogNext]_catalogVars PROVE ReadyInv'
    OBVIOUS
  <2>1. CatalogTypes /\ Reached
    BY DEF CatalogInvariant, CatalogInv, CatalogTypes
  <2>2. QED
    BY <2>1, GuardedNext, ReferencesNext DEF ReadyInv
<1>3. QED
  BY <1>1, <1>2, CatalogKeepsInvariant, PTL DEF CatalogSpec

\* While no deletion command fails to write the manifest, what a project selects
\* or a run has recorded is listed, in its place and analysed.
THEOREM ReferencedMaterialsAreReady ==
  ASSUME DeletionsCanWrite
  PROVE  CatalogSpec => []ReferencedMaterialIsReady
<1>1. ReadyInv => ReferencedMaterialIsReady
  BY DEF ReadyInv, References, Ready, ReferencedMaterialIsReady
<1>2. QED
  BY <1>1, ReferencesHold, PTL

\* While no deletion command fails to write the manifest, a consumer works with
\* one memory from its look to the end of its lease.
THEOREM ConsumersKeepTheirMemory ==
  ASSUME DeletionsCanWrite
  PROVE  CatalogSpec => ConsumersSeeOneMemory
<1> DEFINE Seen(m) ==
      (\E c \in sharing[m] : consuming[c] = "holding" /\ c \in sharing'[m]) =>
        /\ directory'[m] = directory[m] /\ result'[m] = result[m]
        /\ subtitle'[m] = subtitle[m] /\ (m \in listed) = (m \in listed')
<1>1. CatalogInvariant /\ ReadyInv /\ [CatalogNext]_catalogVars => \A m \in Materials : Seen(m)
  <2> SUFFICES ASSUME CatalogInvariant, ReadyInv, [CatalogNext]_catalogVars, NEW m \in Materials,
                      NEW c \in sharing[m], consuming[c] = "holding"
               PROVE  /\ directory'[m] = directory[m] /\ result'[m] = result[m]
                      /\ subtitle'[m] = subtitle[m] /\ (m \in listed) = (m \in listed')
    OBVIOUS
  <2> USE DEF CatalogInvariant, CatalogInv, CatalogTypes
  <2>1. c \in Consumers /\ consumes[c] = m /\ exclusive[m] = Nil
    BY DEF LockTypes, Locks
  <2>2. Ready(m)
    BY <2>1 DEF ReadyInv, References
  <2>3. ASSUME NEW d \in Deleters, DeleteRenames(d), deletes[d] = m PROVE FALSE
    <3>1. deletion[d] = "checked"
      BY <2>3 DEF DeleteRenames
    <3>2. QED
      BY <2>1, <2>2, <2>3, <3>1, CheckedIsLocked DEF ReadyInv
  <2>4. Ready(m)' /\ directory'[m] = directory[m] /\ result'[m] = result[m] /\ subtitle'[m] = subtitle[m]
    BY <2>1, <2>2, <2>3, ReadyStays
  <2>5. QED
    BY <2>2, <2>4 DEF Ready
<1>2. QED
  BY <1>1, CatalogKeepsInvariant, ReferencesHold, PTL DEF CatalogSpec, ConsumersSeeOneMemory
=============================================================================
