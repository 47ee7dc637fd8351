---------------------------- MODULE MaterialCatalog ----------------------------
(***************************************************************************)
(* The Material Library: a manifest, one directory per material (managed   *)
(* source, subtitle sidecar, published analysis) and one reader-writer     *)
(* file lock per material, next to the attempts and the references of      *)
(* ManagedStore.  Imports, analysis workers, workflow consumers (project   *)
(* saves, run creation, planning and render workers) and deletions run in  *)
(* several processes; every look at the manifest and every change of it    *)
(* holds the manifest lock, but no lock spans two steps of an actor except *)
(* the material's own, and the database knows of neither.                  *)
(*                                                                         *)
(* A published analysis is known by the attempt that published it.  Ids    *)
(* are never used again, so a material that was deleted stays deleted.     *)
(***************************************************************************)
EXTENDS ManagedStore

CONSTANTS
  Consumers,     \* holders of shared leases
  Deletions,     \* deletion commands, retried by their clients under one id
  Unreliable,    \* whether importing and deleting processes can crash
  LeaseLoss,     \* whether the attempt of a live analysis worker can be reaped
  FailingWrites  \* deletions whose write of the manifest can fail

ASSUME CatalogAssumption ==
  /\ Unreliable \in BOOLEAN /\ LeaseLoss \in BOOLEAN
  /\ Consumers \cap Attempts = {} /\ (Deletions \cup Consumers) \cap Materials = {}
  /\ Nil \notin Deletions \cup Attempts /\ (Deletions \cup Materials) \cap Attempts = {}
  /\ FailingWrites \subseteq Deletions \cup Materials

\* Besides the commands, an import that fails deletes the material it has added.
Deleters == Deletions \cup Materials

VARIABLES
  listed,      \* materials in the manifest
  directory,   \* the material's directory: "none", "live" or "staged" (.deleting)
  tampered,    \* materials whose managed source no longer has its fingerprint
  result,      \* the attempt whose analysis is published, or Nil
  subtitle,    \* the sidecar: "none", "file" (no metadata yet) or "bound"
  selected,    \* materials that project or run rows refer to
  exclusive,   \* who holds the material's lock exclusively, or Nil
  sharing,     \* consumers that hold it shared
  import,      \* where the import of each material is
  requeuing,   \* materials whose retry has looked at the catalog
  analysis,    \* where each attempt's worker is
  heard,       \* the sidecar each analysis has worked with
  consuming,   \* where each consumer is
  consumes,    \* the material it consumes
  deletion,    \* where each deletion is
  deletes,     \* the material it deletes
  receipts     \* deletion commands that are recorded

diskVars     == <<listed, directory, tampered, result, subtitle>>
lockVars     == <<exclusive, sharing>>
importVars   == <<import, requeuing>>
analysisVars == <<analysis, heard>>
consumerVars == <<consuming, consumes>>
deletionVars == <<deletion, deletes, receipts>>
catalogVars  == <<vars, diskVars, selected, lockVars, importVars, analysisVars,
                  consumerVars, deletionVars>>

CatalogInit ==
  /\ Init
  /\ listed = {} /\ tampered = {} /\ requeuing = {} /\ selected = {} /\ receipts = {}
  /\ directory = [m \in Materials |-> "none"]
  /\ result = [m \in Materials |-> Nil]
  /\ subtitle = [m \in Materials |-> "none"]
  /\ exclusive = [m \in Materials |-> Nil]
  /\ sharing = [m \in Materials |-> {}]
  /\ import = [m \in Materials |-> "none"]
  /\ analysis = [a \in Attempts |-> "none"]
  /\ heard = [a \in Attempts |-> "none"]
  /\ consuming = [c \in Consumers |-> "idle"]
  /\ consumes = [c \in Consumers |-> Nil]
  /\ deletion = [d \in Deleters |-> "idle"]
  /\ deletes = [d \in Deleters |-> Nil]

\* A deletion keeps the manifest lock from its rename to the end of its rmtree.
ManifestFree == \A d \in Deleters : deletion[d] \notin {"renamed", "unlisted"}

\* What a lease requires of the material under the lock: the manifest still has
\* it and its source has the recorded fingerprint.
Consistent(m) == m \in listed /\ directory[m] = "live" /\ m \notin tampered

Referenced(m) == m \in selected \/ ActiveAttempts({m}) # {}

LockFree(m) == exclusive[m] = Nil /\ sharing[m] = {}
Lock(m, who) == exclusive' = [exclusive EXCEPT ![m] = who] /\ UNCHANGED sharing
Unlock(who) ==
  /\ exclusive' = [m \in Materials |-> IF exclusive[m] = who THEN Nil ELSE exclusive[m]]
  /\ UNCHANGED sharing

-----------------------------------------------------------------------------
(* Imports. *)

ImportGoesTo(m, where) == import' = [import EXCEPT ![m] = where] /\ UNCHANGED requeuing

\* The copy, its fingerprint and the manifest entry; an error removes the new
\* directory again.
AddMaterial(m) ==
  /\ import[m] = "none" /\ ManifestFree
  /\ ImportGoesTo(m, "added")
  /\ listed' = listed \cup {m}
  /\ directory' = [directory EXCEPT ![m] = "live"]
  /\ UNCHANGED <<vars, tampered, result, subtitle, selected, lockVars, analysisVars,
                 consumerVars, deletionVars>>

\* The lease of an upload with a subtitle: a first import, or the repeated
\* command of one that is already submitted.
ImportLocks(m) ==
  /\ import[m] \in {"added", "submitted"} /\ Consistent(m) /\ LockFree(m) /\ ManifestFree
  /\ ImportGoesTo(m, IF import[m] = "added" THEN "leased" ELSE "released")
  /\ Lock(m, m)
  /\ UNCHANGED <<vars, diskVars, selected, analysisVars, consumerVars, deletionVars>>

\* Mutant: a sidecar can still be attached once the analysis is published.
AttachLate(m) ==
  /\ import[m] \in {"leased", "released"}
  /\ subtitle[m] = "none"
  /\ subtitle' = [subtitle EXCEPT ![m] = "file"]
  /\ UNCHANGED <<vars, listed, directory, tampered, result, selected, lockVars, importVars,
                 analysisVars, consumerVars, deletionVars>>

\* ensure_subtitle: the first sidecar, before the analysis is published ...
AttachSubtitle(m) ==
  /\ import[m] \in {"leased", "released"}
  /\ subtitle[m] = "none" /\ result[m] = Nil
  /\ subtitle' = [subtitle EXCEPT ![m] = "file"]
  /\ UNCHANGED <<vars, listed, directory, tampered, result, selected, lockVars, importVars,
                 analysisVars, consumerVars, deletionVars>>

\* ... then its metadata, and the lease ends; a sidecar that is bound already is
\* the end of the call too, and one that cannot be bound is an error.
ImportUnlocks(m) ==
  /\ import[m] \in {"leased", "released"}
  /\ \/ /\ subtitle[m] \in {"file", "bound"}
        /\ subtitle' = [subtitle EXCEPT ![m] = "bound"]
        /\ ImportGoesTo(m, IF import[m] = "leased" THEN "attached" ELSE "submitted")
     \/ /\ subtitle' = [subtitle EXCEPT ![m] = IF @ = "file" THEN "none" ELSE @]
        /\ ImportGoesTo(m, IF import[m] = "leased" THEN "failing" ELSE "submitted")
  /\ Unlock(m)
  /\ UNCHANGED <<vars, listed, directory, tampered, result, selected, analysisVars,
                 consumerVars, deletionVars>>

ImportSubmits(m) ==
  /\ import[m] \in {"added", "attached"}
  /\ EnqueueMaterialAnalysis(m)
  /\ ImportGoesTo(m, "submitted")
  /\ UNCHANGED <<diskVars, selected, lockVars, analysisVars, consumerVars, deletionVars>>

\* A lease that cannot be taken or an attempt that cannot be queued; the material
\* that was added is deleted again, best effort.
ImportFails(m) ==
  /\ import[m] \in {"added", "attached", "failing"}
  /\ ImportGoesTo(m, "rolledback")
  /\ deletion' = [deletion EXCEPT ![m] = "catalog"]
  /\ deletes' = [deletes EXCEPT ![m] = m]
  /\ UNCHANGED <<vars, diskVars, selected, lockVars, analysisVars, consumerVars, receipts>>

\* A crash leaves the half-made sidecar where it is.
ImportCrashes(m) ==
  /\ Unreliable /\ import[m] \in {"added", "leased", "attached", "failing", "released"}
  /\ ImportGoesTo(m, "crashed")
  /\ Unlock(m)
  /\ UNCHANGED <<vars, diskVars, selected, analysisVars, consumerVars, deletionVars>>

\* The managed file is changed from outside the application.
Tamper(m) ==
  /\ Unreliable /\ m \in listed /\ directory[m] = "live" /\ m \notin tampered
  /\ tampered' = tampered \cup {m}
  /\ UNCHANGED <<vars, listed, directory, result, subtitle, selected, lockVars, importVars,
                 analysisVars, consumerVars, deletionVars>>

-----------------------------------------------------------------------------
(* Analysis workers. *)

AnalysisGoesTo(a, where) == analysis' = [analysis EXCEPT ![a] = where]

\* Leaves the lease, if it is held.
AnalysisLeaves(a, where) ==
  /\ AnalysisGoesTo(a, where) /\ Unlock(a)
  /\ UNCHANGED <<diskVars, selected, importVars, heard, consumerVars, deletionVars>>

\* retry and resume answer only for a listed material that is not ready ...
RequeueLooks(m) ==
  /\ m \in listed /\ result[m] = Nil /\ ManifestFree
  /\ requeuing' = requeuing \cup {m}
  /\ UNCHANGED <<vars, diskVars, selected, lockVars, import, analysisVars, consumerVars, deletionVars>>

\* ... and the queue, in a transaction of its own, looks at the attempts alone.
RequeueSubmits(m) ==
  /\ m \in requeuing
  /\ requeuing' = requeuing \ {m}
  /\ RequeueMaterialAnalysis(m) \/ UNCHANGED vars
  /\ UNCHANGED <<diskVars, selected, lockVars, import, analysisVars, consumerVars, deletionVars>>

AnalysisStarts(a) ==
  /\ analysis[a] = "none" /\ attOwner[a] \in Materials /\ ManifestFree
  /\ \E w \in Workers : ClaimNextJob(a, w)
  /\ AnalysisGoesTo(a, IF attOwner[a] \in listed THEN "open" ELSE "marking")
  /\ UNCHANGED <<diskVars, selected, lockVars, importVars, heard, consumerVars, deletionVars>>

\* The manifest names the directory, and the lock file in it is locked; whoever
\* waits for the lock of a directory that is removed fails afterwards.
AnalysisLocks(a) ==
  /\ analysis[a] = "open"
  /\ LET m == attOwner[a] IN
       \/ /\ m \in listed /\ directory[m] = "live" /\ LockFree(m) /\ ManifestFree
          /\ Lock(m, a) /\ AnalysisGoesTo(a, "locked")
       \/ /\ m \in Materials => directory[m] # "live" \/ m \notin listed
          /\ AnalysisGoesTo(a, "failing") /\ UNCHANGED lockVars
  /\ UNCHANGED <<vars, diskVars, selected, importVars, heard, consumerVars, deletionVars>>

\* The second look, with the lock held: a published analysis is reused, a sidecar
\* is read, a material that is not as recorded is an error.
AnalysisHolds(a) ==
  /\ analysis[a] = "locked" /\ ManifestFree
  /\ LET m == CHOOSE x \in Materials : exclusive[x] = a IN
       \/ /\ Consistent(m) /\ subtitle[m] # "file"
          /\ heard' = [heard EXCEPT ![a] = subtitle[m]]
          /\ AnalysisGoesTo(a, IF result[m] = Nil THEN "analysing" ELSE "done")
          /\ IF result[m] = Nil THEN UNCHANGED lockVars ELSE Unlock(a)
       \/ /\ ~Consistent(m) \/ subtitle[m] = "file"
          /\ AnalysisGoesTo(a, "failing") /\ Unlock(a) /\ UNCHANGED heard
  /\ UNCHANGED <<vars, diskVars, selected, importVars, consumerVars, deletionVars>>

\* The engine's result is staged; the last look at the stop flag follows.
AnalysisStages(a) ==
  /\ analysis[a] = "analysing" /\ ~stopRequested[a]
  /\ AnalysisGoesTo(a, "publishing")
  /\ UNCHANGED <<vars, diskVars, selected, lockVars, importVars, heard, consumerVars, deletionVars>>

\* publish_analysis_result looks at the material once more and replaces the
\* result file; then the lease ends.
PublishAnalysis(a) ==
  /\ analysis[a] = "publishing" /\ ManifestFree
  /\ LET m == CHOOSE x \in Materials : exclusive[x] = a IN
       /\ Consistent(m)
       /\ result' = [result EXCEPT ![m] = a]
       /\ UNCHANGED <<listed, directory, tampered, subtitle>>
  /\ AnalysisGoesTo(a, "done") /\ Unlock(a)
  /\ UNCHANGED <<vars, selected, importVars, heard, consumerVars, deletionVars>>

\* The progress reports refuse an attempt that has ended, and so does the end.
AnalysisCompletes(a) ==
  /\ analysis[a] = "done"
  /\ \/ CompleteMaterialAttempt(a) /\ AnalysisGoesTo(a, "gone")
     \/ attStatus[a] \notin ClaimedStatuses /\ AnalysisGoesTo(a, "failing") /\ UNCHANGED vars
  /\ UNCHANGED <<diskVars, selected, lockVars, importVars, heard, consumerVars, deletionVars>>

AnalysisSeesStop(a) ==
  /\ analysis[a] \in {"open", "analysing"} /\ stopRequested[a]
  /\ AnalysisLeaves(a, "cancelled")
  /\ UNCHANGED vars

\* An error of the engine or of the disk, or a refused progress report.
AnalysisFails(a) ==
  /\ analysis[a] \in {"open", "analysing", "publishing", "done"}
  /\ AnalysisLeaves(a, "failing")
  /\ UNCHANGED vars

\* _finish_failed_or_interrupted, and the handler of WorkflowCancelledError.
AnalysisDecides(a) ==
  /\ analysis[a] \in {"failing", "cancelled"}
  /\ AnalysisGoesTo(a, IF attStatus[a] \notin ActiveStatuses THEN "gone"
                       ELSE IF analysis[a] = "cancelled" \/ stopRequested[a]
                            THEN "interrupting" ELSE "marking")
  /\ UNCHANGED <<vars, diskVars, selected, lockVars, importVars, heard, consumerVars, deletionVars>>

AnalysisMarks(a) ==
  /\ \/ analysis[a] = "interrupting" /\ MarkAttemptInterrupted(a)
     \/ analysis[a] = "marking" /\ MarkAttemptFailed(a)
     \/ /\ analysis[a] \in {"interrupting", "marking"}
        /\ attStatus[a] \notin ActiveStatuses /\ UNCHANGED vars
  /\ AnalysisGoesTo(a, "gone")
  /\ UNCHANGED <<diskVars, selected, lockVars, importVars, heard, consumerVars, deletionVars>>

\* A crash gives back the lock and nothing else.
AnalysisCrashes(a) ==
  /\ analysis[a] \notin {"none", "gone"}
  /\ AnalysisLeaves(a, "gone")
  /\ UNCHANGED vars

\* The reaper or the audit ends the attempt of a worker that is gone or, with a
\* lost lease, of a live one.
AnalysisIsReaped(a) ==
  /\ analysis[a] = "gone" \/ (LeaseLoss /\ analysis[a] # "none")
  /\ MarkAttemptInterrupted(a)
  /\ UNCHANGED <<diskVars, selected, lockVars, importVars, analysisVars, consumerVars, deletionVars>>

StopAnalysis(a) ==
  /\ attOwner[a] \in Materials
  /\ RequestStop(a)
  /\ UNCHANGED <<diskVars, selected, lockVars, importVars, analysisVars, consumerVars, deletionVars>>

-----------------------------------------------------------------------------
(* Consumers of a ready material. *)

ConsumerGoesTo(c, where) == consuming' = [consuming EXCEPT ![c] = where]

ConsumerLocks(c, m) ==
  /\ consuming[c] = "idle"
  /\ m \in listed /\ directory[m] = "live" /\ exclusive[m] = Nil /\ ManifestFree
  /\ sharing' = [sharing EXCEPT ![m] = @ \cup {c}]
  /\ consumes' = [consumes EXCEPT ![c] = m]
  /\ ConsumerGoesTo(c, "locked")
  /\ UNCHANGED <<vars, diskVars, selected, exclusive, importVars, analysisVars, deletionVars>>

\* The second look; only a ready material is worked with.
ConsumerHolds(c) ==
  /\ consuming[c] = "locked" /\ ManifestFree
  /\ Consistent(consumes[c]) /\ result[consumes[c]] # Nil
  /\ ConsumerGoesTo(c, "holding")
  /\ UNCHANGED <<vars, diskVars, selected, lockVars, importVars, analysisVars, consumes, deletionVars>>

\* The end of the lease, and every way it fails: work that ends, a material that
\* is not as required, a worker that crashes.
ConsumerUnlocks(c) ==
  /\ consuming[c] \in {"locked", "holding"}
  /\ sharing' = [sharing EXCEPT ![consumes[c]] = @ \ {c}]
  /\ consumes' = [consumes EXCEPT ![c] = Nil]
  /\ ConsumerGoesTo(c, "idle")
  /\ UNCHANGED <<vars, diskVars, selected, exclusive, importVars, analysisVars, deletionVars>>

\* The project's selection and a run's snapshot are committed under the lease.
CommitReference(c) ==
  /\ consuming[c] = "holding"
  /\ selected' = selected \cup {consumes[c]}
  /\ UNCHANGED <<vars, diskVars, lockVars, importVars, analysisVars, consumerVars, deletionVars>>

\* An empty selection, or the deletion of the project or run, needs no lease.
DropReference(m) ==
  /\ m \in selected
  /\ selected' = selected \ {m}
  /\ UNCHANGED <<vars, diskVars, lockVars, importVars, analysisVars, consumerVars, deletionVars>>

-----------------------------------------------------------------------------
(* Deletions: the web route, and within it MaterialCatalog.delete. *)

DeletionGoesTo(d, where) == deletion' = [deletion EXCEPT ![d] = where]
\* The end of the catalog's part, and of every lock it holds.
DeletionLeaves(d, where) == DeletionGoesTo(d, where) /\ Unlock(d)

\* Unknown materials are refused unless the command is a recorded one; then come
\* references and active attempts.
DeleteLooks(d, m) ==
  /\ d \in Deletions /\ deletion[d] = "idle" /\ ManifestFree
  /\ deletes[d] \in {m, Nil}
  /\ m \in listed \/ d \in receipts
  /\ ~Referenced(m)
  /\ deletes' = [deletes EXCEPT ![d] = m]
  /\ DeletionGoesTo(d, IF m \in listed THEN "looked" ELSE "purging")
  /\ UNCHANGED <<vars, diskVars, selected, lockVars, importVars, analysisVars, consumerVars, receipts>>

\* The intent is recorded before the catalog is touched.
DeleteRecords(d) ==
  /\ deletion[d] = "looked"
  /\ receipts' = receipts \cup {d}
  /\ DeletionGoesTo(d, "catalog")
  /\ UNCHANGED <<vars, diskVars, selected, lockVars, importVars, analysisVars, consumerVars, deletes>>

\* The catalog's first look at the material and its references.
DeleteChecks(d) ==
  /\ deletion[d] = "catalog" /\ ManifestFree
  /\ deletes[d] \in listed /\ ~Referenced(deletes[d])
  /\ DeletionGoesTo(d, "unreferenced")
  /\ UNCHANGED <<vars, diskVars, selected, lockVars, importVars, analysisVars, consumerVars,
                 deletes, receipts>>

\* Mutant: readers of the material do not stop a deletion.
DeleteUnderReaders(d) ==
  LET m == deletes[d] IN
  /\ deletion[d] = "unreferenced"
  /\ \/ directory[m] = "live" /\ exclusive[m] = Nil /\ Lock(m, d)
     \/ directory[m] # "live" /\ UNCHANGED lockVars
  /\ DeletionGoesTo(d, "locked")
  /\ UNCHANGED <<vars, diskVars, selected, importVars, analysisVars, consumerVars, deletes, receipts>>

\* The lock, which is never waited for; a directory that is missing has none.
DeleteLocks(d) ==
  LET m == deletes[d] IN
  /\ deletion[d] = "unreferenced"
  /\ \/ directory[m] = "live" /\ LockFree(m) /\ Lock(m, d)
     \/ directory[m] # "live" /\ UNCHANGED lockVars
  /\ DeletionGoesTo(d, "locked")
  /\ UNCHANGED <<vars, diskVars, selected, importVars, analysisVars, consumerVars, deletes, receipts>>

\* Mutant: no second look at the references.
DeleteTrustsFirstLook(d) ==
  /\ deletion[d] = "locked"
  /\ DeletionGoesTo(d, "checked")
  /\ UNCHANGED <<vars, diskVars, selected, lockVars, importVars, analysisVars, consumerVars,
                 deletes, receipts>>

DeleteChecksAgain(d) ==
  /\ deletion[d] = "locked" /\ ~Referenced(deletes[d])
  /\ DeletionGoesTo(d, "checked")
  /\ UNCHANGED <<vars, diskVars, selected, lockVars, importVars, analysisVars, consumerVars,
                 deletes, receipts>>

\* The manifest lock is taken; a staging directory that exists is an error.
DeleteRenames(d) ==
  LET m == deletes[d] IN
  /\ deletion[d] = "checked" /\ ManifestFree
  /\ m \in listed /\ directory[m] # "staged"
  /\ directory' = [directory EXCEPT ![m] = IF @ = "live" THEN "staged" ELSE @]
  /\ DeletionGoesTo(d, "renamed")
  /\ UNCHANGED <<vars, listed, tampered, result, subtitle, selected, lockVars, importVars,
                 analysisVars, consumerVars, deletes, receipts>>

DeleteUnlists(d) ==
  /\ deletion[d] = "renamed"
  /\ listed' = listed \ {deletes[d]}
  /\ DeletionGoesTo(d, "unlisted")
  /\ UNCHANGED <<vars, directory, tampered, result, subtitle, selected, lockVars, importVars,
                 analysisVars, consumerVars, deletes, receipts>>

\* The manifest cannot be written: the directory gets its name back.
DeleteRestores(d) ==
  /\ deletion[d] = "renamed" /\ d \in FailingWrites
  /\ directory' = [directory EXCEPT ![deletes[d]] = IF @ = "staged" THEN "live" ELSE @]
  /\ DeletionLeaves(d, "idle")
  /\ UNCHANGED <<vars, listed, tampered, result, subtitle, selected, importVars,
                 analysisVars, consumerVars, deletes, receipts>>

DeleteRemoves(d) ==
  LET m == deletes[d] IN
  /\ deletion[d] = "unlisted"
  /\ directory' = [directory EXCEPT ![m] = "none"]
  /\ result' = [result EXCEPT ![m] = Nil]
  /\ subtitle' = [subtitle EXCEPT ![m] = "none"]
  /\ tampered' = tampered \ {m}
  /\ DeletionLeaves(d, "purging")
  /\ UNCHANGED <<vars, listed, selected, importVars, analysisVars, consumerVars, deletes, receipts>>

\* Mutant: the attempts are left behind.
PurgeNothing(d) ==
  /\ deletion[d] = "purging"
  /\ DeletionGoesTo(d, "answered")
  /\ UNCHANGED <<vars, diskVars, selected, lockVars, importVars, analysisVars, consumerVars,
                 deletes, receipts>>

\* The attempts of the material; an active one makes the call fail.
DeletePurges(d) ==
  /\ deletion[d] = "purging"
  /\ PurgeMaterialAttempts(deletes[d])
  /\ DeletionGoesTo(d, "answered")
  /\ UNCHANGED <<diskVars, selected, lockVars, importVars, analysisVars, consumerVars,
                 deletes, receipts>>

\* Every refusal; the client may send the command again.
DeleteFails(d) ==
  LET m == deletes[d] IN
  /\ \/ deletion[d] = "catalog" /\ (m \notin listed \/ Referenced(m))
     \/ deletion[d] = "unreferenced" /\ ~LockFree(m)
     \/ deletion[d] = "locked" /\ Referenced(m)
     \/ deletion[d] = "checked" /\ (m \notin listed \/ directory[m] = "staged")
     \/ deletion[d] = "purging" /\ ActiveAttempts({m}) # {}
  /\ DeletionLeaves(d, "idle")
  /\ UNCHANGED <<vars, diskVars, selected, importVars, analysisVars, consumerVars, deletes, receipts>>

\* The process ends, wherever it is; its locks end with it.
DeleteCrashes(d) ==
  /\ Unreliable /\ deletion[d] \notin {"idle", "answered"}
  /\ DeletionLeaves(d, "idle")
  /\ UNCHANGED <<vars, diskVars, selected, importVars, analysisVars, consumerVars, deletes, receipts>>

-----------------------------------------------------------------------------
ImportTurn(m) ==
  \/ AddMaterial(m) \/ ImportLocks(m) \/ AttachSubtitle(m) \/ ImportUnlocks(m)
  \/ ImportSubmits(m) \/ ImportFails(m) \/ ImportCrashes(m)

AnalysisTurn(a) ==
  \/ AnalysisStarts(a) \/ AnalysisLocks(a) \/ AnalysisHolds(a) \/ AnalysisStages(a)
  \/ PublishAnalysis(a) \/ AnalysisCompletes(a) \/ AnalysisSeesStop(a) \/ AnalysisFails(a)
  \/ AnalysisDecides(a) \/ AnalysisMarks(a)

ConsumerTurn(c) ==
  \/ \E m \in Materials : ConsumerLocks(c, m)
  \/ ConsumerHolds(c) \/ CommitReference(c) \/ ConsumerUnlocks(c)

DeletionTurn(d) ==
  \/ \E m \in Materials : DeleteLooks(d, m)
  \/ DeleteRecords(d) \/ DeleteChecks(d) \/ DeleteLocks(d) \/ DeleteChecksAgain(d) \/ DeleteRenames(d)
  \/ DeleteUnlists(d) \/ DeleteRestores(d) \/ DeleteRemoves(d) \/ DeletePurges(d) \/ DeleteFails(d)

CatalogNext ==
  \/ \E m \in Materials : ImportTurn(m) \/ Tamper(m) \/ DropReference(m)
                         \/ RequeueLooks(m) \/ RequeueSubmits(m)
  \/ \E a \in Attempts : AnalysisTurn(a) \/ AnalysisCrashes(a) \/ AnalysisIsReaped(a) \/ StopAnalysis(a)
  \/ \E c \in Consumers : ConsumerTurn(c)
  \/ \E d \in Deleters : DeletionTurn(d) \/ DeleteCrashes(d)

CatalogSpec == CatalogInit /\ [][CatalogNext]_catalogVars

-----------------------------------------------------------------------------
(* Properties. *)

\* What a project selects or a run has recorded is there and ready to be worked
\* with: no deletion, however its steps and crashes fall around the commit of a
\* reference, takes a referenced material away.
ReferencedMaterialIsReady ==
  \A m \in selected : m \in listed /\ directory[m] = "live" /\ result[m] # Nil

\* A consumer that holds a material works with the same memory from its look to
\* the end of its lease: nobody publishes, attaches or deletes under it.
ConsumersSeeOneMemory ==
  [][\A m \in Materials :
       (\E c \in sharing[m] : consuming[c] = "holding" /\ c \in sharing'[m]) =>
         /\ directory'[m] = directory[m] /\ result'[m] = result[m]
         /\ subtitle'[m] = subtitle[m] /\ (m \in listed) = (m \in listed')]_catalogVars

\* The published memory describes the material's own sidecar: none was attached
\* between the moment the analysis read it and the moment it was published, nor
\* ever after.
MemoryKnowsItsSubtitle ==
  \A m \in Materials :
    (m \in listed /\ result[m] # Nil) => heard[result[m]] = subtitle[m]

\* A deletion that has been answered is final, also when the command was cut short
\* by a crash and repeated: the material is not listed, its directory is not in
\* its place, none of its attempts is left, and one that an import or a retry
\* submits too late never completes.
AnsweredDeletionIsFinal ==
  \A d \in Deleters : deletion[d] = "answered" =>
    LET m == deletes[d] IN
      /\ m \notin listed /\ directory[m] # "live"
      /\ \A a \in Attempts : attOwner[a] = m => attStatus[a] # "complete"

=============================================================================
