------------------------------- MODULE RunFiles -------------------------------
(***************************************************************************)
(* The files of an ASTER run next to its rows in ManagedStore.  A planning *)
(* worker publishes a checkpoint after each agent (file first, row second, *)
(* the previous file last), then plan.json and the review bundle at paths  *)
(* that are fixed for the run, and completes the run; on a stop or an      *)
(* error it unlinks what it published and ends its attempt.  The run       *)
(* service validates checkpoints before a resume, discards them after a    *)
(* retry, removes the directory of a deleted run and writes the plans of   *)
(* guided revisions.  Workers crash between any two steps, and a worker    *)
(* that is alive may be taken for an orphan.                               *)
(*                                                                         *)
(* A file is known by who wrote it: a plan by its attempt, a checkpoint by *)
(* its id.  The bundle's artifacts carry their digest in their names and   *)
(* cannot clash, so the bundle stands for its manifest.                    *)
(***************************************************************************)
EXTENDS ManagedStore

CONSTANTS
  LeasesLost,    \* whether the lease of a live worker can be lost
  Requests,      \* requests to save one guided revision, retried by its client
  RevisionOf,    \* the edit the revision starts from
  Revision       \* the edit it creates

ASSUME FilesAssumption ==
  /\ LeasesLost \in BOOLEAN /\ Nil \notin Attempts
  /\ Requests # {} => RevisionOf \in Edits /\ Revision \in Edits

VARIABLES
  at,         \* where each attempt's worker is
  works,      \* the run each worker plans
  carried,    \* the checkpoint a worker is publishing or still has to unlink
  published,  \* published_paths of each worker
  todo,       \* the published paths it still has to unlink
  planOn,     \* the attempt whose plan.json is on disk, per run
  bundleOn,   \* the attempt whose bundle manifest is on disk, per run
  ckFile,     \* the run in whose directory each checkpoint file is, or Nil
  validated,  \* the checkpoint a resume has validated and not yet queued, per run
  discard,    \* checkpoint files the service still has to unlink
  deleted,    \* runs whose rows have been deleted
  removing,   \* deleted runs whose directory is still to be removed
  request,    \* where each request for the revision is
  earlier,    \* history: the requests that had ended when each one began
  revisionOn  \* the revision's plan is on disk

workerVars   == <<at, works, carried, published, todo>>
fileVars     == <<planOn, bundleOn, ckFile>>
serviceVars  == <<validated, discard, deleted, removing>>
revisionVars == <<request, earlier, revisionOn>>
allVars == <<vars, workerVars, fileVars, serviceVars, revisionVars>>

FilesInit ==
  /\ Init
  /\ at = [a \in Attempts |-> "none"]
  /\ works = [a \in Attempts |-> Nil]
  /\ carried = [a \in Attempts |-> Nil]
  /\ published = [a \in Attempts |-> {}]
  /\ todo = [a \in Attempts |-> {}]
  /\ planOn = [r \in Runs |-> Nil]
  /\ bundleOn = [r \in Runs |-> Nil]
  /\ ckFile = [c \in Checkpoints |-> Nil]
  /\ validated = [r \in Runs |-> Nil]
  /\ discard = {}
  /\ deleted = {} /\ removing = {}
  /\ request = [q \in Requests |-> "new"]
  /\ earlier = [q \in Requests |-> {}]
  /\ revisionOn = FALSE

Live(a) == at[a] \notin {"none", "gone"}
GoTo(a, where) == at' = [at EXCEPT ![a] = where]
Move(a, from, to) ==
  /\ at[a] = from /\ GoTo(a, to)
  /\ UNCHANGED <<works, carried, published, todo>>
Unlinked(c) == ckFile' = [ckFile EXCEPT ![c] = Nil]

-----------------------------------------------------------------------------
(* Planning and checkpoints. *)

WorkerStarts(a) ==
  /\ at[a] = "none" /\ attOwner[a] \in Runs
  /\ \E w \in Workers : ClaimNextJob(a, w)
  /\ GoTo(a, "preparing")
  /\ works' = [works EXCEPT ![a] = attOwner[a]]
  /\ UNCHANGED <<carried, published, todo, fileVars, serviceVars, revisionVars>>

\* The session reads the attempt's pin, the first progress report finds the
\* attempt claimed, and the planners load the checkpoint it pins.
WorkerPrepares(a) ==
  /\ attStatus[a] \in ClaimedStatuses
  /\ attPin[a] # Nil => ckFile[attPin[a]] = works[a]
  /\ Move(a, "preparing", "planning")
  /\ UNCHANGED <<vars, fileVars, serviceVars, revisionVars>>

\* save: the new file is in place before its row.  Its id is a new one.
SaveCheckpointFile(a, c) ==
  /\ at[a] = "planning" /\ ckFile[c] = Nil /\ c \notin discard
  /\ \A r \in Runs : checkpoint[r] # c
  /\ \A b \in Attempts : attPin[b] # c /\ carried[b] # c
  /\ ckFile' = [ckFile EXCEPT ![c] = works[a]]
  /\ carried' = [carried EXCEPT ![a] = c]
  /\ GoTo(a, "saving")
  /\ UNCHANGED <<vars, works, published, todo, planOn, bundleOn, serviceVars, revisionVars>>

SaveCheckpointRow(a) ==
  /\ at[a] = "saving"
  /\ PublishRunCheckpoint(works[a], a, carried[a])
  /\ carried' = [carried EXCEPT ![a] = checkpoint[works[a]]]
  /\ GoTo(a, "switched")
  /\ UNCHANGED <<works, published, todo, fileVars, serviceVars, revisionVars>>

\* Mutant: a save that is refused unlinks the checkpoint the run has.
RefusedSaveUnlinksCurrent(a) ==
  /\ at[a] = "saving" /\ attStatus[a] \notin ClaimedStatuses
  /\ ckFile' = [c \in Checkpoints |-> IF ckFile[c] = works[a] THEN Nil ELSE ckFile[c]]
  /\ carried' = [carried EXCEPT ![a] = Nil]
  /\ GoTo(a, "failing")
  /\ todo' = [todo EXCEPT ![a] = published[a]]
  /\ UNCHANGED <<vars, works, published, planOn, bundleOn, serviceVars, revisionVars>>

SaveIsRefused(a) ==
  /\ at[a] = "saving" /\ attStatus[a] \notin ClaimedStatuses
  /\ Unlinked(carried[a])
  /\ carried' = [carried EXCEPT ![a] = Nil]
  /\ GoTo(a, "failing")
  /\ todo' = [todo EXCEPT ![a] = published[a]]
  /\ UNCHANGED <<vars, works, published, planOn, bundleOn, serviceVars, revisionVars>>

\* The checkpoint that was replaced, or was cleared, loses its file.
UnlinkCarried(a) ==
  /\ at[a] \in {"switched", "cleared"}
  /\ IF carried[a] = Nil THEN UNCHANGED ckFile ELSE Unlinked(carried[a])
  /\ carried' = [carried EXCEPT ![a] = Nil]
  /\ GoTo(a, IF at[a] = "switched" THEN "planning" ELSE "gone")
  /\ UNCHANGED <<vars, works, published, todo, planOn, bundleOn, serviceVars, revisionVars>>

-----------------------------------------------------------------------------
(* Publication and completion. *)

\* Each publication directly follows a look at the stop flag; a stop that came
\* since is seen at the next one.
PublishPlan(a) ==
  /\ at[a] = "planning" /\ GoTo(a, "planned")
  /\ planOn' = [planOn EXCEPT ![works[a]] = a]
  /\ published' = [published EXCEPT ![a] = @ \cup {"plan"}]
  /\ UNCHANGED <<vars, works, carried, todo, bundleOn, ckFile, serviceVars, revisionVars>>

PublishBundle(a) ==
  /\ at[a] = "planned" /\ GoTo(a, "bundled")
  /\ bundleOn' = [bundleOn EXCEPT ![works[a]] = a]
  /\ published' = [published EXCEPT ![a] = @ \cup {"bundle"}]
  /\ UNCHANGED <<vars, works, carried, todo, planOn, ckFile, serviceVars, revisionVars>>

\* The last look at the stop flag before the run is completed.
LastLook(a) ==
  /\ at[a] = "bundled"
  /\ GoTo(a, IF stopRequested[a] THEN "stopping" ELSE "completing")
  /\ todo' = [todo EXCEPT ![a] = IF stopRequested[a] THEN published[a] ELSE {}]
  /\ UNCHANGED <<vars, works, carried, published, fileVars, serviceVars, revisionVars>>

WorkerCompletes(a) ==
  /\ Move(a, "completing", "clearing")
  /\ \E e \in Edits \ {Revision} : CompleteRun(works[a], a, e)
  /\ UNCHANGED <<fileVars, serviceVars, revisionVars>>

\* The completed run's checkpoint; errors are logged and swallowed.
WorkerClears(a) ==
  /\ at[a] = "clearing"
  /\ \/ /\ ClearRunCheckpoint(works[a])
        /\ carried' = [carried EXCEPT ![a] = checkpoint[works[a]]]
     \/ runStatus[works[a]] = "absent" /\ UNCHANGED <<vars, carried>>
  /\ GoTo(a, "cleared")
  /\ UNCHANGED <<works, published, todo, fileVars, serviceVars, revisionVars>>

-----------------------------------------------------------------------------
(* Stops and errors. *)

Unwinds(a, where) ==
  /\ GoTo(a, where)
  /\ todo' = [todo EXCEPT ![a] = published[a]]
  /\ UNCHANGED <<vars, works, carried, published, fileVars, serviceVars, revisionVars>>

\* A safe point raises WorkflowCancelledError.
WorkerSeesStop(a) ==
  /\ at[a] \in {"preparing", "planning", "planned"} /\ stopRequested[a]
  /\ Unwinds(a, "cancelling")

\* Anything else that raises: a refused report or completion, a checkpoint that
\* cannot be loaded, an error of the planners or of the disk.
WorkerFails(a) ==
  /\ at[a] \in {"preparing", "planning", "planned", "bundled", "completing"}
  /\ Unwinds(a, "failing")

\* The published paths are unlinked, the latest first.
UnlinkPublished(a) ==
  /\ at[a] \in {"cancelling", "failing", "stopping"}
  /\ \/ /\ "bundle" \in todo[a]
        /\ todo' = [todo EXCEPT ![a] = @ \ {"bundle"}]
        /\ bundleOn' = [bundleOn EXCEPT ![works[a]] = Nil]
        /\ UNCHANGED planOn
     \/ /\ todo[a] = {"plan"}
        /\ todo' = [todo EXCEPT ![a] = {}]
        /\ planOn' = [planOn EXCEPT ![works[a]] = Nil]
        /\ UNCHANGED bundleOn
  /\ UNCHANGED <<vars, at, works, carried, published, ckFile, serviceVars, revisionVars>>

\* Mutant: a stopped worker ends its attempt before it has cleaned up.
InterruptBeforeUnlink(a) ==
  /\ at[a] \in {"cancelling", "stopping"}
  /\ \/ MarkAttemptInterrupted(a)
     \/ attStatus[a] \notin ClaimedStatuses /\ UNCHANGED vars
  /\ GoTo(a, IF todo[a] = {} THEN "gone" ELSE "cancelling")
  /\ UNCHANGED <<works, carried, published, todo, fileVars, serviceVars, revisionVars>>

\* A stopped worker has cleaned up and interrupts its attempt.  An attempt that
\* has ended since the last look makes the call fail, and the handler for other
\* errors unlinks the published paths once more.
WorkerInterrupts(a) ==
  /\ at[a] \in {"cancelling", "stopping"} /\ todo[a] = {}
  /\ \/ /\ MarkAttemptInterrupted(a)
        /\ GoTo(a, "gone") /\ UNCHANGED todo
     \/ /\ attStatus[a] \notin ClaimedStatuses
        /\ GoTo(a, IF at[a] = "stopping" THEN "failing" ELSE "gone")
        /\ todo' = [todo EXCEPT ![a] = IF at[a] = "stopping" THEN published[a] ELSE {}]
        /\ UNCHANGED vars
  /\ UNCHANGED <<works, carried, published, fileVars, serviceVars, revisionVars>>

\* _finish_failed_or_interrupted reads, then writes.
WorkerDecides(a) ==
  /\ at[a] = "failing" /\ todo[a] = {}
  /\ GoTo(a, IF attStatus[a] \notin ActiveStatuses THEN "gone"
             ELSE IF stopRequested[a] THEN "interrupting" ELSE "marking")
  /\ UNCHANGED <<vars, works, carried, published, todo, fileVars, serviceVars, revisionVars>>

WorkerMarks(a) ==
  /\ \/ at[a] = "interrupting" /\ MarkAttemptInterrupted(a)
     \/ at[a] = "marking" /\ MarkAttemptFailed(a)
     \/ /\ at[a] \in {"interrupting", "marking"}
        /\ attStatus[a] \notin ActiveStatuses /\ UNCHANGED vars
  /\ GoTo(a, "gone")
  /\ UNCHANGED <<works, carried, published, todo, fileVars, serviceVars, revisionVars>>

WorkerCrashes(a) ==
  /\ Live(a)
  /\ GoTo(a, "gone")
  /\ UNCHANGED <<vars, works, carried, published, todo, fileVars, serviceVars, revisionVars>>

\* The reaper or the audit ends the attempt of a worker that is gone, or of one
\* whose lease was lost.
AttemptIsReaped(a) ==
  /\ at[a] = "gone" \/ (LeasesLost /\ Live(a))
  /\ attStatus[a] \in ClaimedStatuses
  /\ MarkAttemptInterrupted(a) \/ (at[a] = "gone" /\ ~stopRequested[a] /\ MarkAttemptFailed(a))
  /\ UNCHANGED <<workerVars, fileVars, serviceVars, revisionVars>>

-----------------------------------------------------------------------------
(* The run service. *)

CreateRunOnce(r) ==
  /\ r \notin deleted
  /\ \E p \in Projects : CreateProject(p) \/ (CreateRun(r) /\ RunProject[r] = p)
  /\ UNCHANGED <<workerVars, fileVars, serviceVars, revisionVars>>

StopRun(a) ==
  /\ attOwner[a] \in Runs
  /\ RequestStop(a)
  /\ UNCHANGED <<workerVars, fileVars, serviceVars, revisionVars>>

\* resume looks at the run and validates its checkpoint's file ...
ResumeLooks(r) ==
  /\ runStatus[r] = "interrupted" /\ checkpoint[r] # Nil
  /\ ckFile[checkpoint[r]] = r
  /\ validated' = [validated EXCEPT ![r] = checkpoint[r]]
  /\ UNCHANGED <<vars, workerVars, fileVars, discard, deleted, removing, revisionVars>>

\* ... and queues the attempt in a transaction of its own, which refuses a run or
\* a checkpoint that has changed.
ResumeQueues(r) ==
  /\ validated[r] # Nil
  /\ validated' = [validated EXCEPT ![r] = Nil]
  /\ \/ ResumeRun(r, validated[r])
     \/ /\ runStatus[r] # "interrupted" \/ checkpoint[r] # validated[r]
        /\ UNCHANGED vars
  /\ UNCHANGED <<workerVars, fileVars, discard, deleted, removing, revisionVars>>

\* Mutant: the discarded checkpoint stays published.
RetryKeepsRow(r) ==
  /\ runStatus[r] = "failed"
  /\ QueueRun(r, Nil) /\ UNCHANGED checkpoint
  /\ discard' = discard \cup ({checkpoint[r]} \ {Nil})
  /\ UNCHANGED <<workerVars, fileVars, validated, deleted, removing, revisionVars>>

Retry(r) ==
  /\ RetryRun(r)
  /\ discard' = discard \cup ({checkpoint[r]} \ {Nil})
  /\ UNCHANGED <<workerVars, fileVars, validated, deleted, removing, revisionVars>>

\* discard_path, after the retry has been committed; a server that ends in
\* between leaves the file.
DiscardCheckpoint(c) ==
  /\ c \in discard
  /\ discard' = discard \ {c}
  /\ Unlinked(c) \/ UNCHANGED ckFile
  /\ UNCHANGED <<vars, workerVars, planOn, bundleOn, validated, deleted, removing, revisionVars>>

\* The rows first; a replay of the command removes the directory of a run whose
\* deletion was cut short.
Delete(r) ==
  /\ DeleteRun(r)
  /\ deleted' = deleted \cup {r} /\ removing' = removing \cup {r}
  /\ UNCHANGED <<workerVars, fileVars, validated, discard, revisionVars>>

\* Mutant: the checkpoints are forgotten.
RemovePlanOnly(r) ==
  /\ r \in removing
  /\ removing' = removing \ {r}
  /\ planOn' = [planOn EXCEPT ![r] = Nil]
  /\ bundleOn' = [bundleOn EXCEPT ![r] = Nil]
  /\ revisionOn' = (revisionOn /\ EditRun[Revision] # r)
  /\ UNCHANGED <<vars, workerVars, ckFile, validated, discard, deleted, request, earlier>>

RemoveDirectory(r) ==
  /\ r \in removing
  /\ removing' = removing \ {r}
  /\ planOn' = [planOn EXCEPT ![r] = Nil]
  /\ bundleOn' = [bundleOn EXCEPT ![r] = Nil]
  /\ ckFile' = [c \in Checkpoints |-> IF ckFile[c] = r THEN Nil ELSE ckFile[c]]
  /\ revisionOn' = (revisionOn /\ EditRun[Revision] # r)
  /\ UNCHANGED <<vars, workerVars, validated, discard, deleted, request, earlier>>

-----------------------------------------------------------------------------
(* Guided revisions: the path of the plan is that of the command, so every
   request of the command writes the same file. *)

RequestGoesTo(q, where) == request' = [request EXCEPT ![q] = where]
Ended == {q \in Requests : request[q] \in {"committed", "undone", "failed"}}

\* The source is loaded, and the look at the destination decides who writes it.
RevisionLooks(q) ==
  /\ request[q] = "new"
  /\ editOrigin[RevisionOf] # "absent" /\ planOn[EditRun[RevisionOf]] # Nil
  /\ RequestGoesTo(q, IF revisionOn THEN "found" ELSE "writing")
  /\ earlier' = [earlier EXCEPT ![q] = Ended]
  /\ UNCHANGED <<vars, workerVars, fileVars, serviceVars, revisionOn>>

RevisionWrites(q) ==
  /\ request[q] = "writing"
  /\ RequestGoesTo(q, "wrote") /\ revisionOn' = TRUE
  /\ UNCHANGED <<vars, workerVars, fileVars, serviceVars, earlier>>

\* The first commit creates the edit, the others are replays.
RevisionCommits(q) ==
  /\ request[q] \in {"found", "wrote"}
  /\ \/ CreateRevision(RevisionOf, Revision)
     \/ editOrigin[Revision] # "absent" /\ UNCHANGED vars
  /\ RequestGoesTo(q, "committed")
  /\ UNCHANGED <<workerVars, fileVars, serviceVars, earlier, revisionOn>>

\* Mutant: a request that fails takes back a plan it has found, too.
FoundPlanIsTakenBack(q) ==
  /\ request[q] \in {"found", "wrote"}
  /\ revisionOn' = FALSE
  /\ RequestGoesTo(q, IF request[q] = "found" THEN "failed" ELSE "undone")
  /\ UNCHANGED <<vars, workerVars, fileVars, serviceVars, earlier>>

\* The commit fails, as the source is gone or the database is busy: the request
\* that wrote the file takes it back.
RevisionFails(q) ==
  /\ request[q] \in {"found", "wrote"}
  /\ revisionOn' = (revisionOn /\ request[q] = "found")
  /\ RequestGoesTo(q, IF request[q] = "found" THEN "failed" ELSE "undone")
  /\ UNCHANGED <<vars, workerVars, fileVars, serviceVars, earlier>>

\* The write itself fails, or the server ends under the request.
RevisionIsCut(q) ==
  /\ request[q] \in {"writing", "found", "wrote"}
  /\ RequestGoesTo(q, "failed")
  /\ UNCHANGED <<vars, workerVars, fileVars, serviceVars, earlier, revisionOn>>

-----------------------------------------------------------------------------
WorkerTurn(a) ==
  \/ WorkerStarts(a) \/ WorkerPrepares(a) \/ SaveCheckpointRow(a) \/ SaveIsRefused(a)
  \/ UnlinkCarried(a) \/ PublishPlan(a) \/ PublishBundle(a) \/ LastLook(a)
  \/ WorkerCompletes(a) \/ WorkerClears(a) \/ WorkerSeesStop(a) \/ WorkerFails(a)
  \/ UnlinkPublished(a) \/ WorkerInterrupts(a) \/ WorkerDecides(a) \/ WorkerMarks(a)
  \/ \E c \in Checkpoints : SaveCheckpointFile(a, c)

ServiceTurn(r) ==
  CreateRunOnce(r) \/ ResumeLooks(r) \/ ResumeQueues(r) \/ Retry(r) \/ Delete(r) \/ RemoveDirectory(r)

RevisionTurn(q) ==
  RevisionLooks(q) \/ RevisionWrites(q) \/ RevisionCommits(q) \/ RevisionFails(q) \/ RevisionIsCut(q)

FilesNext ==
  \/ \E a \in Attempts : WorkerTurn(a) \/ WorkerCrashes(a) \/ AttemptIsReaped(a) \/ StopRun(a)
  \/ \E r \in Runs : ServiceTurn(r)
  \/ \E c \in Checkpoints : DiscardCheckpoint(c)
  \/ \E q \in Requests : RevisionTurn(q)

FilesSpec == FilesInit /\ [][FilesNext]_allVars

-----------------------------------------------------------------------------
(* Properties. *)

\* Every variable of the workers and of the files holds values of its type; a
\* worker carries a checkpoint only while it publishes or removes one.
FilesTypeOK ==
  /\ at \in [Attempts -> {"none", "preparing", "planning", "saving", "switched", "planned",
                          "bundled", "completing", "clearing", "cleared", "cancelling",
                          "stopping", "failing", "interrupting", "marking", "gone"}]
  /\ works \in [Attempts -> Runs \cup {Nil}]
  /\ carried \in [Attempts -> Checkpoints \cup {Nil}]
  /\ published \in [Attempts -> SUBSET {"plan", "bundle"}]
  /\ \A a \in Attempts : todo[a] \subseteq published[a]
  /\ planOn \in [Runs -> Attempts \cup {Nil}] /\ bundleOn \in [Runs -> Attempts \cup {Nil}]
  /\ ckFile \in [Checkpoints -> Runs \cup {Nil}]
  /\ validated \in [Runs -> Checkpoints \cup {Nil}] /\ discard \subseteq Checkpoints
  /\ removing \subseteq deleted /\ deleted \subseteq Runs
  /\ \A a \in Attempts : carried[a] # Nil => at[a] \in {"saving", "switched", "cleared", "gone"}

\* A completed run keeps the plan and the bundle of the attempt that completed
\* it: no earlier attempt's clean-up, however late, and no later attempt takes
\* them away or replaces them.
CompleteRunKeepsItsArtifacts ==
  \A r \in Runs : runStatus[r] = "complete" =>
    \E a \in Attempts : /\ attOwner[a] = r /\ attStatus[a] = "complete"
                        /\ planOn[r] = a /\ bundleOn[r] = a

\* The checkpoint a run's row names is on disk, whatever saves, discards and
\* crashes happen around it: files come before their rows and go after them.
PublishedCheckpointOnDisk ==
  \A r \in Runs : checkpoint[r] # Nil => ckFile[checkpoint[r]] = r

\* The checkpoint a resume pins stays on disk until its worker has loaded it,
\* also when workers of earlier attempts are still alive.
PinnedCheckpointLoads ==
  \A a \in Attempts :
    (/\ attPin[a] # Nil /\ attStatus[a] \in ActiveStatuses
     /\ at[a] \in {"none", "preparing"}) => ckFile[attPin[a]] = attOwner[a]

\* Once the directory of a deleted run is gone and its workers have ended, none
\* of its files is left or comes back.
DeletedRunLeavesNothing ==
  \A r \in deleted \ removing :
    (\A a \in Attempts : works[a] = r => ~Live(a)) =>
      /\ planOn[r] = Nil /\ bundleOn[r] = Nil
      /\ \A c \in Checkpoints : ckFile[c] # r

\* Only a rival takes the plan of a committed revision away: a request whose
\* commit failed removed the file it had written while another one, neither begun
\* after its end nor ended before its beginning, committed the edit.  A client that
\* waits for each answer before it asks again never loses its plan, whatever fails.
RevisionLosesPlanToRivalOnly ==
  Requests # {} /\ editOrigin[Revision] # "absent" /\ ~revisionOn =>
    \E q, p \in Requests : /\ request[q] = "undone" /\ request[p] = "committed"
                           /\ q \notin earlier[p] /\ p \notin earlier[q]

=============================================================================
