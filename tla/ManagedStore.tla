---------------------------- MODULE ManagedStore ----------------------------
(***************************************************************************)
(* The durable rows of CutMaster's managed state: projects, ASTER runs,    *)
(* frozen edits, render variants, run checkpoints, execution attempts and  *)
(* the jobs that schedule them.  Every operation of SQLiteApplicationStore *)
(* runs under one BEGIN IMMEDIATE transaction, so every operation is one   *)
(* atomic action here; a call the code rejects leaves every row as it was  *)
(* and is a stuttering step, and so is the replay of a recorded command.   *)
(*                                                                         *)
(* A table is a group of variables, a column a function from row ids.      *)
(* Attempt ids are numbered in creation order: that number stands for the  *)
(* per-owner "sequence" column and for the (created_at, job_id) order in   *)
(* which jobs are claimed.                                                 *)
(***************************************************************************)
EXTENDS Integers, FiniteSets

CONSTANTS
  Projects, Materials, Runs, Edits, Variants,   \* row ids
  RunProject,       \* the project each run belongs to
  EditRun,          \* the run each frozen edit belongs to
  VariantEdit,      \* the edit each (edit, specification) pair renders
  Checkpoints,      \* checkpoint ids a publication can use
  Workers,          \* (worker_id, process_id) pairs that hold leases
  MaxAttempts,      \* bound on attempts ever created
  MaxActiveJobs,    \* capacity the supervisor passes to its claims
  Nil               \* SQL NULL

Owners == Materials \cup Runs \cup Variants
Attempts == 1..MaxAttempts

ASSUME StoreAssumption ==
  /\ RunProject \in [Runs -> Projects]
  /\ EditRun \in [Edits -> Runs]
  /\ VariantEdit \in [Variants -> Edits]
  /\ Materials \cap Runs = {} /\ Materials \cap Variants = {} /\ Runs \cap Variants = {}
  /\ MaxAttempts \in Nat /\ MaxActiveJobs \in Nat \ {0}
  /\ Nil \notin Owners \cup Checkpoints \cup Workers

ClaimedStatuses  == {"running", "retrying", "stopping"}
ActiveStatuses   == ClaimedStatuses \cup {"queued"}
TerminalStatuses == {"interrupted", "complete", "failed"}
AttemptStatus    == ActiveStatuses \cup TerminalStatuses
RunStatus     == {"queued", "planners", "complete", "failed", "interrupted"}
VariantStatus == {"queued", "rendering", "ready", "failed", "interrupted", "unavailable"}

VARIABLES
  projects,       \* existing projects
  runStatus,      \* runs.status, "absent" when there is no row
  editOrigin,     \* frozen_edits.origin, "absent" when there is no row
  variantStatus,  \* render_variants.status, "absent" when there is no row
  checkpoint,     \* run_checkpoints.checkpoint_id, Nil when there is no row
  attOwner,       \* attempts: material_id, run_id or render_variant_id
  attStatus,      \* attempts.status, "absent" when there is no row
  attPin,         \* attempts.resume_checkpoint_json
  jobStatus,      \* jobs.status
  stopRequested,  \* jobs.stop_requested
  jobWorker,      \* jobs.worker_id and jobs.process_id
  heartbeat,      \* age of jobs.heartbeat_at: "null", "fresh" or "expired"
  created         \* number of attempts created so far

ownerVars   == <<projects, runStatus, editOrigin, variantStatus, checkpoint>>
attemptVars == <<attOwner, attStatus, attPin, created>>
jobVars     == <<jobStatus, stopRequested, jobWorker, heartbeat>>
vars        == <<ownerVars, attemptVars, jobVars>>

Init ==
  /\ projects = {}
  /\ runStatus = [r \in Runs |-> "absent"]
  /\ editOrigin = [e \in Edits |-> "absent"]
  /\ variantStatus = [v \in Variants |-> "absent"]
  /\ checkpoint = [r \in Runs |-> Nil]
  /\ attOwner = [a \in Attempts |-> Nil]
  /\ attStatus = [a \in Attempts |-> "absent"]
  /\ attPin = [a \in Attempts |-> Nil]
  /\ jobStatus = [a \in Attempts |-> "absent"]
  /\ stopRequested = [a \in Attempts |-> FALSE]
  /\ jobWorker = [a \in Attempts |-> Nil]
  /\ heartbeat = [a \in Attempts |-> "null"]
  /\ created = 0

-----------------------------------------------------------------------------
(* Steps shared by several operations. *)

VariantRun(v) == EditRun[VariantEdit[v]]
RunFamily(r) == {r} \cup {v \in Variants : VariantRun(v) = r}
ProjectFamily(p) == UNION {RunFamily(r) : r \in {q \in Runs : RunProject[q] = p}}

\* Mutant: only the attempts of runs and materials block a deletion.
ActiveAttemptsOfParents(S) ==
  {a \in Attempts : attOwner[a] \in S \ Variants /\ attStatus[a] \in ActiveStatuses}

\* The attempts of the owners in S that block a deletion.
ActiveAttempts(S) ==
  {a \in Attempts : attOwner[a] \in S /\ attStatus[a] \in ActiveStatuses}

\* The newest attempt of an owner: the greatest sequence number.
IsLatest(a) == \A b \in Attempts : attOwner[b] = attOwner[a] => b <= a

\* f with every argument in S mapped to value.
SetAll(f, S, value) == [x \in DOMAIN f |-> IF x \in S THEN value ELSE f[x]]

\* A new queued attempt of o, with its job, pinned to a checkpoint or to Nil.
InsertAttempt(o, pin) ==
  LET a == created + 1 IN
  /\ a \in Attempts
  /\ created' = a
  /\ attOwner' = [attOwner EXCEPT ![a] = o]
  /\ attStatus' = [attStatus EXCEPT ![a] = "queued"]
  /\ attPin' = [attPin EXCEPT ![a] = pin]
  /\ jobStatus' = [jobStatus EXCEPT ![a] = "queued"]
  /\ UNCHANGED <<stopRequested, jobWorker, heartbeat>>

\* Mutant: a job that ends keeps its stop flag.
FinishAttemptsKeepsFlag(A, s) ==
  /\ attStatus' = SetAll(attStatus, A, s)
  /\ jobStatus' = SetAll(jobStatus, A, s)
  /\ heartbeat' = SetAll(heartbeat, A, "fresh")
  /\ UNCHANGED <<attOwner, attPin, created, jobWorker, stopRequested>>

\* The attempts in A and their jobs end with status s.
FinishAttempts(A, s) ==
  /\ attStatus' = SetAll(attStatus, A, s)
  /\ jobStatus' = SetAll(jobStatus, A, s)
  /\ stopRequested' = SetAll(stopRequested, A, FALSE)
  /\ heartbeat' = SetAll(heartbeat, A, "fresh")
  /\ UNCHANGED <<attOwner, attPin, created, jobWorker>>

\* The owners of the attempts in A take the failed or interrupted status s; a
\* completed attempt leaves its owner to the operation that completed it.
UpdateOwnersTerminal(A, s) ==
  LET os == {attOwner[a] : a \in A} IN
  /\ \/ /\ s = "complete"
        /\ UNCHANGED <<runStatus, variantStatus>>
     \/ /\ s # "complete"
        /\ runStatus' = SetAll(runStatus, os, s)
        /\ variantStatus' = SetAll(variantStatus, os, s)
  /\ UNCHANGED <<projects, editOrigin, checkpoint>>

\* The rows of the owners in S, and everything the foreign keys cascade to.
DeleteFamily(S) ==
  LET A == {a \in Attempts : attOwner[a] \in S} IN
  /\ runStatus' = SetAll(runStatus, S, "absent")
  /\ checkpoint' = SetAll(checkpoint, S, Nil)
  /\ editOrigin' = SetAll(editOrigin, {e \in Edits : EditRun[e] \in S}, "absent")
  /\ variantStatus' = SetAll(variantStatus, S, "absent")
  /\ attOwner' = SetAll(attOwner, A, Nil)
  /\ attStatus' = SetAll(attStatus, A, "absent")
  /\ attPin' = SetAll(attPin, A, Nil)
  /\ jobStatus' = SetAll(jobStatus, A, "absent")
  /\ stopRequested' = SetAll(stopRequested, A, FALSE)
  /\ jobWorker' = SetAll(jobWorker, A, Nil)
  /\ heartbeat' = SetAll(heartbeat, A, "null")
  /\ UNCHANGED created

-----------------------------------------------------------------------------
(* Projects and runs. *)

CreateProject(p) ==
  /\ p \notin projects
  /\ projects' = projects \cup {p}
  /\ UNCHANGED <<runStatus, editOrigin, variantStatus, checkpoint, attemptVars, jobVars>>

DeleteProject(p) ==
  /\ p \in projects
  /\ ActiveAttempts(ProjectFamily(p)) = {}
  /\ projects' = projects \ {p}
  /\ DeleteFamily(ProjectFamily(p))

QueueRun(r, pin) ==
  /\ runStatus' = [runStatus EXCEPT ![r] = "queued"]
  /\ InsertAttempt(r, pin)
  /\ UNCHANGED <<projects, editOrigin, variantStatus>>

CreateRun(r) ==
  /\ RunProject[r] \in projects
  /\ runStatus[r] = "absent"
  /\ QueueRun(r, Nil)
  /\ UNCHANGED checkpoint

\* A new run with the snapshot of a completed run of the same project.
CreateRunAgain(source, r) ==
  /\ runStatus[source] = "complete"
  /\ runStatus[r] = "absent"
  /\ RunProject[r] = RunProject[source]
  /\ QueueRun(r, Nil)
  /\ UNCHANGED checkpoint

\* The run becomes complete together with its initial frozen edit e.
CompleteRun(r, a, e) ==
  /\ runStatus[r] = "planners"
  /\ attOwner[a] = r
  /\ attStatus[a] \in {"running", "retrying"}
  /\ editOrigin[e] = "absent" /\ EditRun[e] = r
  /\ editOrigin' = [editOrigin EXCEPT ![e] = "initial"]
  /\ runStatus' = [runStatus EXCEPT ![r] = "complete"]
  /\ FinishAttempts({a}, "complete")
  /\ UNCHANGED <<projects, variantStatus, checkpoint>>

CreateRevision(source, e) ==
  /\ editOrigin[source] # "absent"
  /\ runStatus[EditRun[source]] = "complete"
  /\ editOrigin[e] = "absent" /\ EditRun[e] = EditRun[source]
  /\ editOrigin' = [editOrigin EXCEPT ![e] = "guided_revision"]
  /\ UNCHANGED <<projects, runStatus, variantStatus, checkpoint, attemptVars, jobVars>>

\* retry_run with resume set: the attempt pins the checkpoint c the service has
\* validated, provided it still is the current one.
ResumeRun(r, c) ==
  /\ runStatus[r] = "interrupted"
  /\ checkpoint[r] = c
  /\ QueueRun(r, c)
  /\ UNCHANGED checkpoint

\* Mutant: a completed run can be started over too.
RetryAnyEndedRun(r) ==
  /\ runStatus[r] \in {"failed", "complete"}
  /\ checkpoint' = [checkpoint EXCEPT ![r] = Nil]
  /\ QueueRun(r, Nil)

\* retry_run without resume: it starts over and discards the checkpoint.
RetryRun(r) ==
  /\ runStatus[r] = "failed"
  /\ checkpoint' = [checkpoint EXCEPT ![r] = Nil]
  /\ QueueRun(r, Nil)

\* Mutant: a worker publishes after its attempt has ended.
PublishLateCheckpoint(r, a, c) ==
  /\ runStatus[r] # "absent"
  /\ attOwner[a] = r
  /\ \A q \in Runs : checkpoint[q] # c
  /\ \A b \in Attempts : attPin[b] # c
  /\ checkpoint' = [checkpoint EXCEPT ![r] = c]
  /\ UNCHANGED <<projects, runStatus, editOrigin, variantStatus, attemptVars, jobVars>>

\* c is a fresh id: no row and no pin names it.
PublishRunCheckpoint(r, a, c) ==
  /\ runStatus[r] # "absent"
  /\ attOwner[a] = r
  /\ attStatus[a] \in ClaimedStatuses
  /\ \A q \in Runs : checkpoint[q] # c
  /\ \A b \in Attempts : attPin[b] # c
  /\ checkpoint' = [checkpoint EXCEPT ![r] = c]
  /\ UNCHANGED <<projects, runStatus, editOrigin, variantStatus, attemptVars, jobVars>>

\* Called by the worker that has just completed the run.
ClearRunCheckpoint(r) ==
  /\ runStatus[r] = "complete"
  /\ checkpoint' = [checkpoint EXCEPT ![r] = Nil]
  /\ UNCHANGED <<projects, runStatus, editOrigin, variantStatus, attemptVars, jobVars>>

DeleteRun(r) ==
  /\ runStatus[r] # "absent"
  /\ ActiveAttempts(RunFamily(r)) = {}
  /\ DeleteFamily(RunFamily(r))
  /\ UNCHANGED projects

-----------------------------------------------------------------------------
(* Render variants. *)

QueueVariant(v) ==
  /\ variantStatus' = [variantStatus EXCEPT ![v] = "queued"]
  /\ InsertAttempt(v, Nil)
  /\ UNCHANGED <<projects, runStatus, editOrigin, checkpoint>>

\* A second request for the same (edit, specification) returns the first row.
CreateRenderVariant(v) ==
  /\ editOrigin[VariantEdit[v]] # "absent"
  /\ variantStatus[v] = "absent"
  /\ QueueVariant(v)

CompleteRenderVariant(v, a) ==
  /\ variantStatus[v] = "rendering"
  /\ attOwner[a] = v
  /\ attStatus[a] \in ClaimedStatuses
  /\ variantStatus' = [variantStatus EXCEPT ![v] = "ready"]
  /\ FinishAttempts({a}, "complete")
  /\ UNCHANGED <<projects, runStatus, editOrigin, checkpoint>>

\* Retry, resume and render again start from one recorded status each.
RetryRenderVariant(v) ==
  /\ variantStatus[v] \in {"failed", "interrupted", "unavailable"}
  /\ QueueVariant(v)

VariantUnavailable(v) ==
  /\ variantStatus[v] = "ready"
  /\ variantStatus' = [variantStatus EXCEPT ![v] = "unavailable"]
  /\ UNCHANGED <<projects, runStatus, editOrigin, checkpoint, attemptVars, jobVars>>

\* A reader found the master missing.
MarkRenderUnavailable(v) == VariantUnavailable(v)

\* A verification found the master damaged; a successful one changes no row.
RecordRenderVerification(v) == VariantUnavailable(v)

DeleteRenderVariant(v) ==
  /\ variantStatus[v] # "absent"
  /\ ActiveAttempts({v}) = {}
  /\ DeleteFamily({v})
  /\ UNCHANGED projects

-----------------------------------------------------------------------------
(* Material analysis attempts: a material has no status row of its own. *)

\* Mutant: no look at the material's active attempts.
EnqueueUnchecked(m) ==
  /\ InsertAttempt(m, Nil)
  /\ UNCHANGED ownerVars

EnqueueMaterialAnalysis(m) ==
  /\ ActiveAttempts({m}) = {}
  /\ InsertAttempt(m, Nil)
  /\ UNCHANGED ownerVars

\* Retry (failed) and resume (interrupted) look at the latest attempt only.
RequeueMaterialAnalysis(m) ==
  /\ \E a \in Attempts : /\ attOwner[a] = m /\ IsLatest(a)
                         /\ attStatus[a] \in {"failed", "interrupted"}
  /\ InsertAttempt(m, Nil)
  /\ UNCHANGED ownerVars

PurgeMaterialAttempts(m) ==
  /\ ActiveAttempts({m}) = {}
  /\ DeleteFamily({m})
  /\ UNCHANGED projects

-----------------------------------------------------------------------------
(* Claims, leases and heartbeats. *)

QueuedJobs == {a \in Attempts : jobStatus[a] = "queued" /\ attStatus[a] = "queued"}
ClaimedJobs ==
  {a \in Attempts : jobStatus[a] \in ClaimedStatuses /\ attStatus[a] \in ClaimedStatuses}

\* A queued job whose owner has no claimed attempt.
EligibleJobs ==
  {a \in QueuedJobs : \A b \in Attempts :
     attStatus[b] \in ClaimedStatuses => attOwner[b] # attOwner[a]}

ClaimJobRow(a, w) ==
  /\ attStatus' = [attStatus EXCEPT ![a] = "running"]
  /\ jobStatus' = [jobStatus EXCEPT ![a] = "running"]
  /\ jobWorker' = [jobWorker EXCEPT ![a] = w]
  /\ heartbeat' = [heartbeat EXCEPT ![a] = "fresh"]
  /\ runStatus' = SetAll(runStatus, {attOwner[a]}, "planners")
  /\ variantStatus' = SetAll(variantStatus, {attOwner[a]}, "rendering")
  /\ UNCHANGED <<projects, editOrigin, checkpoint, attOwner, attPin, created, stopRequested>>

\* A worker started by hand claims one exact job, or the oldest queued one; the
\* former includes the latter.
ClaimNextJob(a, w) ==
  /\ a \in QueuedJobs
  /\ ClaimJobRow(a, w)

\* Mutant: one job too many.
ClaimBeyondCapacity(a, w) ==
  /\ Cardinality(ClaimedJobs) <= MaxActiveJobs
  /\ a \in EligibleJobs
  /\ \A b \in EligibleJobs : a <= b
  /\ ClaimJobRow(a, w)

\* Mutant: a job that runs can be claimed again.
ClaimRunningJob(a, w) ==
  /\ jobStatus[a] \in {"queued", "running"}
  /\ ClaimJobRow(a, w)

ClaimNextSupervisedJob(a, w) ==
  /\ Cardinality(ClaimedJobs) < MaxActiveJobs
  /\ a \in EligibleJobs
  /\ \A b \in EligibleJobs : a <= b
  /\ ClaimJobRow(a, w)

\* The child process w takes over the lease the supervisor s claimed.
AdoptSupervisedJob(a, s, w) ==
  /\ jobStatus[a] = "running" /\ attStatus[a] = "running"
  /\ jobWorker[a] = s
  /\ jobWorker' = [jobWorker EXCEPT ![a] = w]
  /\ heartbeat' = [heartbeat EXCEPT ![a] = "fresh"]
  /\ UNCHANGED <<ownerVars, attemptVars, jobStatus, stopRequested>>

HeartbeatJob(a) ==
  /\ jobStatus[a] \in ClaimedStatuses
  /\ heartbeat' = [heartbeat EXCEPT ![a] = "fresh"]
  /\ UNCHANGED <<ownerVars, attemptVars, jobStatus, stopRequested, jobWorker>>

\* Time passes without a heartbeat until the audit's cutoff is behind.  The age
\* of a job that is not claimed is never read.
HeartbeatExpires(a) ==
  /\ a \in ClaimedJobs
  /\ heartbeat[a] = "fresh"
  /\ heartbeat' = [heartbeat EXCEPT ![a] = "expired"]
  /\ UNCHANGED <<ownerVars, attemptVars, jobStatus, stopRequested, jobWorker>>

-----------------------------------------------------------------------------
(* Stop requests and attempt transitions. *)

\* A queued attempt is interrupted at once; a claimed one is asked to stop; the
\* call returns a terminal attempt as it is.
RequestStop(a) ==
  \/ /\ attStatus[a] = "queued"
     /\ FinishAttempts({a}, "interrupted")
     /\ UpdateOwnersTerminal({a}, "interrupted")
  \/ /\ attStatus[a] \in ClaimedStatuses
     /\ attStatus' = [attStatus EXCEPT ![a] = "stopping"]
     /\ jobStatus' = [jobStatus EXCEPT ![a] = "stopping"]
     /\ stopRequested' = [stopRequested EXCEPT ![a] = TRUE]
     /\ UNCHANGED <<ownerVars, attOwner, attPin, created, jobWorker, heartbeat>>

MarkAttemptRetrying(a) ==
  /\ attStatus[a] = "running"
  /\ attStatus' = [attStatus EXCEPT ![a] = "retrying"]
  /\ jobStatus' = [jobStatus EXCEPT ![a] = "retrying"]
  /\ UNCHANGED <<ownerVars, attOwner, attPin, created, stopRequested, jobWorker, heartbeat>>

TransitionAttempt(a, allowed, s) ==
  /\ attStatus[a] \in allowed
  /\ FinishAttempts({a}, s)
  /\ UpdateOwnersTerminal({a}, s)

MarkAttemptInterrupted(a) == TransitionAttempt(a, ClaimedStatuses, "interrupted")

MarkAttemptFailed(a) == TransitionAttempt(a, ActiveStatuses, "failed")

\* A late stop request completes: the published memory cannot be rolled back.
CompleteMaterialAttempt(a) ==
  /\ attOwner[a] \in Materials
  /\ TransitionAttempt(a, ClaimedStatuses, "complete")

\* Mutant: the audit forgets the owners of the attempts it interrupts.
InterruptJobsOnly ==
  LET orphans == {a \in ClaimedJobs : heartbeat[a] # "fresh"} IN
  /\ orphans # {}
  /\ FinishAttempts(orphans, "interrupted")
  /\ UNCHANGED ownerVars

\* Mutant: the audit passes over jobs that are stopping.
InterruptUnstoppedJobs ==
  LET orphans == {a \in ClaimedJobs : heartbeat[a] # "fresh" /\ ~stopRequested[a]} IN
  /\ orphans # {}
  /\ FinishAttempts(orphans, "interrupted")
  /\ UpdateOwnersTerminal(orphans, "interrupted")

\* The audit interrupts every claimed job whose heartbeat is behind the cutoff.
InterruptOrphanedJobs ==
  LET orphans == {a \in ClaimedJobs : heartbeat[a] # "fresh"} IN
  /\ orphans # {}
  /\ FinishAttempts(orphans, "interrupted")
  /\ UpdateOwnersTerminal(orphans, "interrupted")

-----------------------------------------------------------------------------
ProjectStep ==
  \/ \E p \in Projects : CreateProject(p) \/ DeleteProject(p)
  \/ \E r \in Runs : CreateRun(r) \/ RetryRun(r) \/ ClearRunCheckpoint(r) \/ DeleteRun(r)
  \/ \E source, r \in Runs : CreateRunAgain(source, r)
  \/ \E r \in Runs, c \in Checkpoints : ResumeRun(r, c)
  \/ \E source, e \in Edits : CreateRevision(source, e)

RunStep ==
  \E r \in Runs, a \in Attempts :
    \/ \E e \in Edits : CompleteRun(r, a, e)
    \/ \E c \in Checkpoints : PublishRunCheckpoint(r, a, c)

VariantStep ==
  \E v \in Variants :
    \/ CreateRenderVariant(v) \/ RetryRenderVariant(v) \/ DeleteRenderVariant(v)
    \/ MarkRenderUnavailable(v) \/ RecordRenderVerification(v)
    \/ \E a \in Attempts : CompleteRenderVariant(v, a)

MaterialStep ==
  \E m \in Materials :
    EnqueueMaterialAnalysis(m) \/ RequeueMaterialAnalysis(m) \/ PurgeMaterialAttempts(m)

JobStep ==
  \E a \in Attempts :
    \/ HeartbeatJob(a) \/ HeartbeatExpires(a)
    \/ RequestStop(a) \/ MarkAttemptRetrying(a) \/ MarkAttemptInterrupted(a)
    \/ MarkAttemptFailed(a) \/ CompleteMaterialAttempt(a)
    \/ \E w \in Workers : ClaimNextJob(a, w) \/ ClaimNextSupervisedJob(a, w)
    \/ \E s, w \in Workers : AdoptSupervisedJob(a, s, w)

Next == ProjectStep \/ RunStep \/ VariantStep \/ MaterialStep \/ JobStep \/ InterruptOrphanedJobs

Spec == Init /\ [][Next]_vars

-----------------------------------------------------------------------------
(* Properties. *)

\* Every column holds values of its type, and ids above created are unused.
TypeOK ==
  /\ projects \subseteq Projects
  /\ runStatus \in [Runs -> RunStatus \cup {"absent"}]
  /\ editOrigin \in [Edits -> {"initial", "guided_revision", "absent"}]
  /\ variantStatus \in [Variants -> VariantStatus \cup {"absent"}]
  /\ checkpoint \in [Runs -> Checkpoints \cup {Nil}]
  /\ attOwner \in [Attempts -> Owners \cup {Nil}]
  /\ attStatus \in [Attempts -> AttemptStatus \cup {"absent"}]
  /\ attPin \in [Attempts -> Checkpoints \cup {Nil}]
  /\ jobStatus \in [Attempts -> AttemptStatus \cup {"absent"}]
  /\ stopRequested \in [Attempts -> BOOLEAN]
  /\ jobWorker \in [Attempts -> Workers \cup {Nil}]
  /\ heartbeat \in [Attempts -> {"null", "fresh", "expired"}]
  /\ created \in 0..MaxAttempts
  /\ \A a \in Attempts : (attOwner[a] = Nil) <=> (attStatus[a] = "absent")
  /\ \A a \in Attempts : a > created => attStatus[a] = "absent"

\* The two tables that record an attempt agree although every operation writes
\* them with separate UPDATE statements, and a raised stop flag and the status
\* "stopping" are the same thing: a worker that polls the flag misses no stop.
JobMirrorsAttempt ==
  \A a \in Attempts :
    /\ jobStatus[a] = attStatus[a]
    /\ stopRequested[a] <=> attStatus[a] = "stopping"

\* An owner never has two active attempts, and an active attempt is its owner's
\* newest.  No operation but enqueue_material_analysis looks for an active
\* attempt: run and render recovery trust the owner's status, and a material's
\* retry and resume trust the status of the newest attempt.
OneActiveAttempt ==
  \A a, b \in Attempts :
    (attStatus[a] \in ActiveStatuses /\ attOwner[b] = attOwner[a]) => b <= a

RunStatusOf(s) ==
  CASE s = "queued" -> "queued" [] s \in ClaimedStatuses -> "planners" [] OTHER -> s
VariantStatusesOf(s) ==
  CASE s = "queued" -> {"queued"} [] s \in ClaimedStatuses -> {"rendering"}
    [] s = "complete" -> {"ready", "unavailable"} [] OTHER -> {s}

\* The status of a run or a render variant is the one its newest attempt
\* implies, whatever order claims, stops, audits, completions, recoveries and
\* deletions come in: an older attempt can no longer change its owner.
OwnerFollowsLatestAttempt ==
  \A a \in Attempts :
    (attStatus[a] # "absent" /\ IsLatest(a)) =>
      /\ attOwner[a] \in Runs => runStatus[attOwner[a]] = RunStatusOf(attStatus[a])
      /\ attOwner[a] \in Variants =>
           variantStatus[attOwner[a]] \in VariantStatusesOf(attStatus[a])

\* No row outlives what it belongs to: attempts, variants, edits and
\* checkpoints exist only under an existing run, runs only under a project, and
\* a run or variant row always has the attempt that explains its status.
NoOrphanRows ==
  /\ \A r \in Runs : runStatus[r] # "absent" => RunProject[r] \in projects
  /\ \A r \in Runs : checkpoint[r] # Nil => runStatus[r] # "absent"
  /\ \A e \in Edits : editOrigin[e] # "absent" => runStatus[EditRun[e]] # "absent"
  /\ \A v \in Variants : variantStatus[v] # "absent" => editOrigin[VariantEdit[v]] # "absent"
  /\ \A r \in Runs : runStatus[r] # "absent" <=> \E a \in Attempts : attOwner[a] = r
  /\ \A v \in Variants : variantStatus[v] # "absent" <=> \E a \in Attempts : attOwner[a] = v

\* A run is complete exactly when it has its one initial frozen edit, and only
\* complete runs have edits at all: retries, late completions and revisions
\* never give a run a second initial edit or an unfinished run a revision.
CompleteRunHasItsEdit ==
  \A r \in Runs :
    /\ runStatus[r] = "complete" <=>
         \E e \in Edits : EditRun[e] = r /\ editOrigin[e] = "initial"
    /\ \A e, f \in Edits :
         (/\ EditRun[e] = r /\ EditRun[f] = r
          /\ editOrigin[e] = "initial" /\ editOrigin[f] = "initial") => e = f
    /\ \A e \in Edits :
         (EditRun[e] = r /\ editOrigin[e] # "absent") => runStatus[r] = "complete"

\* Between the moment a resume is queued and the moment its attempt starts, the
\* checkpoint it pinned stays the run's published checkpoint: nothing replaces
\* or discards the state the attempt is about to load.
QueuedResumeKeepsItsCheckpoint ==
  \A a \in Attempts :
    (attStatus[a] = "queued" /\ attPin[a] # Nil) => checkpoint[attOwner[a]] = attPin[a]

\* An attempt's life is one way: it is claimed once, a stop request is never
\* taken back, and a finished attempt is never written again, only deleted.
Rank(s) ==
  CASE s = "absent" -> 0 [] s = "queued" -> 1 [] s = "running" -> 2 [] s = "retrying" -> 3
    [] s = "stopping" -> 4 [] OTHER -> 5
AttemptMovesForward ==
  [][\A a \in Attempts :
       \/ attStatus'[a] = attStatus[a]
       \/ attStatus'[a] = "absent" /\ attStatus[a] \in TerminalStatuses
       \/ Rank(attStatus[a]) < Rank(attStatus'[a])]_vars

\* Work in progress is never deleted under its worker: the row of an active
\* attempt outlives every deletion of a project, run, variant or material, even
\* when it belongs to a variant several cascades away.
ActiveAttemptSurvives ==
  [][\A a \in Attempts : attStatus[a] \in ActiveStatuses => attStatus'[a] # "absent"]_vars

\* A lease is handed over only while the job is running: once an attempt has
\* been asked to stop or has ended, the child the supervisor launched for it
\* can no longer take the job, and a running job changes hands by adoption from
\* its recorded holder only.
LeaseChangesOnlyWhileRunning ==
  [][\A a \in Attempts : jobWorker'[a] # jobWorker[a] =>
       \/ attStatus[a] = "queued" /\ attStatus'[a] = "running"
       \/ attStatus[a] = "running" /\ attStatus'[a] = "running" /\ jobWorker[a] # Nil
       \/ attStatus'[a] = "absent"]_vars

\* A supervised claim takes the oldest queued job there is: serialising each
\* owner never makes a younger job overtake an older one, because the owner of
\* a queued attempt has no claimed attempt.
QueuedJobsAreEligible == EligibleJobs = QueuedJobs
=============================================================================
