# CutMaster in TLA+

CutMaster turns a video, a piece of music and an editing intent into a rendered
edit.  The long work (material analysis, ASTER planning, rendering) runs in
worker processes that may crash, be stopped, be taken for dead, or outlive the
server that launched them, while users retry, resume, stop and delete things and
the application data root can move to another disk.  This directory holds TLA+
models of that machinery and of the two workflows it runs, TLC configurations that
check them on small instances, and TLAPS proofs.

Source paths below are relative to `src/src/cutmaster/`.

## 1. Inventory of the system

| Component | State | Operations | Properties that make it correct |
|---|---|---|---|
| Managed store (`infrastructure/persistence/sqlite`) | tables of projects, runs, frozen edits, render variants, run checkpoints, attempts, jobs, command receipts, events | one `BEGIN IMMEDIATE` transaction per operation | one active attempt per owner; owner status follows its newest attempt; attempts only move forward; no row outlives its parent; a complete run has its one initial edit |
| Job supervisor (`adapters/worker`) | supervisor thread, claims, child processes, reapers | start, audit, claim, launch, reap, shutdown | one child per claim; capacity; every attempt ends; stop ends in Interrupted; live workers are not doubled |
| Stage executors (`application/workflow/*_job.py`) | worker process, heartbeat thread, published files | adopt, heartbeat, work, publish, complete, fail | completion or failure is recorded once; files agree with rows |
| Run service and checkpoints (`application/runs`) | checkpoint files, plan and review files of a run | create, retry, resume, run again, complete, revise, delete | a published or pinned checkpoint can be loaded; a complete run's plan stays what it was |
| Render service (`application/renders`) | master and cover files, media locks, integrity cache | create, execute, complete, verify, render again, delete | a Ready variant's master is the recorded one; only damaged masters become Unavailable |
| Material service and catalog (`application/materials`, `infrastructure/storage/local/material_catalog.py`) | owner directories, consume and mutation leases, memory publications | import, analyse, publish, rename, delete | no deletion under a reader; publication is all or nothing |
| Project service (`application/projects`) | names, drafts, material references | create, rename, draft edits, delete | unique names; versions of drafts |
| Data root coordination and migration (`application/settings/data_root_migration.py`, `infrastructure/storage/local/data_root_*.py`) | control row, reader/writer locks, migration row, manifest, pointer | start, claim, copy, verify, switch, cancel, roll back, finalise | one worker; never two authoritative roots; a crash leaves the old or the new one |
| Settings and providers (`application/settings`) | layered settings file, secrets, receipts | update, reset, replay | a replay repeats its answer |
| Web adapter and event stream (`adapters/web`) | SSE cursor | replay, live events, resync | no silent gap |
| Planners (`workflow/planners`) | slots, anchors, trajectories, replan state, a checkpoint per agent | arrange, anchor the story, scout, compose, compile; repair locally or globally; resume | every choice the composer has is chronological; reuse fits the repaired plan; no agent is asked for the impossible; the loop of replans ends |
| Analyser (`workflow/analyser`) | the memory directory of a material, the usage ledger, thread pools | detect, transcribe, segment, annotate, summarise, tell, seal; reuse of every file of earlier attempts | a sealed memory is whole and of one analysis; what was paid for is kept and on record |
| Renderer (`workflow/renderer`) | FFmpeg processes | build and run commands | media I/O |
| CLI, configuration, model adapters, web client | translation and I/O | | |

Components interact through the store (every status, stop flag, lease and event
is a row), through files under the data root (published before the row that
names them, removed after it), through the data root's shared/exclusive
authority (`root_shared_operation` refuses work under maintenance), and, inside a
server, through the supervisor's wake event.

What is hard here: several processes finishing the same attempt; a decision
carried out on a value read one transaction earlier; crashes between a file and
its row; heartbeats that stop while the worker goes on; cascading deletions;
maintenance that begins between a look and an act; long chains of retry, resume
and run again.  `PROJECT.json` lists each hazard at its line with the properties
that watch it.

## 2. Modules

* **`ManagedStore`** is the store's control: one atomic action per operation.
  `projects`, `runStatus`, `editOrigin`, `variantStatus` and `checkpoint` are the
  tables of owners, `attOwner`, `attStatus`, `attPin` the attempts, `jobStatus`,
  `stopRequested`, `jobWorker`, `heartbeat` the jobs.  A row that does not exist
  has status `"absent"`.  A rejected call and the replay of a recorded command
  change no row and are stuttering.
* **`ExecutionSlots`** is the abstract promise of the store: each run, variant or
  material is a slot that holds at most one attempt and shows one phase.
  **`StoreSlots`** gives the refinement mapping and the property `ActsAsSlots`.
* **`JobSupervisor`** EXTENDS `ManagedStore` with supervisor threads, children,
  reapers, heartbeats and maintenance.  A value that is read and acted on later
  is a state of its own (`"auditing"`, `"claimed"`, `"deciding"`, `"failing"`), so
  that everything else can happen in between.
* **`RunFiles`** EXTENDS `ManagedStore` with what a planning worker and the run
  service do to files: the plan, the review bundle and the checkpoint files of a
  run, each published before its row and removed after it.
* **`MaterialCatalog`** EXTENDS `ManagedStore` with the material library: the
  manifest, one directory and one reader-writer lock per material, imports with
  their roll-back, sidecar subtitles, analysis workers that publish, consumers
  (project saves, run creation, workers) that commit references, and deletions
  that go through two stores step by step and are replayed after a crash.
* **`RenderFiles`** EXTENDS `ManagedStore` with the masters and covers of
  variants: staging, the four moves of a publication, their roll-back, readers
  that verify and condemn, streams that verify the descriptor they play from, and
  deletion, of the variant under its server's media lock and of its run or project
  under none.
* **`Analysis`** stands alone: attempts that build a material's memory stage by
  stage over the files that earlier attempts left, with the pools that ask for
  scenes, notes and summaries.  `disk` is the memory directory, `known` what the
  attempt holds in memory, `thread`, `batch` and `answer` its threads.
* **`Planning`** stands alone: one planning with its agents, the answers their
  validation accepts, repairs and the checkpoint it resumes from.
* **`RootMigration`** stands alone: the control database, the pointer, the roots,
  the lease, servers with their migration supervisors, and migration workers.
  `JobSupervisor` sees of it only that maintenance begins and ends.
* **`MC...`** modules give TLC its instances.
* **`ManagedStoreProofs`**, **`SupervisorProofs`**, **`RunFilesProofs`**,
  **`RenderFilesProofs`**, **`MaterialCatalogProofs`**, **`RootMigrationProofs`**,
  **`AnalysisProofs`**, **`PlanningProofs`** hold the theorems.

Operators whose comment starts with *Mutant* are deliberate mistakes used to
show that a property can fail; no specification uses them.

### Abstractions worth knowing

* Attempt ids are numbered in creation order.  The number stands for the
  per-owner `sequence` and for the `(created_at, job_id)` order of claims.
* `heartbeat` is the age of `heartbeat_at` relative to the audit's cutoff.
  `HeartbeatExpires` is the passing of time; the code's audit period is not
  modelled, since an audit that is not due behaves like one that finds every
  lease fresh.
* `ClaimNextJob` claims any queued job.  A worker started by hand names one or
  takes the oldest; the action covers both.
* `MarkAttemptRetrying` has no caller in the application today; it is part of
  the store's interface and is modelled as such.
* A busy database that raises out of the supervisor's loop ends its thread like
  a crash does and is covered by `ServerEnds`.
* In `JobSupervisor` the users' commands are those that queue and stop work;
  deletions, checkpoints, revisions and hand-started workers are checked in
  `ManagedStore` alone, where nothing about threads matters to them.
* In `RunFiles` the plan stands for all files under a run's fixed plan path and
  the bundle's manifest for the bundle; previews, render variants and usage
  records are left out.  A run's id is not used again after its deletion, as the
  code's are random.  `LeasesLost` says whether a live worker may be taken for an
  orphan.  The commit of a revision may fail at any time, as when the database is
  busy, and a request may be cut where it is; `earlier` is a history variable, the
  requests that had ended when each one began.
* In `MaterialCatalog` a look at the manifest and a change of it are one step
  each, because each holds the manifest lock; the lock of the material is the
  only one held over several steps.  An analysis is known by the attempt that
  published it.
* In `RenderFiles` a file is known by the attempt that wrote it; its digest
  stands for it.  Lost leases of render workers are not modelled there.
  `_media_locks` are locks of one `RendersService` (`application/renders/service.py:99`),
  so that `mediaLock` is a table per server.  Taking the lock is one step with the
  deletion's row transaction, or with the stream's read of the row, that follows:
  only a holder's next step can show that it was taken.  The deletions of a run
  and of a project share one state, `cascade`: their directories go at any time after
  their rows, and a crash in between is a removal that comes late or never.
* In `JobSupervisor` the look for running attempts and the announcement of a
  maintenance are one step.  In the code a claim may come between the two; the
  migration's worker then finds the attempt and hands the root back
  (`infrastructure/storage/local/data_root_migration.py:281`).
* In `Planning` the model's answers are every answer the validation accepts;
  everything about a slot that does not move it is one value of `Contents`.  The
  trajectories of a group are the windows its retrieval may find, at most
  `Target` of them.
* In `Analysis` an answer is known by the attempt it was given to.  The signature
  stands for everything in `analysis_signature`; `max_shots_per_request` is not
  part of it in the code either and is chosen afresh by each attempt from
  `Limits`.  The files of a stage that are written together and read together are
  one file.  A source of one shot, which makes no scene windows, is left out.
* In `RootMigration` a root's content is a count of the writes made to it and
  whether it is whole; the statuses from `requested` to `verifying` and
  `cancelling` are one, `"open"`, as no decision tells them apart.  A worker's
  progress updates are part of the step they report.  A server runs one
  operation and one admission at a time; `sharing` also stands for its job
  workers, which hold the lease for as long as they live.  A heartbeat expires
  only once no server tracks the worker: supervisors look twice a second and it
  takes 45 seconds.

## 3. Runs

| Run | Instance | Shows |
|---|---|---|
| `store` | 1 material, 2 runs, 3 edits, 1 variant, 2 checkpoints, 3 attempts | attempts, jobs, owners, edits and checkpoints agree; the store implements `ExecutionSlots` |
| `supervisor_safety` | 2 concurrent servers, 2 materials, 2 attempts, capacity 1, 1 maintenance | shared capacity; open workers hold their lease |
| `supervisor_live` | 2 servers one after the other, material, run, edit and render, 2 attempts, capacity 1 | every attempt ends through crashes, stops and renders |
| `supervisor_maintenance` (violation) | 1 server, 1 maintenance | the queue can stay undrained |
| `run_artifacts` | 1 run, 3 attempts, 2 requests of one revision whose commits may fail | plans and bundles on disk are those of the attempt that completed the run; a revision's plan is lost to a rival request only; a deleted run leaves nothing |
| `run_checkpoints` | 1 run, 3 attempts, 2 checkpoint files, live workers taken for dead | published and pinned checkpoints are on disk |
| `root_migration` | 2 servers, 2 roots, 1 migration, 2 workers | the pointer always names a whole root that has every write; operations run on it alone |
| `materials` | 1 material, 2 attempts, 1 consumer, 2 deletion commands | references stay good, memories know their subtitle, deletions are final, readers see one memory |
| `renders` | 1 variant, 3 renders, 2 servers with a reader each, deletions of variant, run and project, outside damage | a ready variant has its recorded files; pairs stay pairs; streams play what they verified; a deleted variant leaves nothing |
| `planning` | 3 slots, 3 segments, 2 passages, 2 rounds, 1 local repair, 1 interruption | pools fit the plan, choices are chronological, repairs are possible, checkpoints resume |
| `analysis` | 3 shots, 2 spoken, 2 signatures, 3 attempts, 2 threads | sealed memories are whole and of one analysis; answers are kept and on record; attempts end |
| `analysis_retranscribed` (violation) | the same with `analyser.asr.reuse` off | a resumed analysis mixes two transcriptions |

The bounds are `MaxAttempts`, `MaxMaintenance`, `MaxMigrations`, `MaxLaunches`,
`MaxWrites`, `MaxResumes` and the sets of ids; `MaxRounds`, `MaxLocalReplans`,
`MaxAnchors`, `Limits` and `Concurrency` are settings of the program.  Why they
are enough:

* Three attempts let one owner fail, be retried and be completed or recovered
  again, or two owners have attempts side by side; an edit has a second edit to
  clash with and a checkpoint a second one to replace it.  What the store run
  shows for three attempts the proofs show for any number.
* In `supervisor_safety` and `supervisor_live` two attempts compete for a
  capacity of one, each server has another to be confused with or to clean up
  after, and a render needs the run that was completed before it.
* Two migration workers let one take up what a crash has left of the other, two
  servers let one stay up with the old root while the other completes the move,
  and one write is enough to tell two roots apart.
* A second deletion command is the replay, or a rival; a second analysis attempt
  is the one that finds the memory of the first; the import's own roll-back is a
  third deleter.
* Four attempts in `renders` are the planning and three renders: one that is
  published, one that is torn by a crash, one that repairs it.  A ready variant is
  rendered again only after a reader has condemned it, so that a stream that meets a
  later render needs a second reader; each reader has a server of its own, and so
  each stream a deletion its lock holds off and one it does not.
* Two requests of a revision are the fewest of which one can take away what the
  other has committed; that a third changes nothing is proved.
* In `planning` three slots are the fewest in which an anchor over two of them
  leaves a group to repair; the segments differ in length so that windows do; the
  local repair, the second round and the interruption can each meet the others.
* In `analysis` three shots make every segmentation into one, two and three
  segments, a limit of two makes a segment of three take two batches the last of
  which is shorter, and the third attempt finds what two earlier ones left.

`CHECK_DEADLOCK FALSE` is set where a system legitimately stops: the attempts (or
launches) are used up and the server has ended, the owner has been deleted, or the
planning is done.

Some runs hold under a stated assumption, and the models show why it is needed:

* `run_artifacts` has `LeasesLost` FALSE.  A worker that is taken for an orphan and
  goes on overwrites or unlinks the plan of the attempt that has completed the run,
  since every attempt uses one path (`application/workflow/run_job.py:296`, `:386`):
  `CompleteRunKeepsItsArtifacts` fails with `LeasesLost` TRUE.
* `root_migration` has `SyncFails` FALSE (see section 5) and `PatientStarts` TRUE:
  a server's start falls between the others' steps.  With FALSE a start that finds
  the migration switching recovers it without taking the lease
  (`adapters/web/data_root_migration_supervisor.py:258`) although the worker may be
  alive and about to replace the pointer, and a reaper that has not yet run marks
  it failed under the worker that replaced the dead one: `PointedRootIsWhole`,
  `OneWorkerPerDestination` and `StartIsNeverRefused` fail.  With two migrations
  and two servers `StartIsNeverRefused` fails too: the announcement of the first,
  delayed until the second has moved the pointer, names the first in the control
  state, so that the next start does not find the migration its pointer belongs
  to.  The other properties are proved for any number of migrations.
* `analysis` has one value in `Limits`: an attempt with another
  `max_shots_per_request` numbers its batches differently, finds the requests of
  its files changed and asks again.  With `{1, 2}` `AnswersAreKept` fails, and so
  does `MemoryIsOfOneAnalysis`: the story, which is reused when it names the same
  segments (`workflow/analyser/material_analyst.py:1957`), was told of the earlier
  notes.  `SealedMemoryIsWhole`, `CheckpointsAreOnRecord` and
  `OnlyTheRecordedAnalysisWrites` do not need this and are proved without it.
* `materials` lets the manifest write fail in the roll-back of an import only
  (`FailingWrites`).  A deletion that finds the directory staged by another takes
  no lock (`infrastructure/storage/local/material_catalog.py:1068`); when the
  other's write fails and the directory is put back, it deletes it although a
  project has referenced the material meanwhile: with a command in `FailingWrites`
  `ReferencedMaterialIsReady` fails.

Fairness.  `SupFairness`: threads and processes that can take a step do, a lease
nobody renews grows old, somebody starts a server when none runs, and maintenance
ends.  Nothing is assumed of the user or of crashes.  The code justifies it: the
loop polls, `process.wait` returns when the child exits, the audit uses the clock,
and migrations end in a state that hands the root back.  `FairSpec` of `Analysis`:
an attempt whose process lives goes on, since every wait in it is for a call with
a deadline or for a thread of its own pool.  `Planning` needs none:
`EveryStepAdvances` bounds its steps by a measure instead.

## 4. Proofs

All theorems hold for every number of rows, attempts, workers, servers, shots and
every value of the settings; they assume the named ASSUMEs of the modules, which
TLC evaluates in the runs.  Some state a hypothesis on a setting of the model as
well (`LeasesLost`, `DeletionsCanWrite`, `SyncFails` and
`PatientStarts`, `MaxMigrations`, `Reuse` and `Limits`); section 3 says what
happens without it.

* **The store** (`ManagedStoreProofs`).  One inductive invariant `IInv`: types,
  attempt/job agreement, one active attempt per owner, owner status following the
  newest attempt, rows having their parents, edits and completion, queued resumes
  keeping their checkpoint, and pins belonging to runs.  No part is inductive
  alone: that a recovery may insert an attempt follows from the owner's status,
  which follows from the newest attempt, which is the only active one.  `Next` is
  split into its operations; each has a lemma that says which attempts it changes
  and how, and each part of the invariant one step per operation.  Three action
  properties follow: attempts only move forward, deletions remove no active
  attempt, leases change hands while running only.  These, `TypeOK`,
  `NoOrphanRows` and `QueuedJobsAreEligible` are proved and not listed in a run.
* **Refinement** (`ManagedStoreProofs`, over `StoreSlots`).  `StoreActsAsSlots` proves
  `Spec => Slot!Spec`: each operation maps to one step of `ExecutionSlots` or to
  a stutter.  The step lemmas rest on `IInv`, for a run's phase is its row's and
  only the invariant ties that to its attempts.
* **The supervisor** (`SupervisorProofs`).  `SupervisorsRunTheStore` proves
  `SupSpec => Spec`: every step of a server, child or reaper is a step of the
  store or leaves it, so all theorems about the store hold of the composition.
  With an inductive invariant over threads, claims, children and reapers follow
  `CapacityRespected`, `OpenWorkerHoldsLease` and `LaunchedOnce` for any number
  of servers.
* **The files of a run** (`RunFilesProofs`).  `FilesSpec => Spec` likewise.
  Published and pinned checkpoints stay on disk also with `LeasesLost` TRUE: a
  file is unlinked only by a worker that carries it, what a worker carries is not
  what a row names or a resume pins, and a row changes only under an active
  attempt, of which the store has one.  With `LeasesLost` FALSE `ArtifactsInv` adds
  that a worker at work holds a running attempt of the run it works on (`Held`),
  what it has published so far is where the run's rows will name it (`Laid`) and a
  removed directory stays empty (`Swept`), from which
  `CompleteRunKeepsItsArtifacts` and `DeletedRunLeavesNothing` follow.
  `RevisionInv` is about revisions and supposes nothing of leases or commits: a
  request about to commit has the plan on disk, or a request that had not ended when
  it began has taken it back, and a request that writes the plan of a committed
  revision began before the commit ended.  From it follows
  `RevisionLosesPlanToRivalOnly`: a plan is lost only where two requests overlap, so
  that a client that waits for each answer keeps it.
* **The renders** (`RenderFilesProofs`).  `RendersInv`, on top of the store's
  `IInv`: what each move of a publication and of its roll-back leaves on disk, who
  holds each server's media locks, what a stream has open, and that a file no row
  records is a worker's own.  The four properties of the run hold for any number of
  variants, attempts, servers and readers, with crashes between any two moves,
  deletions of variants, runs and projects, and damage from outside.  The constants
  are only assumed typed, readers apart from variants, and `Nil` apart from readers
  and attempt numbers.
* **The catalog** (`MaterialCatalogProofs`).  `CatalogInv` ties the manifest, the
  directories, the lock of each material and the step each actor is at: what is
  listed was laid down (`Listing`, `Reached`), one removal works on a directory at a
  time (`OneRemoval`), locks are held by those who read (`Locks`), a published memory
  is of the subtitle in the directory (`Memories`), and what an answered deletion
  removed is gone for good (`Doomed`).  `MemoryKnowsItsSubtitle` and
  `AnsweredDeletionIsFinal` hold whichever writes fail.
  `ReferencedMaterialIsReady` is proved under `DeletionsCanWrite` (no deletion
  command's write fails), for the disagreement of section 5 refutes it otherwise.
  The ids of attempts are assumed distinct from those of deletions and materials.
* **The migration** (`RootMigrationProofs`).  `BaseInv` (types, roots numbered in
  the order they were reached, one lease holder, operations under the lease) is
  unconditional and gives `MigrationTypeOK` and `OperationsAreOnPointedRoot`.
  `WorkInv` adds one live worker per migration, attended by its server, at the step
  the row and the pointer say, and gives `OneWorkerPerDestination`;
  with `Whole`, what each root must contain at each step, it gives
  `PointedRootIsWhole` and `NoWriteIsLeftBehind` for any number of servers, roots,
  migrations and crashes; with `Single`, for one migration,
  `StartIsNeverRefused`.  These suppose `SyncFails` FALSE and `PatientStarts` TRUE.
* **The analysis** (`AnalysisProofs`).  Four invariants.  `WriterInv`: past its
  first stage an attempt works on a memory on record as its own, and a memory
  nothing is on record of is empty; hence `OnlyTheRecordedAnalysisWrites`.
  `RecordInv`: an answer that is not saved yet has its call among those the
  attempt knows, and these contain the ledger; hence `CheckpointsAreOnRecord`.
  `SealInv`: what each stage may rely on when it begins, thread by thread in the
  pools; with lemmas on segments (they partition the shots) and batches (they
  reach the last shot of their segment, and their notes join to those of the
  shots so far) it gives `SealedMemoryIsWhole` for any number of shots and any
  limit.  `OneInv` adds why a second look finds the same: with `SettingsStay`
  (`Reuse` TRUE, one value in `Limits`) the files fix one another.  Once the dialogue
  stands, the windows fix the scenes, these the batches, the batches what there is
  to tell of a segment (`Tells`, which at most one function satisfies), the notes
  the summaries, and all of them the description; and a thread that asks has
  found nothing under its key, for what is there has that very key
  (`NotesHaveTheirKey`).  It gives `MemoryIsOfOneAnalysis` and `AnswersAreKept`.

* **The planning** (`PlanningProofs`).  `StateIsWhole /\ CheckpointIsWhole`: what
  each agent's work leaves (an arrangement legal by its anchors, a pool that fits it,
  a path through that pool, for a repair what the review let it keep), and that what
  a resume takes up from a checkpoint is what those agents left.  Starts, times and
  earliest ends of a plan are recursive functions of the slot.  The lemmas at the
  head of the module show that they are what their equations say, and prove facts
  about every slot from one slot to the next, by way of least elements of sets of
  numbers: no operator is a parameter there.  `TrajectoriesFitThePlan` and
  `ComposerNeverFails` give `PoolFitsPlan` and `EveryChoiceIsChronological`: each
  slot's pool is a window on either side of its time, and what is chosen one slot
  at a time is in order for the whole plan.  `RepairsAreAccepted` gives
  `StoryAcceptsEveryRepair`: the story keeps the segments, shots and anchors of a
  plan that was legal.  `SavedPlanningIsResumable` and `PlanningAdvances` give the
  checkpoint property and the measure that bounds a planning's steps.
  `RepairsExist` gives `RepairWindowAdmitsARepair`, the longest argument here: the
  maximal runs of the window are disjoint groups; what `Assignments` finds group by
  group is a trail of segments and parts already used; over all windows it is an
  assignment of every group (`IsAssigned`); by induction over groups and slots the
  earliest ends of the moved plan are where the assignment says, so that it passes
  `ArrangementIsLegal` and `KeepsAnchors`, as the plan it was moved from does
  (`AnchoredKeeps`).  Assumed are
  `PlanningAssumption`, that no plan is `None`, and that there is a content at all.

Every invariant and every action property of the passing runs is proved.  Only
model-checked: liveness (`EveryAttemptEnds`, `AttemptEnds`), which is out of the
prover's reach.

## 5. Known disagreements

Two are runs that end in a violation and are listed as findings in `PROJECT.json`:

* `supervisor_maintenance`: a migration that starts between the supervisor's look
  at the root's state and its audit ends the supervisor thread
  (`adapters/worker/supervisor.py:207`).
* `analysis_retranscribed`: with `analyser.asr.reuse` off a resumed analysis seals
  a subtitle its dialogue was not made of (`workflow/analyser/tools/cache.py:208`).
  When `max_shots_per_request` changes between two attempts the story may be one of
  earlier notes, as told in section 3.

The models show others; each is an assumption, a left-out property or a remark
above:

* A stop requested between a decision to fail and its mark ends in Failed
  (`adapters/worker/supervisor.py:291`, `:327`), where ADR 0012 says Interrupted.
* A worker whose heartbeat thread has died is taken for an orphan and doubled when
  its owner is resumed (`application/workflow/run_job.py:519`).
* A run interrupted before its first checkpoint can be neither resumed nor retried
  nor run again (`infrastructure/persistence/sqlite/database.py:1376`).
* A directory sync that fails after the pointer was replaced rolls the new root
  back (`infrastructure/storage/local/data_root_migration.py:648`).
* A deletion looks for active attempts before it enters the catalog
  (`adapters/web/routes/materials.py:445`): an attempt queued in between loses its
  material, where ADR 0010 says none may be deleted that owns one.
* Two deletions and a failing manifest write take a referenced material away, as
  told above, where the comment at
  `infrastructure/storage/local/material_catalog.py:1078` says never.
* A reader that compared the previous master may condemn the one just published
  (`infrastructure/persistence/sqlite/database.py:2034`).
* A crash between the rename to `.deleting` and the manifest's write leaves a
  listed material no deletion can remove
  (`infrastructure/storage/local/material_catalog.py:1096`); one after the write
  leaves the `.deleting` directory for good, although the repeated command answers
  success (`adapters/web/routes/materials.py:461`).  The roll-back of an import is
  refused while a consumer reads, and leaves a material without attempts.
* A crash between the publication of an analysis and the completion of a stopped
  attempt leaves the material Ready (`application/materials/execution.py:152`).
* A crash between `analysis_spec.json.tmp` and its rename leaves a memory that
  every later attempt refuses (`workflow/analyser/material_analyst.py:1526`).
* A media lock holds off the deletions of its own server's `RendersService` only: it
  is a lock of the process (`application/renders/service.py:99`), and the deletion of
  a run or a project takes none (`application/runs/service.py:563`, `:636`,
  `application/projects/service.py:273`).  The docstring at
  `application/renders/service.py:266`, "Hold deletion exclusion until an HTTP file
  response completes", is true of a variant's deletion by the same server.  A stream
  goes on from its open descriptor in any case.
* A live worker taken for an orphan that goes on after its run was resumed replaces
  the plan of the completed run, or unlinks it (`application/workflow/run_job.py:296`).
* Of two overlapping requests of one revision, the one whose commit fails unlinks the
  plan the other has committed (`application/runs/service.py:442`), where
  `save_guided_revision` is said to "atomically commit one immutable child".
* An answer that arrives after a stop is dropped before it is saved and paid for
  again by the next attempt; a transcription is submitted again by a retry.

## 6. What is not modelled

* Music analysis: one computation and one file.
* Renaming, uploads and exports of materials; project names and drafts; settings;
  command receipts other than that of a material deletion: single transactions no
  other component waits on.
* The event log and its replay, whose bounds and page are read in one statement
  (`read_event_page`).
* The scores of trajectories and the geometry of windows below the order of their
  ends; FFmpeg, model calls and the retries inside one; prompt texts; the
  command line, the web client's rendering and the parsing of configuration, which
  keep no state the components above depend on.

Next would come an abstract "one authoritative root" for the migration to refine,
and the migration's liveness.
