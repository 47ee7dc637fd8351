---------------------------- MODULE JobSupervisor ----------------------------
(***************************************************************************)
(* LocalJobSupervisor and the worker processes it launches, over the rows  *)
(* of ManagedStore.  A server process runs one supervisor thread: it looks *)
(* at the Data Root, audits stale leases, claims queued jobs while there   *)
(* is capacity and launches one child process per claim, with one reaper   *)
(* thread per child.  Children adopt the lease, work, and end their        *)
(* attempt; they outlive the server that started them.  Servers and        *)
(* children crash, heartbeat threads die, servers shut down and start      *)
(* again or run side by side, and Data Root maintenance may begin between  *)
(* any two steps.                                                          *)
(*                                                                         *)
(* One store transaction is one step; a decision taken on a value read     *)
(* earlier is a state of its own, so that others can act in between.       *)
(***************************************************************************)
EXTENDS ManagedStore

CONSTANTS
  Servers,             \* server incarnations, each with its own worker_id
  Child,               \* the worker_id of launched children
  ConcurrentServers,   \* whether two servers may run at the same time
  MaxMaintenance       \* bound on how often maintenance begins

ASSUME SupervisorAssumption ==
  /\ Workers = Servers \cup {Child} /\ Child \notin Servers
  /\ Nil \notin Attempts
  /\ ConcurrentServers \in BOOLEAN /\ MaxMaintenance \in Nat

VARIABLES
  thread,        \* where each server's supervisor thread is
  claim,         \* the attempt the thread has claimed and not launched, or Nil
  shutdown,      \* servers whose shutdown event is set
  process,       \* the child process of each attempt
  beating,       \* attempts whose worker's heartbeat thread runs
  reaper,        \* the reaper thread of each attempt
  launcher,      \* the server whose thread launched the attempt's child
  maintenance,   \* the Data Root is under maintenance
  maintenances   \* how often maintenance began

threadVars  == <<thread, claim, shutdown>>
processVars == <<process, beating>>
reaperVars  == <<reaper, launcher>>
rootVars    == <<maintenance, maintenances>>
supVars == <<threadVars, processVars, reaperVars, rootVars>>
allVars == <<vars, supVars>>

SupInit ==
  /\ Init
  /\ thread = [s \in Servers |-> "unborn"]
  /\ claim = [s \in Servers |-> Nil]
  /\ shutdown = {}
  /\ process = [a \in Attempts |-> "none"]
  /\ beating = {}
  /\ reaper = [a \in Attempts |-> "none"]
  /\ launcher = [a \in Attempts |-> Nil]
  /\ maintenance = FALSE
  /\ maintenances = 0

LiveThreads == {s \in Servers : thread[s] \notin {"unborn", "dead"}}
LiveProcesses == {a \in Attempts : process[a] \notin {"none", "exited"}}

-----------------------------------------------------------------------------
(* The supervisor thread. *)

GoTo(s, where) == thread' = [thread EXCEPT ![s] = where]

\* The audit as one step that also covers its finding nothing.
Audit ==
  \/ InterruptOrphanedJobs
  \/ (\A a \in ClaimedJobs : heartbeat[a] = "fresh") /\ UNCHANGED vars

\* start: audit stale leases unless the root is under maintenance.
Start(s) ==
  /\ thread[s] = "unborn"
  /\ ConcurrentServers \/ LiveThreads = {}
  /\ GoTo(s, "idle")
  /\ IF maintenance THEN UNCHANGED vars ELSE Audit
  /\ UNCHANGED <<claim, shutdown, processVars, reaperVars, rootVars>>

\* One turn of the outer loop reads the Data Root's state and goes on unless it
\* is under maintenance.  An audit that is not due yet is one that finds every
\* lease fresh: when a lease grows old is open anyway.
Look(s) ==
  /\ thread[s] = "idle"
  /\ \/ s \in shutdown /\ GoTo(s, "dead")
     \/ s \notin shutdown /\ ~maintenance /\ GoTo(s, "auditing")
  /\ UNCHANGED <<vars, claim, shutdown, processVars, reaperVars, rootVars>>

\* _interrupt_stale_jobs stands outside any try: a Data Root that has become
\* unavailable since the look ends the thread.
AuditTurn(s) ==
  /\ thread[s] = "auditing"
  /\ IF maintenance
       THEN GoTo(s, "dead") /\ UNCHANGED vars
       ELSE GoTo(s, "claiming") /\ Audit
  /\ UNCHANGED <<claim, shutdown, processVars, reaperVars, rootVars>>

\* The inner loop ends on shutdown, on maintenance (which is caught here), and
\* when nothing can be claimed.
EndClaims(s) ==
  /\ thread[s] = "claiming"
  /\ \/ s \in shutdown \/ maintenance \/ EligibleJobs = {}
     \/ Cardinality(ClaimedJobs) >= MaxActiveJobs
  /\ GoTo(s, IF s \in shutdown THEN "dead" ELSE "idle")
  /\ UNCHANGED <<vars, claim, shutdown, processVars, reaperVars, rootVars>>

Claim(s) ==
  /\ thread[s] = "claiming" /\ s \notin shutdown /\ ~maintenance
  /\ \E a \in Attempts : ClaimNextSupervisedJob(a, s) /\ claim' = [claim EXCEPT ![s] = a]
  /\ GoTo(s, "claimed")
  /\ UNCHANGED <<shutdown, processVars, reaperVars, rootVars>>

\* The claim won the race with shutdown: it is interrupted and not launched.
DropClaim(s) ==
  /\ thread[s] = "claimed" /\ s \in shutdown
  /\ \/ ~maintenance /\ MarkAttemptInterrupted(claim[s])
     \/ (maintenance \/ attStatus[claim[s]] \notin ClaimedStatuses) /\ UNCHANGED vars
  /\ GoTo(s, "dead")
  /\ claim' = [claim EXCEPT ![s] = Nil]
  /\ UNCHANGED <<shutdown, processVars, reaperVars, rootVars>>

Launch(s) ==
  /\ thread[s] = "claimed" /\ s \notin shutdown
  /\ process' = [process EXCEPT ![claim[s]] = "starting"]
  /\ reaper' = [reaper EXCEPT ![claim[s]] = "waiting"]
  /\ launcher' = [launcher EXCEPT ![claim[s]] = s]
  /\ GoTo(s, "claiming")
  /\ claim' = [claim EXCEPT ![s] = Nil]
  /\ UNCHANGED <<vars, shutdown, beating, rootVars>>

\* Popen or the log file raises OSError; a mark_failed that is refused ends the
\* thread.
LaunchFails(s) ==
  /\ thread[s] = "claimed" /\ s \notin shutdown
  /\ \/ ~maintenance /\ MarkAttemptFailed(claim[s]) /\ GoTo(s, "claiming")
     \/ /\ maintenance \/ attStatus[claim[s]] \notin ActiveStatuses
        /\ UNCHANGED vars /\ GoTo(s, "dead")
  /\ claim' = [claim EXCEPT ![s] = Nil]
  /\ UNCHANGED <<shutdown, processVars, reaperVars, rootVars>>

\* A server is only taken down while another one can still be started.
CanRestart == \E t \in Servers : thread[t] = "unborn"

Shutdown(s) ==
  /\ s \in LiveThreads /\ s \notin shutdown /\ CanRestart
  /\ shutdown' = shutdown \cup {s}
  /\ UNCHANGED <<vars, thread, claim, processVars, reaperVars, rootVars>>

\* The server process ends, after a shutdown or by a crash, and its reapers with
\* it; children run in sessions of their own and go on.
ServerEnds(s) ==
  /\ thread[s] # "unborn" /\ CanRestart
  /\ GoTo(s, "dead")
  /\ claim' = [claim EXCEPT ![s] = Nil]
  /\ shutdown' = shutdown \cup {s}
  /\ reaper' = [a \in Attempts |-> IF launcher[a] = s THEN "done" ELSE reaper[a]]
  /\ UNCHANGED <<vars, launcher, processVars, rootVars>>

-----------------------------------------------------------------------------
(* Reapers. *)

ReaperGoesTo(a, where) == reaper' = [reaper EXCEPT ![a] = where]

\* The child has exited: unless the server is shutting down, read the attempt
\* and the stop flag and decide.
ReaperDecides(a) ==
  /\ reaper[a] = "waiting" /\ process[a] = "exited"
  /\ ReaperGoesTo(a,
       IF launcher[a] \in shutdown \/ maintenance \/ attStatus[a] \notin ActiveStatuses
       THEN "done" ELSE IF stopRequested[a] THEN "interrupting" ELSE "failing")
  /\ UNCHANGED <<vars, threadVars, processVars, launcher, rootVars>>

\* The decision is carried out on whatever the attempt has become; a refusal is
\* swallowed.
ReaperMarks(a) ==
  /\ \/ reaper[a] = "interrupting" /\ ~maintenance /\ MarkAttemptInterrupted(a)
     \/ reaper[a] = "failing" /\ ~maintenance /\ MarkAttemptFailed(a)
     \/ /\ reaper[a] \in {"interrupting", "failing"}
        /\ maintenance \/ attStatus[a] \notin ActiveStatuses
        /\ UNCHANGED vars
  /\ ReaperGoesTo(a, "done")
  /\ UNCHANGED <<threadVars, processVars, launcher, rootVars>>

-----------------------------------------------------------------------------
(* Worker processes. *)

ProcessGoesTo(a, where) ==
  /\ process' = [process EXCEPT ![a] = where]
  /\ beating' = IF where = "exited" THEN beating \ {a} ELSE beating

\* The child takes over the lease of the server that launched it.
WorkerAdopts(a) ==
  /\ process[a] = "starting"
  /\ AdoptSupervisedJob(a, launcher[a], Child)
  /\ process' = [process EXCEPT ![a] = "working"]
  /\ beating' = beating \cup {a}
  /\ UNCHANGED <<threadVars, reaperVars, rootVars>>

\* The lease is no longer the one expected: the child exits without a trace.
WorkerIsRefused(a) ==
  /\ process[a] = "starting"
  /\ attStatus[a] # "running" \/ jobWorker[a] # launcher[a]
  /\ ProcessGoesTo(a, "exited")
  /\ UNCHANGED <<vars, threadVars, reaperVars, rootVars>>

WorkerBeats(a) ==
  /\ a \in beating
  /\ HeartbeatJob(a)
  /\ UNCHANGED supVars

\* _heartbeat_loop returns on any exception, a busy database included.
HeartbeatThreadDies(a) ==
  /\ a \in beating
  /\ beating' = beating \ {a}
  /\ UNCHANGED <<vars, threadVars, process, reaperVars, rootVars>>

\* A safe point of the stage sees the stop flag.
WorkerSeesStop(a) ==
  /\ process[a] = "working" /\ stopRequested[a]
  /\ ProcessGoesTo(a, "interrupting")
  /\ UNCHANGED <<vars, threadVars, reaperVars, rootVars>>

\* The stage completes its attempt in the transaction of its kind of owner.
CompleteAttempt(a) ==
  \/ CompleteMaterialAttempt(a)
  \/ \E r \in Runs, e \in Edits : CompleteRun(r, a, e)
  \/ \E v \in Variants : CompleteRenderVariant(v, a)

WorkerCompletes(a) ==
  /\ process[a] = "working"
  /\ CompleteAttempt(a)
  /\ ProcessGoesTo(a, "exited")
  /\ UNCHANGED <<threadVars, reaperVars, rootVars>>

\* Any other exception, a refused completion or progress report included.
WorkerFails(a) ==
  /\ process[a] = "working"
  /\ ProcessGoesTo(a, "deciding")
  /\ UNCHANGED <<vars, threadVars, reaperVars, rootVars>>

\* _finish_failed_or_interrupted reads the attempt and the stop flag.
WorkerDecides(a) ==
  /\ process[a] = "deciding"
  /\ ProcessGoesTo(a,
       IF attStatus[a] \notin ActiveStatuses THEN "exited"
       ELSE IF stopRequested[a] THEN "interrupting" ELSE "failing")
  /\ UNCHANGED <<vars, threadVars, reaperVars, rootVars>>

WorkerMarks(a) ==
  /\ \/ process[a] = "interrupting" /\ MarkAttemptInterrupted(a)
     \/ process[a] = "failing" /\ MarkAttemptFailed(a)
     \/ /\ process[a] \in {"interrupting", "failing"}
        /\ attStatus[a] \notin ActiveStatuses /\ UNCHANGED vars
  /\ ProcessGoesTo(a, "exited")
  /\ UNCHANGED <<threadVars, reaperVars, rootVars>>

WorkerCrashes(a) ==
  /\ a \in LiveProcesses
  /\ ProcessGoesTo(a, "exited")
  /\ UNCHANGED <<vars, threadVars, reaperVars, rootVars>>

\* A lease grows old: nobody beats for the job, or a beat is late because the
\* host slept or the database was busy.
LeaseExpires(a) ==
  /\ HeartbeatExpires(a)
  /\ UNCHANGED supVars
LeaseAbandoned(a) == a \notin beating /\ LeaseExpires(a)

-----------------------------------------------------------------------------
(* Commands of the user, and Data Root maintenance. *)

QueueingCommand ==
  \/ \E m \in Materials : EnqueueMaterialAnalysis(m) \/ RequeueMaterialAnalysis(m)
  \/ \E p \in Projects : CreateProject(p)
  \/ \E r \in Runs : CreateRun(r) \/ RetryRun(r)
  \/ \E v \in Variants : CreateRenderVariant(v) \/ RetryRenderVariant(v)

Command ==
  /\ ~maintenance
  /\ QueueingCommand
  /\ UNCHANGED supVars

StopCommand(a) ==
  /\ ~maintenance
  /\ RequestStop(a)
  /\ UNCHANGED supVars

\* A migration starts once no attempt is running, retrying or stopping; those that
\* are queued wait until it hands the root back.
EnterMaintenance ==
  /\ ~maintenance /\ maintenances < MaxMaintenance
  /\ \A a \in Attempts : attStatus[a] \notin ClaimedStatuses
  /\ maintenance' = TRUE /\ maintenances' = maintenances + 1
  /\ UNCHANGED <<vars, threadVars, processVars, reaperVars>>

LeaveMaintenance ==
  /\ maintenance
  /\ maintenance' = FALSE
  /\ UNCHANGED <<vars, threadVars, processVars, reaperVars, maintenances>>

-----------------------------------------------------------------------------
ThreadTurn(s) ==
  \/ Look(s) \/ AuditTurn(s) \/ EndClaims(s) \/ Claim(s)
  \/ DropClaim(s) \/ Launch(s) \/ LaunchFails(s)
ReaperTurn(a) == ReaperDecides(a) \/ ReaperMarks(a)
WorkerTurn(a) ==
  \/ WorkerAdopts(a) \/ WorkerIsRefused(a) \/ WorkerSeesStop(a) \/ WorkerCompletes(a)
  \/ WorkerFails(a) \/ WorkerDecides(a) \/ WorkerMarks(a)

SupNext ==
  \/ \E s \in Servers : Start(s) \/ ThreadTurn(s) \/ Shutdown(s) \/ ServerEnds(s)
  \/ \E a \in Attempts :
       \/ ReaperTurn(a) \/ WorkerTurn(a) \/ WorkerCrashes(a)
       \/ WorkerBeats(a) \/ HeartbeatThreadDies(a) \/ LeaseExpires(a) \/ StopCommand(a)
  \/ Command \/ EnterMaintenance \/ LeaveMaintenance

SupSpec == SupInit /\ [][SupNext]_allVars

\* Threads and processes that can take a step do, a lease nobody renews grows
\* old, and somebody starts a server when none runs.  Nothing is assumed of the
\* user, of crashes, or of when maintenance begins, only that it ends.
SupFairness ==
  /\ \A s \in Servers : WF_allVars(ThreadTurn(s)) /\ WF_allVars(Start(s))
  /\ \A a \in Attempts :
       WF_allVars(ReaperTurn(a)) /\ WF_allVars(WorkerTurn(a)) /\ WF_allVars(LeaseAbandoned(a))
  /\ WF_allVars(LeaveMaintenance)

FairSupSpec == SupSpec /\ SupFairness

-----------------------------------------------------------------------------
(* Properties. *)

\* Every variable of the supervisor and its workers holds values of its type, and
\* a thread holds a claim exactly between claiming and launching.
SupTypeOK ==
  /\ thread \in [Servers -> {"unborn", "idle", "auditing", "claiming", "claimed", "dead"}]
  /\ claim \in [Servers -> Attempts \cup {Nil}]
  /\ shutdown \subseteq Servers /\ beating \subseteq Attempts
  /\ process \in [Attempts -> {"none", "starting", "working", "deciding", "interrupting",
                               "failing", "exited"}]
  /\ reaper \in [Attempts -> {"none", "waiting", "interrupting", "failing", "done"}]
  /\ launcher \in [Attempts -> Servers \cup {Nil}]
  /\ maintenance \in BOOLEAN /\ maintenances \in 0..MaxMaintenance
  /\ \A s \in Servers : claim[s] # Nil <=> thread[s] = "claimed"
  /\ \A a \in Attempts : (process[a] = "none") <=> (launcher[a] = Nil)

\* Side by side or one after the other, supervisors hand each claimed attempt to
\* one child: no two threads hold the same claim, a held claim has no process
\* yet, and a queued attempt has none either.
LaunchedOnce ==
  /\ \A s, t \in Servers : claim[s] # Nil /\ claim[s] = claim[t] => s = t
  /\ \A s \in Servers : claim[s] # Nil => process[claim[s]] = "none"
  /\ \A a \in Attempts : attStatus[a] = "queued" => process[a] = "none"

\* The capacity bounds the claimed jobs of all servers together, not those of
\* each: the count and the claim are one transaction.
CapacityRespected == Cardinality(ClaimedJobs) <= MaxActiveJobs

\* A worker that works on an attempt that is still open holds its lease, and no
\* other worker is open on the same owner.
OpenWorkerHoldsLease ==
  \A a \in LiveProcesses : attStatus[a] \in ClaimedStatuses =>
    /\ process[a] # "starting" => jobWorker[a] = Child
    /\ \A b \in LiveProcesses :
         b # a /\ attStatus[b] \in ClaimedStatuses => attOwner[b] # attOwner[a]

\* Every attempt ends, through any crash of servers and workers and however
\* often it is stopped: somebody always remains who completes, reaps or audits.
EveryAttemptEnds ==
  \A a \in Attempts : attStatus[a] \in ActiveStatuses ~> attStatus[a] \in TerminalStatuses

\* Supervisor comment: a maintenance that wins the race leaves jobs queued and
\* the supervisor alive, and work resumes when the root is back.
QueueResumesAfterMaintenance ==
  \A a \in Attempts : attStatus[a] = "queued" ~> attStatus[a] # "queued"
=============================================================================
