----------------------------- MODULE RootMigration -----------------------------
(***************************************************************************)
(* Moving the application's Data Root.  A server admits a migration in a   *)
(* control database outside every root; migration supervisors, one in each *)
(* server, launch a worker process that takes the root's exclusive lease,  *)
(* copies and verifies the root, replaces the pointer that names it, and   *)
(* asks for a restart, at which the next server completes the migration.   *)
(* Operations on a root hold the lease shared.  Servers and workers crash  *)
(* between any two steps; workers outlive the server that launched them.   *)
(*                                                                         *)
(* A root is what operations have written to it, counted; the statuses     *)
(* from requested to verifying and cancelling are one, "open", since no    *)
(* decision tells them apart.                                              *)
(***************************************************************************)
EXTENDS Naturals, FiniteSets

CONSTANTS
  Servers,          \* server processes over the control database
  Roots,            \* directories that can be the Data Root
  MaxMigrations,    \* bound on admitted migrations
  MaxLaunches,      \* bound on launched workers
  MaxWrites,        \* bound on operations that write to a root
  SyncFails,        \* whether syncing the pointer's directory can fail
  PatientStarts     \* whether a server's start falls between the others' steps

ASSUME MigrationAssumption ==
  /\ MaxMigrations \in Nat /\ MaxLaunches \in Nat /\ MaxWrites \in Nat
  /\ SyncFails \in BOOLEAN /\ PatientStarts \in BOOLEAN

Migrations == 1..MaxMigrations
Launches == 1..MaxLaunches
None == 0

Ended == {"cancelled", "failed", "complete"}
Closed == Ended \cup {"switching", "restart_required"}

VARIABLES
  (* the control database *)
  status,          \* of each migration
  cancelRequested, \* migrations whose cancellation has been accepted
  source,          \* the root each migration moves from
  destination,     \* and the one it moves to
  worker,          \* the launch that has reserved each migration, or None
  processKnown,    \* migrations whose row names their worker's process
  heartbeat,       \* of each migration: "null", "fresh" or "stale"
  maintenance, restartRequired, controlled,
  (* the pointer, the roots and the lease *)
  pointer,         \* the root that is authoritative
  occupied,        \* roots whose directory is not empty
  whole,           \* roots that hold everything a root holds
  writes,          \* how many writes each root has
  marker,          \* the migration whose owner marker is in each root, or None
  active,          \* roots with a running attempt
  lease,           \* the launch that holds the lease exclusively, or None
  sharing,         \* servers that hold it shared
  (* servers *)
  server,          \* where each server is
  serverRoot,      \* the root it was opened with
  preflight,       \* the destination its preflight has passed, if any
  handles,         \* the migration it has admitted or reconciles, or None
  thread,          \* where its migration supervisor is
  hand,            \* the launch the supervisor is dealing with
  tracked,         \* the children it tracks
  (* workers *)
  at,              \* where each launch is
  moves,           \* the migration it executes
  workerRoot,      \* the root it was opened with
  owns,            \* launches that have prepared their destination
  outcome          \* how the migration ends that a launch is rolling back

rowVars == <<status, cancelRequested, source, destination, worker, processKnown, heartbeat>>
controlVars == <<maintenance, restartRequired, controlled>>
fileVars == <<pointer, occupied, whole, writes, marker, active>>
leaseVars == <<lease, sharing>>
serverVars == <<server, serverRoot, preflight, handles>>
threadVars == <<thread, hand, tracked>>
workerVars == <<at, moves, workerRoot, owns, outcome>>
vars == <<rowVars, controlVars, fileVars, leaseVars, serverVars, threadVars, workerVars>>

Init ==
  /\ status = [m \in Migrations |-> "absent"] /\ cancelRequested = {}
  /\ \E r \in Roots :
       /\ pointer = r /\ occupied = {r} /\ whole = {r}
       /\ source = [m \in Migrations |-> r] /\ destination = [m \in Migrations |-> r]
       /\ serverRoot = [s \in Servers |-> r] /\ workerRoot = [k \in Launches |-> r]
  /\ worker = [m \in Migrations |-> None] /\ processKnown = {}
  /\ heartbeat = [m \in Migrations |-> "null"]
  /\ maintenance = FALSE /\ restartRequired = FALSE /\ controlled = None
  /\ writes = [r \in Roots |-> 0] /\ marker = [r \in Roots |-> None] /\ active = {}
  /\ lease = None /\ sharing = {}
  /\ server = [s \in Servers |-> "down"] /\ handles = [s \in Servers |-> None]
  /\ preflight = [s \in Servers |-> {}]
  /\ thread = [s \in Servers |-> "none"] /\ hand = [s \in Servers |-> None]
  /\ tracked = [s \in Servers |-> {}]
  /\ at = [k \in Launches |-> "none"] /\ moves = [k \in Launches |-> None] /\ owns = {}
  /\ outcome = [k \in Launches |-> "failed"]

Admitted == {m \in Migrations : status[m] # "absent"}
Newest == Cardinality(Admitted)
Alive(k) == k # None /\ at[k] \notin {"none", "gone", "crashed"}

\* The two writes of the control database that every part makes.
SetState(inMaintenance, needsRestart, m) ==
  /\ maintenance' = inMaintenance /\ restartRequired' = needsRestart /\ controlled' = m
Update(m, new) ==
  /\ status' = [status EXCEPT ![m] = new]
  /\ heartbeat' = [heartbeat EXCEPT ![m] = "fresh"]
  /\ UNCHANGED <<cancelRequested, source, destination, worker, processKnown>>

-----------------------------------------------------------------------------
(* Operations on the root: services', and job workers' for as long as they live. *)

\* Mutant: an operation does not ask which root the pointer names.
BeginOnAnyRoot(s) ==
  /\ server[s] = "up" /\ s \notin sharing /\ lease = None
  /\ ~restartRequired /\ (maintenance => serverRoot[s] \in active)
  /\ sharing' = sharing \cup {s}
  /\ UNCHANGED <<rowVars, controlVars, fileVars, lease, serverVars, threadVars, workerVars>>

\* The lease first, then the looks at the control state and the pointer; a job
\* worker, whose attempt is active, is let in under maintenance.
BeginOperation(s) ==
  /\ server[s] = "up" /\ s \notin sharing /\ lease = None
  /\ ~restartRequired /\ (maintenance => serverRoot[s] \in active)
  /\ pointer = serverRoot[s]
  /\ sharing' = sharing \cup {s}
  /\ UNCHANGED <<rowVars, controlVars, fileVars, lease, serverVars, threadVars, workerVars>>

\* An operation may have written, and claimed or ended an attempt.
EndOperation(s) ==
  /\ s \in sharing /\ sharing' = sharing \ {s}
  /\ \/ /\ writes[serverRoot[s]] < MaxWrites
        /\ writes' = [writes EXCEPT ![serverRoot[s]] = @ + 1]
     \/ UNCHANGED writes
  /\ \E now \in {{}, {serverRoot[s]}} : active' = (active \ {serverRoot[s]}) \cup now
  /\ UNCHANGED <<rowVars, controlVars, pointer, occupied, whole, marker, lease, serverVars,
                 threadVars, workerVars>>

-----------------------------------------------------------------------------
(* Admission and cancellation. *)

\* The preflight looks at the attempts and the destination outside any transaction.
Preflight(s, to) ==
  /\ server[s] = "up" /\ preflight[s] = {} /\ handles[s] = None
  /\ Newest < MaxMigrations
  /\ serverRoot[s] \notin active /\ to \notin occupied /\ to # serverRoot[s]
  /\ preflight' = [preflight EXCEPT ![s] = {to}]
  /\ UNCHANGED <<rowVars, controlVars, fileVars, leaseVars, server, serverRoot, handles,
                 threadVars, workerVars>>

\* A conflict with another migration raises.
StartMigration(s) ==
  /\ preflight[s] # {} /\ preflight' = [preflight EXCEPT ![s] = {}]
  /\ \/ /\ \A m \in Admitted : status[m] \in Ended
        /\ Newest < MaxMigrations
        /\ LET m == Newest + 1 IN
             /\ status' = [status EXCEPT ![m] = "open"]
             /\ source' = [source EXCEPT ![m] = serverRoot[s]]
             /\ destination' = [destination EXCEPT ![m] = CHOOSE r \in preflight[s] : TRUE]
             /\ handles' = [handles EXCEPT ![s] = m]
     \/ /\ \E m \in Admitted : status[m] \notin Ended
        /\ UNCHANGED <<status, source, destination, handles>>
  /\ UNCHANGED <<cancelRequested, worker, processKnown, heartbeat, controlVars, fileVars,
                 leaseVars, server, serverRoot, threadVars, workerVars>>

\* Maintenance is announced by a transaction of its own.
AnnounceMigration(s) ==
  /\ server[s] = "up" /\ handles[s] # None
  /\ SetState(TRUE, FALSE, handles[s])
  /\ handles' = [handles EXCEPT ![s] = None]
  /\ UNCHANGED <<rowVars, fileVars, leaseVars, server, serverRoot, preflight, threadVars,
                 workerVars>>

RequestCancel(m) ==
  /\ status[m] = "open" /\ m \notin cancelRequested
  /\ \E s \in Servers : server[s] = "up"
  /\ cancelRequested' = cancelRequested \cup {m}
  /\ UNCHANGED <<status, source, destination, worker, processKnown, heartbeat, controlVars,
                 fileVars, leaseVars, serverVars, threadVars, workerVars>>

-----------------------------------------------------------------------------
(* Servers: a start reconciles the control state before the supervisor runs. *)

GoTo(s, where) ==
  /\ server' = [server EXCEPT ![s] = where]
  /\ thread' = [thread EXCEPT ![s] = IF where = "up" THEN "idle" ELSE "none"]
  /\ UNCHANGED <<serverRoot, preflight, hand, tracked>>
Switching == \E k \in Launches : Alive(k) /\ status[moves[k]] = "switching"
\* With PatientStarts a start falls between the others' steps: the pointer it has read is
\* current, no worker is switching, and dead workers have been reaped.
Undisturbed(s) ==
  PatientStarts =>
    /\ ~Switching /\ pointer = serverRoot[s]
    /\ \A t \in Servers : hand[t] = None /\ \A k \in tracked[t] : at[k] # "crashed"

ServerOpens(s) ==
  /\ server[s] = "down" /\ (PatientStarts => ~Switching)
  /\ server' = [server EXCEPT ![s] = "opened"]
  /\ serverRoot' = [serverRoot EXCEPT ![s] = pointer]
  /\ UNCHANGED <<rowVars, controlVars, fileVars, leaseVars, preflight, handles, threadVars,
                 workerVars>>

\* What finalize_migration_after_restart does next; "refused" stands for its errors.
Finalization(s) ==
  LET m == controlled
      root == serverRoot[s]
      atDestination == status[m] \in Closed \ {"cancelled", "failed"} /\ root = destination[m]
  IN CASE m = None \/ ~(maintenance \/ restartRequired) -> "up"
       [] OTHER ->
          CASE status[m] \in {"cancelled", "failed"} -> IF root = source[m] THEN "handing" ELSE "refused"
            [] status[m] = "switching" /\ root = source[m] -> "recovering"
            [] atDestination -> IF marker[root] = m THEN "completing" ELSE "refused"
            [] OTHER -> "up"

FinalizeLooks(s) ==
  /\ server[s] = "opened" /\ Undisturbed(s)
  /\ GoTo(s, Finalization(s))
  /\ handles' = [handles EXCEPT ![s] = IF Finalization(s) \in {"up", "refused"} THEN None
                                       ELSE controlled]
  /\ UNCHANGED <<rowVars, controlVars, fileVars, leaseVars, workerVars>>

\* recover_switch_before_commit looks at the status again.
RecoverSwitch(s) ==
  /\ server[s] = "recovering" /\ Undisturbed(s) /\ GoTo(s, "recovered")
  /\ LET m == handles[s] IN
     \/ /\ status[m] = "switching"
        /\ status' = [status EXCEPT ![m] = "open"]
        /\ worker' = [worker EXCEPT ![m] = None]
        /\ processKnown' = processKnown \ {m}
        /\ heartbeat' = [heartbeat EXCEPT ![m] = "null"]
        /\ UNCHANGED <<cancelRequested, source, destination>>
     \/ status[m] # "switching" /\ UNCHANGED rowVars
  /\ UNCHANGED <<controlVars, fileVars, leaseVars, handles, workerVars>>

CompleteMigration(s) ==
  /\ server[s] = "completing" /\ Undisturbed(s) /\ GoTo(s, "handing")
  /\ IF status[handles[s]] = "complete" THEN UNCHANGED rowVars
                                        ELSE Update(handles[s], "complete")
  /\ UNCHANGED <<controlVars, fileVars, leaseVars, handles, workerVars>>

FinalizeHandsOver(s) ==
  /\ server[s] \in {"handing", "recovered"} /\ Undisturbed(s) /\ GoTo(s, "up")
  /\ SetState(server[s] = "recovered", FALSE, handles[s])
  /\ handles' = [handles EXCEPT ![s] = None]
  /\ UNCHANGED <<rowVars, fileVars, leaseVars, workerVars>>

\* A stop or a crash; a job worker goes on with its operation.
ServerStops(s) ==
  /\ server[s] # "down"
  /\ server' = [server EXCEPT ![s] = "down"]
  /\ preflight' = [preflight EXCEPT ![s] = {}] /\ handles' = [handles EXCEPT ![s] = None]
  /\ thread' = [thread EXCEPT ![s] = "none"] /\ hand' = [hand EXCEPT ![s] = None]
  /\ tracked' = [tracked EXCEPT ![s] = {}]
  /\ sharing' \in {sharing, sharing \ {s}}
  /\ UNCHANGED <<rowVars, controlVars, fileVars, lease, serverRoot, workerVars>>

-----------------------------------------------------------------------------
(* The supervisor's thread in each server. *)

Turn(s, from, to, k) ==
  /\ thread[s] = from /\ thread' = [thread EXCEPT ![s] = to]
  /\ hand' = [hand EXCEPT ![s] = k]
Holds(k) == worker[moves[k]] = k /\ status[moves[k]] \notin Closed

\* Mutant: a stale heartbeat is enough to launch another worker.
HeartbeatStale(m) == heartbeat[m] # "fresh"
\* No process that is known to live has reserved the migration.
Unattended(m) == worker[m] # None => ~(m \in processKnown /\ Alive(worker[m]))

\* The newest migration, unless a child that lives is known or a peer is at it.
ReserveLaunch(s) ==
  /\ thread[s] = "idle" /\ Newest > 0
  /\ LET m == Newest IN
     /\ status[m] \notin Closed /\ heartbeat[m] # "fresh"
     /\ \A k \in tracked[s] : moves[k] = m => ~Alive(k)
     /\ Unattended(m)
     /\ \E k \in Launches :
          /\ moves[k] = None /\ \A j \in Launches : moves[j] = None => k <= j
          /\ moves' = [moves EXCEPT ![k] = m]
          /\ worker' = [worker EXCEPT ![m] = k]
          /\ Turn(s, "idle", "reserved", k)
     /\ processKnown' = processKnown \ {m}
     /\ heartbeat' = [heartbeat EXCEPT ![m] = "fresh"]
  /\ UNCHANGED <<status, cancelRequested, source, destination, controlVars, fileVars,
                 leaseVars, serverVars, tracked, at, workerRoot, owns, outcome>>

Spawn(s) ==
  /\ Turn(s, "reserved", "spawned", hand[s])
  /\ at' = [at EXCEPT ![hand[s]] = "started"]
  /\ UNCHANGED <<rowVars, controlVars, fileVars, leaseVars, serverVars, tracked, moves,
                 workerRoot, owns, outcome>>

LaunchFails(s) ==
  /\ Turn(s, "reserved", "failing", hand[s])
  /\ UNCHANGED <<rowVars, controlVars, fileVars, leaseVars, serverVars, tracked, workerVars>>

\* adopt_reserved_worker, by the parent and by the child, whichever comes first.
Adopt(k) ==
  /\ processKnown' = processKnown \cup {moves[k]}
  /\ heartbeat' = [heartbeat EXCEPT ![moves[k]] = "fresh"]
  /\ UNCHANGED <<status, cancelRequested, source, destination, worker>>

ParentAdopts(s) ==
  LET k == hand[s] IN
  /\ Turn(s, "spawned", "idle", None)
  /\ \/ Holds(k) /\ Adopt(k)
     \/ ~Holds(k) /\ UNCHANGED rowVars
  /\ tracked' = [tracked EXCEPT ![s] = {j \in @ : moves[j] # moves[k]} \cup {k}]
  /\ UNCHANGED <<controlVars, fileVars, leaseVars, serverVars, workerVars>>

\* Mutant: the reaper does not look how far the migration has come.
ReapUnseen(s, k) ==
  /\ k \in tracked[s] /\ at[k] = "crashed"
  /\ tracked' = [tracked EXCEPT ![s] = @ \ {k}]
  /\ Turn(s, "idle", "failing", k)
  /\ UNCHANGED <<rowVars, controlVars, fileVars, leaseVars, serverVars, workerVars>>

\* A dead child: one that failed leaves its migration failed, any other is let go.
Reap(s, k) ==
  /\ k \in tracked[s] /\ at[k] \in {"gone", "crashed"}
  /\ tracked' = [tracked EXCEPT ![s] = @ \ {k}]
  /\ \/ /\ at[k] = "crashed" /\ status[moves[k]] \notin Closed
        /\ Turn(s, "idle", "failing", k) /\ UNCHANGED rowVars
     \/ /\ at[k] = "gone" \/ status[moves[k]] \in Closed
        /\ Turn(s, "idle", "idle", None)
        /\ IF Holds(k) THEN /\ worker' = [worker EXCEPT ![moves[k]] = None]
                            /\ processKnown' = processKnown \ {moves[k]}
                            /\ heartbeat' = [heartbeat EXCEPT ![moves[k]] = "null"]
                            /\ UNCHANGED <<status, cancelRequested, source, destination>>
                       ELSE UNCHANGED rowVars
  /\ UNCHANGED <<controlVars, fileVars, leaseVars, serverVars, workerVars>>

\* The row and the control state, in two transactions.
SupervisorFails(s) ==
  /\ Turn(s, "failing", "lifting", hand[s])
  /\ Update(moves[hand[s]], "failed")
  /\ UNCHANGED <<controlVars, fileVars, leaseVars, serverVars, tracked, workerVars>>
SupervisorLifts(s) ==
  /\ Turn(s, "lifting", "idle", None)
  /\ SetState(FALSE, FALSE, moves[hand[s]])
  /\ UNCHANGED <<rowVars, fileVars, leaseVars, serverVars, tracked, workerVars>>

\* A worker at work renews it, and a server reaps its child far sooner than it expires;
\* one whose server is gone may be suspended.
HeartbeatExpires(m) ==
  /\ heartbeat[m] = "fresh"
  /\ heartbeat' = [heartbeat EXCEPT ![m] = "stale"]
  /\ worker[m] # None => \A s \in Servers : worker[m] \notin tracked[s] \cup {hand[s]}
  /\ UNCHANGED <<status, cancelRequested, source, destination, worker, processKnown, controlVars,
                 fileVars, leaseVars, serverVars, threadVars, workerVars>>

-----------------------------------------------------------------------------
(* Migration workers. *)

Step(k, from, to) ==
  /\ at[k] = from /\ at' = [at EXCEPT ![k] = to]
  /\ UNCHANGED <<moves, workerRoot, owns, outcome>>

WorkerOpens(k) ==
  /\ at[k] = "started" /\ at' = [at EXCEPT ![k] = "opened"]
  /\ workerRoot' = [workerRoot EXCEPT ![k] = pointer]
  /\ UNCHANGED <<rowVars, controlVars, fileVars, leaseVars, serverVars, threadVars, moves,
                 owns, outcome>>

WorkerAdopts(k) ==
  /\ \/ Step(k, "opened", "entering") /\ Holds(k) /\ Adopt(k)
     \/ Step(k, "opened", "gone") /\ ~Holds(k) /\ UNCHANGED rowVars
  /\ UNCHANGED <<controlVars, fileVars, leaseVars, serverVars, threadVars>>

WorkerEnters(k) ==
  /\ Step(k, "entering", "quiescing")
  /\ SetState(TRUE, FALSE, moves[k])
  /\ UNCHANGED <<rowVars, fileVars, leaseVars, serverVars, threadVars>>

WorkerQuiesces(k) ==
  /\ Step(k, "quiescing", "waiting")
  /\ Update(moves[k], "open")
  /\ UNCHANGED <<controlVars, fileVars, leaseVars, serverVars, threadVars>>

\* Mutant: the worker does not wait for the operations that have begun.
TakeLeaseAtOnce(k) ==
  /\ Step(k, "waiting", "holding")
  /\ lease = None /\ lease' = k
  /\ UNCHANGED <<rowVars, controlVars, fileVars, sharing, serverVars, threadVars>>

TakeLease(k) ==
  /\ Step(k, "waiting", "holding")
  /\ lease = None /\ sharing = {} /\ lease' = k
  /\ UNCHANGED <<rowVars, controlVars, fileVars, sharing, serverVars, threadVars>>

\* The lease is let go before anything is rolled back.
Leaves(k, where, how) ==
  /\ at' = [at EXCEPT ![k] = where]
  /\ outcome' = [outcome EXCEPT ![k] = how]
  /\ lease' = IF lease = k THEN None ELSE lease
  /\ UNCHANGED <<rowVars, controlVars, fileVars, sharing, serverVars, threadVars, moves,
                 workerRoot, owns>>

Refused(k) ==
  LET from == source[moves[k]]
      to == destination[moves[k]]
  IN \/ workerRoot[k] # from
     \/ from \in active
     \/ to \in occupied /\ marker[to] # moves[k]

PrepareDestination(k) ==
  LET m == moves[k]
      to == destination[m]
  IN /\ at[k] = "holding" /\ status[m] \notin Closed /\ m \notin cancelRequested /\ ~Refused(k)
     /\ occupied' = occupied \cup {to} /\ marker' = [marker EXCEPT ![to] = m]
     /\ owns' = owns \cup {k}
     /\ at' = [at EXCEPT ![k] = "copying"]
     /\ Update(m, "open")
     /\ UNCHANGED <<controlVars, pointer, whole, writes, active, leaseVars, serverVars,
                    threadVars, moves, workerRoot, outcome>>

CopyRoot(k) ==
  LET m == moves[k] IN
  /\ Step(k, "copying", "verifying")
  /\ whole' = whole \cup {destination[m]}
  /\ writes' = [writes EXCEPT ![destination[m]] = writes[source[m]]]
  /\ Update(m, "open")
  /\ UNCHANGED <<controlVars, pointer, occupied, marker, active, leaseVars, serverVars,
                 threadVars>>

\* The copy is what the manifest says, and the cancellation has its last look.
VerifyCopy(k) ==
  /\ Step(k, "verifying", "verified")
  /\ destination[moves[k]] \in whole /\ moves[k] \notin cancelRequested
  /\ UNCHANGED <<rowVars, controlVars, fileVars, leaseVars, serverVars, threadVars>>

\* The looks at the cancel flag, and under the lease at the row first.
WorkerCancels(k) ==
  /\ at[k] \in {"waiting", "holding", "copying", "verifying"}
  /\ IF at[k] = "holding" /\ status[moves[k]] \in Closed
       THEN Leaves(k, "gone", "failed")
       ELSE moves[k] \in cancelRequested /\ Leaves(k, "unwinding", "cancelled")

\* Mutant: an error after the switch is one like any other.
WorkerFailsAnywhere(k) ==
  /\ at[k] \in {"waiting", "holding", "copying", "verifying", "verified", "switching",
                "flagged", "switched"}
  /\ Leaves(k, "unwinding", "failed")

\* A refusal, a difference found by the verification, or an error of disk or database; when
\* syncing the directory fails, execute does not know that the pointer has been replaced.
WorkerFails(k) ==
  /\ at[k] \in {"entering", "quiescing", "waiting", "holding", "copying", "verifying",
                "verified", "switching", "flagged"} \cup {p \in {"pointed"} : SyncFails}
  /\ Leaves(k, "unwinding", "failed")

DeclareSwitching(k) ==
  /\ Step(k, "verified", "switching")
  /\ Update(moves[k], "switching")
  /\ UNCHANGED <<controlVars, fileVars, leaseVars, serverVars, threadVars>>

FlagRestart(k) ==
  /\ Step(k, "switching", "flagged")
  /\ SetState(TRUE, TRUE, moves[k])
  /\ UNCHANGED <<rowVars, fileVars, leaseVars, serverVars, threadVars>>

ReplacePointer(k) ==
  /\ Step(k, "flagged", "pointed")
  /\ pointer' = destination[moves[k]]
  /\ UNCHANGED <<rowVars, controlVars, occupied, whole, writes, marker, active, leaseVars,
                 serverVars, threadVars>>

SyncPointer(k) ==
  /\ Step(k, "pointed", "switched")
  /\ UNCHANGED <<rowVars, controlVars, fileVars, leaseVars, serverVars, threadVars>>

RequireRestart(k) ==
  /\ Step(k, "switched", "recorded")
  /\ Update(moves[k], "restart_required")
  /\ UNCHANGED <<controlVars, fileVars, leaseVars, serverVars, threadVars>>

FlagAgain(k) ==
  /\ at[k] = "recorded"
  /\ SetState(TRUE, TRUE, moves[k])
  /\ at' = [at EXCEPT ![k] = "gone"] /\ lease' = None
  /\ UNCHANGED <<rowVars, fileVars, sharing, serverVars, threadVars, moves, workerRoot, owns,
                 outcome>>

\* After the switch an error only moves forward.
ErrorAfterSwitch(k) ==
  /\ at[k] \in {"switched", "recorded"}
  /\ Leaves(k, "forward", "failed")
FlagForward(k) ==
  /\ Step(k, "forward", "forwarded")
  /\ SetState(TRUE, TRUE, moves[k])
  /\ UNCHANGED <<rowVars, fileVars, leaseVars, serverVars, threadVars>>
RequireForward(k) ==
  /\ Step(k, "forwarded", "gone")
  /\ Update(moves[k], "restart_required")
  /\ UNCHANGED <<controlVars, fileVars, leaseVars, serverVars, threadVars>>

(* The rollback of a cancelled or failed attempt. *)

RollbackFiles(k) ==
  LET to == destination[moves[k]] IN
  /\ IF k \in owns /\ marker[to] = moves[k]
       THEN Step(k, "unwinding", "emptied") /\ whole' = whole \ {to}
       ELSE Step(k, "unwinding", "unwound") /\ UNCHANGED whole
  /\ UNCHANGED <<rowVars, controlVars, pointer, occupied, writes, marker, active, leaseVars,
                 serverVars, threadVars>>

RollbackMarker(k) ==
  LET to == destination[moves[k]] IN
  /\ Step(k, "emptied", "unwound")
  /\ marker' = [marker EXCEPT ![to] = None]
  /\ occupied' = occupied \ {to}
  /\ UNCHANGED <<rowVars, controlVars, pointer, whole, writes, active, leaseVars, serverVars,
                 threadVars>>

RecordOutcome(k) ==
  /\ Step(k, "unwound", "lifting")
  /\ Update(moves[k], outcome[k])
  /\ UNCHANGED <<controlVars, fileVars, leaseVars, serverVars, threadVars>>
WorkerLifts(k) ==
  /\ Step(k, "lifting", "gone")
  /\ SetState(FALSE, FALSE, moves[k])
  /\ UNCHANGED <<rowVars, fileVars, leaseVars, serverVars, threadVars>>

\* Mutant: the lease of a dead worker stays.
CrashKeepsLease(k) ==
  /\ Alive(k) /\ at' = [at EXCEPT ![k] = "crashed"]
  /\ UNCHANGED <<rowVars, controlVars, fileVars, leaseVars, serverVars, threadVars, moves,
                 workerRoot, owns, outcome>>

\* The system lets go of the lease of a process that dies.
WorkerCrashes(k) ==
  /\ Alive(k) /\ Leaves(k, "crashed", outcome[k])

-----------------------------------------------------------------------------
ServerTurn(s) ==
  \/ BeginOperation(s) \/ EndOperation(s)
  \/ (\E r \in Roots : Preflight(s, r)) \/ StartMigration(s) \/ AnnounceMigration(s)
  \/ ServerOpens(s) \/ FinalizeLooks(s) \/ RecoverSwitch(s) \/ CompleteMigration(s)
  \/ FinalizeHandsOver(s) \/ ServerStops(s)
SupervisorTurn(s) ==
  \/ ReserveLaunch(s) \/ Spawn(s) \/ LaunchFails(s) \/ ParentAdopts(s)
  \/ (\E k \in Launches : Reap(s, k)) \/ SupervisorFails(s) \/ SupervisorLifts(s)
WorkerTurn(k) ==
  \/ WorkerOpens(k) \/ WorkerAdopts(k) \/ WorkerEnters(k) \/ WorkerQuiesces(k) \/ TakeLease(k)
  \/ PrepareDestination(k) \/ CopyRoot(k) \/ VerifyCopy(k) \/ DeclareSwitching(k) \/ FlagRestart(k)
  \/ ReplacePointer(k) \/ SyncPointer(k) \/ RequireRestart(k) \/ FlagAgain(k)
UnwindTurn(k) ==
  \/ WorkerCancels(k) \/ WorkerFails(k) \/ ErrorAfterSwitch(k)
  \/ FlagForward(k) \/ RequireForward(k) \/ RollbackFiles(k) \/ RollbackMarker(k)
  \/ RecordOutcome(k) \/ WorkerLifts(k) \/ WorkerCrashes(k)

MigrationNext ==
  \/ \E s \in Servers : ServerTurn(s) \/ SupervisorTurn(s)
  \/ \E k \in Launches : WorkerTurn(k) \/ UnwindTurn(k)
  \/ \E m \in Migrations : RequestCancel(m) \/ HeartbeatExpires(m)

MigrationSpec == Init /\ [][MigrationNext]_vars

-----------------------------------------------------------------------------
\* Rows, control state, files, lease and processes have their types, and only a live worker
\* holds the lease exclusively, never next to an operation (shared, exclusive).
MigrationTypeOK ==
  /\ status \in [Migrations -> {"absent", "open"} \cup Closed]
  /\ cancelRequested \subseteq Admitted /\ processKnown \subseteq Admitted
  /\ source \in [Migrations -> Roots] /\ destination \in [Migrations -> Roots]
  /\ worker \in [Migrations -> Launches \cup {None}]
  /\ heartbeat \in [Migrations -> {"null", "fresh", "stale"}]
  /\ maintenance \in BOOLEAN /\ restartRequired \in BOOLEAN
  /\ controlled \in Admitted \cup {None}
  /\ pointer \in Roots /\ whole \subseteq Roots /\ occupied \subseteq Roots /\ active \subseteq Roots
  /\ writes \in [Roots -> 0..MaxWrites] /\ marker \in [Roots -> Migrations \cup {None}]
  /\ sharing \subseteq Servers /\ (lease # None => Alive(lease) /\ sharing = {})
  /\ serverRoot \in [Servers -> Roots] /\ workerRoot \in [Launches -> Roots]
  /\ moves \in [Launches -> Migrations \cup {None}] /\ owns \subseteq Launches

\* The root the pointer names always holds everything a root holds: no rollback, crash or
\* retry leaves the application on a partial copy (_switch_pointer, _rollback).
PointedRootIsWhole == pointer \in whole

\* What any operation has written to a root still there is in the root the pointer names: no
\* write slips in between the copy and the switch (shared, exclusive, execute).
NoWriteIsLeftBehind == \A r \in whole : writes[r] <= writes[pointer]

\* No operation is under way on a root the pointer does not name, however old the server
\* that runs it is (shared's look at the generation).
OperationsAreOnPointedRoot == \A s \in sharing : serverRoot[s] = pointer

\* Two workers never have one destination in hand, to copy or to roll back, although the
\* lease is let go before the rollback (reserve_worker_launch, adopt_reserved_worker).
AtDestination == {k \in owns : at[k] \in {"copying", "verifying", "verified", "switching", "flagged",
                                       "unwinding", "emptied"}}
OneWorkerPerDestination ==
  \A j, k \in AtDestination : destination[moves[j]] = destination[moves[k]] => j = k

\* A server is never refused a start because the outcome recorded for the migration
\* contradicts the pointer (finalize_migration_after_restart).
StartIsNeverRefused == \A s \in Servers : server[s] # "refused"

=============================================================================
