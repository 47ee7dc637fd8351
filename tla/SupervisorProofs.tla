-------------------------- MODULE SupervisorProofs --------------------------
(***************************************************************************)
(* Proofs about the supervisors and their workers.  Whatever threads,      *)
(* reapers, workers and users do, the rows change as the managed store     *)
(* allows, so that all that is proved of the store holds under any number  *)
(* of supervisors; each claim gets one child; the capacity bounds them all *)
(* together; and a worker whose attempt is open holds its lease.           *)
(***************************************************************************)
EXTENDS JobSupervisor, ManagedStoreProofs, FiniteSetTheorems

\* What all steps but claims and adoptions do to rows: no attempt starts, none
\* is deleted, and no lease moves.
Steady ==
  /\ jobWorker' = jobWorker
  /\ \A a \in Attempts :
       /\ attStatus[a] = "queued" => attStatus'[a] # "running"
       /\ attStatus[a] # "absent" => attStatus'[a] # "absent"

\* The operations of the store that the supervisors, their workers and the
\* modelled users call, claims and adoptions apart.
SteadyOperation ==
  \/ QueueingCommand
  \/ InterruptOrphanedJobs
  \/ \E a \in Attempts : \/ MarkAttemptInterrupted(a) \/ MarkAttemptFailed(a) \/ RequestStop(a)
                         \/ CompleteAttempt(a) \/ HeartbeatJob(a) \/ HeartbeatExpires(a)

-----------------------------------------------------------------------------
(* The operations. *)

LEMMA SteadyIsNext == SteadyOperation => Next
<1> SUFFICES ASSUME SteadyOperation PROVE Next
  OBVIOUS
<1>1. CASE QueueingCommand
  BY <1>1 DEF QueueingCommand, Next, MaterialStep, ProjectStep, VariantStep
<1>2. CASE InterruptOrphanedJobs
  BY <1>2 DEF Next
<1>3. ASSUME NEW a \in Attempts,
             \/ MarkAttemptInterrupted(a) \/ MarkAttemptFailed(a) \/ RequestStop(a)
             \/ HeartbeatJob(a) \/ HeartbeatExpires(a)
      PROVE  Next
  BY <1>3 DEF Next, JobStep
<1>4. ASSUME NEW a \in Attempts, CompleteAttempt(a) PROVE Next
  <2>1. CASE CompleteMaterialAttempt(a)
    BY <2>1 DEF Next, JobStep
  <2>2. ASSUME NEW r \in Runs, NEW e \in Edits, CompleteRun(r, a, e) PROVE Next
    BY <2>2 DEF Next, RunStep
  <2>3. ASSUME NEW v \in Variants, CompleteRenderVariant(v, a) PROVE Next
    BY <2>3 DEF Next, VariantStep
  <2>4. QED
    BY <1>4, <2>1, <2>2, <2>3 DEF CompleteAttempt
<1>5. QED
  BY <1>1, <1>2, <1>3, <1>4 DEF SteadyOperation

LEMMA InsertIsSteady ==
  ASSUME IInv, NEW o \in Owners, NEW pin \in Checkpoints \cup {Nil}, InsertAttempt(o, pin)
  PROVE  Steady
<1>1. \A b \in Attempts : attStatus'[b] = IF b = created + 1 THEN "queued" ELSE attStatus[b]
  BY InsertValues, TypeParts DEF IInv
<1>2. QED
  BY <1>1 DEF Steady, InsertAttempt

LEMMA FinishIsSteady ==
  ASSUME IInv, NEW A, NEW s \in TerminalStatuses, FinishAttempts(A, s)
  PROVE  Steady
<1>1. \A b \in Attempts : attStatus'[b] = IF b \in A THEN s ELSE attStatus[b]
  BY DEF IInv, TypeOK, FinishAttempts, SetAll
<1>2. s # "running" /\ s # "absent"
  BY DEF TerminalStatuses
<1>3. QED
  BY <1>1, <1>2 DEF Steady, FinishAttempts

LEMMA OperationIsSteady == IInv /\ SteadyOperation => Steady
<1> SUFFICES ASSUME IInv, SteadyOperation PROVE Steady
  OBVIOUS
<1>1. Nil \in Checkpoints \cup {Nil} /\ attStatus \in [Attempts -> AttemptStatus \cup {"absent"}]
  BY DEF IInv, TypeOK
<1>2. ASSUME UNCHANGED <<attStatus, jobWorker>> PROVE Steady
  BY <1>2 DEF Steady
<1>3. CASE QueueingCommand
  <2>1. ASSUME NEW m \in Materials, EnqueueMaterialAnalysis(m) \/ RequeueMaterialAnalysis(m)
        PROVE  Steady
    BY <1>1, <2>1, InsertIsSteady DEF EnqueueMaterialAnalysis, RequeueMaterialAnalysis, Owners
  <2>2. ASSUME NEW p \in Projects, CreateProject(p) PROVE Steady
    BY <1>2, <2>2 DEF CreateProject, attemptVars, jobVars
  <2>3. ASSUME NEW r \in Runs, CreateRun(r) \/ RetryRun(r) PROVE Steady
    BY <1>1, <2>3, InsertIsSteady DEF CreateRun, RetryRun, QueueRun, Owners
  <2>4. ASSUME NEW v \in Variants, CreateRenderVariant(v) \/ RetryRenderVariant(v) PROVE Steady
    BY <1>1, <2>4, InsertIsSteady DEF CreateRenderVariant, RetryRenderVariant, QueueVariant, Owners
  <2>5. QED
    BY <1>3, <2>1, <2>2, <2>3, <2>4 DEF QueueingCommand
<1>4. CASE InterruptOrphanedJobs
  BY <1>4, FinishIsSteady DEF InterruptOrphanedJobs, TerminalStatuses
<1>5. ASSUME NEW a \in Attempts, MarkAttemptInterrupted(a) \/ MarkAttemptFailed(a) PROVE Steady
  BY <1>5, FinishIsSteady
  DEF MarkAttemptInterrupted, MarkAttemptFailed, TransitionAttempt, TerminalStatuses
<1>6. ASSUME NEW a \in Attempts, RequestStop(a) PROVE Steady
  <2>1. CASE FinishAttempts({a}, "interrupted")
    BY <2>1, FinishIsSteady DEF TerminalStatuses
  <2>2. CASE attStatus' = [attStatus EXCEPT ![a] = "stopping"] /\ jobWorker' = jobWorker
    BY <1>1, <2>2 DEF Steady
  <2>3. QED
    BY <1>6, <2>1, <2>2 DEF RequestStop
<1>7. ASSUME NEW a \in Attempts, CompleteAttempt(a) PROVE Steady
  BY <1>7, FinishIsSteady
  DEF CompleteAttempt, CompleteMaterialAttempt, TransitionAttempt, CompleteRun,
      CompleteRenderVariant, TerminalStatuses
<1>8. ASSUME NEW a \in Attempts, HeartbeatJob(a) \/ HeartbeatExpires(a) PROVE Steady
  BY <1>2, <1>8 DEF HeartbeatJob, HeartbeatExpires, attemptVars
<1>9. QED
  BY <1>3, <1>4, <1>5, <1>6, <1>7, <1>8 DEF SteadyOperation

-----------------------------------------------------------------------------
(* The steps of supervisors, reapers, workers and users. *)

\* What a step does to the rows.
RowStep ==
  \/ UNCHANGED vars
  \/ SteadyOperation
  \/ \E s \in Servers : Claim(s)
  \/ \E a \in Attempts : WorkerAdopts(a)

LEMMA AuditRows == Audit => UNCHANGED vars \/ SteadyOperation
  BY DEF Audit, SteadyOperation

LEMMA StepRows == SupTypeOK /\ SupNext => RowStep
<1> SUFFICES ASSUME SupTypeOK, SupNext PROVE RowStep
  OBVIOUS
<1>1. ASSUME NEW s \in Servers, Start(s) \/ ThreadTurn(s) \/ Shutdown(s) \/ ServerEnds(s)
      PROVE  RowStep
  <2>1. CASE Start(s) \/ AuditTurn(s)
    BY <2>1, AuditRows DEF Start, AuditTurn, RowStep
  <2>2. CASE Look(s) \/ EndClaims(s) \/ Launch(s) \/ Shutdown(s) \/ ServerEnds(s)
    BY <2>2 DEF Look, EndClaims, Launch, Shutdown, ServerEnds, RowStep
  <2>3. CASE Claim(s)
    BY <2>3 DEF RowStep
  <2>4. CASE DropClaim(s) \/ LaunchFails(s)
    <3>1. claim[s] \in Attempts
      BY <2>4 DEF SupTypeOK, DropClaim, LaunchFails
    <3>2. QED
      BY <2>4, <3>1 DEF DropClaim, LaunchFails, RowStep, SteadyOperation
  <2>5. QED
    BY <1>1, <2>1, <2>2, <2>3, <2>4 DEF ThreadTurn
<1>2. ASSUME NEW a \in Attempts,
             \/ ReaperTurn(a) \/ WorkerTurn(a) \/ WorkerCrashes(a)
             \/ WorkerBeats(a) \/ HeartbeatThreadDies(a) \/ LeaseExpires(a) \/ StopCommand(a)
      PROVE  RowStep
  <2>1. CASE ReaperDecides(a) \/ WorkerIsRefused(a) \/ WorkerSeesStop(a) \/ WorkerFails(a)
             \/ WorkerDecides(a) \/ WorkerCrashes(a) \/ HeartbeatThreadDies(a)
    BY <2>1 DEF ReaperDecides, WorkerIsRefused, WorkerSeesStop, WorkerFails, WorkerDecides,
       WorkerCrashes, HeartbeatThreadDies, RowStep
  <2>2. CASE WorkerAdopts(a)
    BY <2>2 DEF RowStep
  <2>3. CASE ReaperMarks(a) \/ WorkerCompletes(a) \/ WorkerMarks(a)
    BY <2>3 DEF ReaperMarks, WorkerCompletes, WorkerMarks, RowStep, SteadyOperation
  <2>4. CASE WorkerBeats(a) \/ LeaseExpires(a) \/ StopCommand(a)
    BY <2>4 DEF WorkerBeats, LeaseExpires, StopCommand, RowStep, SteadyOperation
  <2>5. QED
    BY <1>2, <2>1, <2>2, <2>3, <2>4 DEF ReaperTurn, WorkerTurn
<1>3. CASE Command \/ EnterMaintenance \/ LeaveMaintenance
  BY <1>3 DEF Command, EnterMaintenance, LeaveMaintenance, RowStep, SteadyOperation
<1>4. QED
  BY <1>1, <1>2, <1>3 DEF SupNext

\* An adopted lease is taken from the server that launched the child.
LEMMA RowsAreTheStores == SupTypeOK /\ [SupNext]_allVars => [Next]_vars
<1> SUFFICES ASSUME SupTypeOK, SupNext PROVE [Next]_vars
  BY DEF allVars
<1>1. ASSUME NEW s \in Servers, Claim(s) PROVE Next
  <2>1. s \in Workers
    BY SupervisorAssumption
  <2>2. QED
    BY <1>1, <2>1 DEF Claim, Next, JobStep
<1>2. ASSUME NEW a \in Attempts, WorkerAdopts(a) PROVE Next
  <2>1. launcher[a] \in Servers
    BY <1>2 DEF SupTypeOK, WorkerAdopts
  <2>2. launcher[a] \in Workers /\ Child \in Workers
    BY <2>1, SupervisorAssumption
  <2>3. QED
    BY <1>2, <2>2 DEF WorkerAdopts, Next, JobStep
<1>3. QED
  BY <1>1, <1>2, StepRows, SteadyIsNext DEF RowStep

-----------------------------------------------------------------------------
(* Types. *)

LEMMA InitSupTypes == SupInit => SupTypeOK
<1> SUFFICES ASSUME SupInit PROVE SupTypeOK
  OBVIOUS
<1>1. maintenance \in BOOLEAN /\ maintenances \in 0..MaxMaintenance
  <2>1. maintenance \in BOOLEAN
    BY Zenon DEF SupInit
  <2>2. maintenances \in 0..MaxMaintenance
    BY SupervisorAssumption DEF SupInit
  <2>3. QED
    BY <2>1, <2>2
<1>2. /\ thread \in [Servers -> {"unborn", "idle", "auditing", "claiming", "claimed", "dead"}]
      /\ claim \in [Servers -> Attempts \cup {Nil}]
      /\ \A s \in Servers : claim[s] = Nil /\ thread[s] = "unborn"
  BY DEF SupInit
<1>3. /\ process \in [Attempts -> {"none", "starting", "working", "deciding", "interrupting",
                                   "failing", "exited"}]
      /\ reaper \in [Attempts -> {"none", "waiting", "interrupting", "failing", "done"}]
      /\ launcher \in [Attempts -> Servers \cup {Nil}]
      /\ \A a \in Attempts : process[a] = "none" /\ launcher[a] = Nil
  BY DEF SupInit
<1>4. QED
  BY <1>1, <1>2, <1>3 DEF SupInit, SupTypeOK

LEMMA ThreadTypes ==
  ASSUME SupTypeOK, NEW s \in Servers,
         Start(s) \/ ThreadTurn(s) \/ Shutdown(s) \/ ServerEnds(s)
  PROVE  SupTypeOK'
<1> USE DEF SupTypeOK, threadVars, processVars, reaperVars, rootVars, GoTo
<1>1. CASE Start(s)
  BY <1>1 DEF Start
<1>2. CASE Look(s)
  BY <1>2 DEF Look
<1>3. CASE AuditTurn(s)
  BY <1>3 DEF AuditTurn
<1>4. CASE EndClaims(s)
  BY <1>4 DEF EndClaims
<1>5. CASE Claim(s)
  BY <1>5, SupervisorAssumption DEF Claim
<1>6. CASE DropClaim(s)
  BY <1>6 DEF DropClaim
<1>7. CASE Launch(s)
  <2>1. claim[s] \in Attempts /\ s # Nil
    BY <1>7, StoreAssumption, SupervisorAssumption DEF Launch
  <2>2. QED
    BY <1>7, <2>1 DEF Launch
<1>8. CASE LaunchFails(s)
  BY <1>8 DEF LaunchFails
<1>9. CASE Shutdown(s)
  BY <1>9 DEF Shutdown
<1>10. CASE ServerEnds(s)
  BY <1>10 DEF ServerEnds
<1>11. QED
  BY <1>1, <1>2, <1>3, <1>4, <1>5, <1>6, <1>7, <1>8, <1>9, <1>10 DEF ThreadTurn

LEMMA WorkerTypes ==
  ASSUME SupTypeOK, NEW a \in Attempts,
         \/ ReaperTurn(a) \/ WorkerTurn(a) \/ WorkerCrashes(a)
         \/ WorkerBeats(a) \/ HeartbeatThreadDies(a) \/ LeaseExpires(a) \/ StopCommand(a)
  PROVE  SupTypeOK'
<1> USE DEF SupTypeOK, supVars, threadVars, processVars, reaperVars, rootVars
<1>1. CASE ReaperDecides(a)
  BY <1>1 DEF ReaperDecides, ReaperGoesTo
<1>2. CASE ReaperMarks(a)
  BY <1>2 DEF ReaperMarks, ReaperGoesTo
<1>3. CASE WorkerAdopts(a)
  BY <1>3 DEF WorkerAdopts
<1>4. CASE WorkerIsRefused(a) \/ WorkerSeesStop(a) \/ WorkerCompletes(a) \/ WorkerFails(a)
  BY <1>4 DEF WorkerIsRefused, WorkerSeesStop, WorkerCompletes, WorkerFails, ProcessGoesTo
<1>5. CASE WorkerDecides(a) \/ WorkerMarks(a) \/ WorkerCrashes(a)
  BY <1>5 DEF WorkerDecides, WorkerMarks, WorkerCrashes, LiveProcesses, ProcessGoesTo
<1>6. CASE WorkerBeats(a) \/ HeartbeatThreadDies(a) \/ LeaseExpires(a) \/ StopCommand(a)
  BY <1>6 DEF WorkerBeats, HeartbeatThreadDies, LeaseExpires, StopCommand
<1>7. QED
  BY <1>1, <1>2, <1>3, <1>4, <1>5, <1>6 DEF ReaperTurn, WorkerTurn

LEMMA NextSupTypes == SupTypeOK /\ [SupNext]_allVars => SupTypeOK'
<1> SUFFICES ASSUME SupTypeOK, [SupNext]_allVars PROVE SupTypeOK'
  OBVIOUS
<1>1. CASE UNCHANGED allVars
  BY <1>1 DEF allVars, supVars, threadVars, processVars, reaperVars, rootVars, SupTypeOK
<1>2. CASE Command \/ EnterMaintenance \/ LeaveMaintenance
  <2>1. UNCHANGED <<thread, claim, shutdown, process, beating, reaper, launcher>>
    BY <1>2 DEF Command, EnterMaintenance, LeaveMaintenance, supVars, threadVars, processVars,
       reaperVars
  <2>2. maintenance' \in BOOLEAN /\ maintenances' \in 0..MaxMaintenance
    <3>1. maintenance' \in BOOLEAN
      BY <1>2, Zenon
      DEF Command, EnterMaintenance, LeaveMaintenance, supVars, rootVars, SupTypeOK
    <3>2. maintenances' \in 0..MaxMaintenance
      BY <1>2, SupervisorAssumption
      DEF Command, EnterMaintenance, LeaveMaintenance, supVars, rootVars, SupTypeOK
    <3>3. QED
      BY <3>1, <3>2
  <2>3. QED
    BY <2>1, <2>2 DEF SupTypeOK
<1>3. QED
  BY <1>1, <1>2, ThreadTypes, WorkerTypes DEF SupNext

-----------------------------------------------------------------------------
(* The inductive invariant. *)

\* An attempt that a thread holds or that has a process has been claimed.
HeldHasBegun ==
  /\ \A a \in Attempts : process[a] # "none" => attStatus[a] \notin {"absent", "queued"}
  /\ \A s \in Servers : claim[s] # Nil => attStatus[claim[s]] \notin {"absent", "queued"}

SupInv ==
  /\ IInv /\ SupTypeOK
  /\ HeldHasBegun /\ LaunchedOnce /\ CapacityRespected /\ OpenWorkerHoldsLease

LEMMA InitSupInv == SupInit => SupInv
<1> SUFFICES ASSUME SupInit PROVE SupInv
  OBVIOUS
<1>1. IInv /\ SupTypeOK
  BY InitIInv, InitSupTypes DEF SupInit
<1>2. /\ \A a \in Attempts : process[a] = "none" /\ attStatus[a] = "absent"
      /\ \A s \in Servers : claim[s] = Nil
  BY DEF SupInit, Init
<1>3. HeldHasBegun /\ LaunchedOnce
  BY <1>2 DEF HeldHasBegun, LaunchedOnce
<1>4. CapacityRespected
  <2>1. ClaimedJobs = {}
    BY <1>2 DEF ClaimedJobs, ClaimedStatuses
  <2>2. Cardinality({}) = 0 /\ 0 <= MaxActiveJobs
    BY FS_EmptySet, StoreAssumption
  <2>3. QED
    BY <2>1, <2>2 DEF CapacityRespected
<1>5. OpenWorkerHoldsLease
  BY <1>2 DEF OpenWorkerHoldsLease, LiveProcesses
<1>6. QED
  BY <1>1, <1>3, <1>4, <1>5 DEF SupInv

\* Processes that have adopted their attempt and not exited.
Adopted == {a \in Attempts : process[a] \notin {"none", "starting", "exited"}}

\* The steps that neither claim nor launch.
Onward ==
  /\ \A s \in Servers : claim'[s] = claim[s] \/ claim'[s] = Nil
  /\ \A a \in Attempts : process[a] = "none" => process'[a] = "none"
  /\ \A a \in Adopted' : a \in Adopted \/ WorkerAdopts(a)

LEMMA ThreadKinds ==
  ASSUME SupTypeOK, NEW s \in Servers, SupTypeOK',
         Start(s) \/ ThreadTurn(s) \/ Shutdown(s) \/ ServerEnds(s)
  PROVE  Claim(s) \/ Launch(s) \/ Onward
<1>1. CASE Start(s) \/ Look(s) \/ AuditTurn(s) \/ EndClaims(s) \/ Shutdown(s)
  BY <1>1 DEF Start, Look, AuditTurn, EndClaims, Shutdown, processVars, Onward, Adopted
<1>2. CASE DropClaim(s) \/ LaunchFails(s) \/ ServerEnds(s)
  <2>1. claim' = [claim EXCEPT ![s] = Nil] /\ process' = process
    BY <1>2 DEF DropClaim, LaunchFails, ServerEnds, processVars
  <2>2. QED
    BY <2>1 DEF SupTypeOK, Onward, Adopted
<1>3. QED
  BY <1>1, <1>2 DEF ThreadTurn

LEMMA WorkerKinds ==
  ASSUME SupTypeOK, NEW a \in Attempts,
         \/ ReaperTurn(a) \/ WorkerTurn(a) \/ WorkerCrashes(a)
         \/ WorkerBeats(a) \/ HeartbeatThreadDies(a) \/ LeaseExpires(a) \/ StopCommand(a)
  PROVE  Onward
<1>1. CASE \/ ReaperTurn(a) \/ WorkerBeats(a) \/ HeartbeatThreadDies(a)
           \/ LeaseExpires(a) \/ StopCommand(a)
  BY <1>1 DEF ReaperTurn, ReaperDecides, ReaperMarks, WorkerBeats, HeartbeatThreadDies,
     LeaseExpires, StopCommand, supVars, threadVars, processVars, Onward, Adopted
<1>2. CASE WorkerAdopts(a)
  <2>1. process' = [process EXCEPT ![a] = "working"] /\ process[a] # "none" /\ claim' = claim
    BY <1>2 DEF WorkerAdopts, threadVars
  <2>2. QED
    BY <1>2, <2>1 DEF SupTypeOK, Onward, Adopted
<1>3. CASE \/ WorkerIsRefused(a) \/ WorkerSeesStop(a) \/ WorkerCompletes(a) \/ WorkerFails(a)
           \/ WorkerDecides(a) \/ WorkerMarks(a) \/ WorkerCrashes(a)
  <2>1. claim' = claim /\ process[a] # "none"
    BY <1>3 DEF WorkerIsRefused, WorkerSeesStop, WorkerCompletes, WorkerFails, WorkerDecides,
       WorkerMarks, WorkerCrashes, LiveProcesses, threadVars
  <2>2. \/ process' = [process EXCEPT ![a] = "exited"]
        \/ process[a] \in {"working", "deciding"} /\ \E p : process' = [process EXCEPT ![a] = p]
    BY <1>3 DEF WorkerIsRefused, WorkerSeesStop, WorkerCompletes, WorkerFails, WorkerDecides,
       WorkerMarks, WorkerCrashes, ProcessGoesTo
  <2>3. \A b \in Attempts : b # a => process'[b] = process[b]
    BY <2>2 DEF SupTypeOK
  <2>4. a \in Adopted' => a \in Adopted
    BY <2>2 DEF SupTypeOK, Adopted
  <2>5. QED
    BY <2>1, <2>3, <2>4 DEF Onward, Adopted
<1>4. QED
  BY <1>1, <1>2, <1>3 DEF WorkerTurn

LEMMA StepKinds ==
  ASSUME SupTypeOK, SupTypeOK', [SupNext]_allVars
  PROVE  (\E s \in Servers : Claim(s) \/ Launch(s)) \/ Onward
<1>1. CASE UNCHANGED allVars
  BY <1>1 DEF allVars, supVars, threadVars, processVars, Onward, Adopted
<1>2. CASE Command \/ EnterMaintenance \/ LeaveMaintenance
  BY <1>2 DEF Command, EnterMaintenance, LeaveMaintenance, supVars, threadVars, processVars,
     Onward, Adopted
<1>3. QED
  BY <1>1, <1>2, ThreadKinds, WorkerKinds DEF SupNext

\* What becomes of attempts: one that has begun stays so, one starts only by a
\* supervisor's claim, and a lease moves only to the child that adopts it.
LEMMA AttemptSteps ==
  ASSUME SupInv, [SupNext]_allVars, NEW a \in Attempts
  PROVE  /\ attStatus[a] \notin {"absent", "queued"} => attStatus'[a] \notin {"absent", "queued"}
         /\ attStatus'[a] \in ClaimedStatuses =>
              \/ attStatus[a] \in ClaimedStatuses
              \/ attStatus[a] = "queued" /\ \E s \in Servers : Claim(s) /\ claim'[s] = a
         /\ attStatus[a] \in ClaimedStatuses => jobWorker'[a] = jobWorker[a] \/ WorkerAdopts(a)
<1> DEFINE Goal ==
      /\ attStatus[a] \notin {"absent", "queued"} => attStatus'[a] \notin {"absent", "queued"}
      /\ attStatus'[a] \in ClaimedStatuses =>
           \/ attStatus[a] \in ClaimedStatuses
           \/ attStatus[a] = "queued" /\ \E s \in Servers : Claim(s) /\ claim'[s] = a
      /\ attStatus[a] \in ClaimedStatuses => jobWorker'[a] = jobWorker[a] \/ WorkerAdopts(a)
<1>1. /\ attStatus \in [Attempts -> AttemptStatus \cup {"absent"}]
      /\ jobWorker \in [Attempts -> Workers \cup {Nil}]
      /\ SupTypeOK
  BY DEF SupInv, IInv, TypeOK
<1>2. CASE UNCHANGED vars
  BY <1>2 DEF vars, attemptVars, jobVars
<1>3. CASE SteadyOperation
  <2>1. Steady /\ LegalMove(attStatus[a], attStatus'[a])
    BY <1>3, OperationIsSteady, SteadyIsNext, StepMoves DEF SupInv
  <2>2. QED
    BY <2>1 DEF Steady, LegalMove, ClaimedStatuses, ActiveStatuses, TerminalStatuses
<1>4. ASSUME NEW s \in Servers, Claim(s) PROVE Goal
  <2>1. PICK b \in Attempts : ClaimNextSupervisedJob(b, s) /\ claim' = [claim EXCEPT ![s] = b]
    BY <1>4 DEF Claim
  <2>2. attStatus[b] = "queued" /\ claim'[s] = b
    BY <1>1, <2>1 DEF ClaimNextSupervisedJob, EligibleJobs, QueuedJobs, SupTypeOK
  <2>3. /\ attStatus'[a] = IF a = b THEN "running" ELSE attStatus[a]
        /\ a # b => jobWorker'[a] = jobWorker[a]
    BY <1>1, <2>1 DEF ClaimNextSupervisedJob, ClaimJobRow
  <2>4. QED
    BY <1>4, <2>2, <2>3, StatusSets
<1>5. ASSUME NEW b \in Attempts, WorkerAdopts(b) PROVE Goal
  <2>1. attStatus' = attStatus /\ (a # b => jobWorker'[a] = jobWorker[a])
    BY <1>1, <1>5 DEF WorkerAdopts, AdoptSupervisedJob, attemptVars
  <2>2. QED
    BY <1>5, <2>1
<1>6. QED
  BY <1>1, <1>2, <1>3, <1>4, <1>5, StepRows DEF RowStep, allVars

LEMMA HeldHasBegunNext == SupInv /\ SupTypeOK' /\ [SupNext]_allVars => HeldHasBegun'
<1> SUFFICES ASSUME SupInv, SupTypeOK', [SupNext]_allVars PROVE HeldHasBegun'
  OBVIOUS
<1>1. /\ SupTypeOK
      /\ \A a \in Attempts : process[a] # "none" => attStatus[a] \notin {"absent", "queued"}
      /\ \A s \in Servers : claim[s] # Nil =>
           claim[s] \in Attempts /\ attStatus[claim[s]] \notin {"absent", "queued"}
  BY DEF SupInv, HeldHasBegun, SupTypeOK
<1>2. \A a \in Attempts :
        attStatus[a] \notin {"absent", "queued"} => attStatus'[a] \notin {"absent", "queued"}
  BY AttemptSteps
<1>3. ASSUME NEW s \in Servers, Claim(s) PROVE HeldHasBegun'
  <2>1. PICK b \in Attempts : ClaimNextSupervisedJob(b, s) /\ claim' = [claim EXCEPT ![s] = b]
    BY <1>3 DEF Claim
  <2>2. attStatus'[b] = "running" /\ process' = process
    BY <1>3, <2>1 DEF Claim, ClaimNextSupervisedJob, ClaimJobRow, SupInv, IInv, TypeOK, processVars
  <2>3. \A t \in Servers : claim'[t] = IF t = s THEN b ELSE claim[t]
    BY <1>1, <2>1 DEF SupTypeOK
  <2>4. QED
    BY <1>1, <1>2, <2>2, <2>3 DEF HeldHasBegun
<1>4. ASSUME NEW s \in Servers, Launch(s) PROVE HeldHasBegun'
  <2>1. claim[s] # Nil /\ claim[s] \in Attempts
    BY <1>1, <1>4 DEF Launch, SupTypeOK
  <2>2. /\ \A a \in Attempts : process'[a] # "none" => process[a] # "none" \/ a = claim[s]
        /\ \A t \in Servers : claim'[t] = IF t = s THEN Nil ELSE claim[t]
    BY <1>1, <1>4, <2>1 DEF Launch, SupTypeOK
  <2>3. QED
    BY <1>1, <1>2, <2>1, <2>2 DEF HeldHasBegun
<1>5. CASE Onward
  BY <1>1, <1>2, <1>5 DEF Onward, HeldHasBegun
<1>6. QED
  BY <1>1, <1>3, <1>4, <1>5, StepKinds

LEMMA LaunchedOnceNext ==
  SupInv /\ SupTypeOK' /\ HeldHasBegun' /\ [SupNext]_allVars => LaunchedOnce'
<1> SUFFICES ASSUME SupInv, SupTypeOK', HeldHasBegun', [SupNext]_allVars PROVE LaunchedOnce'
  OBVIOUS
<1>1. /\ SupTypeOK /\ HeldHasBegun /\ LaunchedOnce
      /\ \A s \in Servers : claim[s] # Nil => claim[s] \in Attempts
  BY DEF SupInv, SupTypeOK
<1>2. (\A a \in Attempts : attStatus[a] = "queued" => process[a] = "none")'
  BY DEF HeldHasBegun
<1>3. ASSUME NEW s \in Servers, Claim(s) PROVE LaunchedOnce'
  <2>1. PICK b \in Attempts : ClaimNextSupervisedJob(b, s) /\ claim' = [claim EXCEPT ![s] = b]
    BY <1>3 DEF Claim
  <2>2. attStatus[b] = "queued" /\ process' = process
    BY <1>3, <2>1 DEF Claim, ClaimNextSupervisedJob, EligibleJobs, QueuedJobs, processVars
  <2>3. \A t \in Servers : claim'[t] = IF t = s THEN b ELSE claim[t]
    BY <1>1, <2>1 DEF SupTypeOK
  <2>4. process[b] = "none" /\ \A t \in Servers : claim[t] # b
    BY <1>1, <2>2, StoreAssumption, SupervisorAssumption DEF HeldHasBegun
  <2>5. QED
    BY <1>1, <1>2, <2>2, <2>3, <2>4 DEF LaunchedOnce
<1>4. ASSUME NEW s \in Servers, Launch(s) PROVE LaunchedOnce'
  <2>1. claim[s] # Nil /\ claim[s] \in Attempts
    BY <1>1, <1>4 DEF Launch, SupTypeOK
  <2>2. /\ \A a \in Attempts : a # claim[s] => process'[a] = process[a]
        /\ \A t \in Servers : claim'[t] = IF t = s THEN Nil ELSE claim[t]
    BY <1>1, <1>4, <2>1 DEF Launch, SupTypeOK
  <2>3. \A t \in Servers : claim'[t] # Nil => claim'[t] # claim[s]
    BY <1>1, <2>1, <2>2 DEF LaunchedOnce
  <2>4. QED
    BY <1>1, <1>2, <2>2, <2>3 DEF LaunchedOnce
<1>5. CASE Onward
  BY <1>1, <1>2, <1>5 DEF Onward, LaunchedOnce
<1>6. QED
  BY <1>1, <1>3, <1>4, <1>5, StepKinds

\* A claim is made below capacity and adds one; no other step adds any.
LEMMA CapacityNext == SupInv /\ IInv' /\ [SupNext]_allVars => CapacityRespected'
<1> SUFFICES ASSUME SupInv, IInv', [SupNext]_allVars PROVE CapacityRespected'
  OBVIOUS
<1>1. /\ ClaimedJobs = {a \in Attempts : attStatus[a] \in ClaimedStatuses}
      /\ ClaimedJobs' = {a \in Attempts : attStatus'[a] \in ClaimedStatuses}
  BY DEF SupInv, IInv, JobMirrorsAttempt, ClaimedJobs
<1>2. IsFiniteSet(ClaimedJobs) /\ Cardinality(ClaimedJobs) \in Nat
  <2>1. IsFiniteSet(Attempts)
    BY StoreAssumption, FS_Interval DEF Attempts
  <2>2. IsFiniteSet(ClaimedJobs)
    BY <1>1, <2>1, FS_Subset
  <2>3. QED
    BY <2>2, FS_CardinalityType
<1>3. CASE \E s \in Servers : Claim(s)
  <2>1. PICK s \in Servers, b \in Attempts :
          ClaimNextSupervisedJob(b, s) /\ claim' = [claim EXCEPT ![s] = b]
    BY <1>3 DEF Claim
  <2>2. Cardinality(ClaimedJobs) < MaxActiveJobs
    BY <2>1 DEF ClaimNextSupervisedJob
  <2>3. ClaimedJobs' \subseteq ClaimedJobs \cup {b}
    BY <1>1, <2>1 DEF ClaimNextSupervisedJob, ClaimJobRow, SupInv, IInv, TypeOK
  <2>4. /\ IsFiniteSet(ClaimedJobs \cup {b})
        /\ Cardinality(ClaimedJobs \cup {b}) <= Cardinality(ClaimedJobs) + 1
    <3>1. /\ IsFiniteSet(ClaimedJobs \cup {b})
          /\ \/ Cardinality(ClaimedJobs \cup {b}) = Cardinality(ClaimedJobs)
             \/ Cardinality(ClaimedJobs \cup {b}) = Cardinality(ClaimedJobs) + 1
      BY <1>2, FS_AddElement, Zenon
    <3>2. QED
      BY <1>2, <3>1
  <2>5. /\ Cardinality(ClaimedJobs') <= Cardinality(ClaimedJobs \cup {b})
        /\ Cardinality(ClaimedJobs') \in Nat /\ Cardinality(ClaimedJobs \cup {b}) \in Nat
    BY <2>3, <2>4, FS_Subset, FS_CardinalityType
  <2>6. QED
    BY <1>2, <2>2, <2>4, <2>5, StoreAssumption DEF CapacityRespected
<1>4. CASE ~\E s \in Servers : Claim(s)
  <2>1. ClaimedJobs' \subseteq ClaimedJobs
    BY <1>1, <1>4, AttemptSteps
  <2>2. Cardinality(ClaimedJobs') <= Cardinality(ClaimedJobs) /\ Cardinality(ClaimedJobs') \in Nat
    BY <1>2, <2>1, FS_Subset, FS_CardinalityType
  <2>3. QED
    BY <1>2, <2>2, StoreAssumption DEF SupInv, CapacityRespected
<1>5. QED
  BY <1>3, <1>4

\* An adopted attempt that is still claimed was so before: only its own adoption
\* moves its lease, and two open attempts have two owners.
LEMMA LeasesNext == SupInv /\ IInv' /\ SupTypeOK' /\ [SupNext]_allVars => OpenWorkerHoldsLease'
<1> SUFFICES ASSUME SupInv, IInv', SupTypeOK', [SupNext]_allVars PROVE OpenWorkerHoldsLease'
  OBVIOUS
<1>1. /\ SupTypeOK /\ HeldHasBegun /\ LaunchedOnce
      /\ \A a \in Adopted : attStatus[a] \in ClaimedStatuses => jobWorker[a] = Child
  BY DEF SupInv, OpenWorkerHoldsLease, LiveProcesses, Adopted
<1>2. ASSUME NEW a \in Attempts, a \in Adopted', attStatus'[a] \in ClaimedStatuses
      PROVE  jobWorker'[a] = Child
  <2>1. CASE WorkerAdopts(a)
    BY <2>1 DEF WorkerAdopts, AdoptSupervisedJob, SupInv, IInv, TypeOK
  <2>2. CASE ~WorkerAdopts(a)
    <3>1. a \in Adopted
      <4>1. CASE \E s \in Servers : Claim(s)
        BY <1>2, <4>1 DEF Claim, processVars, Adopted
      <4>2. ASSUME NEW s \in Servers, Launch(s) PROVE a \in Adopted
        <5>1. process'[a] = "starting" \/ process'[a] = process[a]
          BY <1>1, <4>2 DEF Launch, SupTypeOK
        <5>2. QED
          BY <1>2, <5>1 DEF Adopted
      <4>3. CASE Onward
        BY <1>2, <2>2, <4>3 DEF Onward
      <4>4. QED
        BY <1>1, <4>1, <4>2, <4>3, StepKinds
    <3>2. attStatus[a] \in ClaimedStatuses
      BY <1>1, <1>2, <3>1, AttemptSteps DEF Adopted, LaunchedOnce
    <3>3. QED
      BY <1>1, <2>2, <3>1, <3>2, AttemptSteps
  <2>3. QED
    BY <2>1, <2>2
<1>3. ASSUME NEW a \in Attempts, NEW b \in Attempts,
             attStatus'[a] \in ClaimedStatuses, attStatus'[b] \in ClaimedStatuses,
             attOwner'[a] = attOwner'[b]
      PROVE  a = b
  <2>1. a <= b /\ b <= a
    BY <1>3, StatusSets DEF IInv, OneActiveAttempt
  <2>2. QED
    BY <2>1 DEF Attempts
<1>4. QED
  BY <1>2, <1>3 DEF OpenWorkerHoldsLease, LiveProcesses, Adopted

LEMMA NextSupInv == SupInv /\ [SupNext]_allVars => SupInv'
<1> SUFFICES ASSUME SupInv, [SupNext]_allVars PROVE SupInv'
  OBVIOUS
<1>1. IInv' /\ SupTypeOK'
  BY RowsAreTheStores, NextIInv, NextSupTypes DEF SupInv
<1>2. HeldHasBegun' /\ LaunchedOnce'
  BY <1>1, HeldHasBegunNext, LaunchedOnceNext
<1>3. CapacityRespected' /\ OpenWorkerHoldsLease'
  BY <1>1, CapacityNext, LeasesNext
<1>4. QED
  BY <1>1, <1>2, <1>3 DEF SupInv

-----------------------------------------------------------------------------
(* The theorems. *)

\* The supervisors, their workers and the users change the rows as the store's
\* specification allows and begin where it begins: every theorem about the
\* store holds under any number of supervisors, crashes included.
THEOREM SupervisorsRunTheStore == SupSpec => Spec
<1>1. SupInit => Init
  BY DEF SupInit
<1>2. SupTypeOK /\ [SupNext]_allVars => [Next]_vars
  BY RowsAreTheStores
<1>3. SupSpec => []SupTypeOK
  BY InitSupTypes, NextSupTypes, PTL DEF SupSpec
<1>4. QED
  BY <1>1, <1>2, <1>3, PTL DEF SupSpec, Spec

\* The invariant of supervisors, workers and rows together.
THEOREM SupervisorInvariant == SupSpec => []SupInv
  BY InitSupInv, NextSupInv, PTL DEF SupSpec

\* Threads hold a claim exactly between claiming and launching, and a process
\* has the server that launched it.
THEOREM SupervisorTypeCorrect == SupSpec => []SupTypeOK
  BY SupervisorInvariant, PTL DEF SupInv

\* However many supervisors run, each claimed attempt goes to one child.
THEOREM EachClaimLaunchedOnce == SupSpec => []LaunchedOnce
  BY SupervisorInvariant, PTL DEF SupInv

\* The capacity bounds the claimed jobs of all supervisors together.
THEOREM CapacityHolds == SupSpec => []CapacityRespected
  BY SupervisorInvariant, PTL DEF SupInv

\* A worker whose attempt is still open holds its lease, alone for its owner.
THEOREM OpenWorkersHoldLeases == SupSpec => []OpenWorkerHoldsLease
  BY SupervisorInvariant, PTL DEF SupInv
=============================================================================
