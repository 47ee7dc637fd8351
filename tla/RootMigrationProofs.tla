---------------------------- MODULE RootMigrationProofs ----------------------------
(***************************************************************************)
(* Theorems about RootMigration, for any number of servers, roots,         *)
(* migrations, workers and writes.  What the lease gives holds whatever    *)
(* fails.  That the pointer always names a whole root with every write,    *)
(* and that two workers never have a destination in hand, holds where      *)
(* syncing the pointer's directory succeeds and a start falls between the  *)
(* others' steps; that no start is refused, for one migration.             *)
(***************************************************************************)
EXTENDS RootMigration, FiniteSetTheorems, TLAPS

\* The bounds are numbers, and no launch and no migration is None.
LEMMA MigrationConstants ==
  /\ MaxMigrations \in Nat /\ MaxLaunches \in Nat /\ MaxWrites \in Nat
  /\ None \notin Launches /\ None \notin Migrations
BY MigrationAssumption DEF Launches, Migrations, None

-----------------------------------------------------------------------------
(* The invariant. *)

\* Where a worker is that holds the lease exclusively (exclusive).
Exclusive == {"holding", "copying", "verifying", "verified", "switching", "flagged", "pointed",
              "switched", "recorded"}
\* Where it is between its look at the reservation and the record of its outcome.
Bound == Exclusive \cup {"entering", "quiescing", "waiting", "forward", "forwarded",
                         "unwinding", "emptied", "unwound"}
\* Where it has not touched the row, and where it has prepared its destination.
Working == {"entering", "quiescing", "waiting", "holding", "copying", "verifying", "verified"}
Copied == {"verifying", "verified", "switching", "flagged"}
Unwinding == {"unwinding", "emptied", "unwound"}
Places == Bound \cup {"none", "started", "opened", "lifting", "gone", "crashed"}

Phases == {"down", "opened", "recovering", "recovered", "completing", "handing", "up", "refused"}
Reconciling == {"recovering", "recovered", "completing", "handing"}
Threads == {"none", "idle", "reserved", "spawned", "failing", "lifting"}

\* Every variable has its type.
Types ==
  /\ status \in [Migrations -> {"absent", "open"} \cup Closed]
  /\ cancelRequested \subseteq Admitted /\ processKnown \subseteq Admitted
  /\ source \in [Migrations -> Roots] /\ destination \in [Migrations -> Roots]
  /\ worker \in [Migrations -> Launches \cup {None}]
  /\ heartbeat \in [Migrations -> {"null", "fresh", "stale"}]
  /\ maintenance \in BOOLEAN /\ restartRequired \in BOOLEAN
  /\ controlled \in Admitted \cup {None}
  /\ pointer \in Roots /\ whole \subseteq Roots
  /\ occupied \subseteq Roots /\ active \subseteq Roots
  /\ writes \in [Roots -> 0..MaxWrites] /\ marker \in [Roots -> Migrations \cup {None}]
  /\ sharing \subseteq Servers /\ lease \in Launches \cup {None}
  /\ server \in [Servers -> Phases] /\ serverRoot \in [Servers -> Roots]
  /\ preflight \in [Servers -> SUBSET Roots] /\ handles \in [Servers -> Admitted \cup {None}]
  /\ thread \in [Servers -> Threads] /\ hand \in [Servers -> Launches \cup {None}]
  /\ tracked \in [Servers -> SUBSET Launches]
  /\ at \in [Launches -> Places] /\ moves \in [Launches -> Admitted \cup {None}]
  /\ workerRoot \in [Launches -> Roots] /\ owns \subseteq Launches
  /\ outcome \in [Launches -> {"cancelled", "failed"}]

\* Migrations are admitted in order.
Numbered == Newest \in 0..MaxMigrations /\ Admitted = 1..Newest

\* What is in hand, tracked, reconciled or at work is about a migration.
Reached ==
  /\ \A k \in Launches : at[k] # "none" => moves[k] # None
  /\ \A s \in Servers :
       /\ thread[s] \in {"none", "idle"} <=> hand[s] = None
       /\ hand[s] # None => moves[hand[s]] # None
       /\ \A k \in tracked[s] : moves[k] # None
       /\ server[s] # "up" => thread[s] = "none" /\ tracked[s] = {} /\ preflight[s] = {}
       /\ server[s] \in Reconciling => handles[s] # None
       /\ serverRoot[s] \notin preflight[s]

\* The lease is held by the workers that are where it is needed and by nobody next to an
\* operation, and an operation is on the root the pointer names.
Leased ==
  /\ \A k \in Launches : at[k] \in Exclusive <=> lease = k
  /\ lease # None => sharing = {}
  /\ \A s \in sharing : serverRoot[s] = pointer

\* A launch that a server deals with is dealt with by it alone.
Alone ==
  /\ \A s, t \in Servers : \A k \in Launches :
       k \in tracked[s] \cup {hand[s]} /\ k \in tracked[t] \cup {hand[t]} => s = t
  /\ \A s \in Servers : thread[s] = "reserved" => at[hand[s]] = "none"

BaseInv == Types /\ Numbered /\ Reached /\ Alone /\ Leased

\* A migration that is not ended and has not moved the root.
Live(m) == status[m] \in {"open", "switching"}
Moved(m) == \/ status[m] \in {"restart_required", "complete"}
            \/ status[m] = "switching" /\ pointer = destination[m]

\* One migration is live, and none moves a root to where it is.
OneLive ==
  /\ \A m, n \in Migrations : Live(m) /\ Live(n) => m = n
  /\ \A m \in Admitted : source[m] # destination[m]

\* A launch that a server deals with is the one its migration is reserved for, with a
\* heartbeat nobody takes for stale, unless it is over.
Attended ==
  /\ \A s \in Servers : \A k \in tracked[s] \cup ({hand[s]} \ {None}) :
       /\ at[k] # "gone" => worker[moves[k]] = k
       /\ worker[moves[k]] = k => heartbeat[moves[k]] = "fresh"
  /\ \A s \in Servers :
       /\ thread[s] = "reserved" => status[moves[hand[s]]] = "open"
       /\ thread[s] = "spawned" => at[hand[s]] # "none"
       /\ thread[s] = "failing" =>
            at[hand[s]] \in {"none", "crashed"} /\ status[moves[hand[s]]] = "open"
       /\ \A k \in tracked[s] : at[k] # "none"

\* A worker at work is the one its migration is reserved for and the row says how far it is.
AtWork ==
  \A k \in Launches :
    /\ at[k] \in {"started", "opened"} /\ worker[moves[k]] = k => status[moves[k]] = "open"
    /\ at[k] \in Bound => worker[moves[k]] = k /\ moves[k] \in processKnown
    /\ at[k] \in Working => status[moves[k]] = "open"
    /\ at[k] \in {"switching", "flagged", "pointed", "switched"} => status[moves[k]] = "switching"
    /\ at[k] \in {"recorded", "forward", "forwarded"} => Moved(moves[k])
    /\ at[k] \in Unwinding => Live(moves[k])

\* Until it has replaced the pointer, what a worker has found there is there; and once it
\* has prepared its destination, that is another root than the one it moves from.
Pointed ==
  \A k \in Launches :
    /\ (at[k] = "opened" /\ worker[moves[k]] = k) \/ at[k] \in (Working \cup Copied \cup Unwinding)
         => pointer = workerRoot[k]
    /\ at[k] \in {"pointed", "switched"} => pointer = destination[moves[k]]
    /\ at[k] \in {"copying"} \cup Copied => k \in owns
    /\ at[k] \in Unwinding /\ status[moves[k]] = "switching" => k \in owns
    /\ at[k] = "emptied" => k \in owns
    /\ k \in owns => /\ at[k] \notin {"none", "started", "opened"}
                     /\ workerRoot[k] = source[moves[k]]

\* A start that goes on after its look is about what it has seen.
Started ==
  \A s \in Servers :
    /\ server[s] = "recovering" => serverRoot[s] = source[handles[s]]
    /\ server[s] = "completing" => Moved(handles[s])

\* The root the pointer names is whole and has every write, and so has a copy that has been
\* made of it for as long as the lease is held.
Whole ==
  /\ pointer \in whole
  /\ \A r \in whole : writes[r] <= writes[pointer]
  /\ \A k \in Launches : at[k] \in Copied =>
       writes[destination[moves[k]]] = writes[pointer]
  /\ \A k \in Launches : at[k] \in Copied \ {"verifying"} => destination[moves[k]] \in whole

\* Where there is one migration: until it moves the root, every server has opened the root
\* it moves from, and the marker in the root it has moved to is its own.
Single ==
  /\ \A m \in Migrations :
       /\ status[m] = "absent" => \A s \in Servers : serverRoot[s] = pointer
       /\ status[m] # "absent" /\ ~Moved(m) => pointer = source[m]
       /\ Moved(m) => marker[destination[m]] = m
  /\ \A k \in Launches : at[k] \in {"copying", "pointed"} \cup Copied =>
       marker[destination[moves[k]]] = moves[k]
  /\ StartIsNeverRefused

-----------------------------------------------------------------------------
(* What every step keeps. *)

\* A row that is written is that of an admitted migration.
LEMMA UpdateKeeps ==
  ASSUME Types, NEW m \in Admitted, NEW new \in {"open"} \cup Closed, Update(m, new)
  PROVE  /\ status' \in [Migrations -> {"absent", "open"} \cup Closed] /\ Admitted' = Admitted
         /\ heartbeat' \in [Migrations -> {"null", "fresh", "stale"}]
BY DEF Update, Types, Admitted, Closed, Ended

\* What a server or a worker has in hand is an admitted migration.
LEMMA InHand ==
  ASSUME Types, Reached
  PROVE  /\ Admitted \subseteq Migrations
         /\ \A k \in Launches : at[k] # "none" => moves[k] \in Admitted
         /\ \A s \in Servers : thread[s] \notin {"none", "idle"} =>
              hand[s] \in Launches /\ moves[hand[s]] \in Admitted
         /\ \A s \in Servers : server[s] \in Reconciling => handles[s] \in Admitted
BY MigrationConstants DEF Types, Reached, Admitted, Reconciling

\* No row goes, and only an admission adds one.
LEMMA RowsGrow ==
  ASSUME BaseInv, MigrationNext
  PROVE  \/ Admitted' = Admitted
         \/ /\ Newest + 1 \in Migrations /\ Admitted' = Admitted \cup {Newest + 1}
            /\ \E s \in Servers : StartMigration(s)
<1> DEFINE Goal == \/ Admitted' = Admitted
                   \/ /\ Newest + 1 \in Migrations /\ Admitted' = Admitted \cup {Newest + 1}
                      /\ \E s \in Servers : StartMigration(s)
<1> SUFFICES Goal
    OBVIOUS
<1> USE InHand, MigrationConstants DEF BaseInv
<1>u. ASSUME UNCHANGED status PROVE Goal
      BY <1>u DEF Admitted
<1>w. ASSUME NEW m \in Admitted, NEW new \in {"open"} \cup Closed, Update(m, new) PROVE Goal
      BY <1>w, UpdateKeeps
<1> HIDE DEF Goal
<1>1. ASSUME NEW s \in Servers, ServerTurn(s) PROVE Goal
  <2>1. CASE StartMigration(s)
    <3>1. ASSUME UNCHANGED status PROVE Goal
          BY <3>1, <1>u
    <3>2. ASSUME Newest < MaxMigrations, status' = [status EXCEPT ![Newest + 1] = "open"] PROVE Goal
      <4>1. Newest + 1 \in Migrations
            BY <3>2 DEF Numbered, Migrations
      <4>2. Admitted' = Admitted \cup {Newest + 1}
            BY <3>2, <4>1 DEF Admitted, Types
      <4> QED BY <4>1, <4>2, <1>1, <2>1 DEF Goal
    <3> QED BY <1>1, <2>1, <3>1, <3>2 DEF StartMigration
  <2>2. CASE RecoverSwitch(s)
        BY <1>1, <2>2, <1>u DEF RecoverSwitch, rowVars, Goal, Admitted, Types, Reconciling
  <2>3. CASE CompleteMigration(s)
        BY <1>1, <2>3, <1>u, <1>w DEF CompleteMigration, rowVars, Reconciling, Closed, Ended
  <2>4. CASE BeginOperation(s) \/ EndOperation(s) \/ (\E r \in Roots : Preflight(s, r))
             \/ AnnounceMigration(s) \/ ServerOpens(s) \/ FinalizeLooks(s)
             \/ FinalizeHandsOver(s) \/ ServerStops(s)
        BY <2>4, <1>u DEF BeginOperation, EndOperation, Preflight, AnnounceMigration,
           ServerOpens, FinalizeLooks, FinalizeHandsOver, ServerStops, rowVars, GoTo
  <2> QED BY <1>1, <2>1, <2>2, <2>3, <2>4 DEF ServerTurn
<1>2. ASSUME NEW s \in Servers, SupervisorTurn(s) PROVE Goal
  <2>1. CASE SupervisorFails(s)
        BY <1>2, <2>1, <1>w DEF SupervisorFails, Turn, Closed, Ended
  <2>2. CASE ReserveLaunch(s) \/ Spawn(s) \/ LaunchFails(s) \/ ParentAdopts(s)
             \/ (\E j \in Launches : Reap(s, j)) \/ SupervisorLifts(s)
        BY <2>2, <1>u DEF ReserveLaunch, Spawn, LaunchFails, ParentAdopts, Reap,
           SupervisorLifts, Turn, rowVars, Adopt
  <2> QED BY <1>2, <2>1, <2>2 DEF SupervisorTurn
<1>3. ASSUME NEW k \in Launches, WorkerTurn(k) PROVE Goal
  <2>1. CASE WorkerQuiesces(k)
        BY <1>3, <2>1, <1>w DEF WorkerQuiesces, Step, Closed
  <2>2. CASE PrepareDestination(k)
        BY <1>3, <2>2, <1>w DEF PrepareDestination, Closed
  <2>3. CASE CopyRoot(k)
        BY <1>3, <2>3, <1>w DEF CopyRoot, Step, Closed
  <2>4. CASE DeclareSwitching(k)
        BY <1>3, <2>4, <1>w DEF DeclareSwitching, Step, Closed
  <2>5. CASE RequireRestart(k)
        BY <1>3, <2>5, <1>w DEF RequireRestart, Step, Closed
  <2>6. CASE WorkerOpens(k) \/ WorkerAdopts(k) \/ WorkerEnters(k) \/ TakeLease(k)
             \/ VerifyCopy(k) \/ FlagRestart(k) \/ ReplacePointer(k) \/ SyncPointer(k)
             \/ FlagAgain(k)
        BY <2>6, <1>u DEF WorkerOpens, WorkerAdopts, WorkerEnters, TakeLease, VerifyCopy,
           FlagRestart, ReplacePointer, SyncPointer, FlagAgain, rowVars, Step, Adopt
  <2> QED BY <1>3, <2>1, <2>2, <2>3, <2>4, <2>5, <2>6 DEF WorkerTurn
<1>4. ASSUME NEW k \in Launches, UnwindTurn(k) PROVE Goal
  <2>1. CASE RequireForward(k)
        BY <1>4, <2>1, <1>w DEF RequireForward, Step, Closed
  <2>2. CASE RecordOutcome(k)
        BY <1>4, <2>2, <1>w DEF RecordOutcome, Step, Closed, Ended, Types
  <2>3. CASE WorkerCancels(k) \/ WorkerFails(k) \/ ErrorAfterSwitch(k) \/ FlagForward(k)
             \/ RollbackFiles(k) \/ RollbackMarker(k) \/ WorkerLifts(k) \/ WorkerCrashes(k)
        BY <2>3, <1>u DEF WorkerCancels, WorkerFails, ErrorAfterSwitch, FlagForward,
           RollbackFiles, RollbackMarker, WorkerLifts, WorkerCrashes, Leaves, rowVars, Step
  <2> QED BY <1>4, <2>1, <2>2, <2>3 DEF UnwindTurn
<1>5. ASSUME NEW m \in Migrations, RequestCancel(m) \/ HeartbeatExpires(m) PROVE Goal
      BY <1>5, <1>u DEF RequestCancel, HeartbeatExpires
<1> QED BY <1>1, <1>2, <1>3, <1>4, <1>5 DEF MigrationNext

\* A step keeps the rows numbered in the order of their admission.
LEMMA NumberedNext ==
  ASSUME BaseInv, MigrationNext
  PROVE  Numbered'
<1>1. CASE Admitted' = Admitted
      BY <1>1 DEF Numbered, Newest, BaseInv
<1>2. CASE Newest + 1 \in Migrations /\ Admitted' = Admitted \cup {Newest + 1}
  <2>1. Newest \in Nat /\ Admitted = 1..Newest /\ Newest + 1 <= MaxMigrations
        BY <1>2, MigrationConstants DEF BaseInv, Numbered, Migrations
  <2>2. Admitted' = 1..(Newest + 1)
        BY <1>2, <2>1
  <2>3. Newest' = Newest + 1
        BY <2>1, <2>2, FS_Interval DEF Newest
  <2> QED BY <2>1, <2>2, <2>3, MigrationConstants DEF Numbered
<1> QED BY <1>1, <1>2, RowsGrow

\* A step keeps every variable in its type.
LEMMA TypesNext ==
  ASSUME BaseInv, MigrationNext
  PROVE  Types'
<1> USE InHand, MigrationConstants DEF BaseInv
<1>g. Admitted \subseteq Admitted'
      BY RowsGrow
<1> DEFINE Goal == Types'
<1> SUFFICES Goal
    OBVIOUS
<1>u. ASSUME UNCHANGED <<status, cancelRequested, source, destination, worker, processKnown,
             heartbeat, maintenance, restartRequired, controlled, pointer, occupied, whole,
             writes, marker, active, lease, sharing, server, serverRoot, preflight, handles,
             thread, hand, tracked, at, moves, workerRoot, owns, outcome>> PROVE Goal
      BY <1>u DEF Goal, Types, Admitted
<1>1. ASSUME NEW s \in Servers, ServerTurn(s) PROVE Goal
  <2>1. CASE BeginOperation(s)
        BY <1>1, <2>1, <1>g DEF BeginOperation, rowVars, controlVars, fileVars, serverVars,
           threadVars, workerVars, Goal, Types
  <2>2. CASE EndOperation(s)
        BY <1>1, <2>2, <1>g DEF EndOperation, rowVars, controlVars, serverVars, threadVars,
           workerVars, Goal, Types
  <2>3. CASE (\E r \in Roots : Preflight(s, r))
        BY <1>1, <2>3, <1>g DEF Preflight, rowVars, controlVars, fileVars, leaseVars,
           threadVars, workerVars, Goal, Types
  <2>4. CASE StartMigration(s)
    <3>1. (CHOOSE r \in preflight[s] : TRUE) \in Roots
          BY <1>1, <2>4 DEF StartMigration, Types
    <3>2. status' \in [Migrations -> {"absent", "open"} \cup Closed]
          BY <1>1, <2>4 DEF StartMigration, Types
    <3>3. source' \in [Migrations -> Roots] /\ destination' \in [Migrations -> Roots]
          BY <1>1, <2>4, <3>1 DEF StartMigration, Types
    <3>4. Newest < MaxMigrations => Newest + 1 \in Migrations
          BY DEF Numbered, Migrations
    <3>5. handles' \in [Servers -> Admitted' \cup {None}]
      <4>1. CASE UNCHANGED handles
            BY <4>1, <1>g DEF Types
      <4>2. CASE Newest < MaxMigrations /\ status' = [status EXCEPT ![Newest + 1] = "open"]
                 /\ handles' = [handles EXCEPT ![s] = Newest + 1]
        <5>1. Newest + 1 \in Admitted'
              BY <4>2, <3>4 DEF Admitted, Types
        <5> QED BY <5>1, <4>2, <1>g DEF Types
      <4> QED BY <4>1, <4>2, <1>1, <2>4 DEF StartMigration
    <3> QED BY <1>1, <2>4, <3>1, <3>2, <3>3, <3>5, <1>g DEF StartMigration, controlVars,
            fileVars, leaseVars,
           threadVars, workerVars, Goal, Types
  <2>5. CASE AnnounceMigration(s)
        BY <1>1, <2>5, <1>g DEF AnnounceMigration, SetState, rowVars, fileVars, leaseVars,
           threadVars, workerVars, Goal, Types
  <2>6. CASE ServerOpens(s)
        BY <1>1, <2>6, <1>g DEF ServerOpens, rowVars, controlVars, fileVars, leaseVars,
           threadVars, workerVars, Goal, Types, Phases
  <2>7. CASE FinalizeLooks(s)
        BY <1>1, <2>7, <1>g DEF FinalizeLooks, GoTo, rowVars, controlVars, fileVars, leaseVars,
           workerVars, Goal, Types, Finalization, Phases, Threads
  <2>8. CASE RecoverSwitch(s)
        BY <1>1, <2>8, <1>g DEF RecoverSwitch, GoTo, rowVars, controlVars, fileVars, leaseVars,
           workerVars, Goal, Types, Reconciling, Phases, Threads
  <2>9. CASE CompleteMigration(s)
        BY <1>1, <2>9, <1>g DEF CompleteMigration, Update, GoTo, rowVars, controlVars, fileVars,
           leaseVars, workerVars, Goal, Types, Closed, Ended, Reconciling, Phases, Threads
  <2>10. CASE FinalizeHandsOver(s)
        BY <1>1, <2>10, <1>g DEF FinalizeHandsOver, SetState, GoTo, rowVars, fileVars,
           leaseVars, workerVars, Goal, Types, Phases, Threads, Reconciling
  <2>11. CASE ServerStops(s)
        BY <1>1, <2>11, <1>g DEF ServerStops, rowVars, controlVars, fileVars, workerVars, Goal,
           Types, Phases, Threads
  <2> QED BY <1>1, <2>1, <2>2, <2>3, <2>4, <2>5, <2>6, <2>7, <2>8, <2>9, <2>10, <2>11 DEF
          ServerTurn
<1>2. ASSUME NEW s \in Servers, SupervisorTurn(s) PROVE Goal
  <2>1. CASE ReserveLaunch(s)
    <3>1. Newest \in Admitted
          BY <1>2, <2>1 DEF ReserveLaunch, Numbered
    <3>2. PICK j \in Launches : /\ moves' = [moves EXCEPT ![j] = Newest]
                                 /\ worker' = [worker EXCEPT ![Newest] = j]
                                 /\ Turn(s, "idle", "reserved", j)
          BY <1>2, <2>1 DEF ReserveLaunch
    <3>3. /\ moves' \in [Launches -> Admitted' \cup {None}]
          /\ worker' \in [Migrations -> Launches \cup {None}]
          BY <3>1, <3>2, <1>g DEF Types
    <3> QED BY <1>2, <2>1, <3>1, <3>2, <3>3, <1>g DEF ReserveLaunch, Turn, controlVars,
            fileVars, leaseVars,
           serverVars, Goal, Types, Threads
  <2>2. CASE Spawn(s)
        BY <1>2, <2>2, <1>g DEF Spawn, Turn, rowVars, controlVars, fileVars, leaseVars,
           serverVars, Goal, Types, Places, Threads
  <2>3. CASE LaunchFails(s)
        BY <1>2, <2>3, <1>g DEF LaunchFails, Turn, rowVars, controlVars, fileVars, leaseVars,
           serverVars, workerVars, Goal, Types, Threads
  <2>4. CASE ParentAdopts(s)
        BY <1>2, <2>4, <1>g DEF ParentAdopts, Turn, Adopt, rowVars, controlVars, fileVars,
           leaseVars, serverVars, workerVars, Goal, Types, Threads
  <2>5. CASE (\E j \in Launches : Reap(s, j))
    <3> PICK j \in Launches : Reap(s, j)
        BY <1>2, <2>5
    <3>1. moves[j] \in Admitted \cup {None}
          BY DEF Types
    <3>2. moves[j] # None
          BY DEF Reap, Reached
    <3>3. CASE UNCHANGED rowVars
          BY <1>2, <2>5, <3>3, <1>g DEF Reap, Turn, rowVars, controlVars, fileVars, leaseVars,
             serverVars, workerVars, Goal, Types, Threads
    <3>4. CASE /\ worker' = [worker EXCEPT ![moves[j]] = None]
               /\ processKnown' = processKnown \ {moves[j]}
               /\ heartbeat' = [heartbeat EXCEPT ![moves[j]] = "null"]
               /\ UNCHANGED <<status, cancelRequested, source, destination>>
      <4>1. /\ worker' \in [Migrations -> Launches \cup {None}]
            /\ heartbeat' \in [Migrations -> {"null", "fresh", "stale"}]
            BY <3>1, <3>2, <3>4 DEF Types
      <4>2. thread' \in [Servers -> Threads] /\ hand' \in [Servers -> Launches \cup {None}]
            BY <1>2 DEF Reap, Turn, Types, Threads
      <4>3. tracked' \in [Servers -> SUBSET Launches]
            BY <1>2 DEF Reap, Types
      <4> QED BY <3>4, <4>1, <4>2, <4>3, <1>g DEF Reap, controlVars, fileVars, leaseVars,
              serverVars,
           workerVars, Goal, Types
    <3> QED BY <3>3, <3>4 DEF Reap
  <2>6. CASE SupervisorFails(s)
        BY <1>2, <2>6, <1>g DEF SupervisorFails, Update, Turn, controlVars, fileVars, leaseVars,
           serverVars, workerVars, Goal, Types, Closed, Ended, Threads
  <2>7. CASE SupervisorLifts(s)
        BY <1>2, <2>7, <1>g DEF SupervisorLifts, SetState, Turn, rowVars, fileVars, leaseVars,
           serverVars, workerVars, Goal, Types, Threads
  <2> QED BY <1>2, <2>1, <2>2, <2>3, <2>4, <2>5, <2>6, <2>7 DEF SupervisorTurn
<1>3. ASSUME NEW k \in Launches, WorkerTurn(k) PROVE Goal
  <2>1. CASE WorkerOpens(k)
        BY <1>3, <2>1, <1>g DEF WorkerOpens, rowVars, controlVars, fileVars, leaseVars,
           serverVars, threadVars, Goal, Types, Closed, Places, Bound, Exclusive
  <2>2. CASE WorkerAdopts(k)
    <3>1. moves[k] \in Admitted
          BY <1>3, <2>2, InHand DEF WorkerAdopts, Step
    <3>2. CASE Step(k, "opened", "entering") /\ Adopt(k)
          BY <1>3, <2>2, <3>1, <3>2, <1>g DEF WorkerAdopts, Step, Adopt, controlVars, fileVars,
             leaseVars, serverVars, threadVars, Goal, Types, Places, Bound
    <3>3. CASE Step(k, "opened", "gone") /\ UNCHANGED rowVars
          BY <1>3, <2>2, <3>3, <1>g DEF WorkerAdopts, Step, rowVars, controlVars, fileVars, leaseVars,
             serverVars, threadVars, Goal, Types, Places
    <3> QED BY <3>2, <3>3, <1>3, <2>2 DEF WorkerAdopts
  <2>3. CASE WorkerEnters(k)
        BY <1>3, <2>3, <1>g DEF WorkerEnters, SetState, Step, rowVars, fileVars, leaseVars,
           serverVars, threadVars, Goal, Types, Closed, Places, Bound, Exclusive
  <2>4. CASE WorkerQuiesces(k)
        BY <1>3, <2>4, <1>g DEF WorkerQuiesces, Update, Step, controlVars, fileVars, leaseVars,
           serverVars, threadVars, Goal, Types, Closed, Places, Bound, Exclusive
  <2>5. CASE TakeLease(k)
        BY <1>3, <2>5, <1>g DEF TakeLease, Step, rowVars, controlVars, fileVars, serverVars,
           threadVars, Goal, Types, Closed, Places, Bound, Exclusive
  <2>6. CASE PrepareDestination(k)
        BY <1>3, <2>6, <1>g DEF PrepareDestination, Update, controlVars, leaseVars, serverVars,
           threadVars, Goal, Types, Closed, Places, Bound, Exclusive
  <2>7. CASE CopyRoot(k)
        BY <1>3, <2>7, <1>g DEF CopyRoot, Update, Step, controlVars, leaseVars, serverVars,
           threadVars, Goal, Types, Closed, Places, Bound, Exclusive
  <2>8. CASE VerifyCopy(k)
        BY <1>3, <2>8, <1>g DEF VerifyCopy, Step, rowVars, controlVars, fileVars, leaseVars,
           serverVars, threadVars, Goal, Types, Closed, Places, Bound, Exclusive
  <2>9. CASE DeclareSwitching(k)
        BY <1>3, <2>9, <1>g DEF DeclareSwitching, Update, Step, controlVars, fileVars,
           leaseVars, serverVars, threadVars, Goal, Types, Closed, Places, Bound, Exclusive
  <2>10. CASE FlagRestart(k)
        BY <1>3, <2>10, <1>g DEF FlagRestart, SetState, Step, rowVars, fileVars, leaseVars,
           serverVars, threadVars, Goal, Types, Closed, Places, Bound, Exclusive
  <2>11. CASE ReplacePointer(k)
        BY <1>3, <2>11, <1>g DEF ReplacePointer, Step, rowVars, controlVars, leaseVars,
           serverVars, threadVars, Goal, Types, Closed, Places, Bound, Exclusive
  <2>12. CASE SyncPointer(k)
        BY <1>3, <2>12, <1>g DEF SyncPointer, Step, rowVars, controlVars, fileVars, leaseVars,
           serverVars, threadVars, Goal, Types, Closed, Places, Bound, Exclusive
  <2>13. CASE RequireRestart(k)
        BY <1>3, <2>13, <1>g DEF RequireRestart, Update, Step, controlVars, fileVars, leaseVars,
           serverVars, threadVars, Goal, Types, Closed, Places, Bound, Exclusive
  <2>14. CASE FlagAgain(k)
        BY <1>3, <2>14, <1>g DEF FlagAgain, SetState, rowVars, fileVars, serverVars, threadVars,
           Goal, Types, Closed, Places, Bound, Exclusive
  <2> QED BY <1>3, <2>1, <2>2, <2>3, <2>4, <2>5, <2>6, <2>7, <2>8, <2>9, <2>10, <2>11, <2>12,
          <2>13, <2>14 DEF WorkerTurn
<1>4. ASSUME NEW k \in Launches, UnwindTurn(k) PROVE Goal
  <2>1. CASE WorkerCancels(k)
        BY <1>4, <2>1, <1>g DEF WorkerCancels, Leaves, rowVars, controlVars, fileVars,
           serverVars, threadVars, Goal, Types, Closed, Places, Bound, Exclusive
  <2>2. CASE WorkerFails(k)
        BY <1>4, <2>2, <1>g DEF WorkerFails, Leaves, rowVars, controlVars, fileVars, serverVars,
           threadVars, Goal, Types, Closed, Places, Bound, Exclusive
  <2>3. CASE ErrorAfterSwitch(k)
        BY <1>4, <2>3, <1>g DEF ErrorAfterSwitch, Leaves, rowVars, controlVars, fileVars,
           serverVars, threadVars, Goal, Types, Closed, Places, Bound, Exclusive
  <2>4. CASE FlagForward(k)
        BY <1>4, <2>4, <1>g DEF FlagForward, SetState, Step, rowVars, fileVars, leaseVars,
           serverVars, threadVars, Goal, Types, Closed, Places, Bound, Exclusive
  <2>5. CASE RequireForward(k)
        BY <1>4, <2>5, <1>g DEF RequireForward, Update, Step, controlVars, fileVars, leaseVars,
           serverVars, threadVars, Goal, Types, Closed, Places, Bound, Exclusive
  <2>6. CASE RollbackFiles(k)
        BY <1>4, <2>6, <1>g DEF RollbackFiles, Step, rowVars, controlVars, leaseVars,
           serverVars, threadVars, Goal, Types, Closed, Places, Bound, Exclusive
  <2>7. CASE RollbackMarker(k)
        BY <1>4, <2>7, <1>g DEF RollbackMarker, Step, rowVars, controlVars, leaseVars,
           serverVars, threadVars, Goal, Types, Closed, Places, Bound, Exclusive
  <2>8. CASE RecordOutcome(k)
        BY <1>4, <2>8, <1>g DEF RecordOutcome, Update, Step, controlVars, fileVars, leaseVars,
           serverVars, threadVars, Goal, Types, Closed, Ended, Places, Bound
  <2>9. CASE WorkerLifts(k)
        BY <1>4, <2>9, <1>g DEF WorkerLifts, SetState, Step, rowVars, fileVars, leaseVars,
           serverVars, threadVars, Goal, Types, Closed, Places, Bound, Exclusive
  <2>10. CASE WorkerCrashes(k)
        BY <1>4, <2>10, <1>g DEF WorkerCrashes, Leaves, rowVars, controlVars, fileVars,
           serverVars, threadVars, Goal, Types, Closed, Places, Bound, Exclusive
  <2> QED BY <1>4, <2>1, <2>2, <2>3, <2>4, <2>5, <2>6, <2>7, <2>8, <2>9, <2>10 DEF UnwindTurn
<1>5. ASSUME NEW m \in Migrations, RequestCancel(m) \/ HeartbeatExpires(m) PROVE Goal
      BY <1>5, <1>g DEF RequestCancel, HeartbeatExpires, controlVars, fileVars, leaseVars,
         serverVars, threadVars, workerVars, Goal, Types, Admitted
<1> QED BY <1>1, <1>2, <1>3, <1>4, <1>5 DEF MigrationNext

\* What a start does next, and on what it has seen.
LEMMA FinalizationCases ==
  ASSUME NEW s \in Servers
  PROVE  /\ Finalization(s) \in {"up", "handing", "refused", "recovering", "completing"}
         /\ Finalization(s) \notin {"up", "refused"} => controlled # None
         /\ Finalization(s) = "recovering" => serverRoot[s] = source[controlled]
         /\ Finalization(s) = "completing" =>
              /\ status[controlled] \in {"switching", "restart_required", "complete"}
              /\ serverRoot[s] = destination[controlled]
         /\ Finalization(s) = "refused" =>
              /\ controlled # None
              /\ \/ /\ status[controlled] \in {"cancelled", "failed"}
                    /\ serverRoot[s] # source[controlled]
                 \/ /\ status[controlled] \in {"switching", "restart_required", "complete"}
                    /\ serverRoot[s] = destination[controlled]
                    /\ marker[serverRoot[s]] # controlled
BY DEF Finalization, Closed, Ended

\* A worker's step is about itself and the row of its migration.
LEMMA WorkerSteps ==
  ASSUME BaseInv, NEW k \in Launches, WorkerTurn(k) \/ UnwindTurn(k)
  PROVE  /\ UNCHANGED <<serverVars, threadVars, moves, worker, source, destination>>
         /\ Alive(k) /\ at'[k] # "none"
         /\ \A j \in Launches \ {k} : at'[j] = at[j]
         /\ \A n \in Migrations : heartbeat'[n] \in {heartbeat[n], "fresh"}
         /\ \A n \in Migrations \ {moves[k]} : status'[n] = status[n]
         /\ at[k] \notin Bound => UNCHANGED status
<1> USE InHand, MigrationConstants DEF BaseInv
<1> DEFINE Goal == /\ UNCHANGED <<serverVars, threadVars, moves, worker, source, destination>>
                   /\ Alive(k) /\ at'[k] # "none"
                   /\ \A j \in Launches \ {k} : at'[j] = at[j]
                   /\ \A n \in Migrations : heartbeat'[n] \in {heartbeat[n], "fresh"}
                   /\ \A n \in Migrations \ {moves[k]} : status'[n] = status[n]
                   /\ at[k] \notin Bound => UNCHANGED status
<1> SUFFICES Goal
    OBVIOUS
<1>1. ASSUME WorkerTurn(k) PROVE Goal
  <2>1. CASE WorkerOpens(k)
        BY <1>1, <2>1 DEF WorkerOpens, rowVars, controlVars, fileVars, leaseVars, serverVars,
           threadVars, Goal, Types, Alive, Bound, Exclusive
  <2>2. CASE WorkerAdopts(k)
        BY <1>1, <2>2 DEF WorkerAdopts, Step, Adopt, Holds, rowVars, controlVars, fileVars,
           leaseVars, serverVars, threadVars, Goal, Types, Alive, Bound, Exclusive
  <2>3. CASE WorkerEnters(k)
        BY <1>1, <2>3 DEF WorkerEnters, SetState, Step, rowVars, fileVars, leaseVars,
           serverVars, threadVars, Goal, Types, Alive, Bound, Exclusive
  <2>4. CASE WorkerQuiesces(k)
        BY <1>1, <2>4 DEF WorkerQuiesces, Update, Step, controlVars, fileVars, leaseVars,
           serverVars, threadVars, Goal, Types, Alive, Bound, Exclusive
  <2>5. CASE TakeLease(k)
        BY <1>1, <2>5 DEF TakeLease, Step, rowVars, controlVars, fileVars, serverVars,
           threadVars, Goal, Types, Alive, Bound, Exclusive
  <2>6. CASE PrepareDestination(k)
        BY <1>1, <2>6 DEF PrepareDestination, Update, controlVars, leaseVars, serverVars,
           threadVars, Goal, Types, Alive, Bound, Exclusive
  <2>7. CASE CopyRoot(k)
        BY <1>1, <2>7 DEF CopyRoot, Update, Step, controlVars, leaseVars, serverVars,
           threadVars, Goal, Types, Alive, Bound, Exclusive
  <2>8. CASE VerifyCopy(k)
        BY <1>1, <2>8 DEF VerifyCopy, Step, rowVars, controlVars, fileVars, leaseVars,
           serverVars, threadVars, Goal, Types, Alive, Bound, Exclusive
  <2>9. CASE DeclareSwitching(k)
        BY <1>1, <2>9 DEF DeclareSwitching, Update, Step, controlVars, fileVars, leaseVars,
           serverVars, threadVars, Goal, Types, Alive, Bound, Exclusive
  <2>10. CASE FlagRestart(k)
        BY <1>1, <2>10 DEF FlagRestart, SetState, Step, rowVars, fileVars, leaseVars,
           serverVars, threadVars, Goal, Types, Alive, Bound, Exclusive
  <2>11. CASE ReplacePointer(k)
        BY <1>1, <2>11 DEF ReplacePointer, Step, rowVars, controlVars, leaseVars, serverVars,
           threadVars, Goal, Types, Alive, Bound, Exclusive
  <2>12. CASE SyncPointer(k)
        BY <1>1, <2>12 DEF SyncPointer, Step, rowVars, controlVars, fileVars, leaseVars,
           serverVars, threadVars, Goal, Types, Alive, Bound, Exclusive
  <2>13. CASE RequireRestart(k)
        BY <1>1, <2>13 DEF RequireRestart, Update, Step, controlVars, fileVars, leaseVars,
           serverVars, threadVars, Goal, Types, Alive, Bound, Exclusive
  <2>14. CASE FlagAgain(k)
        BY <1>1, <2>14 DEF FlagAgain, SetState, rowVars, fileVars, serverVars, threadVars, Goal,
           Types, Alive, Bound, Exclusive
  <2> QED BY <1>1, <2>1, <2>2, <2>3, <2>4, <2>5, <2>6, <2>7, <2>8, <2>9, <2>10, <2>11, <2>12,
          <2>13, <2>14 DEF WorkerTurn
<1>2. ASSUME UnwindTurn(k) PROVE Goal
  <2>1. CASE WorkerCancels(k)
        BY <1>2, <2>1 DEF WorkerCancels, Leaves, rowVars, controlVars, fileVars, serverVars,
           threadVars, Goal, Types, Alive, Bound, Exclusive
  <2>2. CASE WorkerFails(k)
        BY <1>2, <2>2 DEF WorkerFails, Leaves, rowVars, controlVars, fileVars, serverVars,
           threadVars, Goal, Types, Alive, Bound, Exclusive
  <2>3. CASE ErrorAfterSwitch(k)
        BY <1>2, <2>3 DEF ErrorAfterSwitch, Leaves, rowVars, controlVars, fileVars, serverVars,
           threadVars, Goal, Types, Alive, Bound, Exclusive
  <2>4. CASE FlagForward(k)
        BY <1>2, <2>4 DEF FlagForward, SetState, Step, rowVars, fileVars, leaseVars, serverVars,
           threadVars, Goal, Types, Alive, Bound, Exclusive
  <2>5. CASE RequireForward(k)
        BY <1>2, <2>5 DEF RequireForward, Update, Step, controlVars, fileVars, leaseVars,
           serverVars, threadVars, Goal, Types, Alive, Bound, Exclusive
  <2>6. CASE RollbackFiles(k)
        BY <1>2, <2>6 DEF RollbackFiles, Step, rowVars, controlVars, leaseVars, serverVars,
           threadVars, Goal, Types, Alive, Bound, Exclusive
  <2>7. CASE RollbackMarker(k)
        BY <1>2, <2>7 DEF RollbackMarker, Step, rowVars, controlVars, leaseVars, serverVars,
           threadVars, Goal, Types, Alive, Bound, Exclusive
  <2>8. CASE RecordOutcome(k)
        BY <1>2, <2>8 DEF RecordOutcome, Update, Step, controlVars, fileVars, leaseVars,
           serverVars, threadVars, Goal, Types, Alive, Bound, Exclusive
  <2>9. CASE WorkerLifts(k)
        BY <1>2, <2>9 DEF WorkerLifts, SetState, Step, rowVars, fileVars, leaseVars, serverVars,
           threadVars, Goal, Types, Alive, Bound, Exclusive
  <2>10. CASE WorkerCrashes(k)
        BY <1>2, <2>10 DEF WorkerCrashes, Leaves, rowVars, controlVars, fileVars, serverVars,
           threadVars, Goal, Types, Alive, Bound, Exclusive
  <2> QED BY <1>2, <2>1, <2>2, <2>3, <2>4, <2>5, <2>6, <2>7, <2>8, <2>9, <2>10 DEF UnwindTurn
<1> QED BY <1>1, <1>2

\* A step keeps every worker with a migration and a launch that exist.
LEMMA ReachedNext ==
  ASSUME BaseInv, MigrationNext
  PROVE  Reached'
<1> USE MigrationConstants DEF BaseInv
<1> DEFINE Goal == Reached'
<1> SUFFICES Goal
    OBVIOUS
<1>u. ASSUME UNCHANGED <<server, serverRoot, preflight, handles, thread, hand, tracked, at,
             moves>> PROVE Goal
      BY <1>u DEF Goal, Reached
<1>1. ASSUME NEW s \in Servers, ServerTurn(s) PROVE Goal
  <2>1. CASE (\E r \in Roots : Preflight(s, r))
        BY <1>1, <2>1 DEF Preflight, threadVars, workerVars, Goal, Types, Reached
  <2>2. CASE StartMigration(s)
        BY <1>1, <2>2 DEF StartMigration, threadVars, workerVars, Goal, Types, Reached,
           Reconciling, Phases, Numbered, Migrations
  <2>3. CASE AnnounceMigration(s)
        BY <1>1, <2>3 DEF AnnounceMigration, threadVars, workerVars, Goal, Types, Reached,
           Reconciling, Phases
  <2>4. CASE ServerOpens(s)
        BY <1>1, <2>4 DEF ServerOpens, threadVars, workerVars, Goal, Types, Reached,
           Reconciling, Phases
  <2>5. CASE FinalizeLooks(s)
        BY <1>1, <2>5, FinalizationCases DEF FinalizeLooks, GoTo, workerVars, Goal, Types,
           Reached, Reconciling, Phases
  <2>6. CASE RecoverSwitch(s)
        BY <1>1, <2>6 DEF RecoverSwitch, GoTo, workerVars, Goal, Types, Reached, Reconciling,
           Phases
  <2>7. CASE CompleteMigration(s)
        BY <1>1, <2>7 DEF CompleteMigration, GoTo, workerVars, Goal, Types, Reached,
           Reconciling, Phases
  <2>8. CASE FinalizeHandsOver(s)
        BY <1>1, <2>8 DEF FinalizeHandsOver, GoTo, workerVars, Goal, Types, Reached,
           Reconciling, Phases
  <2>9. CASE ServerStops(s)
        BY <1>1, <2>9 DEF ServerStops, workerVars, Goal, Types, Reached, Reconciling, Phases
  <2>10. CASE BeginOperation(s) \/ EndOperation(s)
        BY <2>10, <1>u DEF BeginOperation, EndOperation, serverVars, threadVars, workerVars
  <2> QED BY <1>1, <2>1, <2>2, <2>3, <2>4, <2>5, <2>6, <2>7, <2>8, <2>9, <2>10 DEF ServerTurn
<1>2. ASSUME NEW s \in Servers, SupervisorTurn(s) PROVE Goal
  <2>1. CASE ReserveLaunch(s)
        BY <1>2, <2>1 DEF ReserveLaunch, Turn, serverVars, Goal, Types, Reached, Numbered,
           Migrations
  <2>2. CASE Spawn(s)
        BY <1>2, <2>2 DEF Spawn, Turn, serverVars, Goal, Types, Reached
  <2>3. CASE LaunchFails(s)
        BY <1>2, <2>3 DEF LaunchFails, Turn, serverVars, workerVars, Goal, Types, Reached
  <2>4. CASE ParentAdopts(s)
        BY <1>2, <2>4 DEF ParentAdopts, Turn, serverVars, workerVars, Goal, Types, Reached
  <2>5. CASE (\E j \in Launches : Reap(s, j))
        BY <1>2, <2>5 DEF Reap, Turn, serverVars, workerVars, Goal, Types, Reached
  <2>6. CASE SupervisorFails(s)
        BY <1>2, <2>6 DEF SupervisorFails, Turn, serverVars, workerVars, Goal, Types, Reached
  <2>7. CASE SupervisorLifts(s)
        BY <1>2, <2>7 DEF SupervisorLifts, Turn, serverVars, workerVars, Goal, Types, Reached
  <2> QED BY <1>2, <2>1, <2>2, <2>3, <2>4, <2>5, <2>6, <2>7 DEF SupervisorTurn
<1>3. ASSUME NEW k \in Launches, WorkerTurn(k) \/ UnwindTurn(k) PROVE Goal
      BY <1>3, WorkerSteps DEF Goal, Types, Reached, Alive, serverVars, threadVars
<1>4. ASSUME NEW m \in Migrations, RequestCancel(m) \/ HeartbeatExpires(m) PROVE Goal
      BY <1>4, <1>u DEF RequestCancel, HeartbeatExpires, serverVars, threadVars, workerVars
<1> QED BY <1>1, <1>2, <1>3, <1>4 DEF MigrationNext

\* A step keeps every reservation with one holder.
LEMMA AloneNext ==
  ASSUME BaseInv, MigrationNext
  PROVE  Alone'
<1> USE MigrationConstants DEF BaseInv
<1> DEFINE Goal == Alone'
<1> SUFFICES Goal
    OBVIOUS
<1>u. ASSUME UNCHANGED <<thread, hand, tracked, at>> PROVE Goal
      BY <1>u DEF Goal, Alone
<1>1. ASSUME NEW s \in Servers, ServerTurn(s) PROVE Goal
  <2>1. CASE FinalizeLooks(s)
        BY <1>1, <2>1 DEF FinalizeLooks, GoTo, workerVars, Goal, Types, Alone
  <2>2. CASE RecoverSwitch(s)
        BY <1>1, <2>2 DEF RecoverSwitch, GoTo, workerVars, Goal, Types, Alone
  <2>3. CASE CompleteMigration(s)
        BY <1>1, <2>3 DEF CompleteMigration, GoTo, workerVars, Goal, Types, Alone
  <2>4. CASE FinalizeHandsOver(s)
        BY <1>1, <2>4 DEF FinalizeHandsOver, GoTo, workerVars, Goal, Types, Alone
  <2>5. CASE ServerStops(s)
        BY <1>1, <2>5 DEF ServerStops, workerVars, Goal, Types, Alone
  <2>6. CASE BeginOperation(s) \/ EndOperation(s) \/ (\E r \in Roots : Preflight(s, r))
             \/ StartMigration(s) \/ AnnounceMigration(s) \/ ServerOpens(s)
        BY <2>6, <1>u DEF BeginOperation, EndOperation, Preflight, StartMigration,
           AnnounceMigration, ServerOpens, threadVars, workerVars
  <2> QED BY <1>1, <2>1, <2>2, <2>3, <2>4, <2>5, <2>6 DEF ServerTurn
<1>2. ASSUME NEW s \in Servers, SupervisorTurn(s) PROVE Goal
  <2>1. CASE ReserveLaunch(s)
        BY <1>2, <2>1 DEF ReserveLaunch, Turn, Goal, Types, Alone, Reached
  <2>2. CASE Spawn(s)
        BY <1>2, <2>2 DEF Spawn, Turn, Goal, Types, Alone, Reached
  <2>3. CASE LaunchFails(s)
        BY <1>2, <2>3 DEF LaunchFails, Turn, workerVars, Goal, Types, Alone, Reached
  <2>4. CASE ParentAdopts(s)
        BY <1>2, <2>4 DEF ParentAdopts, Turn, workerVars, Goal, Types, Alone, Reached
  <2>5. CASE (\E j \in Launches : Reap(s, j))
    <3>1. /\ \A t \in Servers : tracked'[t] \cup {hand'[t]} \subseteq tracked[t] \cup {hand[t], None}
          /\ \A t \in Servers : thread'[t] = "reserved" => thread[t] = "reserved" /\ hand'[t] = hand[t]
          BY <1>2, <2>5 DEF Reap, Turn, Types
    <3>2. UNCHANGED at
          BY <1>2, <2>5 DEF Reap, workerVars
    <3>3. ASSUME NEW t \in Servers, NEW u \in Servers, NEW k \in Launches,
                 k \in tracked'[t] \cup {hand'[t]}, k \in tracked'[u] \cup {hand'[u]}
          PROVE  t = u
          BY <3>1, <3>3 DEF Alone
    <3>4. \A t \in Servers : thread'[t] = "reserved" => at'[hand'[t]] = "none"
          BY <3>1, <3>2 DEF Alone
    <3> QED BY <3>3, <3>4 DEF Goal, Alone
  <2>6. CASE SupervisorFails(s)
        BY <1>2, <2>6 DEF SupervisorFails, Turn, workerVars, Goal, Types, Alone, Reached
  <2>7. CASE SupervisorLifts(s)
        BY <1>2, <2>7 DEF SupervisorLifts, Turn, workerVars, Goal, Types, Alone, Reached
  <2> QED BY <1>2, <2>1, <2>2, <2>3, <2>4, <2>5, <2>6, <2>7 DEF SupervisorTurn
<1>3. ASSUME NEW k \in Launches, WorkerTurn(k) \/ UnwindTurn(k) PROVE Goal
      BY <1>3, WorkerSteps DEF Goal, Types, Alone, Reached, Alive, serverVars, threadVars
<1>4. ASSUME NEW m \in Migrations, RequestCancel(m) \/ HeartbeatExpires(m) PROVE Goal
      BY <1>4, <1>u DEF RequestCancel, HeartbeatExpires, threadVars, workerVars
<1> QED BY <1>1, <1>2, <1>3, <1>4 DEF MigrationNext

\* A step keeps the lease with the workers in its exclusive places, next to no operation.
LEMMA LeasedNext ==
  ASSUME BaseInv, MigrationNext
  PROVE  Leased'
<1> USE MigrationConstants DEF BaseInv
<1> DEFINE Goal == Leased'
<1> SUFFICES Goal
    OBVIOUS
<1>u. ASSUME UNCHANGED <<pointer, lease, sharing, serverRoot, at>> PROVE Goal
      BY <1>u DEF Goal, Leased
<1>1. ASSUME NEW s \in Servers, ServerTurn(s) PROVE Goal
  <2>1. CASE BeginOperation(s)
        BY <1>1, <2>1 DEF BeginOperation, fileVars, serverVars, workerVars, Goal, Types, Leased
  <2>2. CASE EndOperation(s)
        BY <1>1, <2>2 DEF EndOperation, serverVars, workerVars, Goal, Types, Leased, Reached
  <2>3. CASE ServerOpens(s)
        BY <1>1, <2>3 DEF ServerOpens, fileVars, leaseVars, workerVars, Goal, Types, Leased,
           Reached
  <2>4. CASE ServerStops(s)
        BY <1>1, <2>4 DEF ServerStops, fileVars, workerVars, Goal, Types, Leased
  <2>5. CASE (\E r \in Roots : Preflight(s, r)) \/ StartMigration(s) \/ AnnounceMigration(s)
             \/ FinalizeLooks(s) \/ RecoverSwitch(s) \/ CompleteMigration(s)
             \/ FinalizeHandsOver(s)
        BY <2>5, <1>u DEF Preflight, StartMigration, AnnounceMigration, FinalizeLooks,
           RecoverSwitch, CompleteMigration, FinalizeHandsOver, fileVars, leaseVars, workerVars,
           GoTo, Update
  <2> QED BY <1>1, <2>1, <2>2, <2>3, <2>4, <2>5 DEF ServerTurn
<1>2. ASSUME NEW s \in Servers, SupervisorTurn(s) PROVE Goal
  <2>1. CASE Spawn(s)
        BY <1>2, <2>1 DEF Spawn, Turn, fileVars, leaseVars, serverVars, Goal, Types, Leased,
           Exclusive, Alone, Reached
  <2>2. CASE ReserveLaunch(s) \/ LaunchFails(s) \/ ParentAdopts(s)
             \/ (\E j \in Launches : Reap(s, j)) \/ SupervisorFails(s) \/ SupervisorLifts(s)
        BY <2>2, <1>u DEF ReserveLaunch, LaunchFails, ParentAdopts, Reap, SupervisorFails,
           SupervisorLifts, Turn, fileVars, leaseVars, serverVars, workerVars, Update
  <2> QED BY <1>2, <2>1, <2>2 DEF SupervisorTurn
<1>3. ASSUME NEW k \in Launches, WorkerTurn(k) PROVE Goal
  <2>1. CASE WorkerOpens(k)
        BY <1>3, <2>1 DEF WorkerOpens, fileVars, leaseVars, serverVars, Goal, Types, Leased,
           Exclusive
  <2>2. CASE WorkerAdopts(k)
        BY <1>3, <2>2 DEF WorkerAdopts, Step, fileVars, leaseVars, serverVars, Goal, Types,
           Leased, Exclusive
  <2>3. CASE WorkerEnters(k)
        BY <1>3, <2>3 DEF WorkerEnters, Step, fileVars, leaseVars, serverVars, Goal, Types,
           Leased, Exclusive
  <2>4. CASE WorkerQuiesces(k)
        BY <1>3, <2>4 DEF WorkerQuiesces, Step, fileVars, leaseVars, serverVars, Goal, Types,
           Leased, Exclusive
  <2>5. CASE TakeLease(k)
        BY <1>3, <2>5 DEF TakeLease, Step, fileVars, serverVars, Goal, Types, Leased, Exclusive
  <2>6. CASE PrepareDestination(k)
        BY <1>3, <2>6 DEF PrepareDestination, leaseVars, serverVars, Goal, Types, Leased,
           Exclusive
  <2>7. CASE CopyRoot(k)
        BY <1>3, <2>7 DEF CopyRoot, Step, leaseVars, serverVars, Goal, Types, Leased, Exclusive
  <2>8. CASE VerifyCopy(k)
        BY <1>3, <2>8 DEF VerifyCopy, Step, fileVars, leaseVars, serverVars, Goal, Types,
           Leased, Exclusive
  <2>9. CASE DeclareSwitching(k)
        BY <1>3, <2>9 DEF DeclareSwitching, Step, fileVars, leaseVars, serverVars, Goal, Types,
           Leased, Exclusive
  <2>10. CASE FlagRestart(k)
        BY <1>3, <2>10 DEF FlagRestart, Step, fileVars, leaseVars, serverVars, Goal, Types,
           Leased, Exclusive
  <2>11. CASE ReplacePointer(k)
        BY <1>3, <2>11 DEF ReplacePointer, Step, leaseVars, serverVars, Goal, Types, Leased,
           Exclusive
  <2>12. CASE SyncPointer(k)
        BY <1>3, <2>12 DEF SyncPointer, Step, fileVars, leaseVars, serverVars, Goal, Types,
           Leased, Exclusive
  <2>13. CASE RequireRestart(k)
        BY <1>3, <2>13 DEF RequireRestart, Step, fileVars, leaseVars, serverVars, Goal, Types,
           Leased, Exclusive
  <2>14. CASE FlagAgain(k)
        BY <1>3, <2>14 DEF FlagAgain, fileVars, serverVars, Goal, Types, Leased, Exclusive
  <2> QED BY <1>3, <2>1, <2>2, <2>3, <2>4, <2>5, <2>6, <2>7, <2>8, <2>9, <2>10, <2>11, <2>12,
          <2>13, <2>14 DEF WorkerTurn
<1>4. ASSUME NEW k \in Launches, UnwindTurn(k) PROVE Goal
  <2>1. CASE WorkerCancels(k)
        BY <1>4, <2>1 DEF WorkerCancels, Leaves, fileVars, serverVars, Goal, Types, Leased,
           Exclusive
  <2>2. CASE WorkerFails(k)
        BY <1>4, <2>2 DEF WorkerFails, Leaves, fileVars, serverVars, Goal, Types, Leased,
           Exclusive
  <2>3. CASE ErrorAfterSwitch(k)
        BY <1>4, <2>3 DEF ErrorAfterSwitch, Leaves, fileVars, serverVars, Goal, Types, Leased,
           Exclusive
  <2>4. CASE FlagForward(k)
        BY <1>4, <2>4 DEF FlagForward, Step, fileVars, leaseVars, serverVars, Goal, Types,
           Leased, Exclusive
  <2>5. CASE RequireForward(k)
        BY <1>4, <2>5 DEF RequireForward, Step, fileVars, leaseVars, serverVars, Goal, Types,
           Leased, Exclusive
  <2>6. CASE RollbackFiles(k)
    <3>1. UNCHANGED <<sharing, pointer, serverRoot>> /\ lease' \in {lease, None}
          BY <1>4, <2>6 DEF RollbackFiles, Step, leaseVars, serverVars
    <3>2. \A j \in Launches : at'[j] \in Exclusive <=> lease' = j
          BY <1>4, <2>6 DEF RollbackFiles, Step, leaseVars, serverVars, Types, Leased, Exclusive
    <3> QED BY <3>1, <3>2 DEF Leased, Goal
  <2>7. CASE RollbackMarker(k)
        BY <1>4, <2>7 DEF RollbackMarker, Step, leaseVars, serverVars, Goal, Types, Leased,
           Exclusive
  <2>8. CASE RecordOutcome(k)
        BY <1>4, <2>8 DEF RecordOutcome, Step, fileVars, leaseVars, serverVars, Goal, Types,
           Leased, Exclusive
  <2>9. CASE WorkerLifts(k)
        BY <1>4, <2>9 DEF WorkerLifts, Step, fileVars, leaseVars, serverVars, Goal, Types,
           Leased, Exclusive
  <2>10. CASE WorkerCrashes(k)
    <3>1. UNCHANGED <<sharing, pointer, serverRoot>> /\ lease' \in {lease, None}
          BY <1>4, <2>10 DEF WorkerCrashes, Leaves, fileVars, serverVars
    <3>2. \A j \in Launches : at'[j] \in Exclusive <=> lease' = j
          BY <1>4, <2>10 DEF WorkerCrashes, Leaves, fileVars, serverVars, Types, Leased, Exclusive
    <3> QED BY <3>1, <3>2 DEF Leased, Goal
  <2> QED BY <1>4, <2>1, <2>2, <2>3, <2>4, <2>5, <2>6, <2>7, <2>8, <2>9, <2>10 DEF UnwindTurn
<1>5. ASSUME NEW m \in Migrations, RequestCancel(m) \/ HeartbeatExpires(m) PROVE Goal
      BY <1>5, <1>u DEF RequestCancel, HeartbeatExpires, fileVars, leaseVars, serverVars,
         workerVars
<1> QED BY <1>1, <1>2, <1>3, <1>4, <1>5 DEF MigrationNext

\* The base invariant holds when nothing has been asked yet.
LEMMA BaseInit == Init => BaseInv
<1> SUFFICES ASSUME Init PROVE BaseInv
    OBVIOUS
<1> USE MigrationConstants DEF Init
<1>1. Admitted = {}
      BY DEF Admitted
<1>2. Types
  <2> PICK r \in Roots :
          /\ pointer = r /\ occupied = {r} /\ whole = {r}
          /\ source = [m \in Migrations |-> r] /\ destination = [m \in Migrations |-> r]
          /\ serverRoot = [s \in Servers |-> r] /\ workerRoot = [k \in Launches |-> r]
      OBVIOUS
  <2>1. /\ status \in [Migrations -> {"absent", "open"} \cup Closed]
        /\ worker \in [Migrations -> Launches \cup {None}]
        /\ heartbeat \in [Migrations -> {"null", "fresh", "stale"}]
        /\ writes \in [Roots -> 0..MaxWrites] /\ marker \in [Roots -> Migrations \cup {None}]
        OBVIOUS
  <2>2. /\ at \in [Launches -> Places] /\ moves \in [Launches -> Admitted \cup {None}]
        /\ outcome \in [Launches -> {"cancelled", "failed"}]
        BY DEF Places
  <2>3. /\ server \in [Servers -> Phases] /\ preflight \in [Servers -> SUBSET Roots]
        /\ handles \in [Servers -> Admitted \cup {None}]
        /\ thread \in [Servers -> Threads] /\ hand \in [Servers -> Launches \cup {None}]
        /\ tracked \in [Servers -> SUBSET Launches]
        BY DEF Phases, Threads
  <2> QED BY <1>1, <2>1, <2>2, <2>3 DEF Types
<1>3. Numbered
      BY <1>1, FS_EmptySet DEF Numbered, Newest
<1>4. Reached /\ Alone /\ Leased
      BY DEF Reached, Alone, Leased, Reconciling, Exclusive
<1> QED BY <1>2, <1>3, <1>4 DEF BaseInv

\* Every step keeps the base invariant.
LEMMA BaseNext == BaseInv /\ [MigrationNext]_vars => BaseInv'
<1> SUFFICES ASSUME BaseInv, [MigrationNext]_vars PROVE BaseInv'
    OBVIOUS
<1>1. CASE MigrationNext
      BY <1>1, TypesNext, NumberedNext, ReachedNext, AloneNext, LeasedNext DEF BaseInv
<1>2. CASE UNCHANGED vars
      BY <1>2 DEF vars, rowVars, controlVars, fileVars, leaseVars, serverVars, threadVars,
         workerVars, BaseInv, Types, Numbered, Newest, Admitted, Reached, Alone, Leased
<1> QED BY <1>1, <1>2

-----------------------------------------------------------------------------
(* Rows, reservations and workers, where starts are patient and the sync succeeds. *)

\* What holds of rows, of reservations and of the workers' places.
WorkInv == BaseInv /\ OneLive /\ Attended /\ AtWork /\ Pointed /\ Started

\* A step keeps a worker at work with its reservation, and its row telling how far it is.
LEMMA AtWorkNext ==
  ASSUME SyncFails = FALSE, PatientStarts = TRUE, WorkInv, MigrationNext
  PROVE  AtWork'
<1> USE MigrationConstants DEF BaseInv, WorkInv
<1> DEFINE Goal == AtWork'
<1> SUFFICES Goal
    OBVIOUS
<1>u. ASSUME UNCHANGED <<status, destination, worker, processKnown, pointer, at, moves>> PROVE
             Goal
      BY <1>u DEF Goal, AtWork, Live, Moved
<1>1. ASSUME NEW s \in Servers, ServerTurn(s) PROVE Goal
  <2>1. CASE StartMigration(s)
    <3>1. UNCHANGED <<at, moves, worker, processKnown, pointer>>
          BY <1>1, <2>1 DEF StartMigration, workerVars, fileVars
    <3>2. \A n \in Admitted : status'[n] = status[n] /\ destination'[n] = destination[n]
      <4>1. Newest + 1 \notin Admitted
            BY DEF Numbered
      <4> QED BY <4>1, <1>1, <2>1, InHand DEF StartMigration, Types
    <3> QED BY <3>1, <3>2, InHand DEF Goal, AtWork, Moved, Live, Bound, Exclusive, Working,
            Unwinding
  <2>2. CASE RecoverSwitch(s)
        BY <1>1, <2>2, InHand DEF RecoverSwitch, GoTo, rowVars, fileVars, workerVars, Goal,
           Types, Reached, AtWork, Moved, Live, Bound, Exclusive, Working, Unwinding,
           Reconciling, Undisturbed, Switching, Alive
  <2>3. CASE CompleteMigration(s)
        BY <1>1, <2>3, InHand DEF CompleteMigration, Update, GoTo, rowVars, fileVars,
           workerVars, Goal, Types, Reached, AtWork, Moved, Live, Bound, Exclusive, Working,
           Unwinding, Reconciling, Started, Undisturbed, Switching, Alive, Closed, Ended
  <2>4. CASE BeginOperation(s) \/ EndOperation(s) \/ (\E r \in Roots : Preflight(s, r))
             \/ AnnounceMigration(s) \/ ServerOpens(s) \/ FinalizeLooks(s)
             \/ FinalizeHandsOver(s) \/ ServerStops(s)
        BY <2>4, <1>u DEF BeginOperation, EndOperation, Preflight, AnnounceMigration,
           ServerOpens, FinalizeLooks, FinalizeHandsOver, ServerStops, rowVars, fileVars,
           workerVars, GoTo
  <2> QED BY <1>1, <2>1, <2>2, <2>3, <2>4 DEF ServerTurn
<1>2. ASSUME NEW s \in Servers, SupervisorTurn(s) PROVE Goal
  <2>1. CASE ReserveLaunch(s)
        BY <1>2, <2>1, InHand DEF ReserveLaunch, Turn, fileVars, Goal, Types, Reached, AtWork,
           Moved, Live, Bound, Exclusive, Working, Unwinding, Unattended, Alive, Numbered
  <2>2. CASE Spawn(s)
        BY <1>2, <2>2, InHand DEF Spawn, Turn, rowVars, fileVars, Goal, Types, Reached, AtWork,
           Moved, Live, Bound, Exclusive, Working, Unwinding, Attended, Alone
  <2>3. CASE ParentAdopts(s)
        BY <1>2, <2>3, InHand DEF ParentAdopts, Turn, Adopt, Holds, rowVars, fileVars,
           workerVars, Goal, Types, Reached, AtWork, Moved, Live, Bound, Exclusive, Working,
           Unwinding, Closed, Ended
  <2>4. CASE (\E j \in Launches : Reap(s, j))
        BY <1>2, <2>4, InHand DEF Reap, Turn, Holds, rowVars, fileVars, workerVars, Goal, Types,
           Reached, AtWork, Moved, Live, Bound, Exclusive, Working, Unwinding, Closed, Ended
  <2>5. CASE SupervisorFails(s)
        BY <1>2, <2>5, InHand DEF SupervisorFails, Update, Turn, fileVars, workerVars, Goal,
           Types, Reached, AtWork, Moved, Live, Bound, Exclusive, Working, Unwinding, Attended
  <2>6. CASE LaunchFails(s) \/ SupervisorLifts(s)
        BY <2>6, <1>u DEF LaunchFails, SupervisorLifts, Turn, rowVars, fileVars, workerVars
  <2> QED BY <1>2, <2>1, <2>2, <2>3, <2>4, <2>5, <2>6 DEF SupervisorTurn
<1>3. ASSUME NEW k \in Launches, WorkerTurn(k) PROVE Goal
  <2>1. CASE WorkerOpens(k)
        BY <1>3, <2>1, InHand DEF WorkerOpens, rowVars, fileVars, Goal, Types, Reached, AtWork,
           Moved, Live, Bound, Exclusive, Working, Unwinding, Closed, Ended
  <2>2. CASE WorkerAdopts(k)
        BY <1>3, <2>2, InHand DEF WorkerAdopts, Step, Adopt, Holds, rowVars, fileVars, Goal,
           Types, Reached, AtWork, Moved, Live, Bound, Exclusive, Working, Unwinding, Closed,
           Ended
  <2>3. CASE WorkerEnters(k)
        BY <1>3, <2>3, InHand DEF WorkerEnters, Step, rowVars, fileVars, Goal, Types, Reached,
           AtWork, Moved, Live, Bound, Exclusive, Working, Unwinding, Closed, Ended
  <2>4. CASE WorkerQuiesces(k)
        BY <1>3, <2>4, InHand DEF WorkerQuiesces, Update, Step, fileVars, Goal, Types, Reached,
           AtWork, Moved, Live, Bound, Exclusive, Working, Unwinding, Closed, Ended
  <2>5. CASE TakeLease(k)
        BY <1>3, <2>5, InHand DEF TakeLease, Step, rowVars, fileVars, Goal, Types, Reached,
           AtWork, Moved, Live, Bound, Exclusive, Working, Unwinding, Closed, Ended
  <2>6. CASE PrepareDestination(k)
        BY <1>3, <2>6, InHand DEF PrepareDestination, Update, Goal, Types, Reached, AtWork,
           Moved, Live, Bound, Exclusive, Working, Unwinding, Closed, Ended
  <2>7. CASE CopyRoot(k)
        BY <1>3, <2>7, InHand DEF CopyRoot, Update, Step, Goal, Types, Reached, AtWork, Moved,
           Live, Bound, Exclusive, Working, Unwinding, Closed, Ended
  <2>8. CASE VerifyCopy(k)
        BY <1>3, <2>8, InHand DEF VerifyCopy, Step, rowVars, fileVars, Goal, Types, Reached,
           AtWork, Moved, Live, Bound, Exclusive, Working, Unwinding, Closed, Ended
  <2>9. CASE DeclareSwitching(k)
        BY <1>3, <2>9, InHand DEF DeclareSwitching, Update, Step, fileVars, Goal, Types,
           Reached, AtWork, Moved, Live, Bound, Exclusive, Working, Unwinding, Closed, Ended
  <2>10. CASE FlagRestart(k)
        BY <1>3, <2>10, InHand DEF FlagRestart, Step, rowVars, fileVars, Goal, Types, Reached,
           AtWork, Moved, Live, Bound, Exclusive, Working, Unwinding, Closed, Ended
  <2>11. CASE ReplacePointer(k)
        BY <1>3, <2>11, InHand DEF ReplacePointer, Step, rowVars, Goal, Types, Reached, AtWork,
           Moved, Live, Bound, Exclusive, Working, Unwinding, OneLive
  <2>12. CASE SyncPointer(k)
        BY <1>3, <2>12, InHand DEF SyncPointer, Step, rowVars, fileVars, Goal, Types, Reached,
           AtWork, Moved, Live, Bound, Exclusive, Working, Unwinding, Closed, Ended
  <2>13. CASE RequireRestart(k)
        BY <1>3, <2>13, InHand DEF RequireRestart, Update, Step, fileVars, Goal, Types, Reached,
           AtWork, Moved, Live, Bound, Exclusive, Working, Unwinding, Closed, Ended
  <2>14. CASE FlagAgain(k)
        BY <1>3, <2>14, InHand DEF FlagAgain, rowVars, fileVars, Goal, Types, Reached, AtWork,
           Moved, Live, Bound, Exclusive, Working, Unwinding, Closed, Ended
  <2> QED BY <1>3, <2>1, <2>2, <2>3, <2>4, <2>5, <2>6, <2>7, <2>8, <2>9, <2>10, <2>11, <2>12,
          <2>13, <2>14 DEF WorkerTurn
<1>4. ASSUME NEW k \in Launches, UnwindTurn(k) PROVE Goal
  <2>1. CASE WorkerCancels(k)
        BY <1>4, <2>1, InHand DEF WorkerCancels, Leaves, rowVars, fileVars, Goal, Types,
           Reached, AtWork, Moved, Live, Bound, Exclusive, Working, Unwinding, Closed, Ended
  <2>2. CASE WorkerFails(k)
        BY <1>4, <2>2, InHand DEF WorkerFails, Leaves, rowVars, fileVars, Goal, Types, Reached,
           AtWork, Moved, Live, Bound, Exclusive, Working, Unwinding, Closed, Ended
  <2>3. CASE ErrorAfterSwitch(k)
        BY <1>4, <2>3, InHand DEF ErrorAfterSwitch, Leaves, rowVars, fileVars, Goal, Types,
           Reached, AtWork, Moved, Live, Bound, Exclusive, Working, Unwinding, Pointed
  <2>4. CASE FlagForward(k)
        BY <1>4, <2>4, InHand DEF FlagForward, Step, rowVars, fileVars, Goal, Types, Reached,
           AtWork, Moved, Live, Bound, Exclusive, Working, Unwinding, Closed, Ended
  <2>5. CASE RequireForward(k)
        BY <1>4, <2>5, InHand DEF RequireForward, Update, Step, fileVars, Goal, Types, Reached,
           AtWork, Moved, Live, Bound, Exclusive, Working, Unwinding, Closed, Ended
  <2>6. CASE RollbackFiles(k)
        BY <1>4, <2>6, InHand DEF RollbackFiles, Step, rowVars, Goal, Types, Reached, AtWork,
           Moved, Live, Bound, Exclusive, Working, Unwinding, Closed, Ended
  <2>7. CASE RollbackMarker(k)
        BY <1>4, <2>7, InHand DEF RollbackMarker, Step, rowVars, Goal, Types, Reached, AtWork,
           Moved, Live, Bound, Exclusive, Working, Unwinding, Closed, Ended
  <2>8. CASE RecordOutcome(k)
        BY <1>4, <2>8, InHand DEF RecordOutcome, Update, Step, fileVars, Goal, Types, Reached,
           AtWork, Moved, Live, Bound, Exclusive, Working, Unwinding, Closed, Ended
  <2>9. CASE WorkerLifts(k)
        BY <1>4, <2>9, InHand DEF WorkerLifts, Step, rowVars, fileVars, Goal, Types, Reached,
           AtWork, Moved, Live, Bound, Exclusive, Working, Unwinding, Closed, Ended
  <2>10. CASE WorkerCrashes(k)
        BY <1>4, <2>10, InHand DEF WorkerCrashes, Leaves, rowVars, fileVars, Goal, Types,
           Reached, AtWork, Moved, Live, Bound, Exclusive, Working, Unwinding, Closed, Ended
  <2> QED BY <1>4, <2>1, <2>2, <2>3, <2>4, <2>5, <2>6, <2>7, <2>8, <2>9, <2>10 DEF UnwindTurn
<1>5. ASSUME NEW m \in Migrations, RequestCancel(m) \/ HeartbeatExpires(m) PROVE Goal
      BY <1>5, <1>u DEF RequestCancel, HeartbeatExpires, fileVars, workerVars
<1> QED BY <1>1, <1>2, <1>3, <1>4, <1>5 DEF MigrationNext

\* A step keeps one migration alive: the next is admitted when the others have ended.
LEMMA OneLiveNext ==
  ASSUME SyncFails = FALSE, PatientStarts = TRUE, WorkInv, MigrationNext
  PROVE  OneLive'
<1> USE InHand, MigrationConstants DEF BaseInv, WorkInv
<1> DEFINE Goal == OneLive'
<1> SUFFICES Goal
    OBVIOUS
<1>u. ASSUME UNCHANGED <<status, source, destination>> PROVE Goal
      BY <1>u DEF Goal, OneLive, Live, Admitted
<1>1. ASSUME NEW s \in Servers, ServerTurn(s) PROVE Goal
  <2>1. CASE StartMigration(s)
    <3>1. UNCHANGED <<at, moves, worker, processKnown, pointer>>
          BY <1>1, <2>1 DEF StartMigration, workerVars, fileVars
    <3>2. Newest + 1 \notin Admitted
          BY DEF Numbered
    <3>3. \A n \in Admitted : /\ status'[n] = status[n] /\ destination'[n] = destination[n]
                              /\ source'[n] = source[n]
          BY <3>2, <1>1, <2>1 DEF StartMigration, Types
    <3>4. CASE UNCHANGED <<status, source, destination>>
          BY <3>4, RowsGrow DEF Goal, OneLive, Live, Admitted
    <3>5. CASE /\ \A n \in Admitted : status[n] \in Ended
               /\ Newest < MaxMigrations
               /\ status' = [status EXCEPT ![Newest + 1] = "open"]
               /\ source' = [source EXCEPT ![Newest + 1] = serverRoot[s]]
               /\ destination' = [destination EXCEPT ![Newest + 1] = CHOOSE r \in preflight[s] : TRUE]
      <4>1. \A n \in Migrations : Live(n)' => n = Newest + 1
            BY <3>5 DEF Live, Types, Ended, Admitted
      <4>2. (CHOOSE r \in preflight[s] : TRUE) # serverRoot[s]
            BY <1>1, <2>1 DEF StartMigration, Reached
      <4>3. Newest + 1 \in Migrations /\ Admitted' = Admitted \cup {Newest + 1}
        <5>1. Newest + 1 \in Migrations
              BY <3>5 DEF Numbered, Migrations
        <5> QED BY <5>1, <3>5 DEF Admitted, Types
      <4>4. source'[Newest + 1] # destination'[Newest + 1]
            BY <3>5, <4>2, <4>3 DEF Types
      <4>5. \A n \in Admitted' : source'[n] # destination'[n]
            BY <4>3, <4>4, <3>3 DEF OneLive
      <4> QED BY <4>1, <4>5 DEF Goal, OneLive, Live
    <3> QED BY <3>4, <3>5, <1>1, <2>1 DEF StartMigration
  <2>2. CASE RecoverSwitch(s)
        BY <1>1, <2>2 DEF RecoverSwitch, GoTo, rowVars, Goal, Types, OneLive, Live, Admitted,
           Reconciling
  <2>3. CASE CompleteMigration(s)
        BY <1>1, <2>3 DEF CompleteMigration, Update, GoTo, rowVars, Goal, Types, OneLive, Live,
           Admitted, Closed, Ended
  <2>4. CASE BeginOperation(s) \/ EndOperation(s) \/ (\E r \in Roots : Preflight(s, r))
             \/ AnnounceMigration(s) \/ ServerOpens(s) \/ FinalizeLooks(s)
             \/ FinalizeHandsOver(s) \/ ServerStops(s)
        BY <2>4, <1>u DEF BeginOperation, EndOperation, Preflight, AnnounceMigration,
           ServerOpens, FinalizeLooks, FinalizeHandsOver, ServerStops, rowVars, GoTo
  <2> QED BY <1>1, <2>1, <2>2, <2>3, <2>4 DEF ServerTurn
<1>2. ASSUME NEW s \in Servers, SupervisorTurn(s) PROVE Goal
  <2>1. CASE SupervisorFails(s)
        BY <1>2, <2>1 DEF SupervisorFails, Update, Turn, Goal, Types, OneLive, Live, Admitted,
           Closed, Ended
  <2>2. CASE ReserveLaunch(s) \/ Spawn(s) \/ LaunchFails(s) \/ ParentAdopts(s)
             \/ (\E j \in Launches : Reap(s, j)) \/ SupervisorLifts(s)
        BY <2>2, <1>u DEF ReserveLaunch, Spawn, LaunchFails, ParentAdopts, Reap,
           SupervisorLifts, Turn, rowVars, Adopt
  <2> QED BY <1>2, <2>1, <2>2 DEF SupervisorTurn
<1>3. ASSUME NEW k \in Launches, WorkerTurn(k) PROVE Goal
  <2>1. CASE WorkerQuiesces(k)
        BY <1>3, <2>1 DEF WorkerQuiesces, Update, Step, Goal, Types, OneLive, Live, Admitted,
           AtWork, Bound, Exclusive, Working, Unwinding, Closed, Ended
  <2>2. CASE PrepareDestination(k)
        BY <1>3, <2>2 DEF PrepareDestination, Update, Goal, Types, OneLive, Live, Admitted,
           AtWork, Bound, Exclusive, Working, Unwinding, Closed, Ended
  <2>3. CASE CopyRoot(k)
        BY <1>3, <2>3 DEF CopyRoot, Update, Step, Goal, Types, OneLive, Live, Admitted, AtWork,
           Bound, Exclusive, Working, Unwinding, Closed, Ended
  <2>4. CASE DeclareSwitching(k)
        BY <1>3, <2>4 DEF DeclareSwitching, Update, Step, Goal, Types, OneLive, Live, Admitted,
           AtWork, Bound, Exclusive, Working, Unwinding, Closed, Ended
  <2>5. CASE RequireRestart(k)
        BY <1>3, <2>5 DEF RequireRestart, Update, Step, Goal, Types, OneLive, Live, Admitted,
           AtWork, Bound, Exclusive, Working, Unwinding, Closed, Ended
  <2>6. CASE WorkerOpens(k) \/ WorkerAdopts(k) \/ WorkerEnters(k) \/ TakeLease(k)
             \/ VerifyCopy(k) \/ FlagRestart(k) \/ ReplacePointer(k) \/ SyncPointer(k)
             \/ FlagAgain(k)
        BY <2>6, <1>u DEF WorkerOpens, WorkerAdopts, WorkerEnters, TakeLease, VerifyCopy,
           FlagRestart, ReplacePointer, SyncPointer, FlagAgain, rowVars, Step, Adopt
  <2> QED BY <1>3, <2>1, <2>2, <2>3, <2>4, <2>5, <2>6 DEF WorkerTurn
<1>4. ASSUME NEW k \in Launches, UnwindTurn(k) PROVE Goal
  <2>1. CASE RequireForward(k)
        BY <1>4, <2>1 DEF RequireForward, Update, Step, Goal, Types, OneLive, Live, Admitted,
           AtWork, Bound, Exclusive, Working, Unwinding, Closed, Ended
  <2>2. CASE RecordOutcome(k)
        BY <1>4, <2>2 DEF RecordOutcome, Update, Step, Goal, Types, OneLive, Live, Admitted,
           AtWork, Bound, Exclusive, Working, Unwinding, Closed, Ended
  <2>3. CASE WorkerCancels(k) \/ WorkerFails(k) \/ ErrorAfterSwitch(k) \/ FlagForward(k)
             \/ RollbackFiles(k) \/ RollbackMarker(k) \/ WorkerLifts(k) \/ WorkerCrashes(k)
        BY <2>3, <1>u DEF WorkerCancels, WorkerFails, ErrorAfterSwitch, FlagForward,
           RollbackFiles, RollbackMarker, WorkerLifts, WorkerCrashes, Leaves, rowVars, Step
  <2> QED BY <1>4, <2>1, <2>2, <2>3 DEF UnwindTurn
<1>5. ASSUME NEW m \in Migrations, RequestCancel(m) \/ HeartbeatExpires(m) PROVE Goal
      BY <1>5, <1>u DEF RequestCancel, HeartbeatExpires
<1> QED BY <1>1, <1>2, <1>3, <1>4, <1>5 DEF MigrationNext

\* The reservation of a worker at work is not one a server is about to give up.
LEMMA HandApart ==
  ASSUME WorkInv, NEW k \in Launches, at[k] \in Bound, NEW s \in Servers,
         thread[s] \in {"reserved", "failing"}
  PROVE  moves[hand[s]] # moves[k]
<1>1. hand[s] \in Launches /\ at[hand[s]] \in {"none", "crashed"}
      BY InHand DEF WorkInv, BaseInv, Alone, Attended
<1>2. worker[moves[hand[s]]] = hand[s] /\ worker[moves[k]] = k
      BY <1>1, MigrationConstants DEF WorkInv, Attended, AtWork
<1> QED BY <1>1, <1>2 DEF Bound, Exclusive

\* A step keeps what a server is launching reserved and fresh.
LEMMA AttendedNext ==
  ASSUME SyncFails = FALSE, PatientStarts = TRUE, WorkInv, MigrationNext
  PROVE  Attended'
<1> USE InHand, MigrationConstants DEF BaseInv, WorkInv
<1> DEFINE Goal == Attended'
<1> SUFFICES Goal
    OBVIOUS
<1>1. ASSUME NEW s \in Servers, ServerTurn(s) PROVE Goal
  <2>1. CASE BeginOperation(s)
        BY <1>1, <2>1 DEF BeginOperation, rowVars, threadVars, workerVars, Goal, Types,
           Attended, Alone, Reached
  <2>2. CASE EndOperation(s)
        BY <1>1, <2>2 DEF EndOperation, rowVars, threadVars, workerVars, Goal, Types, Attended,
           Alone, Reached
  <2>3. CASE (\E r \in Roots : Preflight(s, r))
        BY <1>1, <2>3 DEF Preflight, rowVars, threadVars, workerVars, Goal, Types, Attended,
           Alone, Reached
  <2>4. CASE StartMigration(s)
    <3>1. UNCHANGED <<at, moves, worker, processKnown, pointer>>
          BY <1>1, <2>4 DEF StartMigration, workerVars, fileVars
    <3>2. Newest + 1 \notin Admitted
          BY DEF Numbered
    <3>3. \A n \in Admitted : /\ status'[n] = status[n] /\ destination'[n] = destination[n]
                              /\ source'[n] = source[n]
          BY <3>2, <1>1, <2>4 DEF StartMigration, Types
    <3> QED BY <3>1, <3>3, <1>1, <2>4 DEF StartMigration, threadVars, Goal, Attended, Reached,
            Types
  <2>5. CASE AnnounceMigration(s)
        BY <1>1, <2>5 DEF AnnounceMigration, rowVars, threadVars, workerVars, Goal, Types,
           Attended, Alone, Reached
  <2>6. CASE ServerOpens(s)
        BY <1>1, <2>6 DEF ServerOpens, rowVars, threadVars, workerVars, Goal, Types, Attended,
           Alone, Reached
  <2>7. CASE FinalizeLooks(s)
        BY <1>1, <2>7 DEF FinalizeLooks, GoTo, rowVars, workerVars, Goal, Types, Attended,
           Alone, Reached
  <2>8. CASE RecoverSwitch(s)
    <3>1. \A t \in Servers : hand[t] = None /\ thread[t] \in {"none", "idle"}
          BY <1>1, <2>8 DEF RecoverSwitch, Undisturbed, Reached
    <3>2. \A t \in Servers : thread'[t] \in {"none", "idle", thread[t]}
          BY <1>1, <2>8 DEF RecoverSwitch, GoTo, Types
    <3>3. UNCHANGED <<hand, tracked, at, moves>>
          BY <1>1, <2>8 DEF RecoverSwitch, GoTo, workerVars
    <3>4. CASE UNCHANGED rowVars
          BY <3>1, <3>2, <3>3, <3>4 DEF Goal, Attended, rowVars
    <3>5. CASE /\ status[handles[s]] = "switching"
               /\ worker' = [worker EXCEPT ![handles[s]] = None]
               /\ heartbeat' = [heartbeat EXCEPT ![handles[s]] = "null"]
      <4>1. \A t \in Servers : \A k \in tracked[t] : moves[k] = handles[s] => at[k] = "gone"
            BY <3>5, <1>1, <2>8 DEF RecoverSwitch, Undisturbed, Switching, Alive, Attended, Types
      <4>2. \A t \in Servers : \A k \in tracked[t] :
              /\ at'[k] # "gone" => worker'[moves'[k]] = k
              /\ worker'[moves'[k]] = k => heartbeat'[moves'[k]] = "fresh"
            BY <3>3, <3>5, <4>1 DEF Attended, Types, Reached
      <4> QED BY <3>1, <3>2, <3>3, <4>2 DEF Goal, Attended
    <3> QED BY <3>4, <3>5, <1>1, <2>8 DEF RecoverSwitch
  <2>9. CASE CompleteMigration(s)
    <3>1. \A t \in Servers : hand[t] = None /\ thread[t] \in {"none", "idle"}
          BY <1>1, <2>9 DEF CompleteMigration, Undisturbed, Reached
    <3>2. \A t \in Servers : thread'[t] \in {"none", "idle", thread[t]}
          BY <1>1, <2>9 DEF CompleteMigration, GoTo, Types
    <3>3. /\ UNCHANGED <<hand, tracked, at, moves, worker>>
          /\ \A n \in Migrations : heartbeat'[n] \in {heartbeat[n], "fresh"}
          BY <1>1, <2>9 DEF CompleteMigration, Update, GoTo, workerVars, rowVars, Types
    <3>4. \A t \in Servers : \A k \in tracked[t] : k \in Launches /\ moves[k] \in Migrations
          BY DEF Types, Reached
    <3> QED BY <3>1, <3>2, <3>3, <3>4 DEF Goal, Attended
  <2>10. CASE FinalizeHandsOver(s)
        BY <1>1, <2>10 DEF FinalizeHandsOver, GoTo, rowVars, workerVars, Goal, Types, Attended,
           Alone, Reached
  <2>11. CASE ServerStops(s)
        BY <1>1, <2>11 DEF ServerStops, rowVars, workerVars, Goal, Types, Attended, Alone,
           Reached
  <2> QED BY <1>1, <2>1, <2>2, <2>3, <2>4, <2>5, <2>6, <2>7, <2>8, <2>9, <2>10, <2>11 DEF
          ServerTurn
<1>2. ASSUME NEW s \in Servers, SupervisorTurn(s) PROVE Goal
  <2>1. CASE ReserveLaunch(s)
    <3>1. Newest \in Admitted /\ status[Newest] = "open" /\ heartbeat[Newest] # "fresh"
          BY <1>2, <2>1 DEF ReserveLaunch, Numbered, Types, Closed, Ended, Admitted
    <3>2. PICK j \in Launches : /\ moves[j] = None /\ moves' = [moves EXCEPT ![j] = Newest]
                                 /\ worker' = [worker EXCEPT ![Newest] = j]
                                 /\ Turn(s, "idle", "reserved", j)
          BY <1>2, <2>1 DEF ReserveLaunch
    <3>3. /\ UNCHANGED <<status, at, tracked>>
          /\ heartbeat' = [heartbeat EXCEPT ![Newest] = "fresh"]
          BY <1>2, <2>1 DEF ReserveLaunch
    <3>4. \A t \in Servers : \A k \in tracked[t] \cup ({hand[t]} \ {None}) :
            /\ k \in Launches /\ k # j /\ moves[k] \in Admitted
            /\ moves[k] = Newest => at[k] = "gone" /\ worker[Newest] # k
          BY <3>1, <3>2 DEF Attended, Reached, Types
    <3>5. thread' = [thread EXCEPT ![s] = "reserved"] /\ hand' = [hand EXCEPT ![s] = j]
          BY <3>2 DEF Turn
    <3>6. worker'[Newest] = j /\ moves'[j] = Newest /\ heartbeat'[Newest] = "fresh"
          BY <3>1, <3>2, <3>3 DEF Types
    <3>7. \A t \in Servers : \A k \in tracked'[t] \cup ({hand'[t]} \ {None}) :
            /\ at'[k] # "gone" => worker'[moves'[k]] = k
            /\ worker'[moves'[k]] = k => heartbeat'[moves'[k]] = "fresh"
      <4> SUFFICES ASSUME NEW t \in Servers, NEW k \in tracked'[t] \cup ({hand'[t]} \ {None})
                   PROVE  /\ at'[k] # "gone" => worker'[moves'[k]] = k
                          /\ worker'[moves'[k]] = k => heartbeat'[moves'[k]] = "fresh"
          OBVIOUS
      <4>1. CASE k = j
            BY <4>1, <3>6
      <4>2. CASE k # j
        <5>1. k \in tracked[t] \cup ({hand[t]} \ {None})
              BY <4>2, <3>3, <3>5 DEF Types
        <5>2. k \in Launches /\ moves'[k] = moves[k] /\ moves[k] \in Admitted
              BY <5>1, <4>2, <3>2, <3>4 DEF Types
        <5>3. CASE moves[k] = Newest
              BY <5>1, <5>2, <5>3, <4>2, <3>3, <3>4, <3>6
        <5>4. CASE moves[k] # Newest
              BY <5>1, <5>2, <5>4, <3>1, <3>2, <3>3 DEF Attended, Types
        <5> QED BY <5>3, <5>4
      <4> QED BY <4>1, <4>2
    <3>8. \A t \in Servers :
            /\ thread'[t] = "reserved" => status'[moves'[hand'[t]]] = "open"
            /\ thread'[t] = "spawned" => at'[hand'[t]] # "none"
            /\ thread'[t] = "failing" =>
                 at'[hand'[t]] \in {"none", "crashed"} /\ status'[moves'[hand'[t]]] = "open"
            /\ \A k \in tracked'[t] : at'[k] # "none"
      <4> SUFFICES ASSUME NEW t \in Servers
                   PROVE  /\ thread'[t] = "reserved" => status'[moves'[hand'[t]]] = "open"
                          /\ thread'[t] = "spawned" => at'[hand'[t]] # "none"
                          /\ thread'[t] = "failing" => /\ at'[hand'[t]] \in {"none", "crashed"}
                                                       /\ status'[moves'[hand'[t]]] = "open"
                          /\ \A k \in tracked'[t] : at'[k] # "none"
          OBVIOUS
      <4>1. CASE t = s
            BY <4>1, <3>1, <3>3, <3>5, <3>6 DEF Attended, Types
      <4>2. CASE t # s
            BY <4>2, <3>2, <3>3, <3>4, <3>5 DEF Attended, Types
      <4> QED BY <4>1, <4>2
    <3> QED BY <3>7, <3>8 DEF Goal, Attended
  <2>2. CASE Spawn(s)
        BY <1>2, <2>2 DEF Spawn, Turn, rowVars, Goal, Types, Attended, Alone, Reached
  <2>3. CASE LaunchFails(s)
        BY <1>2, <2>3 DEF LaunchFails, Turn, rowVars, workerVars, Goal, Types, Attended, Alone,
           Reached
  <2>4. CASE ParentAdopts(s)
        BY <1>2, <2>4 DEF ParentAdopts, Turn, Adopt, Holds, rowVars, workerVars, Goal, Types,
           Attended, Alone, Reached
  <2>5. CASE (\E j \in Launches : Reap(s, j))
    <3> PICK j \in Launches : Reap(s, j)
        BY <1>2, <2>5
    <3>1. /\ j \in tracked[s] /\ tracked' = [tracked EXCEPT ![s] = @ \ {j}]
          /\ UNCHANGED <<status, at, moves>> /\ moves[j] \in Admitted
          /\ thread[s] = "idle"
          BY DEF Reap, Turn, Attended, rowVars, workerVars
    <3>2. \A t \in Servers : \A k \in tracked'[t] \cup ({hand'[t]} \ {None}) :
            k \in tracked[t] \cup ({hand[t]} \ {None}) /\ (k # j \/ hand'[s] = j)
          BY <3>1 DEF Reap, Turn, Types, Alone
    <3>3. CASE /\ at[j] = "crashed" /\ status[moves[j]] \notin Closed
               /\ Turn(s, "idle", "failing", j) /\ UNCHANGED rowVars
      <4>1. status[moves[j]] = "open"
            BY <3>1, <3>3 DEF Types, Admitted
      <4> QED BY <3>1, <3>2, <3>3, <4>1 DEF Goal, Attended, Turn, rowVars, Types
    <3>4. CASE Turn(s, "idle", "idle", None) /\ UNCHANGED rowVars
          BY <3>1, <3>2, <3>4 DEF Goal, Attended, Turn, rowVars, Types
    <3>5. CASE /\ Turn(s, "idle", "idle", None) /\ worker[moves[j]] = j
               /\ worker' = [worker EXCEPT ![moves[j]] = None]
               /\ heartbeat' = [heartbeat EXCEPT ![moves[j]] = "null"]
      <4>1. \A t \in Servers : \A k \in tracked'[t] \cup ({hand'[t]} \ {None}) :
              /\ at'[k] # "gone" => worker'[moves'[k]] = k
              /\ worker'[moves'[k]] = k => heartbeat'[moves'[k]] = "fresh"
        <5> SUFFICES ASSUME NEW t \in Servers, NEW k \in tracked'[t] \cup ({hand'[t]} \ {None})
                     PROVE  /\ at'[k] # "gone" => worker'[moves'[k]] = k
                            /\ worker'[moves'[k]] = k => heartbeat'[moves'[k]] = "fresh"
            OBVIOUS
        <5>1. k # j /\ k \in tracked[t] \cup ({hand[t]} \ {None})
              BY <3>1, <3>2, <3>5, MigrationConstants DEF Turn, Types
        <5>2. k \in Launches /\ moves[k] \in Migrations
              BY <5>1 DEF Types, Reached
        <5>3. CASE moves[k] = moves[j]
              BY <5>1, <5>2, <5>3, <3>1, <3>5 DEF Attended, Types
        <5>4. CASE moves[k] # moves[j]
              BY <5>1, <5>2, <5>4, <3>1, <3>5 DEF Attended, Types
        <5> QED BY <5>3, <5>4
      <4> QED BY <3>1, <3>5, <4>1 DEF Goal, Attended, Turn, Types
    <3> QED BY <3>3, <3>4, <3>5 DEF Reap, Holds
  <2>6. CASE SupervisorFails(s)
        BY <1>2, <2>6 DEF SupervisorFails, Update, Turn, workerVars, Goal, Types, Attended,
           Alone, Reached, Closed, Ended
  <2>7. CASE SupervisorLifts(s)
        BY <1>2, <2>7 DEF SupervisorLifts, Turn, rowVars, workerVars, Goal, Types, Attended,
           Alone, Reached
  <2> QED BY <1>2, <2>1, <2>2, <2>3, <2>4, <2>5, <2>6, <2>7 DEF SupervisorTurn
<1>3. ASSUME NEW k \in Launches, WorkerTurn(k) \/ UnwindTurn(k) PROVE Goal
  <2>1. /\ UNCHANGED <<thread, hand, tracked, moves, worker>>
        /\ Alive(k) /\ at'[k] # "none" /\ \A j \in Launches \ {k} : at'[j] = at[j]
        /\ \A n \in Migrations : heartbeat'[n] \in {heartbeat[n], "fresh"}
        BY <1>3, WorkerSteps DEF threadVars
  <2>2. \A s \in Servers : \A j \in tracked[s] \cup ({hand[s]} \ {None}) :
          j \in Launches /\ moves[j] \in Migrations
        BY DEF Types, Reached
  <2>3. \A s \in Servers : \A j \in tracked'[s] \cup ({hand'[s]} \ {None}) :
          /\ at'[j] # "gone" => worker'[moves'[j]] = j
          /\ worker'[moves'[j]] = j => heartbeat'[moves'[j]] = "fresh"
        BY <2>1, <2>2 DEF Attended, Alive
  <2>4. \A s \in Servers : thread[s] \in {"reserved", "failing"} =>
          status'[moves[hand[s]]] = status[moves[hand[s]]] /\ hand[s] # k
    <3> SUFFICES ASSUME NEW s \in Servers, thread[s] \in {"reserved", "failing"}
                 PROVE  status'[moves[hand[s]]] = status[moves[hand[s]]] /\ hand[s] # k
        OBVIOUS
    <3>1. hand[s] \in Launches /\ moves[hand[s]] \in Migrations
          BY InHand
    <3>2. hand[s] # k
          BY <2>1 DEF Alive, Alone, Attended
    <3>3. status'[moves[hand[s]]] = status[moves[hand[s]]]
          BY <1>3, <3>1, HandApart, WorkerSteps DEF WorkInv
    <3> QED BY <3>2, <3>3
  <2> QED BY <2>1, <2>2, <2>3, <2>4, InHand DEF Goal, Attended
<1>4. ASSUME NEW m \in Migrations, RequestCancel(m) \/ HeartbeatExpires(m) PROVE Goal
      BY <1>4 DEF RequestCancel, HeartbeatExpires, threadVars, workerVars, Goal, Types,
         Attended, Alone, Reached
<1> QED BY <1>1, <1>2, <1>3, <1>4 DEF MigrationNext

\* Until a migration has replaced the pointer, a step keeps it on what it found.
LEMMA PointedNext ==
  ASSUME SyncFails = FALSE, PatientStarts = TRUE, WorkInv, MigrationNext
  PROVE  Pointed'
<1> USE InHand, MigrationConstants DEF BaseInv, WorkInv
<1> DEFINE Goal == Pointed'
<1> SUFFICES Goal
    OBVIOUS
<1>u. ASSUME UNCHANGED <<status, source, destination, worker, pointer, at, moves, workerRoot,
             owns>> PROVE Goal
      BY <1>u DEF Goal, Pointed
<1>1. ASSUME NEW s \in Servers, ServerTurn(s) PROVE Goal
  <2>1. CASE StartMigration(s)
    <3>1. UNCHANGED <<at, moves, worker, processKnown, pointer>>
          BY <1>1, <2>1 DEF StartMigration, workerVars, fileVars
    <3>2. Newest + 1 \notin Admitted
          BY DEF Numbered
    <3>3. \A n \in Admitted : /\ status'[n] = status[n] /\ destination'[n] = destination[n]
                              /\ source'[n] = source[n]
          BY <3>2, <1>1, <2>1 DEF StartMigration, Types
    <3>4. UNCHANGED <<workerRoot, owns>>
          BY <1>1, <2>1 DEF StartMigration, workerVars
    <3>5. \A k \in Launches : at[k] # "none" => moves[k] \in Admitted
          BY InHand
    <3>6. \A k \in Launches : k \in owns => at[k] # "none"
          BY DEF Pointed
    <3>7. "none" \notin {"copying"} \cup Copied \cup Working \cup Unwinding
          BY DEF Copied, Working, Unwinding
    <3> QED BY <3>1, <3>3, <3>4, <3>5, <3>6, <3>7 DEF Goal, Pointed
  <2>2. CASE RecoverSwitch(s)
        BY <1>1, <2>2 DEF RecoverSwitch, GoTo, rowVars, fileVars, workerVars, Goal, Types,
           Reached, Pointed, AtWork, Bound, Exclusive, Working, Copied, Unwinding, Live,
           Undisturbed, Switching, Alive, Reconciling
  <2>3. CASE CompleteMigration(s)
        BY <1>1, <2>3 DEF CompleteMigration, Update, GoTo, rowVars, fileVars, workerVars, Goal,
           Types, Reached, Pointed, AtWork, Bound, Exclusive, Working, Copied, Unwinding,
           Closed, Ended, Started, Moved
  <2>4. CASE BeginOperation(s) \/ EndOperation(s) \/ (\E r \in Roots : Preflight(s, r))
             \/ AnnounceMigration(s) \/ ServerOpens(s) \/ FinalizeLooks(s)
             \/ FinalizeHandsOver(s) \/ ServerStops(s)
        BY <2>4, <1>u DEF BeginOperation, EndOperation, Preflight, AnnounceMigration,
           ServerOpens, FinalizeLooks, FinalizeHandsOver, ServerStops, rowVars, fileVars,
           workerVars, GoTo
  <2> QED BY <1>1, <2>1, <2>2, <2>3, <2>4 DEF ServerTurn
<1>2. ASSUME NEW s \in Servers, SupervisorTurn(s) PROVE Goal
  <2>1. CASE ReserveLaunch(s)
        BY <1>2, <2>1 DEF ReserveLaunch, Turn, fileVars, Goal, Types, Reached, Pointed, AtWork,
           Bound, Exclusive, Working, Copied, Unwinding, Numbered
  <2>2. CASE Spawn(s)
        BY <1>2, <2>2 DEF Spawn, Turn, rowVars, fileVars, Goal, Types, Reached, Pointed, AtWork,
           Bound, Exclusive, Working, Copied, Unwinding, Alone
  <2>3. CASE (\E j \in Launches : Reap(s, j))
        BY <1>2, <2>3 DEF Reap, Turn, Holds, rowVars, fileVars, workerVars, Goal, Types,
           Reached, Pointed, AtWork, Bound, Exclusive, Working, Copied, Unwinding
  <2>4. CASE SupervisorFails(s)
        BY <1>2, <2>4 DEF SupervisorFails, Update, Turn, fileVars, workerVars, Goal, Types,
           Reached, Pointed, AtWork, Bound, Exclusive, Working, Copied, Unwinding
  <2>5. CASE LaunchFails(s) \/ ParentAdopts(s) \/ SupervisorLifts(s)
        BY <2>5, <1>u DEF LaunchFails, ParentAdopts, SupervisorLifts, Turn, rowVars, fileVars,
           workerVars, Adopt
  <2> QED BY <1>2, <2>1, <2>2, <2>3, <2>4, <2>5 DEF SupervisorTurn
<1>3. ASSUME NEW k \in Launches, WorkerTurn(k) PROVE Goal
  <2>1. CASE WorkerOpens(k)
        BY <1>3, <2>1 DEF WorkerOpens, rowVars, fileVars, Goal, Types, Reached, Pointed, AtWork,
           Bound, Exclusive, Working, Copied, Unwinding
  <2>2. CASE WorkerAdopts(k)
        BY <1>3, <2>2 DEF WorkerAdopts, Step, Adopt, Holds, rowVars, fileVars, Goal, Types,
           Reached, Pointed, AtWork, Bound, Exclusive, Working, Copied, Unwinding
  <2>3. CASE WorkerEnters(k)
        BY <1>3, <2>3 DEF WorkerEnters, Step, rowVars, fileVars, Goal, Types, Reached, Pointed,
           AtWork, Bound, Exclusive, Working, Copied, Unwinding
  <2>4. CASE WorkerQuiesces(k)
        BY <1>3, <2>4 DEF WorkerQuiesces, Update, Step, fileVars, Goal, Types, Reached, Pointed,
           AtWork, Bound, Exclusive, Working, Copied, Unwinding
  <2>5. CASE TakeLease(k)
        BY <1>3, <2>5 DEF TakeLease, Step, rowVars, fileVars, Goal, Types, Reached, Pointed,
           AtWork, Bound, Exclusive, Working, Copied, Unwinding
  <2>6. CASE PrepareDestination(k)
        BY <1>3, <2>6 DEF PrepareDestination, Update, Goal, Types, Reached, Pointed, AtWork,
           Bound, Exclusive, Working, Copied, Unwinding, Refused, OneLive, Live
  <2>7. CASE CopyRoot(k)
        BY <1>3, <2>7 DEF CopyRoot, Update, Step, Goal, Types, Reached, Pointed, AtWork, Bound,
           Exclusive, Working, Copied, Unwinding
  <2>8. CASE VerifyCopy(k)
        BY <1>3, <2>8 DEF VerifyCopy, Step, rowVars, fileVars, Goal, Types, Reached, Pointed,
           AtWork, Bound, Exclusive, Working, Copied, Unwinding
  <2>9. CASE DeclareSwitching(k)
        BY <1>3, <2>9 DEF DeclareSwitching, Update, Step, fileVars, Goal, Types, Reached,
           Pointed, AtWork, Bound, Exclusive, Working, Copied, Unwinding, OneLive, Live
  <2>10. CASE FlagRestart(k)
        BY <1>3, <2>10 DEF FlagRestart, Step, rowVars, fileVars, Goal, Types, Reached, Pointed,
           AtWork, Bound, Exclusive, Working, Copied, Unwinding
  <2>11. CASE ReplacePointer(k)
        BY <1>3, <2>11 DEF ReplacePointer, Step, rowVars, Goal, Types, Reached, Pointed, AtWork,
           Bound, Exclusive, Working, Copied, Unwinding, OneLive, Live
  <2>12. CASE SyncPointer(k)
        BY <1>3, <2>12 DEF SyncPointer, Step, rowVars, fileVars, Goal, Types, Reached, Pointed,
           AtWork, Bound, Exclusive, Working, Copied, Unwinding
  <2>13. CASE RequireRestart(k)
        BY <1>3, <2>13 DEF RequireRestart, Update, Step, fileVars, Goal, Types, Reached,
           Pointed, AtWork, Bound, Exclusive, Working, Copied, Unwinding
  <2>14. CASE FlagAgain(k)
        BY <1>3, <2>14 DEF FlagAgain, rowVars, fileVars, Goal, Types, Reached, Pointed, AtWork,
           Bound, Exclusive, Working, Copied, Unwinding
  <2> QED BY <1>3, <2>1, <2>2, <2>3, <2>4, <2>5, <2>6, <2>7, <2>8, <2>9, <2>10, <2>11, <2>12,
          <2>13, <2>14 DEF WorkerTurn
<1>4. ASSUME NEW k \in Launches, UnwindTurn(k) PROVE Goal
  <2>1. CASE WorkerCancels(k)
        BY <1>4, <2>1 DEF WorkerCancels, Leaves, rowVars, fileVars, Goal, Types, Reached,
           Pointed, AtWork, Bound, Exclusive, Working, Copied, Unwinding
  <2>2. CASE WorkerFails(k)
        BY <1>4, <2>2 DEF WorkerFails, Leaves, rowVars, fileVars, Goal, Types, Reached, Pointed,
           AtWork, Bound, Exclusive, Working, Copied, Unwinding, Closed
  <2>3. CASE ErrorAfterSwitch(k)
        BY <1>4, <2>3 DEF ErrorAfterSwitch, Leaves, rowVars, fileVars, Goal, Types, Reached,
           Pointed, AtWork, Bound, Exclusive, Working, Copied, Unwinding
  <2>4. CASE FlagForward(k)
        BY <1>4, <2>4 DEF FlagForward, Step, rowVars, fileVars, Goal, Types, Reached, Pointed,
           AtWork, Bound, Exclusive, Working, Copied, Unwinding
  <2>5. CASE RequireForward(k)
        BY <1>4, <2>5 DEF RequireForward, Update, Step, fileVars, Goal, Types, Reached, Pointed,
           AtWork, Bound, Exclusive, Working, Copied, Unwinding
  <2>6. CASE RollbackFiles(k)
        BY <1>4, <2>6 DEF RollbackFiles, Step, rowVars, Goal, Types, Reached, Pointed, AtWork,
           Bound, Exclusive, Working, Copied, Unwinding
  <2>7. CASE RollbackMarker(k)
        BY <1>4, <2>7 DEF RollbackMarker, Step, rowVars, Goal, Types, Reached, Pointed, AtWork,
           Bound, Exclusive, Working, Copied, Unwinding
  <2>8. CASE RecordOutcome(k)
        BY <1>4, <2>8 DEF RecordOutcome, Update, Step, fileVars, Goal, Types, Reached, Pointed,
           AtWork, Bound, Exclusive, Working, Copied, Unwinding
  <2>9. CASE WorkerLifts(k)
        BY <1>4, <2>9 DEF WorkerLifts, Step, rowVars, fileVars, Goal, Types, Reached, Pointed,
           AtWork, Bound, Exclusive, Working, Copied, Unwinding
  <2>10. CASE WorkerCrashes(k)
        BY <1>4, <2>10 DEF WorkerCrashes, Leaves, rowVars, fileVars, Goal, Types, Reached,
           Pointed, AtWork, Bound, Exclusive, Working, Copied, Unwinding
  <2> QED BY <1>4, <2>1, <2>2, <2>3, <2>4, <2>5, <2>6, <2>7, <2>8, <2>9, <2>10 DEF UnwindTurn
<1>5. ASSUME NEW m \in Migrations, RequestCancel(m) \/ HeartbeatExpires(m) PROVE Goal
      BY <1>5, <1>u DEF RequestCancel, HeartbeatExpires, fileVars, workerVars
<1> QED BY <1>1, <1>2, <1>3, <1>4, <1>5 DEF MigrationNext

\* A migration that has moved the root stays moved.
LEMMA MovedStays ==
  ASSUME SyncFails = FALSE, PatientStarts = TRUE, WorkInv, MigrationNext,
         NEW n \in Admitted, Moved(n)
  PROVE  Moved(n)'
<1> USE InHand, MigrationConstants DEF BaseInv, WorkInv
<1> DEFINE Goal == Moved(n)'
<1> SUFFICES Goal
    OBVIOUS
<1>u. ASSUME UNCHANGED <<status, destination, pointer>> PROVE Goal
      BY <1>u DEF Goal, Moved
<1>1. ASSUME NEW s \in Servers, ServerTurn(s) PROVE Goal
  <2>1. CASE StartMigration(s)
    <3>1. UNCHANGED <<at, moves, worker, processKnown, pointer>>
          BY <1>1, <2>1 DEF StartMigration, workerVars, fileVars
    <3>2. Newest + 1 \notin Admitted
          BY DEF Numbered
    <3>3. \A i \in Admitted : /\ status'[i] = status[i] /\ destination'[i] = destination[i]
                              /\ source'[i] = source[i]
          BY <3>2, <1>1, <2>1 DEF StartMigration, Types
    <3> QED BY <3>1, <3>3 DEF Goal, Moved
  <2>2. CASE RecoverSwitch(s)
        BY <1>1, <2>2 DEF RecoverSwitch, GoTo, rowVars, fileVars, Goal, Types, Moved,
           Undisturbed, Started, OneLive, Reconciling
  <2>3. CASE CompleteMigration(s)
        BY <1>1, <2>3 DEF CompleteMigration, Update, GoTo, rowVars, fileVars, Goal, Types,
           Moved, Reconciling
  <2>4. CASE BeginOperation(s) \/ EndOperation(s) \/ (\E r \in Roots : Preflight(s, r))
             \/ AnnounceMigration(s) \/ ServerOpens(s) \/ FinalizeLooks(s)
             \/ FinalizeHandsOver(s) \/ ServerStops(s)
        BY <2>4, <1>u DEF BeginOperation, EndOperation, Preflight, AnnounceMigration,
           ServerOpens, FinalizeLooks, FinalizeHandsOver, ServerStops, rowVars, fileVars, GoTo
  <2> QED BY <1>1, <2>1, <2>2, <2>3, <2>4 DEF ServerTurn
<1>2. ASSUME NEW s \in Servers, SupervisorTurn(s) PROVE Goal
  <2>1. CASE SupervisorFails(s)
        BY <1>2, <2>1 DEF SupervisorFails, Update, Turn, fileVars, Goal, Types, Moved, Attended
  <2>2. CASE ReserveLaunch(s) \/ Spawn(s) \/ LaunchFails(s) \/ ParentAdopts(s)
             \/ (\E j \in Launches : Reap(s, j)) \/ SupervisorLifts(s)
        BY <2>2, <1>u DEF ReserveLaunch, Spawn, LaunchFails, ParentAdopts, Reap,
           SupervisorLifts, Turn, fileVars, rowVars, Adopt
  <2> QED BY <1>2, <2>1, <2>2 DEF SupervisorTurn
<1>3. ASSUME NEW k \in Launches, WorkerTurn(k) PROVE Goal
  <2>1. CASE WorkerQuiesces(k)
        BY <1>3, <2>1 DEF WorkerQuiesces, Update, Step, fileVars, Goal, Types, Moved, AtWork,
           Working
  <2>2. CASE PrepareDestination(k)
        BY <1>3, <2>2 DEF PrepareDestination, Update, Goal, Types, Moved, AtWork, Working
  <2>3. CASE CopyRoot(k)
        BY <1>3, <2>3 DEF CopyRoot, Update, Step, Goal, Types, Moved, AtWork, Working
  <2>4. CASE DeclareSwitching(k)
        BY <1>3, <2>4 DEF DeclareSwitching, Update, Step, fileVars, Goal, Types, Moved, AtWork,
           Working
  <2>5. CASE ReplacePointer(k)
        BY <1>3, <2>5 DEF ReplacePointer, Step, rowVars, Goal, Types, Moved, OneLive, Live,
           AtWork
  <2>6. CASE RequireRestart(k)
        BY <1>3, <2>6 DEF RequireRestart, Update, Step, fileVars, Goal, Types, Moved, AtWork,
           Working
  <2>7. CASE WorkerOpens(k) \/ WorkerAdopts(k) \/ WorkerEnters(k) \/ TakeLease(k)
             \/ VerifyCopy(k) \/ FlagRestart(k) \/ SyncPointer(k) \/ FlagAgain(k)
        BY <2>7, <1>u DEF WorkerOpens, WorkerAdopts, WorkerEnters, TakeLease, VerifyCopy,
           FlagRestart, SyncPointer, FlagAgain, rowVars, fileVars, Step, Adopt
  <2> QED BY <1>3, <2>1, <2>2, <2>3, <2>4, <2>5, <2>6, <2>7 DEF WorkerTurn
<1>4. ASSUME NEW k \in Launches, UnwindTurn(k) PROVE Goal
  <2>1. CASE RequireForward(k)
        BY <1>4, <2>1 DEF RequireForward, Update, Step, fileVars, Goal, Types, Moved
  <2>2. CASE RecordOutcome(k)
        BY <1>4, <2>2 DEF RecordOutcome, Update, Step, fileVars, Goal, Types, Moved, AtWork,
           Live, Unwinding, Pointed, OneLive
  <2>3. CASE WorkerCancels(k) \/ WorkerFails(k) \/ ErrorAfterSwitch(k) \/ FlagForward(k)
             \/ RollbackFiles(k) \/ RollbackMarker(k) \/ WorkerLifts(k) \/ WorkerCrashes(k)
        BY <2>3, <1>u DEF WorkerCancels, WorkerFails, ErrorAfterSwitch, FlagForward,
           RollbackFiles, RollbackMarker, WorkerLifts, WorkerCrashes, Leaves, rowVars, fileVars,
           Step
  <2> QED BY <1>4, <2>1, <2>2, <2>3 DEF UnwindTurn
<1>5. ASSUME NEW m \in Migrations, RequestCancel(m) \/ HeartbeatExpires(m) PROVE Goal
      BY <1>5, <1>u DEF RequestCancel, HeartbeatExpires, fileVars
<1> QED BY <1>1, <1>2, <1>3, <1>4, <1>5 DEF MigrationNext

\* A step keeps servers on the pointed root, or waiting for the restart.
LEMMA StartedNext ==
  ASSUME SyncFails = FALSE, PatientStarts = TRUE, WorkInv, MigrationNext
  PROVE  Started'
<1> USE InHand, MigrationConstants DEF BaseInv, WorkInv
<1> DEFINE Goal == Started'
<1> SUFFICES Goal
    OBVIOUS
<1>v. \A n \in Admitted : Moved(n) => Moved(n)'
      BY MovedStays
<1>u. ASSUME UNCHANGED <<status, source, destination, pointer, server, serverRoot, handles>>
             PROVE Goal
      BY <1>u DEF Goal, Started, Moved
<1>1. ASSUME NEW s \in Servers, ServerTurn(s) PROVE Goal
  <2>1. CASE StartMigration(s)
    <3>1. UNCHANGED <<at, moves, worker, processKnown, pointer>>
          BY <1>1, <2>1 DEF StartMigration, workerVars, fileVars
    <3>2. Newest + 1 \notin Admitted
          BY DEF Numbered
    <3>3. \A n \in Admitted : /\ status'[n] = status[n] /\ destination'[n] = destination[n]
                              /\ source'[n] = source[n]
          BY <3>2, <1>1, <2>1 DEF StartMigration, Types
    <3> QED BY <3>3, <1>v, <1>1, <2>1 DEF StartMigration, Goal, Started, Reached, Types,
            Reconciling
  <2>2. CASE AnnounceMigration(s)
        BY <1>1, <2>2, <1>v DEF AnnounceMigration, rowVars, fileVars, Goal, Started, Types,
           Reconciling
  <2>3. CASE ServerOpens(s)
        BY <1>1, <2>3, <1>v DEF ServerOpens, rowVars, fileVars, Goal, Started, Types,
           Reconciling
  <2>4. CASE FinalizeLooks(s)
        BY <1>1, <2>4, <1>v, FinalizationCases DEF FinalizeLooks, GoTo, rowVars, fileVars, Goal,
           Started, Types, Reconciling, Undisturbed, Moved
  <2>5. CASE RecoverSwitch(s)
        BY <1>1, <2>5, <1>v DEF RecoverSwitch, GoTo, rowVars, fileVars, Goal, Started, Types,
           Reconciling
  <2>6. CASE CompleteMigration(s)
        BY <1>1, <2>6, <1>v DEF CompleteMigration, Update, GoTo, rowVars, fileVars, Goal,
           Started, Types, Reconciling
  <2>7. CASE FinalizeHandsOver(s)
        BY <1>1, <2>7, <1>v DEF FinalizeHandsOver, GoTo, rowVars, fileVars, Goal, Started,
           Types, Reconciling
  <2>8. CASE ServerStops(s)
        BY <1>1, <2>8, <1>v DEF ServerStops, rowVars, fileVars, Goal, Started, Types,
           Reconciling
  <2>9. CASE BeginOperation(s) \/ EndOperation(s) \/ (\E r \in Roots : Preflight(s, r))
        BY <2>9, <1>u DEF BeginOperation, EndOperation, Preflight, rowVars, fileVars, serverVars
  <2> QED BY <1>1, <2>1, <2>2, <2>3, <2>4, <2>5, <2>6, <2>7, <2>8, <2>9 DEF ServerTurn
<1>2. ASSUME NEW s \in Servers, SupervisorTurn(s) PROVE Goal
  <2>1. CASE SupervisorFails(s)
        BY <1>2, <2>1, <1>v DEF SupervisorFails, Update, Turn, fileVars, serverVars, Goal,
           Started, Types, Reconciling
  <2>2. CASE ReserveLaunch(s) \/ Spawn(s) \/ LaunchFails(s) \/ ParentAdopts(s)
             \/ (\E j \in Launches : Reap(s, j)) \/ SupervisorLifts(s)
        BY <2>2, <1>u DEF ReserveLaunch, Spawn, LaunchFails, ParentAdopts, Reap,
           SupervisorLifts, Turn, fileVars, serverVars, rowVars, Adopt
  <2> QED BY <1>2, <2>1, <2>2 DEF SupervisorTurn
<1>3. ASSUME NEW k \in Launches, WorkerTurn(k) PROVE Goal
  <2>1. CASE WorkerQuiesces(k)
        BY <1>3, <2>1, <1>v DEF WorkerQuiesces, Update, Step, fileVars, serverVars, Goal,
           Started, Types, Reconciling
  <2>2. CASE PrepareDestination(k)
        BY <1>3, <2>2, <1>v DEF PrepareDestination, Update, serverVars, Goal, Started, Types,
           Reconciling
  <2>3. CASE CopyRoot(k)
        BY <1>3, <2>3, <1>v DEF CopyRoot, Update, Step, serverVars, Goal, Started, Types,
           Reconciling
  <2>4. CASE DeclareSwitching(k)
        BY <1>3, <2>4, <1>v DEF DeclareSwitching, Update, Step, fileVars, serverVars, Goal,
           Started, Types, Reconciling
  <2>5. CASE ReplacePointer(k)
        BY <1>3, <2>5, <1>v DEF ReplacePointer, Step, rowVars, serverVars, Goal, Started, Types,
           Reconciling
  <2>6. CASE RequireRestart(k)
        BY <1>3, <2>6, <1>v DEF RequireRestart, Update, Step, fileVars, serverVars, Goal,
           Started, Types, Reconciling
  <2>7. CASE WorkerOpens(k) \/ WorkerAdopts(k) \/ WorkerEnters(k) \/ TakeLease(k)
             \/ VerifyCopy(k) \/ FlagRestart(k) \/ SyncPointer(k) \/ FlagAgain(k)
        BY <2>7, <1>u DEF WorkerOpens, WorkerAdopts, WorkerEnters, TakeLease, VerifyCopy,
           FlagRestart, SyncPointer, FlagAgain, rowVars, fileVars, serverVars, Step, Adopt
  <2> QED BY <1>3, <2>1, <2>2, <2>3, <2>4, <2>5, <2>6, <2>7 DEF WorkerTurn
<1>4. ASSUME NEW k \in Launches, UnwindTurn(k) PROVE Goal
  <2>1. CASE RequireForward(k)
        BY <1>4, <2>1, <1>v DEF RequireForward, Update, Step, fileVars, serverVars, Goal,
           Started, Types, Reconciling
  <2>2. CASE RecordOutcome(k)
        BY <1>4, <2>2, <1>v DEF RecordOutcome, Update, Step, fileVars, serverVars, Goal,
           Started, Types, Reconciling
  <2>3. CASE WorkerCancels(k) \/ WorkerFails(k) \/ ErrorAfterSwitch(k) \/ FlagForward(k)
             \/ RollbackFiles(k) \/ RollbackMarker(k) \/ WorkerLifts(k) \/ WorkerCrashes(k)
        BY <2>3, <1>u DEF WorkerCancels, WorkerFails, ErrorAfterSwitch, FlagForward,
           RollbackFiles, RollbackMarker, WorkerLifts, WorkerCrashes, Leaves, rowVars, fileVars,
           serverVars, Step
  <2> QED BY <1>4, <2>1, <2>2, <2>3 DEF UnwindTurn
<1>5. ASSUME NEW m \in Migrations, RequestCancel(m) \/ HeartbeatExpires(m) PROVE Goal
      BY <1>5, <1>u DEF RequestCancel, HeartbeatExpires, fileVars, serverVars
<1> QED BY <1>1, <1>2, <1>3, <1>4, <1>5 DEF MigrationNext

\* A step keeps the pointed root whole with every write, and the copy that will be next.
LEMMA WholeNext ==
  ASSUME SyncFails = FALSE, PatientStarts = TRUE, WorkInv, Whole, MigrationNext
  PROVE  Whole'
<1> USE InHand, MigrationConstants DEF BaseInv, WorkInv
<1> DEFINE Goal == Whole'
<1> SUFFICES Goal
    OBVIOUS
<1>u. ASSUME UNCHANGED <<destination, pointer, whole, writes, at, moves>> PROVE Goal
      BY <1>u DEF Goal, Whole
<1>1. ASSUME NEW s \in Servers, ServerTurn(s) PROVE Goal
  <2>1. CASE EndOperation(s)
        BY <1>1, <2>1 DEF EndOperation, rowVars, workerVars, Goal, Whole, Types, Reached,
           Copied, Leased, Exclusive
  <2>2. CASE StartMigration(s)
    <3>1. UNCHANGED <<at, moves, worker, processKnown, pointer>>
          BY <1>1, <2>2 DEF StartMigration, workerVars, fileVars
    <3>2. Newest + 1 \notin Admitted
          BY DEF Numbered
    <3>3. \A n \in Admitted : /\ status'[n] = status[n] /\ destination'[n] = destination[n]
                              /\ source'[n] = source[n]
          BY <3>2, <1>1, <2>2 DEF StartMigration, Types
    <3>4. UNCHANGED <<whole, writes>>
          BY <1>1, <2>2 DEF StartMigration, fileVars
    <3>5. \A k \in Launches : at[k] \in Copied => moves[k] \in Admitted
          BY InHand DEF Copied
    <3> QED BY <3>1, <3>3, <3>4, <3>5 DEF Goal, Whole
  <2>3. CASE BeginOperation(s) \/ (\E r \in Roots : Preflight(s, r)) \/ AnnounceMigration(s)
             \/ ServerOpens(s) \/ FinalizeLooks(s) \/ RecoverSwitch(s) \/ CompleteMigration(s)
             \/ FinalizeHandsOver(s) \/ ServerStops(s)
        BY <2>3, <1>u DEF BeginOperation, Preflight, AnnounceMigration, ServerOpens,
           FinalizeLooks, RecoverSwitch, CompleteMigration, FinalizeHandsOver, ServerStops,
           rowVars, fileVars, workerVars, GoTo, Update
  <2> QED BY <1>1, <2>1, <2>2, <2>3 DEF ServerTurn
<1>2. ASSUME NEW s \in Servers, SupervisorTurn(s) PROVE Goal
  <2>1. CASE ReserveLaunch(s)
    <3>1. \A k \in Launches : at[k] \in Copied => moves'[k] = moves[k]
          BY <1>2, <2>1 DEF ReserveLaunch, Types, Reached, Copied
    <3>2. UNCHANGED <<pointer, whole, writes, at, destination>>
          BY <1>2, <2>1 DEF ReserveLaunch, fileVars
    <3> QED BY <3>1, <3>2 DEF Goal, Whole
  <2>2. CASE Spawn(s)
        BY <1>2, <2>2 DEF Spawn, Turn, rowVars, fileVars, Goal, Whole, Types, Reached, Copied
  <2>3. CASE LaunchFails(s) \/ ParentAdopts(s) \/ (\E j \in Launches : Reap(s, j))
             \/ SupervisorFails(s) \/ SupervisorLifts(s)
        BY <2>3, <1>u DEF LaunchFails, ParentAdopts, Reap, SupervisorFails, SupervisorLifts,
           Turn, rowVars, fileVars, workerVars, Adopt, Update
  <2> QED BY <1>2, <2>1, <2>2, <2>3 DEF SupervisorTurn
<1>3. ASSUME NEW k \in Launches, WorkerTurn(k) PROVE Goal
  <2>1. CASE WorkerOpens(k)
        BY <1>3, <2>1 DEF WorkerOpens, rowVars, fileVars, Goal, Whole, Types, Reached, Copied
  <2>2. CASE WorkerAdopts(k)
        BY <1>3, <2>2 DEF WorkerAdopts, Step, Adopt, Holds, rowVars, fileVars, Goal, Whole,
           Types, Reached, Copied
  <2>3. CASE WorkerEnters(k)
        BY <1>3, <2>3 DEF WorkerEnters, Step, rowVars, fileVars, Goal, Whole, Types, Reached,
           Copied
  <2>4. CASE WorkerQuiesces(k)
        BY <1>3, <2>4 DEF WorkerQuiesces, Update, Step, fileVars, Goal, Whole, Types, Reached,
           Copied
  <2>5. CASE TakeLease(k)
        BY <1>3, <2>5 DEF TakeLease, Step, rowVars, fileVars, Goal, Whole, Types, Reached,
           Copied
  <2>6. CASE PrepareDestination(k)
        BY <1>3, <2>6 DEF PrepareDestination, Update, Goal, Whole, Types, Reached, Copied
  <2>7. CASE CopyRoot(k)
        BY <1>3, <2>7 DEF CopyRoot, Update, Step, Goal, Whole, Types, Reached, Copied, Leased,
           Exclusive, Pointed, Working, OneLive
  <2>8. CASE VerifyCopy(k)
        BY <1>3, <2>8 DEF VerifyCopy, Step, rowVars, fileVars, Goal, Whole, Types, Reached,
           Copied
  <2>9. CASE DeclareSwitching(k)
        BY <1>3, <2>9 DEF DeclareSwitching, Update, Step, fileVars, Goal, Whole, Types, Reached,
           Copied
  <2>10. CASE FlagRestart(k)
        BY <1>3, <2>10 DEF FlagRestart, Step, rowVars, fileVars, Goal, Whole, Types, Reached,
           Copied
  <2>11. CASE ReplacePointer(k)
        BY <1>3, <2>11 DEF ReplacePointer, Step, rowVars, Goal, Whole, Types, Reached, Copied,
           Leased, Exclusive
  <2>12. CASE SyncPointer(k)
        BY <1>3, <2>12 DEF SyncPointer, Step, rowVars, fileVars, Goal, Whole, Types, Reached,
           Copied
  <2>13. CASE RequireRestart(k)
        BY <1>3, <2>13 DEF RequireRestart, Update, Step, fileVars, Goal, Whole, Types, Reached,
           Copied
  <2>14. CASE FlagAgain(k)
        BY <1>3, <2>14 DEF FlagAgain, rowVars, fileVars, Goal, Whole, Types, Reached, Copied
  <2> QED BY <1>3, <2>1, <2>2, <2>3, <2>4, <2>5, <2>6, <2>7, <2>8, <2>9, <2>10, <2>11, <2>12,
          <2>13, <2>14 DEF WorkerTurn
<1>4. ASSUME NEW k \in Launches, UnwindTurn(k) PROVE Goal
  <2>1. CASE WorkerCancels(k)
        BY <1>4, <2>1 DEF WorkerCancels, Leaves, rowVars, fileVars, Goal, Whole, Types, Reached,
           Copied
  <2>2. CASE WorkerFails(k)
        BY <1>4, <2>2 DEF WorkerFails, Leaves, rowVars, fileVars, Goal, Whole, Types, Reached,
           Copied
  <2>3. CASE ErrorAfterSwitch(k)
        BY <1>4, <2>3 DEF ErrorAfterSwitch, Leaves, rowVars, fileVars, Goal, Whole, Types,
           Reached, Copied
  <2>4. CASE FlagForward(k)
        BY <1>4, <2>4 DEF FlagForward, Step, rowVars, fileVars, Goal, Whole, Types, Reached,
           Copied
  <2>5. CASE RequireForward(k)
        BY <1>4, <2>5 DEF RequireForward, Update, Step, fileVars, Goal, Whole, Types, Reached,
           Copied
  <2>6. CASE RollbackFiles(k)
        BY <1>4, <2>6 DEF RollbackFiles, Step, rowVars, Goal, Whole, Types, Reached, Copied,
           AtWork, Bound, Exclusive, Unwinding, Working, Live, OneLive, Pointed
  <2>7. CASE RollbackMarker(k)
        BY <1>4, <2>7 DEF RollbackMarker, Step, rowVars, Goal, Whole, Types, Reached, Copied
  <2>8. CASE RecordOutcome(k)
        BY <1>4, <2>8 DEF RecordOutcome, Update, Step, fileVars, Goal, Whole, Types, Reached,
           Copied
  <2>9. CASE WorkerLifts(k)
        BY <1>4, <2>9 DEF WorkerLifts, Step, rowVars, fileVars, Goal, Whole, Types, Reached,
           Copied
  <2>10. CASE WorkerCrashes(k)
        BY <1>4, <2>10 DEF WorkerCrashes, Leaves, rowVars, fileVars, Goal, Whole, Types,
           Reached, Copied
  <2> QED BY <1>4, <2>1, <2>2, <2>3, <2>4, <2>5, <2>6, <2>7, <2>8, <2>9, <2>10 DEF UnwindTurn
<1>5. ASSUME NEW m \in Migrations, RequestCancel(m) \/ HeartbeatExpires(m) PROVE Goal
      BY <1>5, <1>u DEF RequestCancel, HeartbeatExpires, fileVars, workerVars
<1> QED BY <1>1, <1>2, <1>3, <1>4, <1>5 DEF MigrationNext

\* With one migration a step keeps what a start will find in agreement.
LEMMA SingleNext ==
  ASSUME SyncFails = FALSE, PatientStarts = TRUE, MaxMigrations <= 1,
         WorkInv, Single, MigrationNext
  PROVE  Single'
<1> USE InHand, MigrationConstants DEF BaseInv, WorkInv
<1>o. \A m, n \in Migrations : m = n
      BY DEF Migrations
<1>v. \A n \in Admitted : Moved(n) => Moved(n)'
      BY MovedStays
<1> DEFINE Goal == Single'
<1> SUFFICES Goal
    OBVIOUS
<1>u. ASSUME UNCHANGED <<status, source, destination, pointer, marker, server, serverRoot, at,
             moves>> PROVE Goal
      BY <1>u DEF Goal, Single, Moved, StartIsNeverRefused
<1>1. ASSUME NEW s \in Servers, ServerTurn(s) PROVE Goal
  <2>1. CASE StartMigration(s)
        BY <1>1, <2>1, <1>o DEF StartMigration, fileVars, workerVars, Goal, Single,
           StartIsNeverRefused, Types, Reached, Copied, Moved, Admitted, Numbered, Closed, Ended
  <2>2. CASE ServerOpens(s)
        BY <1>1, <2>2, <1>o, <1>v DEF ServerOpens, rowVars, fileVars, workerVars, Goal, Single,
           StartIsNeverRefused, Types, Reached, Copied, Moved, Admitted
  <2>3. CASE FinalizeLooks(s)
        BY <1>1, <2>3, <1>o, <1>v, FinalizationCases DEF FinalizeLooks, GoTo, rowVars, fileVars,
           workerVars, Goal, Single, StartIsNeverRefused, Types, Reached, Copied, Moved,
           Admitted, Undisturbed, Closed, Ended
  <2>4. CASE RecoverSwitch(s)
        BY <1>1, <2>4, <1>o, <1>v DEF RecoverSwitch, GoTo, rowVars, fileVars, workerVars, Goal,
           Single, StartIsNeverRefused, Types, Reached, Copied, Moved, Admitted, Reconciling
  <2>5. CASE CompleteMigration(s)
        BY <1>1, <2>5, <1>o, <1>v DEF CompleteMigration, Update, GoTo, rowVars, fileVars,
           workerVars, Goal, Single, StartIsNeverRefused, Types, Reached, Copied, Moved,
           Admitted, Started, Reconciling
  <2>6. CASE FinalizeHandsOver(s)
        BY <1>1, <2>6, <1>o, <1>v DEF FinalizeHandsOver, GoTo, rowVars, fileVars, workerVars,
           Goal, Single, StartIsNeverRefused, Types, Reached, Copied, Moved, Admitted
  <2>7. CASE ServerStops(s)
        BY <1>1, <2>7, <1>o, <1>v DEF ServerStops, rowVars, fileVars, workerVars, Goal, Single,
           StartIsNeverRefused, Types, Reached, Copied, Moved, Admitted
  <2>8. CASE BeginOperation(s) \/ EndOperation(s) \/ (\E r \in Roots : Preflight(s, r))
             \/ AnnounceMigration(s)
        BY <2>8, <1>u DEF BeginOperation, EndOperation, Preflight, AnnounceMigration, rowVars,
           fileVars, serverVars, workerVars
  <2> QED BY <1>1, <2>1, <2>2, <2>3, <2>4, <2>5, <2>6, <2>7, <2>8 DEF ServerTurn
<1>2. ASSUME NEW s \in Servers, SupervisorTurn(s) PROVE Goal
  <2>1. CASE ReserveLaunch(s)
        BY <1>2, <2>1, <1>o, <1>v DEF ReserveLaunch, Turn, fileVars, serverVars, Goal, Single,
           StartIsNeverRefused, Types, Reached, Copied, Moved, Admitted, Numbered
  <2>2. CASE Spawn(s)
        BY <1>2, <2>2, <1>o, <1>v DEF Spawn, Turn, rowVars, fileVars, serverVars, Goal, Single,
           StartIsNeverRefused, Types, Reached, Copied, Moved, Admitted
  <2>3. CASE SupervisorFails(s)
        BY <1>2, <2>3, <1>o, <1>v DEF SupervisorFails, Update, Turn, fileVars, serverVars,
           workerVars, Goal, Single, StartIsNeverRefused, Types, Reached, Copied, Moved,
           Admitted, Attended
  <2>4. CASE LaunchFails(s) \/ ParentAdopts(s) \/ (\E j \in Launches : Reap(s, j))
             \/ SupervisorLifts(s)
        BY <2>4, <1>u DEF LaunchFails, ParentAdopts, Reap, SupervisorLifts, Turn, rowVars,
           fileVars, serverVars, workerVars, Adopt
  <2> QED BY <1>2, <2>1, <2>2, <2>3, <2>4 DEF SupervisorTurn
<1>3. ASSUME NEW k \in Launches, WorkerTurn(k) PROVE Goal
  <2>1. CASE WorkerOpens(k)
        BY <1>3, <2>1, <1>o, <1>v DEF WorkerOpens, rowVars, fileVars, serverVars, Goal, Single,
           StartIsNeverRefused, Types, Reached, Copied, Moved, Admitted
  <2>2. CASE WorkerAdopts(k)
        BY <1>3, <2>2, <1>o, <1>v DEF WorkerAdopts, Step, Adopt, Holds, rowVars, fileVars,
           serverVars, Goal, Single, StartIsNeverRefused, Types, Reached, Copied, Moved,
           Admitted
  <2>3. CASE WorkerEnters(k)
        BY <1>3, <2>3, <1>o, <1>v DEF WorkerEnters, Step, rowVars, fileVars, serverVars, Goal,
           Single, StartIsNeverRefused, Types, Reached, Copied, Moved, Admitted
  <2>4. CASE WorkerQuiesces(k)
        BY <1>3, <2>4, <1>o, <1>v DEF WorkerQuiesces, Update, Step, fileVars, serverVars, Goal,
           Single, StartIsNeverRefused, Types, Reached, Copied, Moved, Admitted
  <2>5. CASE TakeLease(k)
        BY <1>3, <2>5, <1>o, <1>v DEF TakeLease, Step, rowVars, fileVars, serverVars, Goal,
           Single, StartIsNeverRefused, Types, Reached, Copied, Moved, Admitted
  <2>6. CASE PrepareDestination(k)
        BY <1>3, <2>6, <1>o, <1>v DEF PrepareDestination, Update, serverVars, Goal, Single,
           StartIsNeverRefused, Types, Reached, Copied, Moved, Admitted
  <2>7. CASE CopyRoot(k)
        BY <1>3, <2>7, <1>o, <1>v DEF CopyRoot, Update, Step, serverVars, Goal, Single,
           StartIsNeverRefused, Types, Reached, Copied, Moved, Admitted
  <2>8. CASE VerifyCopy(k)
        BY <1>3, <2>8, <1>o, <1>v DEF VerifyCopy, Step, rowVars, fileVars, serverVars, Goal,
           Single, StartIsNeverRefused, Types, Reached, Copied, Moved, Admitted
  <2>9. CASE DeclareSwitching(k)
        BY <1>3, <2>9, <1>o, <1>v DEF DeclareSwitching, Update, Step, fileVars, serverVars,
           Goal, Single, StartIsNeverRefused, Types, Reached, Copied, Moved, Admitted, Pointed,
           OneLive
  <2>10. CASE FlagRestart(k)
        BY <1>3, <2>10, <1>o, <1>v DEF FlagRestart, Step, rowVars, fileVars, serverVars, Goal,
           Single, StartIsNeverRefused, Types, Reached, Copied, Moved, Admitted
  <2>11. CASE ReplacePointer(k)
        BY <1>3, <2>11, <1>o, <1>v DEF ReplacePointer, Step, rowVars, serverVars, Goal, Single,
           StartIsNeverRefused, Types, Reached, Copied, Moved, Admitted, AtWork
  <2>12. CASE SyncPointer(k)
        BY <1>3, <2>12, <1>o, <1>v DEF SyncPointer, Step, rowVars, fileVars, serverVars, Goal,
           Single, StartIsNeverRefused, Types, Reached, Copied, Moved, Admitted
  <2>13. CASE RequireRestart(k)
        BY <1>3, <2>13, <1>o, <1>v DEF RequireRestart, Update, Step, fileVars, serverVars, Goal,
           Single, StartIsNeverRefused, Types, Reached, Copied, Moved, Admitted, AtWork, Pointed
  <2>14. CASE FlagAgain(k)
        BY <1>3, <2>14, <1>o, <1>v DEF FlagAgain, rowVars, fileVars, serverVars, Goal, Single,
           StartIsNeverRefused, Types, Reached, Copied, Moved, Admitted
  <2> QED BY <1>3, <2>1, <2>2, <2>3, <2>4, <2>5, <2>6, <2>7, <2>8, <2>9, <2>10, <2>11, <2>12,
          <2>13, <2>14 DEF WorkerTurn
<1>4. ASSUME NEW k \in Launches, UnwindTurn(k) PROVE Goal
  <2>1. CASE WorkerCancels(k)
        BY <1>4, <2>1, <1>o, <1>v DEF WorkerCancels, Leaves, rowVars, fileVars, serverVars,
           Goal, Single, StartIsNeverRefused, Types, Reached, Copied, Moved, Admitted
  <2>2. CASE WorkerFails(k)
        BY <1>4, <2>2, <1>o, <1>v DEF WorkerFails, Leaves, rowVars, fileVars, serverVars, Goal,
           Single, StartIsNeverRefused, Types, Reached, Copied, Moved, Admitted
  <2>3. CASE ErrorAfterSwitch(k)
        BY <1>4, <2>3, <1>o, <1>v DEF ErrorAfterSwitch, Leaves, rowVars, fileVars, serverVars,
           Goal, Single, StartIsNeverRefused, Types, Reached, Copied, Moved, Admitted
  <2>4. CASE FlagForward(k)
        BY <1>4, <2>4, <1>o, <1>v DEF FlagForward, Step, rowVars, fileVars, serverVars, Goal,
           Single, StartIsNeverRefused, Types, Reached, Copied, Moved, Admitted
  <2>5. CASE RequireForward(k)
        BY <1>4, <2>5, <1>o, <1>v DEF RequireForward, Update, Step, fileVars, serverVars, Goal,
           Single, StartIsNeverRefused, Types, Reached, Copied, Moved, Admitted, AtWork
  <2>6. CASE RollbackFiles(k)
        BY <1>4, <2>6, <1>o, <1>v DEF RollbackFiles, Step, rowVars, serverVars, Goal, Single,
           StartIsNeverRefused, Types, Reached, Copied, Moved, Admitted
  <2>7. CASE RollbackMarker(k)
        BY <1>4, <2>7, <1>o, <1>v DEF RollbackMarker, Step, rowVars, serverVars, Goal, Single,
           StartIsNeverRefused, Types, Reached, Copied, Moved, Admitted, AtWork, Bound,
           Exclusive, Unwinding, Working, Live, Pointed, OneLive
  <2>8. CASE RecordOutcome(k)
        BY <1>4, <2>8, <1>o, <1>v DEF RecordOutcome, Update, Step, fileVars, serverVars, Goal,
           Single, StartIsNeverRefused, Types, Reached, Copied, Moved, Admitted
  <2>9. CASE WorkerLifts(k)
        BY <1>4, <2>9, <1>o, <1>v DEF WorkerLifts, Step, rowVars, fileVars, serverVars, Goal,
           Single, StartIsNeverRefused, Types, Reached, Copied, Moved, Admitted
  <2>10. CASE WorkerCrashes(k)
        BY <1>4, <2>10, <1>o, <1>v DEF WorkerCrashes, Leaves, rowVars, fileVars, serverVars,
           Goal, Single, StartIsNeverRefused, Types, Reached, Copied, Moved, Admitted
  <2> QED BY <1>4, <2>1, <2>2, <2>3, <2>4, <2>5, <2>6, <2>7, <2>8, <2>9, <2>10 DEF UnwindTurn
<1>5. ASSUME NEW m \in Migrations, RequestCancel(m) \/ HeartbeatExpires(m) PROVE Goal
      BY <1>5, <1>u DEF RequestCancel, HeartbeatExpires, fileVars, serverVars, workerVars
<1> QED BY <1>1, <1>2, <1>3, <1>4, <1>5 DEF MigrationNext

-----------------------------------------------------------------------------
(* The invariants hold. *)

\* The invariant of the work holds when nothing has been asked yet.
LEMMA WorkInit == Init => WorkInv
<1> SUFFICES ASSUME Init PROVE WorkInv
    OBVIOUS
<1> USE MigrationConstants DEF Init
<1>1. \A k \in Launches : at[k] = "none" /\ moves[k] = None /\ k \notin owns
      OBVIOUS
<1>2. \A s \in Servers : thread[s] = "none" /\ hand[s] = None /\ tracked[s] = {} /\ server[s] = "down"
      OBVIOUS
<1>3. \A m \in Migrations : status[m] = "absent"
      OBVIOUS
<1>4. OneLive /\ AtWork
      BY <1>1, <1>3 DEF OneLive, Live, Admitted, AtWork, Bound, Exclusive, Working, Unwinding
<1>5. Attended
      BY <1>2 DEF Attended
<1>6. Pointed /\ Started
      BY <1>1, <1>2 DEF Pointed, Started, Working, Copied, Unwinding
<1> QED BY <1>4, <1>5, <1>6, BaseInit DEF WorkInv

\* Every step keeps the invariant of the work.
LEMMA WorkNext ==
  ASSUME SyncFails = FALSE, PatientStarts = TRUE, WorkInv, [MigrationNext]_vars
  PROVE  WorkInv'
<1>1. CASE MigrationNext
      BY <1>1, BaseNext, OneLiveNext, AttendedNext, AtWorkNext, PointedNext, StartedNext DEF WorkInv
<1>2. CASE UNCHANGED vars
  <2>1. BaseInv'
        BY <1>2, BaseNext DEF WorkInv
  <2> QED BY <1>2, <2>1 DEF vars, rowVars, controlVars, fileVars, leaseVars, serverVars,
          threadVars,
         workerVars, WorkInv, OneLive, Live, Moved, Admitted, Attended, AtWork, Pointed, Started
<1> QED BY <1>1, <1>2

\* The first root is whole and has all that was ever written.
LEMMA WholeInit == Init => Whole
BY MigrationConstants DEF Init, Whole, Copied

\* At first nothing contradicts a start.
LEMMA SingleInit == Init => Single
BY MigrationConstants DEF Init, Single, Moved, Copied, StartIsNeverRefused

\* The invariant of types, numbers, hands and the lease holds whatever fails and whenever a
\* server starts.
THEOREM MigrationBase == MigrationSpec => []BaseInv
BY BaseInit, BaseNext, PTL DEF MigrationSpec

\* Every variable keeps its type, and only a live worker holds the lease exclusively, next to
\* no operation: for any number of servers, roots, migrations and workers.
THEOREM MigrationTypeCorrect == MigrationSpec => []MigrationTypeOK
<1>1. ASSUME BaseInv PROVE MigrationTypeOK
  <2>1. lease # None => at[lease] \in Exclusive
        BY <1>1 DEF BaseInv, Types, Leased
  <2>2. Admitted \subseteq Migrations
        BY DEF Admitted
  <2> QED BY <1>1, <2>1, <2>2 DEF BaseInv, Types, Leased, MigrationTypeOK, Alive, Exclusive
<1> QED BY <1>1, MigrationBase, PTL

\* No operation is ever under way on a root the pointer does not name, also where the sync
\* fails and servers start at any moment (shared).
THEOREM OperationsStayOnPointedRoot == MigrationSpec => []OperationsAreOnPointedRoot
<1>1. BaseInv => OperationsAreOnPointedRoot
      BY DEF BaseInv, Leased, OperationsAreOnPointedRoot
<1> QED BY <1>1, MigrationBase, PTL

\* Where syncing succeeds and starts are patient: one migration is live, its reservation is
\* that of the worker at work, rows say how far it is, and until it has replaced the pointer
\* the pointer names what it found.
THEOREM MigrationWork ==
  ASSUME SyncFails = FALSE, PatientStarts = TRUE
  PROVE  MigrationSpec => []WorkInv
<1>1. WorkInv /\ [MigrationNext]_vars => WorkInv'
      BY WorkNext
<1> QED BY <1>1, WorkInit, PTL DEF MigrationSpec

\* Two workers never have a destination in hand, whatever crashes, stops and stale
\* reservations come between (reserve_worker_launch, adopt_reserved_worker).
THEOREM OneWorkerHasADestination ==
  ASSUME SyncFails = FALSE, PatientStarts = TRUE
  PROVE  MigrationSpec => []OneWorkerPerDestination
<1>1. ASSUME WorkInv PROVE OneWorkerPerDestination
  <2>1. SUFFICES ASSUME NEW j \in AtDestination, NEW k \in AtDestination PROVE j = k
        BY DEF OneWorkerPerDestination
  <2>2. /\ j \in Launches /\ k \in Launches
        /\ at[j] \in Bound /\ at[k] \in Bound
        BY <1>1 DEF AtDestination, WorkInv, BaseInv, Types, Bound, Exclusive
  <2>3. Live(moves[j]) /\ Live(moves[k])
        BY <1>1, <2>2 DEF AtDestination, WorkInv, AtWork, Working, Unwinding, Live
  <2>4. moves[j] \in Migrations /\ moves[k] \in Migrations
        BY <1>1, <2>2, InHand DEF WorkInv, BaseInv, Bound, Exclusive
  <2> QED BY <1>1, <2>2, <2>3, <2>4 DEF WorkInv, OneLive, AtWork
<1> QED BY <1>1, MigrationWork, PTL

\* What a rollback, a crash or a retry leaves: the pointer's root whole and with every write,
\* and so the copy that is about to become it.
THEOREM WholeHolds ==
  ASSUME SyncFails = FALSE, PatientStarts = TRUE
  PROVE  MigrationSpec => []Whole
<1>1. WorkInv /\ Whole /\ [MigrationNext]_vars => Whole'
  <2>1. ASSUME UNCHANGED vars, Whole PROVE Whole'
        BY <2>1 DEF vars, rowVars, fileVars, workerVars, Whole
  <2> QED BY <2>1, WholeNext
<1> QED BY <1>1, WholeInit, MigrationWork, PTL DEF MigrationSpec

\* The root the pointer names is always whole: no rollback removes it and no switch goes to a
\* copy that was not verified (_switch_pointer, _rollback).
THEOREM PointedRootsAreWhole ==
  ASSUME SyncFails = FALSE, PatientStarts = TRUE
  PROVE  MigrationSpec => []PointedRootIsWhole
<1>1. Whole => PointedRootIsWhole
      BY DEF Whole, PointedRootIsWhole
<1> QED BY <1>1, WholeHolds, PTL

\* What has been written to a root that is there is in the root the pointer names: no write
\* slips in between copy and switch, for any number of operations (shared, exclusive).
THEOREM NoWritesAreLeftBehind ==
  ASSUME SyncFails = FALSE, PatientStarts = TRUE
  PROVE  MigrationSpec => []NoWriteIsLeftBehind
<1>1. Whole => NoWriteIsLeftBehind
      BY DEF Whole, NoWriteIsLeftBehind
<1> QED BY <1>1, WholeHolds, PTL

\* With one migration no start is refused: what its row says never contradicts the pointer,
\* however crashes, rollbacks and recoveries fall (finalize_migration_after_restart).
THEOREM NoStartIsRefused ==
  ASSUME SyncFails = FALSE, PatientStarts = TRUE, MaxMigrations <= 1
  PROVE  MigrationSpec => []StartIsNeverRefused
<1>1. WorkInv /\ Single /\ [MigrationNext]_vars => Single'
  <2>1. ASSUME UNCHANGED vars, Single PROVE Single'
        BY <2>1 DEF vars, rowVars, fileVars, serverVars, workerVars, Single, Moved, StartIsNeverRefused
  <2> QED BY <2>1, SingleNext
<1>2. Single => StartIsNeverRefused
      BY DEF Single
<1> QED BY <1>1, <1>2, SingleInit, MigrationWork, PTL DEF MigrationSpec
=============================================================================
