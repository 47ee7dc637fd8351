------------------------------ MODULE RenderFiles ------------------------------
(***************************************************************************)
(* The managed masters of render variants next to their rows in            *)
(* ManagedStore.  A render worker produces a candidate in a staging        *)
(* directory, moves the previous master and cover aside, moves its own     *)
(* into place, records the master's digest with the completion, and on any *)
(* error puts the previous files back.  Readers compare the file with what *)
(* the row recorded when they read it and condemn the variant when the two *)
(* differ.  A stream verifies the descriptor it has opened and plays from  *)
(* it, under a media lock that the deletion of the variant by the same     *)
(* server waits for.  Another server has locks of its own, and the         *)
(* deletion of the run or of the project takes none.                       *)
(*                                                                         *)
(* A file is known by the attempt that wrote it, or is Damaged.  The       *)
(* digest of a master stands for the file, so the row records an attempt.  *)
(***************************************************************************)
EXTENDS ManagedStore

CONSTANTS
  RenderedRun, RenderedEdit,  \* the completed run and its initial edit
  Servers,                    \* processes with a RendersService
  Readers,                    \* requests that read a master
  ServerOf,                   \* the server each request is made to
  Damage                      \* whether files change outside the application

ASSUME RendersAssumption ==
  /\ RenderedRun \in Runs /\ RenderedEdit \in Edits /\ EditRun[RenderedEdit] = RenderedRun
  /\ MaxAttempts >= 1
  /\ Nil \notin 0..MaxAttempts /\ Nil \notin Readers
  /\ ServerOf \in [Readers -> Servers]
  /\ Readers \cap Variants = {}
  /\ Damage \in BOOLEAN

VARIABLES
  master,      \* what master.mp4 is: an attempt's file, Damaged or Nil
  cover,       \* what cover.jpg is
  recorded,    \* render_variants.master_sha256: the attempt recorded, or Nil
  working,     \* where each attempt's worker is
  renders,     \* the variant it renders
  candidate,   \* attempts whose staging directory holds a finished candidate
  oldMaster,   \* the previous master in the staging directory of each attempt
  oldCover,    \* the previous cover in it
  staging,     \* attempts that have a staging directory
  reading,     \* where each reader is
  reads,       \* the variant it reads
  saw,         \* the recorded master it saw
  stream,      \* the file behind the descriptor it has open, or Nil
  mediaLock,   \* _media_locks of each server: the reader or the variant that is deleted
  deleting,    \* where each server's RendersService.delete of each variant is
  cascade,     \* where the deletion of a variant's run or project is with it
  deletedVariants  \* variants whose row has been deleted

\* Any other content.
Damaged == 0

masterVars  == <<master, cover, recorded>>
stagingVars == <<candidate, oldMaster, oldCover, staging>>
renderVars  == <<working, renders, stagingVars>>
readerVars  == <<reading, reads, saw, stream>>
deleteVars  == <<mediaLock, deleting, cascade, deletedVariants>>
mediaVars   == <<vars, masterVars, renderVars, readerVars, deleteVars>>

\* A completed run with its edit: attempt 1 planned it.
RendersInit ==
  /\ projects = {RunProject[RenderedRun]}
  /\ runStatus = [r \in Runs |-> IF r = RenderedRun THEN "complete" ELSE "absent"]
  /\ editOrigin = [e \in Edits |-> IF e = RenderedEdit THEN "initial" ELSE "absent"]
  /\ variantStatus = [v \in Variants |-> "absent"]
  /\ checkpoint = [r \in Runs |-> Nil]
  /\ attOwner = [a \in Attempts |-> IF a = 1 THEN RenderedRun ELSE Nil]
  /\ attStatus = [a \in Attempts |-> IF a = 1 THEN "complete" ELSE "absent"]
  /\ attPin = [a \in Attempts |-> Nil]
  /\ jobStatus = attStatus
  /\ stopRequested = [a \in Attempts |-> FALSE]
  /\ jobWorker = [a \in Attempts |-> Nil]
  /\ heartbeat = [a \in Attempts |-> IF a = 1 THEN "fresh" ELSE "null"]
  /\ created = 1
  /\ master = [v \in Variants |-> Nil] /\ cover = master /\ recorded = master
  /\ working = [a \in Attempts |-> "none"]
  /\ renders = [a \in Attempts |-> Nil]
  /\ candidate = {} /\ staging = {}
  /\ oldMaster = [a \in Attempts |-> Nil] /\ oldCover = oldMaster
  /\ reading = [q \in Readers |-> "idle"]
  /\ reads = [q \in Readers |-> Nil] /\ saw = reads /\ stream = reads
  /\ mediaLock = [s \in Servers |-> [v \in Variants |-> Nil]]
  /\ deleting = [s \in Servers |-> [v \in Variants |-> "none"]]
  /\ cascade = [v \in Variants |-> "none"]
  /\ deletedVariants = {}

WorksOn(a, where) == working' = [working EXCEPT ![a] = where] /\ UNCHANGED renders
RendersNow(v) == \E a \in Attempts : renders[a] = v /\ working[a] \notin {"none", "gone", "crashed"}

-----------------------------------------------------------------------------
(* Requests for renders. *)

\* The preview or a chosen specification; the plan's frame rate is checked first.
RequestRender(v) ==
  /\ v \notin deletedVariants
  /\ CreateRenderVariant(v)
  /\ UNCHANGED <<masterVars, renderVars, readerVars, deleteVars>>

\* Retry, resume and render again.
Recover(v) ==
  /\ RetryRenderVariant(v)
  /\ UNCHANGED <<masterVars, renderVars, readerVars, deleteVars>>

StopRender(a) ==
  /\ attOwner[a] \in Variants
  /\ RequestStop(a)
  /\ UNCHANGED <<masterVars, renderVars, readerVars, deleteVars>>

-----------------------------------------------------------------------------
(* Render workers. *)

\* The claim, the checks of the variant, its plan and its materials, and the
\* staging directory in the variant's own.
RenderStarts(a) ==
  /\ working[a] = "none" /\ attOwner[a] \in Variants
  /\ \E w \in Workers : ClaimNextJob(a, w)
  /\ working' = [working EXCEPT ![a] = "preparing"]
  /\ renders' = [renders EXCEPT ![a] = attOwner[a]]
  /\ staging' = staging \cup {a}
  /\ UNCHANGED <<masterVars, candidate, oldMaster, oldCover, readerVars, deleteVars>>

\* Both consumption leases are held while the renderer works; the candidate and
\* its cover are in the staging directory, and the last look at the stop flag is
\* behind.
RenderProduces(a) ==
  /\ working[a] = "preparing" /\ attStatus[a] \in ClaimedStatuses /\ ~stopRequested[a]
  /\ WorksOn(a, "produced")
  /\ candidate' = candidate \cup {a}
  /\ UNCHANGED <<vars, masterVars, oldMaster, oldCover, staging, readerVars, deleteVars>>

\* The previous master, then the previous cover, go to the staging directory.
MoveAside(a) ==
  LET v == renders[a] IN
  /\ working[a] \in {"produced", "asideMaster"}
  /\ \/ /\ working[a] = "produced" /\ WorksOn(a, "asideMaster")
        /\ oldMaster' = [oldMaster EXCEPT ![a] = master[v]]
        /\ master' = [master EXCEPT ![v] = Nil]
        /\ UNCHANGED <<oldCover, cover>>
     \/ /\ working[a] = "asideMaster" /\ WorksOn(a, "aside")
        /\ oldCover' = [oldCover EXCEPT ![a] = cover[v]]
        /\ cover' = [cover EXCEPT ![v] = Nil]
        /\ UNCHANGED <<oldMaster, master>>
  /\ UNCHANGED <<vars, recorded, candidate, staging, readerVars, deleteVars>>

\* The candidate becomes the master, then its cover the cover.
MoveIn(a) ==
  LET v == renders[a] IN
  /\ \/ /\ working[a] = "aside" /\ WorksOn(a, "inMaster")
        /\ master' = [master EXCEPT ![v] = a] /\ UNCHANGED cover
     \/ /\ working[a] = "inMaster" /\ WorksOn(a, "in")
        /\ cover' = [cover EXCEPT ![v] = a] /\ UNCHANGED master
  /\ UNCHANGED <<vars, recorded, stagingVars, readerVars, deleteVars>>

\* Mutant: the row is completed before the files are in place.
CompleteBeforeMove(a) ==
  LET v == renders[a] IN
  /\ working[a] = "aside"
  /\ CompleteRenderVariant(v, a)
  /\ recorded' = [recorded EXCEPT ![v] = a]
  /\ WorksOn(a, "committed")
  /\ UNCHANGED <<master, cover, stagingVars, readerVars, deleteVars>>

\* complete: the file is digested and recorded with the end of the attempt.
RenderCompletes(a) ==
  LET v == renders[a] IN
  /\ working[a] = "in" /\ master[v] # Nil
  /\ CompleteRenderVariant(v, a)
  /\ recorded' = [recorded EXCEPT ![v] = master[v]]
  /\ WorksOn(a, "committed")
  /\ UNCHANGED <<master, cover, stagingVars, readerVars, deleteVars>>

\* The staging directory, with the previous files in it, goes last.
RemoveStaging(a) ==
  /\ working[a] \in {"committed", "cleaning"}
  /\ WorksOn(a, IF working[a] = "committed" THEN "gone" ELSE "ending")
  /\ candidate' = candidate \ {a} /\ staging' = staging \ {a}
  /\ oldMaster' = [oldMaster EXCEPT ![a] = Nil]
  /\ oldCover' = [oldCover EXCEPT ![a] = Nil]
  /\ UNCHANGED <<vars, masterVars, readerVars, deleteVars>>

\* An error at any step: a stop, a refused report, the renderer, the disk or the
\* completion.  What was published is unlinked, what was moved aside put back.
RenderFails(a) ==
  /\ working[a] \in {"preparing", "produced", "asideMaster", "aside", "inMaster", "in"}
  /\ WorksOn(a, CASE working[a] = "in" -> "undoIn"
                  [] working[a] = "inMaster" -> "undoMaster"
                  [] working[a] \in {"asideMaster", "aside"} -> "undoAside"
                  [] OTHER -> "cleaning")
  /\ UNCHANGED <<vars, masterVars, stagingVars, readerVars, deleteVars>>

\* Mutant: the roll-back leaves the new cover.
UndoMasterOnly(a) ==
  LET v == renders[a] IN
  /\ \/ /\ working[a] \in {"undoIn", "undoMaster"}
        /\ WorksOn(a, "undoAside")
        /\ master' = [master EXCEPT ![v] = Nil] /\ UNCHANGED cover
     \/ /\ working[a] = "undoAside"
        /\ WorksOn(a, "undoCover")
        /\ master' = [master EXCEPT ![v] = IF oldMaster[a] = Nil THEN @ ELSE oldMaster[a]]
        /\ UNCHANGED cover
     \/ /\ working[a] = "undoCover"
        /\ WorksOn(a, "cleaning")
        /\ UNCHANGED <<cover, master>>
  /\ UNCHANGED <<vars, recorded, stagingVars, readerVars, deleteVars>>

UndoPublication(a) ==
  LET v == renders[a] IN
  /\ \/ /\ working[a] \in {"undoIn", "undoMaster"}
        /\ WorksOn(a, IF working[a] = "undoIn" THEN "undoInCover" ELSE "undoAside")
        /\ master' = [master EXCEPT ![v] = Nil] /\ UNCHANGED cover
     \/ /\ working[a] = "undoInCover"
        /\ WorksOn(a, "undoAside")
        /\ cover' = [cover EXCEPT ![v] = Nil] /\ UNCHANGED master
     \/ /\ working[a] = "undoAside"
        /\ WorksOn(a, "undoCover")
        /\ master' = [master EXCEPT ![v] = IF oldMaster[a] = Nil THEN @ ELSE oldMaster[a]]
        /\ UNCHANGED cover
     \/ /\ working[a] = "undoCover"
        /\ WorksOn(a, "cleaning")
        /\ cover' = [cover EXCEPT ![v] = IF oldCover[a] = Nil THEN @ ELSE oldCover[a]]
        /\ UNCHANGED master
  /\ UNCHANGED <<vars, recorded, stagingVars, readerVars, deleteVars>>

\* RenderExecutionInterrupted and _finish_failed_or_interrupted: nothing if the
\* attempt has ended, interrupted if it was asked to stop, failed otherwise.
RenderEnds(a) ==
  /\ working[a] = "ending"
  /\ \/ stopRequested[a] /\ MarkAttemptInterrupted(a)
     \/ ~stopRequested[a] /\ MarkAttemptFailed(a)
     \/ attStatus[a] \notin ActiveStatuses /\ UNCHANGED vars
  /\ WorksOn(a, "gone")
  /\ UNCHANGED <<masterVars, stagingVars, readerVars, deleteVars>>

\* A crash leaves every file where it is ...
RenderCrashes(a) ==
  /\ working[a] \notin {"none", "gone", "crashed"}
  /\ WorksOn(a, "crashed")
  /\ UNCHANGED <<vars, masterVars, stagingVars, readerVars, deleteVars>>

\* ... and the attempt to the supervisor.
RenderIsReaped(a) ==
  /\ working[a] = "crashed"
  /\ MarkAttemptInterrupted(a) \/ (~stopRequested[a] /\ MarkAttemptFailed(a))
  /\ UNCHANGED <<masterVars, renderVars, readerVars, deleteVars>>

\* The file is changed in place, under a descriptor too, or replaced, outside the
\* application.
DamageMaster(v) ==
  /\ Damage /\ master[v] \in Attempts /\ ~RendersNow(v)
  /\ master' = [master EXCEPT ![v] = Damaged]
  /\ \/ UNCHANGED stream
     \/ stream' = [q \in Readers |-> IF stream[q] = master[v] THEN Damaged ELSE stream[q]]
  /\ UNCHANGED <<vars, cover, recorded, renderVars, reading, reads, saw, deleteVars>>

-----------------------------------------------------------------------------
(* Readers. *)

Reads(q, where) == reading' = [reading EXCEPT ![q] = where]

\* The end of a request or of its response: the descriptor is closed and the lock,
\* if it holds one, released.
Leaves(q) ==
  /\ Reads(q, "idle")
  /\ reads' = [reads EXCEPT ![q] = Nil] /\ saw' = [saw EXCEPT ![q] = Nil]
  /\ stream' = [stream EXCEPT ![q] = Nil]
  /\ mediaLock' = [mediaLock EXCEPT ![ServerOf[q]] =
                     [v \in Variants |-> IF @[v] = q THEN Nil ELSE @[v]]]
  /\ UNCHANGED <<deleting, cascade, deletedVariants>>

\* The row of a ready variant.  A stream takes its server's lock of the variant
\* before it reads the row, and lets it go when the row is not ready; lists and
\* verifications take no lock.
ReaderLooks(q, v) ==
  /\ reading[q] = "idle" /\ variantStatus[v] = "ready"
  /\ \/ Reads(q, "looked") /\ UNCHANGED mediaLock
     \/ /\ mediaLock[ServerOf[q]][v] = Nil
        /\ mediaLock' = [mediaLock EXCEPT ![ServerOf[q]][v] = q]
        /\ Reads(q, "found")
  /\ reads' = [reads EXCEPT ![q] = v]
  /\ saw' = [saw EXCEPT ![q] = recorded[v]]
  /\ UNCHANGED <<vars, masterVars, renderVars, stream, deleting, cascade, deletedVariants>>

\* A list or a verification: the file at the path, by its size or its digest,
\* against the row that was read.
ReaderChecks(q) ==
  /\ reading[q] = "looked"
  /\ \/ master[reads[q]] = saw[q] /\ Leaves(q)
     \/ /\ master[reads[q]] # saw[q] /\ Reads(q, "condemning")
        /\ UNCHANGED <<reads, saw, stream, deleteVars>>
  /\ UNCHANGED <<vars, masterVars, renderVars>>

\* A stream: whatever lies at the path by now is opened ...
StreamOpens(q) ==
  LET file == master[reads[q]] IN
  /\ reading[q] = "found"
  /\ Reads(q, IF file = Nil THEN "condemning" ELSE "verifying")
  /\ stream' = [stream EXCEPT ![q] = file]
  /\ UNCHANGED <<vars, masterVars, renderVars, reads, saw, deleteVars>>

\* Mutant: the file at the path is verified, not the one that is open.
StreamVerifiesPath(q) ==
  LET same == master[reads[q]] = saw[q] IN
  /\ reading[q] = "verifying"
  /\ Reads(q, IF same THEN "streaming" ELSE "condemning")
  /\ stream' = [stream EXCEPT ![q] = IF same THEN @ ELSE Nil]
  /\ UNCHANGED <<vars, masterVars, renderVars, reads, saw, deleteVars>>

\* ... and the descriptor is verified, and closed if it is not what was recorded.
StreamVerifies(q) ==
  LET same == stream[q] = saw[q] IN
  /\ reading[q] = "verifying"
  /\ Reads(q, IF same THEN "streaming" ELSE "condemning")
  /\ stream' = [stream EXCEPT ![q] = IF same THEN @ ELSE Nil]
  /\ UNCHANGED <<vars, masterVars, renderVars, reads, saw, deleteVars>>

\* The row becomes unavailable in a transaction of its own, whichever render it
\* records by now; one that is not ready any more is left alone.  The request ends.
ReaderCondemns(q) ==
  LET v == reads[q] IN
  /\ reading[q] = "condemning"
  /\ \/ MarkRenderUnavailable(v) \/ RecordRenderVerification(v)
     \/ variantStatus[v] # "ready" /\ UNCHANGED vars
  /\ Leaves(q)
  /\ UNCHANGED <<masterVars, renderVars>>

\* The response ends, in any way.
StreamEnds(q) ==
  /\ reading[q] = "streaming"
  /\ Leaves(q)
  /\ UNCHANGED <<vars, masterVars, renderVars>>

-----------------------------------------------------------------------------
(* Deletions of a variant. *)

\* The server's media lock, then the row with its attempts and jobs.  Between the
\* two there is nothing another could see, and a refusal lets the lock go.
DeleteRow(s, v) ==
  /\ deleting[s][v] = "none" /\ mediaLock[s][v] = Nil
  /\ DeleteRenderVariant(v)
  /\ deleting' = [deleting EXCEPT ![s][v] = "removing"]
  /\ mediaLock' = [mediaLock EXCEPT ![s][v] = v]
  /\ deletedVariants' = deletedVariants \cup {v}
  /\ recorded' = [recorded EXCEPT ![v] = Nil]
  /\ UNCHANGED <<master, cover, renderVars, readerVars, cascade>>

\* A repeated command, to any server, finds the row gone and goes on with the
\* directory.
DeletionRepeats(s, v) ==
  /\ deleting[s][v] \in {"none", "cut"} /\ mediaLock[s][v] = Nil
  /\ \E t \in Servers : deleting[t][v] = "cut"
  /\ deleting' = [deleting EXCEPT ![s][v] = "removing"]
  /\ mediaLock' = [mediaLock EXCEPT ![s][v] = v]
  /\ UNCHANGED <<vars, masterVars, renderVars, readerVars, cascade, deletedVariants>>

\* Mutant: only the master and its cover are removed.
MasterOnly(v) ==
  /\ master' = [master EXCEPT ![v] = Nil] /\ cover' = [cover EXCEPT ![v] = Nil]
  /\ UNCHANGED <<candidate, staging, oldMaster, oldCover>>

\* The variant's whole directory, staging directories of crashed workers
\* included, and the logs of its jobs.
EmptyDirectory(v) ==
  LET ours == {a \in Attempts : renders[a] = v} IN
  /\ master' = [master EXCEPT ![v] = Nil] /\ cover' = [cover EXCEPT ![v] = Nil]
  /\ candidate' = candidate \ ours /\ staging' = staging \ ours
  /\ oldMaster' = SetAll(oldMaster, ours, Nil) /\ oldCover' = SetAll(oldCover, ours, Nil)

DeleteDirectory(s, v) ==
  /\ deleting[s][v] = "removing"
  /\ EmptyDirectory(v)
  /\ deleting' = [deleting EXCEPT ![s][v] = "done"]
  /\ mediaLock' = [mediaLock EXCEPT ![s][v] = Nil]
  /\ UNCHANGED <<vars, recorded, working, renders, readerVars, cascade, deletedVariants>>

\* A server ends: its locks, readers and streams with it; a deletion that has
\* deleted the row is left for its client to repeat.
ServerCrashes(s) ==
  LET left(f, none) == [q \in Readers |-> IF ServerOf[q] = s THEN none ELSE f[q]] IN
  /\ reading' = left(reading, "idle")
  /\ reads' = left(reads, Nil) /\ saw' = left(saw, Nil) /\ stream' = left(stream, Nil)
  /\ mediaLock' = [mediaLock EXCEPT ![s] = [v \in Variants |-> Nil]]
  /\ deleting' = [deleting EXCEPT ![s] =
                    [v \in Variants |-> IF @[v] = "removing" THEN "cut" ELSE @[v]]]
  /\ UNCHANGED <<vars, masterVars, renderVars, cascade, deletedVariants>>

-----------------------------------------------------------------------------
(* Deletions of the run and of the project: rows in one transaction, then      *)
(* directories, under no media lock.                                           *)

CascadeTo(gone) ==
  /\ deletedVariants' = deletedVariants \cup gone
  /\ recorded' = SetAll(recorded, gone, Nil)
  /\ cascade' = SetAll(cascade, gone, "removing")
  /\ UNCHANGED <<master, cover, renderVars, readerVars, mediaLock, deleting>>

\* RunsService.delete: the directories of the variants whose rows it has deleted.
DeleteRenderedRun ==
  /\ DeleteRun(RenderedRun)
  /\ CascadeTo({v \in Variants : VariantRun(v) = RenderedRun /\ variantStatus[v] # "absent"})

\* ProjectsService.delete: the project's whole directory, what an unfinished
\* deletion has left in it included.
DeleteItsProject ==
  LET p == RunProject[RenderedRun] IN
  /\ DeleteProject(p)
  /\ CascadeTo({v \in Variants : /\ RunProject[VariantRun(v)] = p
                                 /\ variantStatus[v] # "absent" \/ v \in deletedVariants})

\* A crash between the rows and a directory is a removal that comes late, by the
\* repeated command, or never.
CascadeRemoves(v) ==
  /\ cascade[v] = "removing"
  /\ EmptyDirectory(v)
  /\ cascade' = [cascade EXCEPT ![v] = "done"]
  /\ UNCHANGED <<vars, recorded, working, renders, readerVars>>
  /\ UNCHANGED <<mediaLock, deleting, deletedVariants>>

-----------------------------------------------------------------------------
RenderTurn(a) ==
  \/ RenderStarts(a) \/ RenderProduces(a) \/ MoveAside(a) \/ MoveIn(a) \/ RenderCompletes(a)
  \/ RemoveStaging(a) \/ RenderFails(a) \/ UndoPublication(a) \/ RenderEnds(a)
  \/ RenderCrashes(a) \/ RenderIsReaped(a) \/ StopRender(a)

ReaderTurn(q) ==
  \/ \E v \in Variants : ReaderLooks(q, v)
  \/ ReaderChecks(q) \/ StreamOpens(q) \/ StreamVerifies(q)
  \/ ReaderCondemns(q) \/ StreamEnds(q)

VariantTurn(v) ==
  \/ RequestRender(v) \/ Recover(v) \/ DamageMaster(v) \/ CascadeRemoves(v)
  \/ \E s \in Servers : DeleteRow(s, v) \/ DeletionRepeats(s, v) \/ DeleteDirectory(s, v)

RendersNext ==
  \/ \E a \in Attempts : RenderTurn(a)
  \/ \E q \in Readers : ReaderTurn(q)
  \/ \E v \in Variants : VariantTurn(v)
  \/ \E s \in Servers : ServerCrashes(s)
  \/ DeleteRenderedRun \/ DeleteItsProject

RendersSpec == RendersInit /\ [][RendersNext]_mediaVars

-----------------------------------------------------------------------------
(* Properties. *)

\* A ready variant has the master and the cover of the attempt it records, unless
\* the file was damaged from outside: whatever crashes, roll-backs and repeated
\* renders came before, no file of another attempt lies in their place.
ReadyMasterIsRecorded ==
  \A v \in Variants : variantStatus[v] = "ready" =>
    /\ recorded[v] \in Attempts
    /\ master[v] \in {recorded[v], Damaged}
    /\ cover[v] = recorded[v]

\* Master and cover are one pair: an attempt that failed has put both previous
\* files back, or neither is there.  A crash between two moves can leave a torn
\* pair; the variant is not ready then, and the next render replaces it.
FilesComeInPairs ==
  \A v \in Variants :
    (~RendersNow(v) /\ \A a \in Attempts : renders[a] = v => working[a] # "crashed") =>
      /\ master[v] = Nil <=> cover[v] = Nil
      /\ master[v] \in Attempts => cover[v] = master[v]

\* A stream plays the file that a render of its variant published and the row
\* recorded when it was read, or that file damaged since: no other master that lay
\* at the path in between, of a later render or of one that was rolled back.  Its
\* own server's deletion of the variant waits for the end of the response; that of
\* another server, of the run or of the project leaves it the open file.
StreamPlaysWhatItVerified ==
  \A q \in Readers : reading[q] = "streaming" =>
    /\ saw[q] \in Attempts /\ renders[saw[q]] = reads[q]
    /\ stream[q] \in {saw[q], Damaged}
    /\ deleting[ServerOf[q]][reads[q]] \notin {"removing", "cut", "done"}

\* A deletion of the variant, its run or its project that has answered leaves no
\* file of the variant, nor does one come back.
DeletedVariantLeavesNothing ==
  \A v \in Variants : (cascade[v] = "done" \/ \E s \in Servers : deleting[s][v] = "done") =>
    /\ master[v] = Nil /\ cover[v] = Nil
    /\ \A a \in Attempts : renders[a] = v => a \notin staging

=============================================================================
