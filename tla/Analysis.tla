------------------------------ MODULE Analysis ------------------------------
(***************************************************************************)
(* The analysis of one video material: Execution Attempts that build its   *)
(* Material Memory stage by stage, over files that outlive them.           *)
(*                                                                         *)
(* An attempt detects shots, transcribes and reconstructs the dialogue,    *)
(* asks a model for scene boundaries, cuts a clip per segment, has the     *)
(* shots annotated and the segments summarised by pools of threads, tells  *)
(* the story of the whole video and seals the memory with a manifest.      *)
(* Every stage looks for the files of earlier attempts first.  An attempt  *)
(* may be stopped, fail or be killed between any two of its steps; the     *)
(* next one starts from what it finds.  What a model answers is never the  *)
(* same twice: an answer is known by the number of the attempt it was      *)
(* given to.                                                               *)
(***************************************************************************)
EXTENDS Integers, FiniteSets

CONSTANTS
  N,            \* the shots of the source video are 1..N, more than one
  Spoken,       \* the shots in which something is said
  Limits,       \* what analyser.shot_annotation.max_shots_per_request may be
  Concurrency,  \* max_concurrency of the models
  Reuse,        \* analyser.asr.reuse
  Signatures,   \* the analysis signatures attempts may be started with
  MaxAttempts,  \* bound: how many attempts the material gets
  None,         \* no file
  Empty         \* a file opened for writing, nothing written yet

ASSUME AnalysisAssumption ==
  /\ N \in Nat \ {0, 1} /\ Spoken \subseteq 1..N
  /\ Limits \subseteq Nat \ {0} /\ Concurrency \in Nat \ {0}
  /\ Reuse \in BOOLEAN /\ MaxAttempts \in Nat

VARIABLES
  disk,      \* the files in the memory directory of the material
  ledger,    \* model_usage.json: the requests whose calls are on record
  stage,     \* what the attempt is doing, "off" when there is none
  token,     \* whether the attempt has been asked to stop
  sig,       \* the analysis signature of the attempt
  limit,     \* its max_shots_per_request
  known,     \* what it holds in memory: reading, ends, notes and says
  calls,     \* the model calls its context knows of
  thread,    \* where each window or segment of the stage stands
  batch,     \* which batch of its shots each segment is at
  answer,    \* what the model answered each thread
  attempts,  \* how many attempts there have been
  outcome,   \* how the last attempt ended
  published  \* whether the material is Ready

process == <<sig, limit, known, calls, thread, batch, answer>>
vars == <<disk, ledger, stage, token, process, attempts, outcome, published>>

(***************************************************************************)
(* Segments and batches.  A range is a pair of shots, first and last.      *)
(***************************************************************************)
Windows == 1..(N - 1)          \* the boundaries after each shot but the last
ShotsOf(range) == range[1]..range[2]
Length(range) == range[2] - range[1] + 1
HasDialogue(range) == ShotsOf(range) \cap Spoken # {}

\* The scene ends in ends cut 1..N into segments, numbered from the start.
SegmentCount(ends) == Cardinality(ends) + 1
LastShot(ends, i) ==
  CHOOSE x \in ends \cup {N} : Cardinality({y \in ends : y < x}) = i - 1
Segment(ends, i) == <<IF i = 1 THEN 1 ELSE LastShot(ends, i - 1) + 1, LastShot(ends, i)>>
Segments(ends) == 1..SegmentCount(ends)

(***************************************************************************)
(* What the files say.  A text is known by the attempt that got it.        *)
(***************************************************************************)
Readings == [srt : Nat, text : Nat]
Boundaries == [of : Readings, ends : SUBSET Windows]
Notes == UNION {[S -> Nat] : S \in SUBSET (1..N)}
\* The notes of two batches.
Together(f, g) ==
  [x \in DOMAIN f \cup DOMAIN g |-> IF x \in DOMAIN f THEN f[x] ELSE g[x]]
Sayings == Nat \cup {None}
Descriptions ==
  [of : Readings, ends : SUBSET Windows,
   notes : UNION {[S -> Notes] : S \in SUBSET (1..N)},
   says : UNION {[S -> Sayings] : S \in SUBSET (1..N)}]
Stories == [of : Descriptions, count : Nat]
\* The checkpoints of windows, of requests for notes, and of summaries.
Decisions == [of : Readings, end : BOOLEAN]
Fingerprints == [of : Readings, shots : Nat \X Nat, part : Nat, parts : Nat]
Annotations == [key : Fingerprints, notes : Notes]
SummaryInputs == [reading : Readings, shots : Nat \X Nat, notes : Notes]
Summaries == [of : SummaryInputs, says : Nat]

\* No file is told from every file.
ASSUME NoFileAssumption ==
  /\ None # Empty
  /\ {None, Empty} \cap (Signatures \cup Nat) = {}
  /\ {None, Empty} \cap (Readings \cup Boundaries \cup Descriptions \cup Stories) = {}
  /\ {None, Empty} \cap (Decisions \cup Annotations \cup Summaries) = {}

(***************************************************************************)
(* Batches.                                                                *)
(***************************************************************************)
BatchCount(range, size) == (Length(range) + size - 1) \div size
\* Mutant: the last batch runs over the end of its segment.
BatchUnclamped(range, size, j) == <<range[1] + (j - 1) * size, range[1] + j * size - 1>>
Batch(range, size, j) ==
  LET last == range[1] + j * size - 1
  IN <<range[1] + (j - 1) * size, IF last < range[2] THEN last ELSE range[2]>>

\* A request is known by its prompt fingerprint.  A segment that fits into one
\* request has its answer in the file of the segment, batch 0.
Fingerprint(reading, range, j, count) ==
  [of |-> reading, shots |-> range, part |-> j, parts |-> count]
\* Mutant: batches are numbered from zero, the number of the whole segment.
BatchFileFromZero(i, j, count) == <<i, j - 1>>
BatchFile(i, j, count) == <<i, IF count = 1 THEN 0 ELSE j>>

(***************************************************************************)
(* What the files are taken for when they are read again.                  *)
(***************************************************************************)
Whole(file) == file \notin {None, Empty}
Unavailable == 0               \* the provider refused to look at the pictures

NoFiles ==
  [spec |-> None, temp |-> FALSE, shots |-> FALSE, srt |-> None,
   dialogues |-> None, merged |-> None, frames |-> None,
   windows |-> [w \in Windows |-> None], segments |-> None, scene |-> FALSE,
   clips |-> [i \in 1..N |-> None],
   notes |-> [f \in (1..N) \X (0..N) |-> None],
   says |-> [i \in 1..N |-> None],
   description |-> None, story |-> None, cover |-> FALSE, manifest |-> None]

\* Mutant: the dialogue is taken for done when its document is there.
DialogueIsDocumented == Whole(disk.dialogues)
\* dialogue_checkpoint looks at each file for itself.
DialogueStands == Whole(disk.dialogues) /\ Whole(disk.merged)
SegmentsStand == disk.segments # None /\ disk.scene
\* A clip is taken for the segment's by its duration.
ClipStands(i, range) ==
  disk.clips[i] # None /\ Length(disk.clips[i]) = Length(range)
WindowStands(w, reading) ==
  disk.windows[w] # None /\ disk.windows[w].of = reading
NotesStand(f, key) == disk.notes[f] # None /\ disk.notes[f].key = key
SaysStand(i, input) == disk.says[i] # None /\ disk.says[i].of = input
\* The story is known by the segments it names.
StoryStands(ends) == disk.story # None /\ disk.story.count = SegmentCount(ends)

Cached(s) ==
  /\ disk.manifest = s /\ disk.spec = s
  /\ disk.description # None /\ disk.srt # None /\ DialogueStands /\ disk.cover
  /\ StoryStands(disk.description.ends)
  /\ \A i \in Segments(disk.description.ends) : disk.clips[i] # None

(***************************************************************************)
(* Attempts begin.                                                         *)
(***************************************************************************)
Blank == [reading |-> None, ends |-> {},
          notes |-> [i \in 1..N |-> << >>], says |-> [i \in 1..N |-> None]]
AllWaiting == [u \in 1..N |-> "waiting"]

Init ==
  /\ disk = NoFiles /\ ledger = {} /\ stage = "off" /\ token = FALSE
  /\ sig = None /\ limit = 1 /\ known = Blank /\ calls = {}
  /\ thread = AllWaiting /\ batch = [u \in 1..N |-> 1]
  /\ answer = [u \in 1..N |-> None]
  /\ attempts = 0 /\ outcome = "none" /\ published = FALSE

\* Mutant: every attempt counts its own calls only.
ForgetPriorCalls == calls' = {}
\* The context of an attempt begins with the calls on record.
LoadPriorCalls == calls' = ledger

Enters(first, s, l) ==
  /\ stage = "off" /\ ~published /\ attempts < MaxAttempts
  /\ stage' = first /\ attempts' = attempts + 1 /\ token' = FALSE
  /\ sig' = s /\ limit' = l /\ LoadPriorCalls
  /\ outcome' = "none"
  /\ UNCHANGED <<disk, ledger, known, thread, batch, answer, published>>

BeginCached(s, l) == Cached(s) /\ Enters("publish", s, l)
\* Mutant: an analysis on record is resumed by any other.
BeginResumesAny(s, l) == ~Cached(s) /\ disk.spec # None /\ Enters("shots", s, l)
BeginResumes(s, l) == ~Cached(s) /\ disk.spec = s /\ Enters("shots", s, l)
BeginAnew(s, l) == disk.spec = None /\ ~disk.temp /\ Enters("spec", s, l)

\* The memory belongs to another analysis, or there is something in it and
\* nothing says which analysis it belongs to.
BeginRefused(s) ==
  /\ stage = "off" /\ ~published /\ attempts < MaxAttempts /\ ~Cached(s)
  /\ IF disk.spec = None THEN disk.temp ELSE disk.spec # s
  /\ attempts' = attempts + 1 /\ outcome' = "refused"
  /\ UNCHANGED <<disk, ledger, stage, token, process, published>>

(***************************************************************************)
(* Attempts end.                                                           *)
(***************************************************************************)
PoolStages == {"windows", "annotate", "summarise"}
\* Nothing is looked at between opening a file and having written it, between
\* the two files of the dialogue, of the scenes, and an answer and its file.
MidWrite ==
  \/ stage \in {"srt", "write dialogues", "open merged", "write merged",
              "write scene", "write story"}
  \/ stage = "spec" /\ disk.temp

Leaves(how) ==
  /\ stage' = "off" /\ outcome' = how /\ token' = FALSE
  /\ sig' = None /\ limit' = 1 /\ known' = Blank /\ calls' = {}
  /\ thread' = AllWaiting /\ batch' = [u \in 1..N |-> 1]
  /\ answer' = [u \in 1..N |-> None]
  /\ UNCHANGED <<disk, ledger, attempts>>

\* Job stop requests reach the attempt through its token, read between steps.
RequestStop ==
  /\ stage # "off" /\ ~token
  /\ token' = TRUE
  /\ UNCHANGED <<disk, ledger, stage, process, attempts, outcome, published>>

Stops ==
  /\ stage \notin PoolStages \cup {"off"} /\ token /\ ~MidWrite
  /\ Leaves("interrupted") /\ UNCHANGED published

\* A decoder, a model or the transcription fails; the last covers its deadline.
Breaks ==
  /\ stage \notin PoolStages \cup {"off"} /\ ~token /\ ~MidWrite
  /\ Leaves("failed") /\ UNCHANGED published

Crash == stage # "off" /\ Leaves("crashed") /\ UNCHANGED published

(***************************************************************************)
(* One stage after the other.  A step is taken when the token has just     *)
(* been looked at; a request to stop in between counts for the next step.  *)
(***************************************************************************)
At(here) == stage = here /\ (MidWrite \/ ~token)
Goes(there) == stage' = there /\ UNCHANGED <<token, attempts, outcome, published>>
Keeps == UNCHANGED process
GoesOn(there) == Goes(there) /\ Keeps
\* The pool of the next stage starts with every window or segment waiting.
GoesToPool(there) ==
  /\ Goes(there)
  /\ thread' = AllWaiting /\ batch' = [u \in 1..N |-> 1]
  /\ answer' = [u \in 1..N |-> None]
  /\ UNCHANGED <<sig, limit, calls>>

OpenSpec ==
  /\ At("spec") /\ ~disk.temp
  /\ disk' = [disk EXCEPT !.temp = TRUE] /\ UNCHANGED ledger /\ GoesOn("spec")
SaveSpec ==
  /\ At("spec") /\ disk.temp
  /\ disk' = [disk EXCEPT !.temp = FALSE, !.spec = sig]
  /\ UNCHANGED ledger /\ GoesOn("shots")

\* Detection gives the same shots every time.
DetectShots ==
  /\ At("shots")
  /\ disk' = [disk EXCEPT !.shots = TRUE] /\ UNCHANGED ledger /\ GoesOn("subtitle")

ReuseSubtitle ==
  /\ At("subtitle") /\ Reuse /\ Whole(disk.srt)
  /\ UNCHANGED <<disk, ledger>> /\ GoesOn("dialogue")
\* The audio is extracted, uploaded and transcribed before the file is opened.
Transcribe ==
  /\ At("subtitle") /\ ~(Reuse /\ Whole(disk.srt))
  /\ disk' = [disk EXCEPT !.srt = Empty] /\ UNCHANGED ledger /\ GoesOn("srt")
WriteSubtitle ==
  /\ At("srt")
  /\ disk' = [disk EXCEPT !.srt = attempts] /\ UNCHANGED ledger /\ GoesOn("dialogue")

\* A call is on record before its answer is used.
Records(request) == calls' = calls \cup {request} /\ ledger' = calls'

ReadDialogue ==
  /\ At("dialogue") /\ DialogueStands
  /\ known' = [known EXCEPT !.reading = disk.dialogues]
  /\ UNCHANGED <<disk, ledger>> /\ Goes("scene")
  /\ UNCHANGED <<sig, limit, calls, thread, batch, answer>>
ReconstructDialogue ==
  /\ At("dialogue") /\ ~DialogueStands
  /\ Records(<<"dialogue">>) /\ UNCHANGED disk /\ Goes("open dialogues")
  /\ UNCHANGED <<sig, limit, known, thread, batch, answer>>

\* Two files, each opened and then written.
OpenDialogues ==
  /\ At("open dialogues")
  /\ disk' = [disk EXCEPT !.dialogues = Empty]
  /\ UNCHANGED ledger /\ GoesOn("write dialogues")
WriteDialogues ==
  /\ At("write dialogues")
  /\ disk' = [disk EXCEPT !.dialogues = [srt |-> disk.srt, text |-> attempts]]
  /\ UNCHANGED ledger /\ GoesOn("open merged")
OpenMerged ==
  /\ At("open merged")
  /\ disk' = [disk EXCEPT !.merged = Empty]
  /\ UNCHANGED ledger /\ GoesOn("write merged")
WriteMerged ==
  /\ At("write merged")
  /\ disk' = [disk EXCEPT !.merged = [srt |-> disk.srt, text |-> attempts]]
  /\ UNCHANGED ledger /\ GoesOn("dialogue")

\* Frames are written one by one and listed when all are there; without the
\* list, all are written again.
ResumeSegments ==
  /\ At("scene") /\ SegmentsStand
  /\ known' = [known EXCEPT !.ends = disk.segments.ends]
  /\ UNCHANGED <<disk, ledger>> /\ Goes("clips")
  /\ UNCHANGED <<sig, limit, calls, thread, batch, answer>>
WriteFrames ==
  /\ At("scene") /\ ~SegmentsStand /\ disk.frames # "listed"
  /\ disk' = [disk EXCEPT !.frames = IF @ = "written" THEN "listed" ELSE "written"]
  /\ UNCHANGED ledger /\ GoesOn("scene")
AskForScenes ==
  /\ At("scene") /\ ~SegmentsStand /\ disk.frames = "listed"
  /\ UNCHANGED <<disk, ledger, known>> /\ GoesToPool("windows")

WriteSegments ==
  /\ At("segments")
  /\ disk' = [disk EXCEPT !.segments = [of |-> known.reading, ends |-> known.ends]]
  /\ UNCHANGED ledger /\ GoesOn("write scene")
WriteScene ==
  /\ At("write scene")
  /\ disk' = [disk EXCEPT !.scene = TRUE] /\ UNCHANGED ledger /\ GoesOn("clips")

\* Clips are cut in order, beside their place, and moved into it.
CutClip(i) ==
  /\ At("clips") /\ i \in Segments(known.ends)
  /\ ~ClipStands(i, Segment(known.ends, i))
  /\ \A j \in 1..(i - 1) : ClipStands(j, Segment(known.ends, j))
  /\ disk' = [disk EXCEPT !.clips[i] = Segment(known.ends, i)]
  /\ UNCHANGED ledger /\ GoesOn("clips")
ClipsReady ==
  /\ At("clips")
  /\ \A i \in Segments(known.ends) : ClipStands(i, Segment(known.ends, i))
  /\ UNCHANGED <<disk, ledger, known>> /\ GoesToPool("annotate")

(***************************************************************************)
(* A pool: a thread per window or segment, at most Concurrency at a time,  *)
(* begun in order.  Their results are taken in order too: that a thread    *)
(* failed or found the token set is seen when all before it are done, and  *)
(* then the stage waits for those at work and drops those that wait.       *)
(***************************************************************************)
Units == IF stage = "windows" THEN Windows ELSE Segments(known.ends)
Busy == {u \in Units : thread[u] \in {"looking", "asking", "answered"}}
MayStart(u) ==
  /\ thread[u] = "waiting" /\ Cardinality(Busy) < Concurrency
  /\ \A v \in Units : v < u => thread[v] # "waiting"

InPool(u) == stage \in PoolStages /\ u \in Units
SegmentOf(u) == Segment(known.ends, u)
Batches(u) == BatchCount(SegmentOf(u), limit)
BatchOf(u) == Batch(SegmentOf(u), limit, batch[u])
WholeKey(u) == Fingerprint(known.reading, SegmentOf(u), 1, 1)
BatchKey(u) == Fingerprint(known.reading, BatchOf(u), batch[u], Batches(u))
FileOf(u) == BatchFile(u, batch[u], Batches(u))
SummaryInput(u) ==
  [reading |-> known.reading, shots |-> SegmentOf(u), notes |-> known.notes[u]]
\* Nothing to tell of a silent segment no shot of which could be looked at.
NothingToSay(u) ==
  ~HasDialogue(SegmentOf(u)) /\ \A x \in ShotsOf(SegmentOf(u)) : known.notes[u][x] = Unavailable

Request(u) ==
  CASE stage = "windows" -> <<"window", u>>
    [] stage = "annotate" -> <<"notes", FileOf(u)>>
    [] OTHER -> <<"says", u>>

InThread(u) == UNCHANGED <<stage, token, sig, limit, attempts, outcome, published>>
Becomes(u, phase) == thread' = [thread EXCEPT ![u] = phase]

Begins(u) ==
  /\ InPool(u) /\ MayStart(u) /\ ~token
  /\ IF stage = "annotate" /\ NotesStand(<<u, 0>>, WholeKey(u))
       THEN /\ Becomes(u, "done")
            /\ known' = [known EXCEPT !.notes[u] = disk.notes[<<u, 0>>].notes]
       ELSE Becomes(u, "looking") /\ UNCHANGED known
  /\ UNCHANGED <<disk, ledger, calls, batch, answer>> /\ InThread(u)

\* What thread u gets from its file or its model.
Takes(u, value) ==
  CASE stage = "windows" ->
         /\ Becomes(u, "done") /\ UNCHANGED batch
         /\ known' = [known EXCEPT !.ends = IF value THEN @ \cup {u} ELSE @]
    [] stage = "annotate" ->
         /\ Becomes(u, "looking") /\ batch' = [batch EXCEPT ![u] = @ + 1]
         /\ known' = [known EXCEPT !.notes[u] = Together(@, value)]
    [] OTHER ->
         /\ Becomes(u, "done") /\ UNCHANGED batch
         /\ known' = [known EXCEPT !.says[u] = value]

StandsFor(u) ==
  CASE stage = "windows" -> WindowStands(u, known.reading)
    [] stage = "annotate" -> NotesStand(FileOf(u), BatchKey(u))
    [] OTHER -> SaysStand(u, SummaryInput(u))
ValueOf(u) ==
  CASE stage = "windows" -> disk.windows[u].end
    [] stage = "annotate" -> disk.notes[FileOf(u)].notes
    [] OTHER -> disk.says[u].says

AllBatches(u) == stage = "annotate" /\ batch[u] > Batches(u)
Mute(u) == stage = "summarise" /\ NothingToSay(u)

Reuses(u) ==
  /\ InPool(u) /\ thread[u] = "looking" /\ ~token /\ ~AllBatches(u) /\ ~Mute(u)
  /\ StandsFor(u) /\ Takes(u, ValueOf(u))
  /\ UNCHANGED <<disk, ledger, calls, answer>> /\ InThread(u)
Asks(u) ==
  /\ InPool(u) /\ thread[u] = "looking" /\ ~token /\ ~AllBatches(u) /\ ~Mute(u)
  /\ ~StandsFor(u)
  /\ Becomes(u, "asking") /\ calls' = calls \cup {Request(u)}
  /\ UNCHANGED <<disk, ledger, known, batch, answer>> /\ InThread(u)
SaysNothing(u) ==
  /\ InPool(u) /\ thread[u] = "looking" /\ ~token /\ Mute(u)
  /\ Becomes(u, "done")
  /\ UNCHANGED <<disk, ledger, calls, known, batch, answer>> /\ InThread(u)

\* Calls are retried until they are accepted; a refusal to look at the pictures
\* is not, and stands for no boundary and for shots nothing is known of.
Accepts(u) ==
  CASE stage = "windows" -> BOOLEAN
    [] stage = "annotate" -> {attempts, Unavailable}
    [] OTHER -> {attempts}

Answers(u) ==
  /\ InPool(u) /\ thread[u] = "asking"
  /\ \E value \in Accepts(u) : answer' = [answer EXCEPT ![u] = value]
  /\ Becomes(u, "answered") /\ ledger' = calls
  /\ UNCHANGED <<disk, known, calls, batch>> /\ InThread(u)
\* Mutant: a call that has failed for good is made again.
FailsAndRetries(u) ==
  /\ InPool(u) /\ thread[u] = "asking"
  /\ Becomes(u, "looking") /\ ledger' = calls
  /\ UNCHANGED <<disk, known, calls, batch, answer>> /\ InThread(u)
Fails(u) ==
  /\ InPool(u) /\ thread[u] = "asking"
  /\ Becomes(u, "gone") /\ ledger' = calls
  /\ UNCHANGED <<disk, known, calls, batch, answer>> /\ InThread(u)

SavesScene(u) ==
  /\ stage = "windows" /\ InPool(u) /\ thread[u] = "answered"
  /\ disk' = [disk EXCEPT !.windows[u] = [of |-> known.reading, end |-> answer[u]]]
  /\ Takes(u, answer[u])
  /\ UNCHANGED <<ledger, calls, answer>> /\ InThread(u)

\* An answer that comes after the token has been set is dropped.
SavesNotes(u) ==
  /\ stage = "annotate" /\ InPool(u) /\ thread[u] = "answered" /\ ~token
  /\ LET notes == [x \in ShotsOf(BatchOf(u)) |-> answer[u]]
     IN /\ disk' = [disk EXCEPT !.notes[FileOf(u)] = [key |-> BatchKey(u), notes |-> notes]]
        /\ Takes(u, notes)
  /\ UNCHANGED <<ledger, calls, answer>> /\ InThread(u)
SavesSummary(u) ==
  /\ stage = "summarise" /\ InPool(u) /\ thread[u] = "answered" /\ ~token
  /\ disk' = [disk EXCEPT !.says[u] = [of |-> SummaryInput(u), says |-> answer[u]]]
  /\ Takes(u, answer[u])
  /\ UNCHANGED <<ledger, calls, answer>> /\ InThread(u)

\* The batches of a segment become its file, unless one of them was refused.
Merges(u) ==
  /\ InPool(u) /\ thread[u] = "looking" /\ ~token /\ AllBatches(u)
  /\ disk' = IF \E x \in ShotsOf(SegmentOf(u)) : known.notes[u][x] = Unavailable
               THEN disk
               ELSE [disk EXCEPT !.notes[<<u, 0>>] =
                       [key |-> WholeKey(u), notes |-> known.notes[u]]]
  /\ Becomes(u, "done")
  /\ UNCHANGED <<ledger, calls, known, batch, answer>> /\ InThread(u)

ThreadStops(u) ==
  /\ InPool(u) /\ token
  /\ \/ MayStart(u)
     \/ thread[u] = "looking"
     \/ thread[u] = "answered" /\ stage # "windows"
  /\ Becomes(u, "gone")
  /\ UNCHANGED <<disk, ledger, calls, known, batch, answer>> /\ InThread(u)

AllDone == \A u \in Units : thread[u] = "done"
Surfaced ==
  \E u \in Units : /\ thread[u] = "gone"
                   /\ \A v \in Units : v < u => thread[v] = "done"

WindsUp ==
  /\ stage \in PoolStages /\ Busy = {} /\ (Surfaced \/ (AllDone /\ token))
  /\ Leaves(IF token THEN "interrupted" ELSE "failed") /\ UNCHANGED published
ScenesFound ==
  /\ stage = "windows" /\ AllDone /\ ~token
  /\ UNCHANGED <<disk, ledger, known>> /\ Goes("segments")
  /\ UNCHANGED <<sig, limit, calls, thread, batch, answer>>
NotesTaken ==
  /\ stage = "annotate" /\ AllDone /\ ~token
  /\ UNCHANGED <<disk, ledger, known>> /\ GoesToPool("summarise")
Summarised ==
  /\ stage = "summarise" /\ AllDone /\ ~token
  /\ UNCHANGED <<disk, ledger>> /\ GoesOn("describe")

(***************************************************************************)
(* The memory is described, its story told, and sealed.                    *)
(***************************************************************************)
Description ==
  [of |-> known.reading, ends |-> known.ends,
   notes |-> [i \in Segments(known.ends) |-> known.notes[i]],
   says |-> [i \in Segments(known.ends) |-> known.says[i]]]

Describe ==
  /\ At("describe")
  /\ disk' = [disk EXCEPT !.description = Description]
  /\ UNCHANGED ledger /\ GoesOn("story")
ReuseStory ==
  /\ At("story") /\ StoryStands(known.ends)
  /\ UNCHANGED <<disk, ledger>> /\ GoesOn("cover")
TellStory ==
  /\ At("story") /\ ~StoryStands(known.ends)
  /\ Records(<<"story">>) /\ UNCHANGED <<disk, known>> /\ Goes("write story")
  /\ UNCHANGED <<sig, limit, thread, batch, answer>>
WriteStory ==
  /\ At("write story")
  /\ disk' = [disk EXCEPT !.story =
                 [of |-> disk.description, count |-> SegmentCount(known.ends)]]
  /\ UNCHANGED ledger /\ GoesOn("cover")
MakeCover ==
  /\ At("cover")
  /\ disk' = [disk EXCEPT !.cover = TRUE] /\ UNCHANGED ledger /\ GoesOn("manifest")
Seal ==
  /\ At("manifest")
  /\ disk' = [disk EXCEPT !.manifest = sig] /\ UNCHANGED ledger /\ GoesOn("publish")

\* The material is Ready once the result of the attempt is published.
Publish ==
  /\ At("publish")
  /\ Leaves("complete") /\ published' = TRUE

(***************************************************************************)
(* The specification.                                                      *)
(***************************************************************************)
Begin ==
  \E s \in Signatures :
    \/ \E l \in Limits : BeginCached(s, l) \/ BeginResumes(s, l) \/ BeginAnew(s, l)
    \/ BeginRefused(s)
Prepare ==
  \/ OpenSpec \/ SaveSpec \/ DetectShots
  \/ ReuseSubtitle \/ Transcribe \/ WriteSubtitle
  \/ ReadDialogue \/ ReconstructDialogue
  \/ OpenDialogues \/ WriteDialogues \/ OpenMerged \/ WriteMerged
Segmentation ==
  \/ ResumeSegments \/ WriteFrames \/ AskForScenes \/ ScenesFound
  \/ WriteSegments \/ WriteScene \/ (\E i \in 1..N : CutClip(i)) \/ ClipsReady
Thread(u) ==
  \/ Begins(u) \/ Reuses(u) \/ Asks(u) \/ SaysNothing(u) \/ Answers(u) \/ Fails(u)
  \/ SavesScene(u) \/ SavesNotes(u) \/ SavesSummary(u) \/ Merges(u) \/ ThreadStops(u)
Finish ==
  \/ NotesTaken \/ Summarised \/ Describe \/ ReuseStory \/ TellStory \/ WriteStory
  \/ MakeCover \/ Seal \/ Publish

Advance ==
  \/ Prepare \/ Segmentation \/ (\E u \in 1..N : Thread(u)) \/ WindsUp \/ Finish \/ Stops
Next == Begin \/ Advance \/ RequestStop \/ Breaks \/ Crash
Spec == Init /\ [][Next]_vars

\* A process that lives goes on: every call it waits for has a deadline.
FairSpec == Spec /\ WF_vars(Advance)

(***************************************************************************)
(* Properties.                                                             *)
(***************************************************************************)

\* A memory with a manifest is whole, whatever happened to the attempts that
\* built it: no file is missing or unfinished, every segment has its own clip
\* and every shot its notes, if only that nothing is known of it.
SealedMemoryIsWhole ==
  disk.manifest # None =>
    /\ Whole(disk.srt) /\ DialogueStands /\ disk.shots /\ disk.cover
    /\ SegmentsStand /\ disk.description # None /\ disk.story # None
    /\ \A i \in Segments(disk.description.ends) :
         LET range == Segment(disk.description.ends, i)
         IN /\ disk.clips[i] = range
            /\ DOMAIN disk.description.notes[i] = ShotsOf(range)

\* The files of a sealed memory are of one analysis: both dialogue files are the
\* same reading of the subtitle that is there, the segments and notes were made
\* of that reading, and the story was told of that description.
MemoryIsOfOneAnalysis ==
  disk.manifest # None =>
    /\ disk.manifest = disk.spec
    /\ disk.dialogues.srt = disk.srt /\ disk.merged = disk.dialogues
    /\ disk.segments.of = disk.dialogues
    /\ disk.description.of = disk.dialogues
    /\ disk.description.ends = disk.segments.ends
    /\ disk.story.of = disk.description

\* What a model answered and a later attempt may reuse has been accounted for:
\* the call of every checkpoint is in the usage file, through any crash.
CheckpointsAreOnRecord ==
  /\ Whole(disk.dialogues) => <<"dialogue">> \in ledger
  /\ \A w \in Windows : disk.windows[w] # None => <<"window", w>> \in ledger
  /\ \A f \in DOMAIN disk.notes :
       disk.notes[f] # None => \E j \in 0..N :
         (j = f[2] \/ f[2] = 0) /\ <<"notes", <<f[1], j>>>> \in ledger
  /\ \A i \in 1..N : disk.says[i] # None => <<"says", i>> \in ledger
  /\ disk.story # None => <<"story">> \in ledger

\* An answer that has been saved is kept: no attempt removes or replaces the
\* checkpoint of scenes, of a note, of a summary or of the dialogue.  (An answer that
\* a stop drops before it is saved, and the story, may be asked for again.)
AnswersAreKept ==
  [][/\ \A w \in Windows : disk.windows[w] # None => disk'.windows[w] = disk.windows[w]
     /\ \A f \in DOMAIN disk.notes : disk.notes[f] # None => disk'.notes[f] = disk.notes[f]
     /\ \A i \in 1..N : disk.says[i] # None => disk'.says[i] = disk.says[i]
     /\ DialogueStands => disk'.dialogues = disk.dialogues]_vars

\* An attempt comes to an end: no pool waits for a thread that waits for the
\* pool, whatever order its threads fail, stop and answer in.
AttemptEnds == stage # "off" ~> stage = "off"

\* Only the analysis on record writes into the memory, and it is on record
\* before anything else is written.
OnlyTheRecordedAnalysisWrites ==
  [][disk' # disk =>
       \/ disk.spec = sig
       \/ disk = NoFiles
       \/ disk = [NoFiles EXCEPT !.temp = TRUE] /\ disk'.spec = sig]_vars
=============================================================================
