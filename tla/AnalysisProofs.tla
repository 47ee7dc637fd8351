--------------------------- MODULE AnalysisProofs ---------------------------
(***************************************************************************)
(* Proofs about Analysis, for any number of shots, attempts and threads,   *)
(* any limit on a request and any interleaving of the pools: that only the *)
(* analysis on record writes into the memory directory, that every         *)
(* checkpoint a later attempt may reuse has its call on record, and that a *)
(* sealed memory is whole; and, while the settings stay what they are, that*)
(* answers are kept and a sealed memory is of one analysis.  First come the*)
(* facts about segments and batches the proofs rest on.                    *)
(***************************************************************************)
EXTENDS Analysis, FiniteSetTheorems, TLAPS

(***************************************************************************)
(* Segments and batches: every end of a scene has its rank, so segments are*)
(* not empty, and a segment has a batch and no more of them than shots.    *)
(***************************************************************************)

\* A segment of len shots makes at least one batch, and no more than its shots.
LEMMA BatchCounts ==
  ASSUME NEW len \in Nat \ {0}, NEW size \in Nat \ {0}
  PROVE  (len + size - 1) \div size \in 1..len
<1> DEFINE q == (len + size - 1) \div size
<1>1. q \in Int /\ q * size <= len + size - 1 /\ len + size - 1 < q * size + size
  BY SMT
<1> HIDE DEF q
<1>2. q >= 1
  <2> SUFFICES ASSUME q <= 0 PROVE FALSE
    BY <1>1
  <2>1. q * size <= 0
    BY <1>1, SMT
  <2> QED BY <2>1, <1>1
<1>3. q <= len
  <2> SUFFICES ASSUME q >= len + 1 PROVE FALSE
    BY <1>1
  <2>1. q * size >= len * size + size
    <3>1. q * size >= (len + 1) * size
      BY <1>1, SMT
    <3> QED BY <3>1, <1>1, SMT
  <2>2. len * size >= len
    BY SMT
  <2> QED BY <2>1, <2>2, <1>1, SMT
<1> QED BY <1>1, <1>2, <1>3 DEF q

Before(ends, x) == {y \in ends : y < x}

\* The boundaries of a video are finitely many, fewer than its shots.
LEMMA EndsAreFinite ==
  ASSUME NEW ends, ends \subseteq Windows
  PROVE  /\ N \in Nat \ {0, 1} /\ Windows = 1..(N - 1) /\ N \notin ends
         /\ ends \cup {N} \subseteq 1..N
         /\ IsFiniteSet(ends) /\ Cardinality(ends) \in 0..(N - 1)
<1>1. N \in Nat \ {0, 1} /\ Windows = 1..(N - 1)
  BY AnalysisAssumption DEF Windows
<1>2. IsFiniteSet(1..(N - 1)) /\ Cardinality(1..(N - 1)) = N - 1
  BY <1>1, FS_Interval
<1>3. ends \in SUBSET (1..(N - 1))
  BY <1>1
<1>4. IsFiniteSet(ends) /\ Cardinality(ends) <= N - 1
  BY <1>2, <1>3, FS_Subset
<1>5. Cardinality(ends) \in Nat
  BY <1>4, FS_CardinalityType
<1> QED BY <1>1, <1>3, <1>4, <1>5

\* As many boundaries lie before a shot as before none beyond it.
LEMMA RanksGrow ==
  ASSUME NEW ends, ends \subseteq Windows, NEW x \in ends \cup {N}, NEW z \in ends \cup {N}
  PROVE  /\ Cardinality(Before(ends, x)) \in 0..Cardinality(ends)
         /\ x <= z => Cardinality(Before(ends, x)) <= Cardinality(Before(ends, z))
         /\ x < z => Cardinality(Before(ends, x)) # Cardinality(Before(ends, z))
<1>0. /\ IsFiniteSet(ends) /\ Cardinality(ends) \in Nat
      /\ ends \cup {N} \subseteq Int /\ x \in Int /\ z \in Int /\ \A y \in ends : y < N
  BY EndsAreFinite
<1>1. Before(ends, x) \in SUBSET ends /\ Before(ends, z) \in SUBSET ends
  BY DEF Before
<1>2. /\ IsFiniteSet(Before(ends, x)) /\ IsFiniteSet(Before(ends, z))
      /\ Cardinality(Before(ends, x)) <= Cardinality(ends)
  BY <1>0, <1>1, FS_Subset
<1>3. Cardinality(Before(ends, x)) \in Nat
  BY <1>2, FS_CardinalityType
<1>4. ASSUME x <= z
      PROVE  Before(ends, x) \in SUBSET Before(ends, z)
  <2>1. \A y \in ends : y < x => y < z
    BY <1>0, <1>4
  <2> QED BY <2>1 DEF Before
<1>5. ASSUME x <= z
      PROVE  Cardinality(Before(ends, x)) <= Cardinality(Before(ends, z))
  BY <1>2, <1>4, <1>5, FS_Subset
<1>6. ASSUME x < z, Cardinality(Before(ends, x)) = Cardinality(Before(ends, z))
      PROVE  FALSE
  <2>1. Before(ends, x) = Before(ends, z)
    BY <1>0, <1>2, <1>4, <1>6, FS_Subset
  <2>2. x \in ends
    BY <1>0, <1>6
  <2> QED BY <2>1, <2>2, <1>0, <1>6 DEF Before
<1> QED BY <1>0, <1>2, <1>3, <1>5, <1>6

\* However many boundaries there are, some end has any smaller number before it.
LEMMA RanksAreTaken ==
  ASSUME NEW ends, ends \subseteq Windows, NEW k \in 0..Cardinality(ends)
  PROVE  \E x \in ends \cup {N} : Cardinality(Before(ends, x)) = k
<1> DEFINE all == ends \cup {N}
           m == Cardinality(ends)
           rank == [x \in all |-> Cardinality(Before(ends, x))]
<1>0. IsFiniteSet(ends) /\ m \in Nat /\ N \notin ends /\ all \subseteq Int
  BY EndsAreFinite
<1>1. IsFiniteSet(all) /\ Cardinality(all) = m + 1
  BY <1>0, FS_AddElement
<1>2. rank \in [all -> 0..m]
  BY RanksGrow
<1>3. \A x, z \in all : Cardinality(Before(ends, x)) = Cardinality(Before(ends, z)) => x = z
  <2> SUFFICES ASSUME NEW x \in all, NEW z \in all, x # z
               PROVE  Cardinality(Before(ends, x)) # Cardinality(Before(ends, z))
    OBVIOUS
  <2>1. CASE x < z
    BY <2>1, RanksGrow
  <2>2. CASE z < x
    BY <2>2, RanksGrow
  <2> QED BY <2>1, <2>2, <1>0
<1>4. rank \in Injection(all, 0..m)
  BY <1>2, <1>3 DEF Injection, IsInjective
<1>5. IsFiniteSet(0..m) /\ Cardinality(0..m) = m + 1
  BY <1>0, FS_Interval
<1>6. rank \in Surjection(all, 0..m)
  BY <1>4, <1>5, <1>1, FS_Injection
<1>7. \E x \in all : rank[x] = k
  BY <1>6 DEF Surjection
<1> QED BY <1>7

\* The last shot of a segment is an end with the segments before it before it.
LEMMA LastShots ==
  ASSUME NEW ends, ends \subseteq Windows, NEW i \in Segments(ends)
  PROVE  /\ LastShot(ends, i) \in ends \cup {N}
         /\ Cardinality(Before(ends, LastShot(ends, i))) = i - 1
         /\ i \in 1..N
<1>1. i - 1 \in 0..Cardinality(ends) /\ i \in 1..N
  BY EndsAreFinite DEF Segments, SegmentCount
<1>2. \E x \in ends \cup {N} : Cardinality(Before(ends, x)) = i - 1
  BY <1>1, RanksAreTaken
<1> QED BY <1>1, <1>2 DEF LastShot, Before

\* A segment holds at least one shot of the video.
LEMMA SegmentsHoldShots ==
  ASSUME NEW ends, ends \subseteq Windows, NEW i \in Segments(ends)
  PROVE  /\ Segment(ends, i) = <<Segment(ends, i)[1], Segment(ends, i)[2]>>
         /\ Segment(ends, i)[1] \in 1..N /\ Segment(ends, i)[2] \in 1..N
         /\ Segment(ends, i)[1] <= Segment(ends, i)[2]
         /\ Length(Segment(ends, i)) \in 1..N
         /\ i \in 1..N
<1>0. N \in Nat /\ ends \cup {N} \subseteq 1..N /\ Cardinality(ends) \in Nat
  BY EndsAreFinite
<1>1. LastShot(ends, i) \in 1..N /\ i \in 1..N
  BY LastShots, <1>0
<1>2. CASE i = 1
  BY <1>0, <1>1, <1>2 DEF Segment, Length
<1>3. CASE i # 1
  <2> DEFINE a == LastShot(ends, i - 1)
             b == LastShot(ends, i)
  <2>1. i - 1 \in Segments(ends)
    BY <1>0, <1>1, <1>3 DEF Segments, SegmentCount
  <2>2. a \in ends \cup {N} /\ Cardinality(Before(ends, a)) = (i - 1) - 1
    BY <2>1, LastShots
  <2>3. b \in ends \cup {N} /\ Cardinality(Before(ends, b)) = i - 1
    BY LastShots
  <2>4. Segment(ends, i) = <<a + 1, b>>
    BY <1>3 DEF Segment
  <2> HIDE DEF a, b
  <2>5. a < b
    <3> SUFFICES ASSUME b <= a PROVE FALSE
      BY <2>2, <2>3, <1>0
    <3>1. Cardinality(Before(ends, b)) <= Cardinality(Before(ends, a))
      BY <2>2, <2>3, RanksGrow
    <3> QED BY <3>1, <2>2, <2>3, <1>1
  <2> QED BY <2>2, <2>3, <2>4, <2>5, <1>0, <1>1 DEF Length
<1> QED BY <1>2, <1>3

\* The batches of a segment are no more than the shots there are.
LEMMA BatchesOfSegments ==
  ASSUME NEW ends, ends \subseteq Windows, NEW i \in Segments(ends), NEW size \in Nat \ {0}
  PROVE  BatchCount(Segment(ends, i), size) \in 1..N
<1>1. Length(Segment(ends, i)) \in 1..N /\ N \in Nat
  BY SegmentsHoldShots, AnalysisAssumption
<1>2. BatchCount(Segment(ends, i), size) \in 1..Length(Segment(ends, i))
  BY <1>1, BatchCounts DEF BatchCount
<1> QED BY <1>1, <1>2

\* The files there may be.
Fields == DOMAIN NoFiles

(***************************************************************************)
(* What was answered is on record.  The property is not inductive: a thread*)
(* saves an answer some steps after the call, so the invariant keeps the   *)
(* call of every thread that asks and of every answer that is not saved.   *)
(***************************************************************************)
RecordTypes ==
  /\ DOMAIN disk = Fields
  /\ DOMAIN disk.windows = Windows /\ DOMAIN disk.says = 1..N
  /\ DOMAIN disk.notes = (1..N) \X (0..N)
  /\ disk.segments # None => disk.segments.ends \subseteq Windows
  /\ DOMAIN known = DOMAIN Blank /\ known.ends \subseteq Windows
  /\ DOMAIN thread = 1..N /\ batch \in [1..N -> Nat \ {0}] /\ limit \in Nat \ {0}

\* Some request of segment u for notes is on record.
NotesOnRecord(u) == \E j \in 0..N : <<"notes", <<u, j>>>> \in ledger

StageRecords ==
  /\ stage # "off" => ledger \subseteq calls
  /\ stage \in {"open dialogues", "write dialogues"} => <<"dialogue">> \in ledger
  /\ stage = "write story" => <<"story">> \in ledger

PoolRecord(u) ==
  /\ thread[u] = "asking" => Request(u) \in calls
  /\ thread[u] = "answered" => Request(u) \in ledger
  /\ stage = "annotate" =>
       /\ thread[u] \in {"asking", "answered"} => batch[u] <= Batches(u)
       /\ batch[u] > 1 => NotesOnRecord(u)
PoolRecords == stage \in PoolStages => \A u \in Units : PoolRecord(u)

RecordInv == RecordTypes /\ CheckpointsAreOnRecord /\ StageRecords /\ PoolRecords

\* The stages that do not follow from a call, and are not in a pool.
QuietStages ==
  {"off", "spec", "shots", "subtitle", "srt", "dialogue", "open merged", "write merged",
   "scene", "segments", "write scene", "clips", "describe", "story", "cover",
   "manifest", "publish"}

Checkpoints == {"dialogues", "windows", "notes", "says", "story"}

\* A step that makes no call, saves no answer, and is of no thread.
QuietStep ==
  /\ ledger' = ledger
  /\ stage' = "off" \/ calls' = ledger \/ (calls' = calls /\ stage # "off")
  /\ \/ stage' \in QuietStages
     \/ /\ stage' \in PoolStages
        /\ thread' = AllWaiting /\ batch' = [u \in 1..N |-> 1]
  /\ RecordTypes'
  /\ \A f \in Checkpoints : disk'[f] = disk[f]

\* A step that asks for nothing and saves nothing keeps the record.
LEMMA QuietKeepsRecords == RecordInv /\ QuietStep => RecordInv'
<1> SUFFICES ASSUME RecordInv, QuietStep
             PROVE  RecordInv'
  OBVIOUS
<1>1. CheckpointsAreOnRecord'
  BY DEF RecordInv, QuietStep, CheckpointsAreOnRecord, DialogueStands, Whole, Checkpoints
<1>2. StageRecords'
  BY DEF RecordInv, QuietStep, StageRecords, QuietStages, PoolStages
<1>3. PoolRecords'
  <2>1. ASSUME stage' \in PoolStages
        PROVE  \A u \in Units' : thread'[u] = "waiting" /\ batch'[u] = 1
    <3>1. known'.ends \subseteq Windows
      BY DEF QuietStep, RecordTypes
    <3>2. \A u \in Segments(known'.ends) : u \in 1..N
      BY <3>1, SegmentsHoldShots
    <3>3. Windows \subseteq 1..N
      BY AnalysisAssumption DEF Windows
    <3>4. \A u \in Units' : u \in 1..N
      BY <3>2, <3>3 DEF Units
    <3> QED BY <2>1, <3>4 DEF QuietStep, AllWaiting, QuietStages, PoolStages
  <2> QED BY <2>1 DEF PoolRecords, PoolRecord
<1> QED BY <1>1, <1>2, <1>3 DEF RecordInv, QuietStep

\* Nothing is asked before the first attempt.
LEMMA RecordInvInit == Init => RecordInv
<1> SUFFICES ASSUME Init PROVE RecordInv
  OBVIOUS
<1>1. RecordTypes
  BY DEF Init, RecordTypes, NoFiles, Fields, Blank, AllWaiting
<1>2. CheckpointsAreOnRecord
  BY DEF Init, CheckpointsAreOnRecord, NoFiles, Whole
<1>3. StageRecords /\ PoolRecords
  BY DEF Init, StageRecords, PoolRecords, PoolStages
<1> QED BY <1>1, <1>2, <1>3 DEF RecordInv

\* An attempt that begins forgets at most what nobody has saved.
LEMMA BeginIsQuiet == RecordInv /\ Begin => QuietStep
<1> SUFFICES ASSUME RecordInv, Begin PROVE QuietStep
  OBVIOUS
<1>1. ASSUME NEW first \in {"spec", "shots", "publish"}, NEW s \in Signatures,
             NEW l \in Limits, Enters(first, s, l)
      PROVE  QuietStep
  <2>1. RecordTypes'
    BY <1>1, AnalysisAssumption DEF Enters, RecordInv, RecordTypes
  <2> QED BY <1>1, <2>1 DEF Enters, LoadPriorCalls, QuietStep, QuietStages, Checkpoints
<1>2. ASSUME NEW s \in Signatures, BeginRefused(s)
      PROVE  QuietStep
  <2>1. RecordTypes'
    BY <1>2 DEF BeginRefused, process, RecordInv, RecordTypes
  <2> QED BY <1>2, <2>1 DEF BeginRefused, QuietStep, QuietStages, Checkpoints
<1> QED BY <1>1, <1>2 DEF Begin, BeginCached, BeginResumes, BeginAnew

\* An attempt that ends leaves the files and the calls.
LEMMA EndIsQuiet == RecordInv /\ (\E how : Leaves(how)) => QuietStep
<1> SUFFICES ASSUME RecordInv, NEW how, Leaves(how) PROVE QuietStep
  OBVIOUS
<1>1. RecordTypes'
  BY DEF Leaves, RecordInv, RecordTypes, Blank, AllWaiting
<1> QED BY <1>1 DEF Leaves, QuietStep, QuietStages, Checkpoints


\* Steps of the stages that make no call and save no answer.
LEMMA StageIsQuiet ==
  RecordInv /\ (Prepare \/ Segmentation \/ Finish) =>
    \/ QuietStep
    \/ ReconstructDialogue \/ OpenDialogues \/ WriteDialogues
    \/ TellStory \/ WriteStory
<1> USE DEF At, Goes, GoesOn, GoesToPool, Keeps, process, RecordTypes, Fields, NoFiles,
      QuietStep, QuietStages, PoolStages, Checkpoints, Blank, MidWrite
<1>0. SUFFICES ASSUME RecordTypes, Prepare \/ Segmentation \/ Finish
               PROVE  \/ QuietStep
                      \/ ReconstructDialogue \/ OpenDialogues \/ WriteDialogues
                      \/ TellStory \/ WriteStory
  BY DEF RecordInv
<1>1. CASE OpenSpec \/ SaveSpec \/ DetectShots
  BY <1>0, <1>1 DEF OpenSpec, SaveSpec, DetectShots
<1>2. CASE ReuseSubtitle \/ Transcribe \/ WriteSubtitle
  BY <1>0, <1>2 DEF ReuseSubtitle, Transcribe, WriteSubtitle
<1>3. CASE ReadDialogue \/ OpenMerged \/ WriteMerged
  BY <1>0, <1>3 DEF ReadDialogue, OpenMerged, WriteMerged
<1>4. CASE ResumeSegments
  BY <1>0, <1>4 DEF ResumeSegments, SegmentsStand
<1>5. CASE WriteFrames \/ ScenesFound
  BY <1>0, <1>5 DEF WriteFrames, ScenesFound
<1>6. CASE AskForScenes
  BY <1>0, <1>6 DEF AskForScenes, AllWaiting
<1>7. CASE WriteSegments
  BY <1>0, <1>7 DEF WriteSegments
<1>14. CASE WriteScene
  BY <1>0, <1>14 DEF WriteScene
<1>8. CASE \E i \in 1..N : CutClip(i)
  BY <1>0, <1>8 DEF CutClip
<1>9. CASE ClipsReady
  BY <1>0, <1>9 DEF ClipsReady, AllWaiting
<1>10. CASE NotesTaken
  BY <1>0, <1>10 DEF NotesTaken, AllWaiting
<1>11. CASE Summarised \/ Describe \/ ReuseStory
  BY <1>0, <1>11 DEF Summarised, Describe, ReuseStory
<1>12. CASE MakeCover \/ Seal
  BY <1>0, <1>12 DEF MakeCover, Seal
<1>13. CASE Publish
  BY <1>0, <1>13 DEF Publish, AllWaiting, Leaves
<1> QED BY <1>0, <1>1, <1>2, <1>3, <1>4, <1>5, <1>6, <1>7, <1>8, <1>9, <1>10, <1>11, <1>12, <1>13, <1>14
        DEF Prepare, Segmentation, Finish

\* The calls for the dialogue and the story.
LEMMA DocumentsAreOnRecord ==
  /\ RecordInv
  /\ ReconstructDialogue \/ OpenDialogues \/ WriteDialogues \/ TellStory \/ WriteStory
  => RecordInv'
<1> SUFFICES ASSUME RecordInv,
                    ReconstructDialogue \/ OpenDialogues \/ WriteDialogues
                      \/ TellStory \/ WriteStory
             PROVE  RecordInv'
  OBVIOUS
<1> USE DEF At, Goes, GoesOn, Keeps, process, Records
<1>1. RecordTypes'
  BY DEF ReconstructDialogue, OpenDialogues, WriteDialogues, TellStory, WriteStory,
     RecordInv, RecordTypes, Fields, NoFiles
<1>2. PoolRecords'
  BY DEF ReconstructDialogue, OpenDialogues, WriteDialogues, TellStory, WriteStory,
     PoolRecords, PoolStages
<1>3. StageRecords'
  BY DEF ReconstructDialogue, OpenDialogues, WriteDialogues, TellStory, WriteStory,
     RecordInv, StageRecords
<1>4. CheckpointsAreOnRecord'
  <2>1. CASE ReconstructDialogue \/ TellStory
    <3>1. ledger \subseteq ledger' /\ disk' = disk
      BY <2>1 DEF ReconstructDialogue, TellStory, RecordInv, StageRecords
    <3> QED BY <3>1 DEF RecordInv, CheckpointsAreOnRecord
  <2>2. CASE OpenDialogues \/ WriteDialogues
    BY <2>2 DEF OpenDialogues, WriteDialogues, RecordInv, RecordTypes, Fields, NoFiles,
       StageRecords, CheckpointsAreOnRecord, Whole
  <2>3. CASE WriteStory
    BY <2>3 DEF WriteStory, RecordInv, RecordTypes, Fields, NoFiles,
       StageRecords, CheckpointsAreOnRecord, Whole
  <2> QED BY <2>1, <2>2, <2>3
<1> QED BY <1>1, <1>2, <1>3, <1>4 DEF RecordInv

\* What any step of thread u leaves as it was.
ThreadFrame(u) ==
  /\ RecordTypes'
  /\ stage \in PoolStages /\ u \in Units
  /\ stage' = stage /\ limit' = limit
  /\ stage = "windows" \/ known'.ends = known.ends
  /\ \A v \in (1..N) \ {u} : thread'[v] = thread[v] /\ batch'[v] = batch[v]
  /\ ledger \subseteq ledger' /\ calls \subseteq calls' /\ ledger' \subseteq calls'

\* The units of a pool are numbered by the shots.
LEMMA UnitsAreShots ==
  ASSUME RecordTypes, NEW u \in Units
  PROVE  u \in 1..N /\ (stage \in PoolStages \ {"windows"} => Batches(u) \in 1..N)
<1>0. Windows \subseteq 1..N /\ known.ends \subseteq Windows /\ limit \in Nat \ {0}
  BY AnalysisAssumption DEF Windows, RecordTypes
<1>1. \A i \in Segments(known.ends) :
        i \in 1..N /\ BatchCount(Segment(known.ends, i), limit) \in 1..N
  BY <1>0, SegmentsHoldShots, BatchesOfSegments
<1>2. CASE stage = "windows"
  BY <1>0, <1>2 DEF Units
<1>3. CASE stage # "windows"
  <2>1. u \in Segments(known.ends)
    BY <1>3 DEF Units
  <2>2. u \in 1..N /\ BatchCount(Segment(known.ends, u), limit) \in 1..N
    BY <2>1, <1>1
  <2> QED BY <2>2 DEF Batches, SegmentOf
<1> QED BY <1>2, <1>3

\* What a thread does leaves the record of the other threads.
LEMMA OtherThreadsKeepRecords ==
  ASSUME RecordInv, NEW u \in 1..N, ThreadFrame(u), PoolRecord(u)'
  PROVE  StageRecords' /\ PoolRecords'
<1>1. StageRecords'
  BY DEF ThreadFrame, StageRecords, PoolStages
<1>2. Units' = Units
  BY DEF ThreadFrame, Units
<1>3. ASSUME NEW v \in Units, v # u
      PROVE  PoolRecord(v)'
  <2>1. v \in 1..N
    BY UnitsAreShots DEF RecordInv
  <2>2. thread'[v] = thread[v] /\ batch'[v] = batch[v]
    BY <2>1, <1>3 DEF ThreadFrame
  <2>3. CASE stage = "annotate"
    <3>1. Batches(v)' = Batches(v)
      <4>1. known'.ends = known.ends /\ limit' = limit
        BY <2>3 DEF ThreadFrame
      <4> QED BY <4>1 DEF Batches, SegmentOf
    <3>2. Request(v)' = Request(v)
      BY <2>3, <2>2, <3>1 DEF ThreadFrame, Request, FileOf
    <3>3. PoolRecord(v)
      BY <1>3 DEF RecordInv, PoolRecords, ThreadFrame
    <3> QED BY <2>2, <2>3, <3>1, <3>2, <3>3 DEF PoolRecord, NotesOnRecord, ThreadFrame
  <2>4. CASE stage # "annotate"
    <3>1. Request(v)' = Request(v)
      BY <2>4 DEF ThreadFrame, Request
    <3>2. PoolRecord(v)
      BY <1>3 DEF RecordInv, PoolRecords, ThreadFrame
    <3> QED BY <2>2, <2>4, <3>1, <3>2 DEF PoolRecord, ThreadFrame
  <2> QED BY <2>3, <2>4
<1> QED BY <1>1, <1>2, <1>3 DEF PoolRecords

\* What a thread takes is of the type of what was there.
LEMMA TakesKeepsTypes ==
  ASSUME RecordTypes, NEW u \in 1..N, stage \in PoolStages, u \in Units, NEW value, Takes(u, value),
         UNCHANGED <<stage, limit>>
  PROVE  /\ DOMAIN known' = DOMAIN Blank /\ known'.ends \subseteq Windows
         /\ DOMAIN thread' = 1..N /\ batch' \in [1..N -> Nat \ {0}]
         /\ stage = "windows" \/ known'.ends = known.ends
         /\ \A v \in (1..N) \ {u} : thread'[v] = thread[v] /\ batch'[v] = batch[v]
<1> USE DEF Takes, RecordTypes, Blank, Becomes, PoolStages
<1>1. CASE stage = "windows"
  <2>1. /\ thread' = [thread EXCEPT ![u] = "done"] /\ batch' = batch
        /\ known' = [known EXCEPT !.ends = IF value THEN @ \cup {u} ELSE @]
    BY <1>1
  <2>2. u \in Windows
    BY <1>1 DEF Units
  <2>3. known'.ends = known.ends \/ known'.ends = known.ends \cup {u}
    BY <2>1
  <2> QED BY <1>1, <2>1, <2>2, <2>3
<1>2. CASE stage = "annotate"
  <2>1. /\ thread' = [thread EXCEPT ![u] = "looking"]
        /\ batch' = [batch EXCEPT ![u] = @ + 1]
        /\ DOMAIN known' = DOMAIN known /\ known'.ends = known.ends
    BY <1>2
  <2> QED BY <2>1
<1>3. CASE stage = "summarise"
  BY <1>3
<1> QED BY <1>1, <1>2, <1>3

\* A thread changes no more than its frame says.
LEMMA ThreadsKeepTheFrame ==
  ASSUME RecordInv, NEW u \in 1..N, Thread(u)
  PROVE  ThreadFrame(u)
<1> USE DEF InPool, InThread, Becomes, RecordInv, ThreadFrame
<1>0. stage # "off" /\ ledger \subseteq calls
  BY DEF StageRecords, PoolStages, Thread, Begins, Reuses, Asks, SaysNothing, Answers, Fails,
     SavesScene, SavesNotes, SavesSummary, Merges, ThreadStops
<1> USE DEF RecordTypes, Fields, NoFiles, Blank
<1>1. CASE Begins(u)
  BY <1>0, <1>1 DEF Begins
<1>2. CASE Reuses(u)
  <2>1. \E value : Takes(u, value) /\ stage \in PoolStages /\ u \in Units
    BY <1>2 DEF Reuses
  <2> QED BY <1>0, <1>2, <2>1, TakesKeepsTypes DEF Reuses
<1>3. CASE Asks(u)
  BY <1>0, <1>3 DEF Asks
<1>4. CASE SaysNothing(u)
  BY <1>0, <1>4 DEF SaysNothing
<1>5. CASE Answers(u)
  BY <1>0, <1>5 DEF Answers
<1>6. CASE Fails(u)
  BY <1>0, <1>6 DEF Fails
<1>7. CASE SavesScene(u)
  <2>1. \E value : Takes(u, value) /\ stage \in PoolStages /\ u \in Units
    BY <1>7 DEF SavesScene
  <2> QED BY <1>0, <1>7, <2>1, TakesKeepsTypes DEF SavesScene
<1>8. CASE SavesNotes(u)
  <2>1. \E value : Takes(u, value) /\ stage \in PoolStages /\ u \in Units
    BY <1>8 DEF SavesNotes
  <2> QED BY <1>0, <1>8, <2>1, TakesKeepsTypes DEF SavesNotes
<1>9. CASE SavesSummary(u)
  <2>1. \E value : Takes(u, value) /\ stage \in PoolStages /\ u \in Units
    BY <1>9 DEF SavesSummary
  <2> QED BY <1>0, <1>9, <2>1, TakesKeepsTypes DEF SavesSummary
<1>10. CASE Merges(u)
  BY <1>0, <1>10 DEF Merges
<1>11. CASE ThreadStops(u)
  BY <1>0, <1>11 DEF ThreadStops
<1> QED BY <1>1, <1>2, <1>3, <1>4, <1>5, <1>6, <1>7, <1>8, <1>9, <1>10, <1>11, Thread(u)
        DEF Thread

\* The file of a batch is one of its segment, and its request is known by it.
LEMMA BatchFiles ==
  ASSUME RecordTypes, NEW u \in Units, stage = "annotate", batch[u] <= Batches(u)
  PROVE  /\ FileOf(u) \in (1..N) \X (0..N) /\ FileOf(u)[1] = u
         /\ FileOf(u) = <<u, FileOf(u)[2]>> /\ FileOf(u)[2] \in 0..N
<1>1. u \in 1..N /\ Batches(u) \in 1..N /\ N \in Nat
  BY UnitsAreShots, AnalysisAssumption DEF PoolStages
<1>2. batch[u] \in Nat \ {0}
  BY <1>1 DEF RecordTypes
<1> QED BY <1>1, <1>2 DEF FileOf, BatchFile

\* Steps of a thread that save nothing.
LEMMA ThreadsThatOnlyThink ==
  ASSUME RecordInv, NEW u \in 1..N, ThreadFrame(u), disk' = disk
  PROVE  CheckpointsAreOnRecord'
BY DEF RecordInv, CheckpointsAreOnRecord, ThreadFrame

\* A thread that has called has its own call on record.
LEMMA ThreadKeepsOwnRecord ==
  ASSUME RecordInv, NEW u \in 1..N, Thread(u), ThreadFrame(u)
  PROVE  PoolRecord(u)'
<1> USE DEF Becomes, InThread
<1>0. /\ RecordTypes /\ PoolRecord(u) /\ u \in Units /\ stage \in PoolStages
      /\ stage' = stage /\ limit' = limit /\ u \in 1..N
      /\ DOMAIN thread = 1..N /\ batch \in [1..N -> Nat \ {0}]
      /\ ledger \subseteq ledger' /\ calls \subseteq calls'
      /\ stage = "annotate" => known'.ends = known.ends
  BY DEF RecordInv, PoolRecords, ThreadFrame, RecordTypes
<1>a. ASSUME thread'[u] \notin {"asking", "answered"}, batch'[u] = batch[u]
      PROVE  PoolRecord(u)'
  BY <1>0, <1>a DEF PoolRecord, NotesOnRecord
<1>b. ASSUME batch'[u] = batch[u]
      PROVE  Request(u)' = Request(u) /\ (stage = "annotate" => Batches(u)' = Batches(u))
  <2>1. ASSUME stage = "annotate"
        PROVE  Batches(u)' = Batches(u)
    BY <2>1, <1>0 DEF Batches, SegmentOf
  <2>2. CASE stage = "annotate"
    BY <1>0, <1>b, <2>1, <2>2 DEF Request, FileOf
  <2>3. CASE stage # "annotate"
    BY <1>0, <2>3 DEF Request
  <2> QED BY <2>1, <2>2, <2>3
<1>1. CASE Begins(u) \/ SaysNothing(u) \/ Fails(u) \/ Merges(u) \/ ThreadStops(u)
  <2>1. thread'[u] \notin {"asking", "answered"} /\ batch'[u] = batch[u]
    BY <1>0, <1>1 DEF Begins, SaysNothing, Fails, Merges, ThreadStops
  <2> QED BY <2>1, <1>a
<1>2. CASE Asks(u)
  <2>1. thread'[u] = "asking" /\ batch'[u] = batch[u] /\ Request(u) \in calls' /\ ~AllBatches(u)
    BY <1>0, <1>2 DEF Asks
  <2>2. stage = "annotate" => batch[u] <= Batches(u)
    BY <1>0, <2>1, UnitsAreShots DEF AllBatches, PoolStages
  <2> QED BY <1>0, <1>b, <2>1, <2>2 DEF PoolRecord, NotesOnRecord
<1>3. CASE Answers(u)
  <2>1. thread[u] = "asking" /\ thread'[u] = "answered" /\ batch'[u] = batch[u] /\ ledger' = calls
    BY <1>0, <1>3 DEF Answers
  <2> QED BY <1>0, <1>b, <2>1 DEF PoolRecord, NotesOnRecord
<1>4. CASE Reuses(u) \/ SavesNotes(u) \/ SavesScene(u) \/ SavesSummary(u)
  <2>1. \E value : Takes(u, value)
    BY <1>4 DEF Reuses, SavesNotes, SavesScene, SavesSummary
  <2>2. CASE stage # "annotate"
    <3>1. thread'[u] \notin {"asking", "answered"} /\ batch'[u] = batch[u]
      <4>1. CASE stage = "windows"
        BY <1>0, <2>1, <4>1 DEF Takes
      <4>2. CASE stage = "summarise"
        BY <1>0, <2>1, <4>2 DEF Takes
      <4> QED BY <1>0, <2>2, <4>1, <4>2 DEF PoolStages
    <3> QED BY <3>1, <1>a
  <2>3. CASE stage = "annotate"
    <3>1. thread'[u] = "looking"
      BY <1>0, <2>1, <2>3 DEF Takes
    <3>2. CASE Reuses(u)
      <4>1. ~AllBatches(u) /\ NotesStand(FileOf(u), BatchKey(u))
        BY <3>2, <2>3 DEF Reuses, StandsFor
      <4>2. batch[u] <= Batches(u)
        BY <1>0, <2>3, <4>1, UnitsAreShots DEF AllBatches, PoolStages
      <4>3. /\ FileOf(u) \in DOMAIN disk.notes /\ FileOf(u)[1] = u
        BY <1>0, <2>3, <4>2, BatchFiles DEF RecordTypes
      <4>4. disk.notes[FileOf(u)] # None
        BY <4>1 DEF NotesStand
      <4>5. \E j \in 0..N : <<"notes", <<FileOf(u)[1], j>>>> \in ledger
        BY <4>3, <4>4 DEF RecordInv, CheckpointsAreOnRecord
      <4> QED BY <1>0, <2>3, <3>1, <4>3, <4>5 DEF PoolRecord, NotesOnRecord
    <3>3. CASE SavesNotes(u)
      <4>1. thread[u] = "answered"
        BY <3>3 DEF SavesNotes
      <4>2. batch[u] <= Batches(u) /\ Request(u) \in ledger
        BY <1>0, <2>3, <4>1 DEF PoolRecord
      <4>3. <<"notes", FileOf(u)>> \in ledger
        BY <4>2, <2>3 DEF Request
      <4>4. FileOf(u) = <<u, FileOf(u)[2]>> /\ FileOf(u)[2] \in 0..N
        BY <1>0, <2>3, <4>2, BatchFiles
      <4> QED BY <1>0, <2>3, <3>1, <4>3, <4>4 DEF PoolRecord, NotesOnRecord
    <3> QED BY <1>4, <2>3, <3>2, <3>3 DEF SavesScene, SavesSummary
  <2> QED BY <2>2, <2>3
<1> QED BY <1>1, <1>2, <1>3, <1>4, Thread(u) DEF Thread

\* The checkpoint a thread saves has its call on record.
LEMMA ThreadCheckpointsAreOnRecord ==
  ASSUME RecordInv, NEW u \in 1..N, Thread(u), ThreadFrame(u)
  PROVE  CheckpointsAreOnRecord'
<1>0. /\ RecordTypes /\ CheckpointsAreOnRecord /\ PoolRecord(u)
      /\ u \in Units /\ stage \in PoolStages /\ ledger \subseteq ledger'
  BY DEF RecordInv, PoolRecords, ThreadFrame
<1>1. CASE Begins(u) \/ Reuses(u) \/ Asks(u) \/ SaysNothing(u) \/ Answers(u) \/ Fails(u)
             \/ ThreadStops(u)
  <2>1. disk' = disk
    BY <1>1 DEF Begins, Reuses, Asks, SaysNothing, Answers, Fails, ThreadStops
  <2> QED BY <2>1, ThreadsThatOnlyThink
<1> USE DEF RecordTypes, Fields, NoFiles
<1>2. CASE SavesScene(u)
  <2>1. <<"window", u>> \in ledger
    BY <1>0, <1>2 DEF SavesScene, PoolRecord, Request
  <2> QED BY <1>0, <1>2, <2>1 DEF SavesScene, CheckpointsAreOnRecord
<1>3. CASE SavesSummary(u)
  <2>1. <<"says", u>> \in ledger
    BY <1>0, <1>3 DEF SavesSummary, PoolRecord, Request
  <2> QED BY <1>0, <1>3, <2>1 DEF SavesSummary, CheckpointsAreOnRecord
<1>4. CASE SavesNotes(u)
  <2>1. batch[u] <= Batches(u) /\ <<"notes", FileOf(u)>> \in ledger
    BY <1>0, <1>4 DEF SavesNotes, PoolRecord, Request
  <2>2. FileOf(u) = <<FileOf(u)[1], FileOf(u)[2]>> /\ FileOf(u)[2] \in 0..N
    BY <1>0, <1>4, <2>1, BatchFiles DEF SavesNotes
  <2>3. \A f \in (1..N) \X (0..N) : f # FileOf(u) => disk'.notes[f] = disk.notes[f]
    BY <1>0, <1>4 DEF SavesNotes
  <2>4. \A f \in Checkpoints \ {"notes"} : disk'[f] = disk[f]
    BY <1>0, <1>4 DEF SavesNotes, Checkpoints
  <2>5. DOMAIN disk'.notes = (1..N) \X (0..N)
    BY DEF ThreadFrame
  <2> QED BY <1>0, <2>1, <2>2, <2>3, <2>4, <2>5
          DEF CheckpointsAreOnRecord, Checkpoints, DialogueStands, Whole
<1>5. CASE Merges(u)
  <2>1. batch[u] > 1
    <3>1. stage = "annotate" /\ batch[u] > Batches(u)
      BY <1>5 DEF Merges, AllBatches
    <3>2. Batches(u) \in 1..N /\ u \in 1..N /\ N \in Nat
      BY <1>0, <3>1, UnitsAreShots, AnalysisAssumption DEF PoolStages
    <3> QED BY <1>0, <3>1, <3>2
  <2>2. \E j \in 0..N : <<"notes", <<u, j>>>> \in ledger
    BY <1>0, <1>5, <2>1 DEF PoolRecord, Merges, AllBatches, NotesOnRecord
  <2>3. \A f \in (1..N) \X (0..N) : f # <<u, 0>> => disk'.notes[f] = disk.notes[f]
    BY <1>0, <1>5 DEF Merges
  <2>4. \A f \in Checkpoints \ {"notes"} : disk'[f] = disk[f]
    BY <1>0, <1>5 DEF Merges, Checkpoints
  <2>5. DOMAIN disk'.notes = (1..N) \X (0..N)
    BY DEF ThreadFrame
  <2>6. \A f \in (1..N) \X (0..N) : disk'.notes[f] # None => \E j \in 0..N :
          (j = f[2] \/ f[2] = 0) /\ <<"notes", <<f[1], j>>>> \in ledger'
    <3> SUFFICES ASSUME NEW f \in (1..N) \X (0..N), disk'.notes[f] # None
                 PROVE  \E j \in 0..N :
                          (j = f[2] \/ f[2] = 0) /\ <<"notes", <<f[1], j>>>> \in ledger'
      OBVIOUS
    <3>1. CASE f = <<u, 0>>
      <4>1. f[1] = u /\ f[2] = 0
        BY <3>1
      <4> QED BY <1>0, <2>2, <4>1
    <3>2. CASE f # <<u, 0>>
      BY <1>0, <2>3, <3>2 DEF CheckpointsAreOnRecord
    <3> QED BY <3>1, <3>2
  <2> QED BY <1>0, <2>4, <2>5, <2>6
          DEF CheckpointsAreOnRecord, Checkpoints, DialogueStands, Whole
<1> QED BY <1>1, <1>2, <1>3, <1>4, <1>5, Thread(u) DEF Thread

\* Every step keeps the record.
LEMMA RecordInvNext == RecordInv /\ [Next]_vars => RecordInv'
<1> SUFFICES ASSUME RecordInv, [Next]_vars PROVE RecordInv'
  OBVIOUS
<1>1. CASE Begin
  BY <1>1, BeginIsQuiet, QuietKeepsRecords
<1>2. CASE Prepare \/ Segmentation \/ Finish
  BY <1>2, StageIsQuiet, QuietKeepsRecords, DocumentsAreOnRecord
<1>3. CASE \E u \in 1..N : Thread(u)
  BY <1>3, ThreadsKeepTheFrame, ThreadKeepsOwnRecord, ThreadCheckpointsAreOnRecord,
     OtherThreadsKeepRecords DEF RecordInv, ThreadFrame
<1>4. CASE WindsUp \/ Stops \/ Breaks \/ Crash
  <2>1. \E how : Leaves(how)
    BY <1>4 DEF WindsUp, Stops, Breaks, Crash
  <2> QED BY <2>1, EndIsQuiet, QuietKeepsRecords
<1>5. CASE RequestStop \/ UNCHANGED vars
  <2>1. UNCHANGED <<disk, ledger, stage, process>>
    BY <1>5 DEF RequestStop, vars
  <2> QED BY <2>1 DEF process, RecordInv, RecordTypes, CheckpointsAreOnRecord, StageRecords,
       PoolRecords, PoolRecord, Units, Request, Batches, SegmentOf, FileOf, NotesOnRecord,
       DialogueStands
<1> QED BY <1>1, <1>2, <1>3, <1>4, <1>5 DEF Next, Advance

\* Every checkpoint a later attempt may reuse has its call on record
\* (CheckpointsAreOnRecord).
THEOREM CheckpointsOnRecord == Spec => []CheckpointsAreOnRecord
<1>1. RecordInv => CheckpointsAreOnRecord
  BY DEF RecordInv
<1> QED BY <1>1, RecordInvInit, RecordInvNext, PTL DEF Spec

(***************************************************************************)
(* The inductive invariant.  The property speaks of a step; what makes it  *)
(* hold is what an attempt knows before it: past the spec stage the memory *)
(* is on record as its own, and a memory nothing is on record of is empty. *)
(***************************************************************************)
WriterInv ==
  /\ DOMAIN disk = Fields
  /\ stage \notin {"off", "spec"} => sig \in Signatures /\ disk.spec = sig
  /\ stage = "spec" =>
       /\ sig \in Signatures
       /\ disk = NoFiles \/ disk = [NoFiles EXCEPT !.temp = TRUE]
  /\ disk.spec = None /\ ~disk.temp => disk = NoFiles

(***************************************************************************)
(* The kinds of step, as far as the record is concerned.                   *)
(***************************************************************************)
StaysAway == UNCHANGED <<disk, stage, sig>>
GoesAway == stage' = "off" /\ UNCHANGED disk
TakesOver ==
  /\ stage = "off" /\ UNCHANGED disk /\ sig' \in Signatures
  /\ \/ stage' \in {"publish", "shots"} /\ disk.spec = sig'
     \/ stage' = "spec" /\ disk.spec = None /\ ~disk.temp
PutsOnRecord ==
  /\ stage = "spec" /\ sig' = sig
  /\ \/ /\ ~disk.temp /\ disk' = [disk EXCEPT !.temp = TRUE] /\ stage' = "spec"
     \/ /\ disk.temp /\ disk' = [disk EXCEPT !.temp = FALSE, !.spec = sig]
        /\ stage' = "shots"
WorksOnRecord ==
  /\ stage \notin {"off", "spec"} /\ stage' \notin {"off", "spec"} /\ sig' = sig
  /\ DOMAIN disk' = DOMAIN disk
  /\ disk'.spec = disk.spec
Step == StaysAway \/ GoesAway \/ TakesOver \/ PutsOnRecord \/ WorksOnRecord

\* An attempt takes the memory over when it is on record as its own, or empty.
LEMMA BeginTakesOver == Begin => StaysAway \/ TakesOver
<1>1. ASSUME NEW s \in Signatures, NEW l \in Limits, BeginCached(s, l)
      PROVE  TakesOver
  BY <1>1 DEF BeginCached, Enters, Cached, TakesOver
<1>2. ASSUME NEW s \in Signatures, NEW l \in Limits, BeginResumes(s, l)
      PROVE  TakesOver
  BY <1>2 DEF BeginResumes, Enters, TakesOver
<1>3. ASSUME NEW s \in Signatures, NEW l \in Limits, BeginAnew(s, l)
      PROVE  TakesOver
  BY <1>3 DEF BeginAnew, Enters, TakesOver
<1>4. ASSUME NEW s \in Signatures, BeginRefused(s)
      PROVE  StaysAway
  BY <1>4 DEF BeginRefused, StaysAway, process
<1> QED BY <1>1, <1>2, <1>3, <1>4 DEF Begin

\* The stages before the segments.
LEMMA PrepareSteps == DOMAIN disk = Fields /\ Prepare => PutsOnRecord \/ WorksOnRecord
<1> SUFFICES ASSUME DOMAIN disk = Fields, Prepare
             PROVE  PutsOnRecord \/ WorksOnRecord
  OBVIOUS
<1> USE DEF At, Goes, GoesOn, Keeps, process, Fields, NoFiles
<1>1. CASE OpenSpec
  BY <1>1 DEF OpenSpec, PutsOnRecord
<1>2. CASE SaveSpec
  BY <1>2 DEF SaveSpec, PutsOnRecord
<1>3. CASE DetectShots \/ ReuseSubtitle \/ Transcribe \/ WriteSubtitle
  BY <1>3 DEF DetectShots, ReuseSubtitle, Transcribe, WriteSubtitle, WorksOnRecord
<1>4. CASE ReadDialogue \/ ReconstructDialogue
  BY <1>4 DEF ReadDialogue, ReconstructDialogue, WorksOnRecord
<1>5. CASE OpenDialogues \/ WriteDialogues \/ OpenMerged \/ WriteMerged
  BY <1>5 DEF OpenDialogues, WriteDialogues, OpenMerged, WriteMerged, WorksOnRecord
<1> QED BY <1>1, <1>2, <1>3, <1>4, <1>5 DEF Prepare

\* The stages of the segments and of their clips.
LEMMA SegmentationSteps == DOMAIN disk = Fields /\ Segmentation => WorksOnRecord
<1> SUFFICES ASSUME DOMAIN disk = Fields, Segmentation
             PROVE  WorksOnRecord
  OBVIOUS
<1> USE DEF At, Goes, GoesOn, GoesToPool, Keeps, process, Fields, NoFiles, WorksOnRecord
<1>1. CASE ResumeSegments \/ WriteFrames \/ AskForScenes \/ ScenesFound
  BY <1>1 DEF ResumeSegments, WriteFrames, AskForScenes, ScenesFound
<1>2. CASE WriteSegments \/ WriteScene
  BY <1>2 DEF WriteSegments, WriteScene
<1>3. CASE \E i \in 1..N : CutClip(i)
  BY <1>3 DEF CutClip
<1>4. CASE ClipsReady
  BY <1>4 DEF ClipsReady
<1> QED BY <1>1, <1>2, <1>3, <1>4 DEF Segmentation

\* The threads of a pool write checkpoints only.
LEMMA ThreadSteps ==
  ASSUME DOMAIN disk = Fields, NEW u \in 1..N, Thread(u)
  PROVE  WorksOnRecord
<1> USE DEF InPool, InThread, PoolStages, Fields, NoFiles, WorksOnRecord
<1>1. CASE Begins(u) \/ Reuses(u) \/ Asks(u) \/ SaysNothing(u)
  BY <1>1 DEF Begins, Reuses, Asks, SaysNothing
<1>2. CASE Answers(u) \/ Fails(u) \/ ThreadStops(u)
  BY <1>2 DEF Answers, Fails, ThreadStops
<1>3. CASE SavesScene(u)
  BY <1>3 DEF SavesScene
<1>4. CASE SavesNotes(u)
  BY <1>4 DEF SavesNotes
<1>5. CASE SavesSummary(u)
  BY <1>5 DEF SavesSummary
<1>6. CASE Merges(u)
  BY <1>6 DEF Merges
<1> QED BY <1>1, <1>2, <1>3, <1>4, <1>5, <1>6, Thread(u) DEF Thread

\* The stages after the pools.
LEMMA FinishSteps == DOMAIN disk = Fields /\ Finish => WorksOnRecord \/ GoesAway
<1> SUFFICES ASSUME DOMAIN disk = Fields, Finish
             PROVE  WorksOnRecord \/ GoesAway
  OBVIOUS
<1> USE DEF At, Goes, GoesOn, GoesToPool, Keeps, process, Fields, NoFiles
<1>1. CASE NotesTaken \/ Summarised \/ Describe
  BY <1>1 DEF NotesTaken, Summarised, Describe, WorksOnRecord
<1>2. CASE ReuseStory \/ TellStory \/ WriteStory
  BY <1>2 DEF ReuseStory, TellStory, WriteStory, WorksOnRecord
<1>3. CASE MakeCover \/ Seal
  BY <1>3 DEF MakeCover, Seal, WorksOnRecord
<1>4. CASE Publish
  BY <1>4 DEF Publish, Leaves, GoesAway
<1> QED BY <1>1, <1>2, <1>3, <1>4 DEF Finish

\* Every step is of one of the kinds.
LEMMA EveryStep == DOMAIN disk = Fields /\ [Next]_vars => Step
<1> SUFFICES ASSUME DOMAIN disk = Fields, [Next]_vars
             PROVE  Step
  OBVIOUS
<1>1. CASE Begin
  BY <1>1, BeginTakesOver DEF Step
<1>2. CASE Prepare
  BY <1>2, PrepareSteps DEF Step
<1>3. CASE Segmentation
  BY <1>3, SegmentationSteps DEF Step
<1>4. CASE \E u \in 1..N : Thread(u)
  BY <1>4, ThreadSteps DEF Step
<1>5. CASE Finish
  BY <1>5, FinishSteps DEF Step
<1>6. CASE WindsUp \/ Stops \/ Breaks \/ Crash
  BY <1>6 DEF WindsUp, Stops, Breaks, Crash, Leaves, Step, GoesAway
<1>7. CASE RequestStop \/ UNCHANGED vars
  BY <1>7 DEF RequestStop, vars, process, Step, StaysAway
<1> QED BY <1>1, <1>2, <1>3, <1>4, <1>5, <1>6, <1>7 DEF Next, Advance

(***************************************************************************)
(* The invariant.                                                          *)
(***************************************************************************)
LEMMA WriterInvInit == Init => WriterInv
BY DEF Init, WriterInv, Fields, NoFiles

\* Every step is one of those that keep the memory with its analysis.
LEMMA WriterInvNext == WriterInv /\ [Next]_vars => WriterInv'
<1> SUFFICES ASSUME WriterInv, [Next]_vars
             PROVE  WriterInv'
  OBVIOUS
<1>0. Step
  BY EveryStep DEF WriterInv
<1>a. \A s \in Signatures : s # None
  BY NoFileAssumption
<1>1. CASE StaysAway \/ GoesAway
  BY <1>1 DEF StaysAway, GoesAway, WriterInv
<1>2. CASE TakesOver
  BY <1>2 DEF TakesOver, WriterInv
<1>3. CASE PutsOnRecord
  <2>1. CASE disk = NoFiles
    BY <1>3, <2>1 DEF PutsOnRecord, WriterInv, Fields, NoFiles
  <2>2. CASE disk = [NoFiles EXCEPT !.temp = TRUE]
    BY <1>3, <1>a, <2>2 DEF PutsOnRecord, WriterInv, Fields, NoFiles
  <2> QED BY <1>3, <2>1, <2>2 DEF PutsOnRecord, WriterInv
<1>4. CASE WorksOnRecord
  BY <1>4, <1>a DEF WorksOnRecord, WriterInv
<1> QED BY <1>0, <1>1, <1>2, <1>3, <1>4 DEF Step

\* Past its first stage an attempt works on a memory that is on record as its
\* own, and a memory nothing is on record of is empty.
THEOREM WriterInvariant == Spec => []WriterInv
<1> QED BY WriterInvInit, WriterInvNext, PTL DEF Spec

\* Only the analysis on record writes into the memory (OnlyTheRecordedAnalysisWrites).
THEOREM RecordedAnalysisWrites == Spec => OnlyTheRecordedAnalysisWrites
<1> DEFINE Writes ==
      disk' # disk =>
        \/ disk.spec = sig
        \/ disk = NoFiles
        \/ disk = [NoFiles EXCEPT !.temp = TRUE] /\ disk'.spec = sig
<1>1. WriterInv /\ [Next]_vars => [Writes]_vars
  <2> SUFFICES ASSUME WriterInv, [Next]_vars PROVE Writes
    OBVIOUS
  <2>0. Step
    BY EveryStep DEF WriterInv
  <2>1. CASE StaysAway \/ GoesAway \/ TakesOver
    BY <2>1 DEF StaysAway, GoesAway, TakesOver
  <2>2. CASE PutsOnRecord
    BY <2>2 DEF PutsOnRecord, WriterInv, NoFiles
  <2>3. CASE WorksOnRecord
    BY <2>3 DEF WorksOnRecord, WriterInv
  <2> QED BY <2>0, <2>1, <2>2, <2>3 DEF Step
<1> QED BY <1>1, WriterInvariant, PTL DEF Spec, OnlyTheRecordedAnalysisWrites

(***************************************************************************)
(* A sealed memory is whole.                                               *)
(***************************************************************************)
AfterScenes == {"clips", "annotate", "summarise", "describe", "story", "write story",
                "cover", "manifest"}
AfterClips == AfterScenes \ {"clips"}
AfterNotes == AfterClips \ {"annotate"}
AfterDescription == {"story", "write story", "cover", "manifest"}
AfterStory == {"cover", "manifest"}
AfterDialogue == {"scene", "windows", "segments", "write scene"} \cup AfterScenes
AfterSubtitle ==
  {"dialogue", "open dialogues", "write dialogues", "open merged", "write merged"}
    \cup AfterDialogue

FileTypes ==
  /\ RecordTypes /\ attempts \in Nat
  /\ DOMAIN disk.clips = 1..N
  /\ disk.srt \in {None, Empty} \cup Nat
  /\ disk.dialogues \in {None, Empty} \cup Readings
  /\ disk.merged \in {None, Empty} \cup Readings
  /\ disk.segments \in {None} \cup Boundaries
  /\ disk.description \in {None} \cup Descriptions
  /\ disk.story \in {None} \cup Stories
  /\ known.notes \in [1..N -> Notes] /\ known.says \in [1..N -> Sayings]
  /\ DOMAIN answer = 1..N

ShotsTold(notes, ends) ==
  \A i \in Segments(ends) : DOMAIN notes[i] = ShotsOf(Segment(ends, i))

\* What an attempt has done by the stage it is in.
StageFiles ==
  /\ stage \in {"subtitle", "srt"} => disk.shots
  /\ stage \in AfterSubtitle => Whole(disk.srt) /\ disk.shots
  /\ stage = "open merged" => disk.dialogues \in Readings
  /\ stage \in AfterDialogue => DialogueStands /\ known.reading = disk.dialogues
  /\ stage = "write scene" => disk.segments \in Boundaries /\ disk.segments.ends = known.ends
  /\ stage \in AfterScenes =>
       disk.segments \in Boundaries /\ disk.scene /\ disk.segments.ends = known.ends
  /\ stage \in AfterClips => \A i \in Segments(known.ends) : disk.clips[i] # None
  /\ stage \in AfterNotes => ShotsTold(known.notes, known.ends)
  /\ stage \in AfterDescription =>
       /\ disk.description \in Descriptions /\ disk.description.ends = known.ends
       /\ ShotsTold(disk.description.notes, known.ends)
  /\ stage \in AfterStory =>
       disk.story \in Stories /\ disk.story.count = SegmentCount(known.ends)
  /\ stage = "manifest" => disk.cover

\* A clip is of a segment of the scene that stands; there is none before.
ClipFiles ==
  \A i \in 1..N : disk.clips[i] # None =>
    /\ disk.segments \in Boundaries /\ disk.scene
    /\ disk.clips[i] = Segment(disk.segments.ends, i)
    /\ stage \notin {"windows", "segments", "write scene"}

\* What a checkpoint says, and what a thread knows, of the shots it is about.
TakenShots(u) ==
  IF thread[u] = "done"
    THEN ShotsOf(SegmentOf(u))
    ELSE {x \in ShotsOf(SegmentOf(u)) : x < SegmentOf(u)[1] + (batch[u] - 1) * limit}
NoteFiles ==
  /\ \A f \in (1..N) \X (0..N) : disk.notes[f] # None =>
       /\ disk.notes[f].notes \in Notes
       /\ DOMAIN disk.notes[f].notes = ShotsOf(disk.notes[f].key.shots)
  /\ \A i \in 1..N : disk.says[i] # None => disk.says[i].says \in Nat
  /\ stage \in {"annotate", "summarise"} => \A u \in Units :
       thread[u] = "answered" => answer[u] \in Nat
  /\ stage = "annotate" => \A u \in Units : DOMAIN known.notes[u] = TakenShots(u)
  /\ stage \notin {"annotate", "publish"} \cup AfterNotes =>
       known.notes = [i \in 1..N |-> << >>]

Sealed ==
  /\ disk.manifest = disk.spec
  /\ Whole(disk.srt) /\ DialogueStands /\ disk.shots /\ disk.cover
  /\ disk.segments \in Boundaries /\ disk.scene
  /\ disk.description \in Descriptions /\ disk.description.ends = disk.segments.ends
  /\ disk.story \in Stories /\ disk.story.count = SegmentCount(disk.description.ends)
  /\ ShotsTold(disk.description.notes, disk.description.ends)
  /\ \A i \in Segments(disk.description.ends) : disk.clips[i] # None
SealFiles == disk.manifest # None => stage \in {"off", "publish"} /\ Sealed

SealInv ==
  /\ WriterInv /\ RecordInv /\ FileTypes
  /\ StageFiles /\ ClipFiles /\ NoteFiles /\ SealFiles

\* A manifest is written over whole files.
LEMMA SealInvSeals == SealInv => SealedMemoryIsWhole
<1> SUFFICES ASSUME SealInv, disk.manifest # None
             PROVE  SealedMemoryIsWhole
  BY DEF SealedMemoryIsWhole
<1>1. Sealed /\ ClipFiles /\ None \notin Boundaries \cup Descriptions \cup Stories
  BY NoFileAssumption DEF SealInv, SealFiles
<1>2. SegmentsStand /\ disk.description # None /\ disk.story # None
  BY <1>1 DEF Sealed, SegmentsStand
<1>3. ASSUME NEW i \in Segments(disk.description.ends)
      PROVE  /\ disk.clips[i] = Segment(disk.description.ends, i)
             /\ DOMAIN disk.description.notes[i] = ShotsOf(Segment(disk.description.ends, i))
  <2>1. disk.description.ends \subseteq Windows
    BY <1>1 DEF Sealed, Descriptions
  <2>2. i \in 1..N
    BY <2>1, SegmentsHoldShots
  <2> QED BY <1>1, <2>2 DEF Sealed, ClipFiles, ShotsTold
<1> QED BY <1>1, <1>2, <1>3 DEF Sealed, SealedMemoryIsWhole

\* No notes at all are notes too, of no shot.
LEMMA NoNotes == << >> \in Notes /\ DOMAIN << >> = {}
<1>1. << >> = [x \in {} |-> 0]
  OBVIOUS
<1>2. [x \in {} |-> 0] \in [{} -> Nat]
  OBVIOUS
<1> QED BY <1>1, <1>2 DEF Notes

\* Notes joined with notes are notes, of the shots of either.
LEMMA NotesJoin ==
  ASSUME NEW f \in Notes, NEW g \in Notes
  PROVE  Together(f, g) \in Notes /\ DOMAIN Together(f, g) = DOMAIN f \cup DOMAIN g
<1>1. PICK S \in SUBSET (1..N) : f \in [S -> Nat]
  BY DEF Notes
<1>2. PICK T \in SUBSET (1..N) : g \in [T -> Nat]
  BY DEF Notes
<1>3. Together(f, g) = [x \in S \cup T |-> IF x \in S THEN f[x] ELSE g[x]]
  BY <1>1, <1>2 DEF Together
<1>4. Together(f, g) \in [S \cup T -> Nat]
  BY <1>1, <1>2, <1>3
<1>5. S \cup T \in SUBSET (1..N)
  OBVIOUS
<1> QED BY <1>1, <1>2, <1>4, <1>5 DEF Notes

\* The batches of a segment reach its last shot.
LEMMA BatchesCover ==
  ASSUME NEW len \in Nat \ {0}, NEW size \in Nat \ {0}, NEW b \in Nat \ {0},
         b > (len + size - 1) \div size
  PROVE  (b - 1) * size >= len
<1> DEFINE q == (len + size - 1) \div size
<1>1. q \in Int /\ len + size - 1 < q * size + size
  BY SMT
<1> HIDE DEF q
<1>2. b - 1 >= q
  BY <1>1 DEF q
<1>3. (b - 1) * size >= q * size
  BY <1>1, <1>2, SMT
<1> QED BY <1>1, <1>3, SMT

\* What one step of a stage does to the files.
FilesStand == FileTypes /\ StageFiles /\ ClipFiles /\ NoteFiles

\* No file is taken for the absence of one.
LEMMA NoneIsNoFile ==
  /\ None # Empty
  /\ None \notin Nat \cup Readings \cup Boundaries \cup Descriptions \cup Stories
  /\ Empty \notin Nat \cup Readings \cup Boundaries \cup Descriptions \cup Stories
BY NoFileAssumption

\* The stages in which nothing is put together from what the attempt knows.
PlainStage ==
  \/ OpenSpec \/ SaveSpec \/ DetectShots \/ ReuseSubtitle \/ Transcribe
  \/ WriteSubtitle \/ ReadDialogue \/ ReconstructDialogue \/ OpenDialogues \/ OpenMerged
  \/ ResumeSegments \/ WriteFrames \/ AskForScenes \/ ScenesFound \/ WriteScene
  \/ Summarised \/ ReuseStory \/ TellStory \/ MakeCover \/ Seal

\* The files keep their types.
LEMMA PlainStagesKeepTypes ==
  ASSUME FilesStand, RecordTypes', PlainStage
  PROVE  FileTypes'
<1> USE DEF At, Goes, GoesOn, GoesToPool, Keeps, process, Fields, NoFiles, Records,
      PoolStages, MidWrite, FileTypes, RecordTypes
<1>0. FileTypes /\ RecordTypes /\ StageFiles /\ ClipFiles /\ NoteFiles /\ RecordTypes'
  BY DEF FilesStand, FileTypes
<1>1. CASE OpenSpec \/ SaveSpec \/ DetectShots
  BY <1>0, <1>1, NoneIsNoFile DEF OpenSpec, SaveSpec, DetectShots
<1>2. CASE ReuseSubtitle \/ Transcribe
  BY <1>0, <1>2, NoneIsNoFile DEF ReuseSubtitle, Transcribe
<1>3. CASE WriteSubtitle
  BY <1>0, <1>3, NoneIsNoFile DEF WriteSubtitle
<1>4. CASE ReadDialogue
  BY <1>0, <1>4, NoneIsNoFile DEF ReadDialogue
<1>5. CASE ReconstructDialogue
  BY <1>0, <1>5, NoneIsNoFile DEF ReconstructDialogue
<1>6. CASE OpenDialogues \/ OpenMerged
  BY <1>0, <1>6, NoneIsNoFile DEF OpenDialogues, OpenMerged
<1>7. CASE ResumeSegments
  BY <1>0, <1>7, NoneIsNoFile DEF ResumeSegments
<1>8. CASE WriteFrames \/ ScenesFound
  BY <1>0, <1>8, NoneIsNoFile DEF WriteFrames, ScenesFound
<1>9. CASE AskForScenes
  BY <1>0, <1>9, NoneIsNoFile DEF AskForScenes
<1>10. CASE WriteScene
  BY <1>0, <1>10, NoneIsNoFile DEF WriteScene
<1>11. CASE Summarised \/ ReuseStory \/ TellStory
  BY <1>0, <1>11, NoneIsNoFile DEF Summarised, ReuseStory, TellStory
<1>12. CASE MakeCover
  BY <1>0, <1>12, NoneIsNoFile DEF MakeCover
<1>13. CASE Seal
  BY <1>0, <1>13, NoneIsNoFile DEF Seal
<1> QED BY <1>1, <1>2, <1>3, <1>4, <1>5, <1>6, <1>7, <1>8, <1>9, <1>10, <1>11, <1>12, <1>13, PlainStage DEF PlainStage

\* The next stage finds what this one did.
LEMMA PlainStagesGoOn ==
  ASSUME FilesStand, RecordTypes', PlainStage
  PROVE  StageFiles'
<1> USE DEF At, Goes, GoesOn, GoesToPool, Keeps, process, Fields, NoFiles, Records,
      PoolStages, MidWrite, StageFiles, FileTypes, RecordTypes, AfterSubtitle,
      AfterDialogue, AfterScenes, AfterClips, AfterNotes, AfterDescription,
      AfterStory, DialogueStands, SegmentsStand, StoryStands, Whole
<1>0. FileTypes /\ RecordTypes /\ StageFiles /\ ClipFiles /\ NoteFiles /\ RecordTypes'
  BY DEF FilesStand, FileTypes
<1>1. CASE OpenSpec \/ SaveSpec \/ DetectShots
  BY <1>0, <1>1, NoneIsNoFile DEF OpenSpec, SaveSpec, DetectShots
<1>2. CASE ReuseSubtitle \/ Transcribe
  BY <1>0, <1>2, NoneIsNoFile DEF ReuseSubtitle, Transcribe
<1>3. CASE WriteSubtitle
  BY <1>0, <1>3, NoneIsNoFile DEF WriteSubtitle
<1>4. CASE ReadDialogue
  BY <1>0, <1>4, NoneIsNoFile DEF ReadDialogue
<1>5. CASE ReconstructDialogue
  BY <1>0, <1>5, NoneIsNoFile DEF ReconstructDialogue
<1>6. CASE OpenDialogues \/ OpenMerged
  BY <1>0, <1>6, NoneIsNoFile DEF OpenDialogues, OpenMerged
<1>7. CASE ResumeSegments
  BY <1>0, <1>7, NoneIsNoFile DEF ResumeSegments
<1>8. CASE WriteFrames \/ ScenesFound
  BY <1>0, <1>8, NoneIsNoFile DEF WriteFrames, ScenesFound
<1>9. CASE AskForScenes
  BY <1>0, <1>9, NoneIsNoFile DEF AskForScenes
<1>10. CASE WriteScene
  BY <1>0, <1>10, NoneIsNoFile DEF WriteScene
<1>11. CASE Summarised \/ ReuseStory \/ TellStory
  BY <1>0, <1>11, NoneIsNoFile DEF Summarised, ReuseStory, TellStory
<1>12. CASE MakeCover
  BY <1>0, <1>12, NoneIsNoFile DEF MakeCover
<1>13. CASE Seal
  BY <1>0, <1>13, NoneIsNoFile DEF Seal
<1> QED BY <1>1, <1>2, <1>3, <1>4, <1>5, <1>6, <1>7, <1>8, <1>9, <1>10, <1>11, <1>12, <1>13, PlainStage DEF PlainStage

\* The clips stay those of the scenes.
LEMMA PlainStagesKeepClips ==
  ASSUME FilesStand, RecordTypes', PlainStage
  PROVE  ClipFiles'
<1> USE DEF At, Goes, GoesOn, GoesToPool, Keeps, process, Fields, NoFiles, Records,
      PoolStages, MidWrite, ClipFiles, FileTypes, RecordTypes, SegmentsStand
<1>0. FileTypes /\ RecordTypes /\ StageFiles /\ ClipFiles /\ NoteFiles /\ RecordTypes'
  BY DEF FilesStand, FileTypes
<1>1. CASE OpenSpec \/ SaveSpec \/ DetectShots
  BY <1>0, <1>1, NoneIsNoFile DEF OpenSpec, SaveSpec, DetectShots
<1>2. CASE ReuseSubtitle \/ Transcribe
  BY <1>0, <1>2, NoneIsNoFile DEF ReuseSubtitle, Transcribe
<1>3. CASE WriteSubtitle
  BY <1>0, <1>3, NoneIsNoFile DEF WriteSubtitle
<1>4. CASE ReadDialogue
  BY <1>0, <1>4, NoneIsNoFile DEF ReadDialogue
<1>5. CASE ReconstructDialogue
  BY <1>0, <1>5, NoneIsNoFile DEF ReconstructDialogue
<1>6. CASE OpenDialogues \/ OpenMerged
  BY <1>0, <1>6, NoneIsNoFile DEF OpenDialogues, OpenMerged
<1>7. CASE ResumeSegments
  BY <1>0, <1>7, NoneIsNoFile DEF ResumeSegments
<1>8. CASE WriteFrames \/ ScenesFound
  BY <1>0, <1>8, NoneIsNoFile DEF WriteFrames, ScenesFound
<1>9. CASE AskForScenes
  BY <1>0, <1>9, NoneIsNoFile DEF AskForScenes
<1>10. CASE WriteScene
  BY <1>0, <1>10, NoneIsNoFile DEF WriteScene
<1>11. CASE Summarised \/ ReuseStory \/ TellStory
  BY <1>0, <1>11, NoneIsNoFile DEF Summarised, ReuseStory, TellStory
<1>12. CASE MakeCover
  BY <1>0, <1>12, NoneIsNoFile DEF MakeCover
<1>13. CASE Seal
  BY <1>0, <1>13, NoneIsNoFile DEF Seal
<1> QED BY <1>1, <1>2, <1>3, <1>4, <1>5, <1>6, <1>7, <1>8, <1>9, <1>10, <1>11, <1>12, <1>13, PlainStage DEF PlainStage

\* The notes stay those of their shots.
LEMMA PlainStagesKeepNotes ==
  ASSUME FilesStand, RecordTypes', PlainStage
  PROVE  NoteFiles'
<1> USE DEF At, Goes, GoesOn, GoesToPool, Keeps, process, Fields, NoFiles, Records,
      PoolStages, MidWrite, NoteFiles, FileTypes, RecordTypes, AfterNotes,
      AfterClips, AfterScenes
<1>0. FileTypes /\ RecordTypes /\ StageFiles /\ ClipFiles /\ NoteFiles /\ RecordTypes'
  BY DEF FilesStand, FileTypes
<1>1. CASE OpenSpec \/ SaveSpec \/ DetectShots
  BY <1>0, <1>1, NoneIsNoFile DEF OpenSpec, SaveSpec, DetectShots
<1>2. CASE ReuseSubtitle \/ Transcribe
  BY <1>0, <1>2, NoneIsNoFile DEF ReuseSubtitle, Transcribe
<1>3. CASE WriteSubtitle
  BY <1>0, <1>3, NoneIsNoFile DEF WriteSubtitle
<1>4. CASE ReadDialogue
  BY <1>0, <1>4, NoneIsNoFile DEF ReadDialogue
<1>5. CASE ReconstructDialogue
  BY <1>0, <1>5, NoneIsNoFile DEF ReconstructDialogue
<1>6. CASE OpenDialogues \/ OpenMerged
  BY <1>0, <1>6, NoneIsNoFile DEF OpenDialogues, OpenMerged
<1>7. CASE ResumeSegments
  BY <1>0, <1>7, NoneIsNoFile DEF ResumeSegments
<1>8. CASE WriteFrames \/ ScenesFound
  BY <1>0, <1>8, NoneIsNoFile DEF WriteFrames, ScenesFound
<1>9. CASE AskForScenes
  BY <1>0, <1>9, NoneIsNoFile DEF AskForScenes
<1>10. CASE WriteScene
  BY <1>0, <1>10, NoneIsNoFile DEF WriteScene
<1>11. CASE Summarised \/ ReuseStory \/ TellStory
  BY <1>0, <1>11, NoneIsNoFile DEF Summarised, ReuseStory, TellStory
<1>12. CASE MakeCover
  BY <1>0, <1>12, NoneIsNoFile DEF MakeCover
<1>13. CASE Seal
  BY <1>0, <1>13, NoneIsNoFile DEF Seal
<1> QED BY <1>1, <1>2, <1>3, <1>4, <1>5, <1>6, <1>7, <1>8, <1>9, <1>10, <1>11, <1>12, <1>13, PlainStage DEF PlainStage

\* A stage that runs no pool leaves the files the next one needs.
LEMMA PlainStages ==
  ASSUME FilesStand, RecordTypes', PlainStage
  PROVE  FilesStand'
BY PlainStagesKeepTypes, PlainStagesGoOn, PlainStagesKeepClips, PlainStagesKeepNotes DEF FilesStand

\* The two files of the dialogue.
LEMMA DialogueStages ==
  ASSUME FilesStand, RecordTypes', WriteDialogues \/ WriteMerged
  PROVE  FilesStand'
<1> USE DEF At, Goes, GoesOn, Keeps, process, Fields, NoFiles, MidWrite
<1>0. FileTypes /\ RecordTypes /\ StageFiles /\ ClipFiles /\ NoteFiles /\ RecordTypes'
  BY DEF FilesStand, FileTypes
<1>1. disk.srt \in Nat /\ [srt |-> disk.srt, text |-> attempts] \in Readings
  BY <1>0 DEF WriteDialogues, WriteMerged, StageFiles, FileTypes, AfterSubtitle, Whole, Readings
<1>2. FileTypes'
  <2>1. CASE WriteDialogues
    BY <1>0, <1>1, <2>1 DEF WriteDialogues, FileTypes, RecordTypes
  <2>2. CASE WriteMerged
    BY <1>0, <1>1, <2>2 DEF WriteMerged, FileTypes, RecordTypes
  <2> QED BY <2>1, <2>2
<1>3. StageFiles'
  <2>1. CASE WriteDialogues
    BY <1>0, <1>1, <2>1, NoneIsNoFile
    DEF WriteDialogues, StageFiles, FileTypes, RecordTypes, AfterSubtitle, AfterDialogue, AfterScenes,
     AfterClips, AfterNotes, AfterDescription, AfterStory, DialogueStands, SegmentsStand,
     StoryStands, Whole
  <2>2. CASE WriteMerged
    BY <1>0, <1>1, <2>2, NoneIsNoFile
    DEF WriteMerged, StageFiles, FileTypes, RecordTypes, AfterSubtitle, AfterDialogue, AfterScenes,
     AfterClips, AfterNotes, AfterDescription, AfterStory, DialogueStands, SegmentsStand,
     StoryStands, Whole
  <2> QED BY <2>1, <2>2
<1>4. ClipFiles' /\ NoteFiles'
  BY <1>0 DEF WriteDialogues, WriteMerged, ClipFiles, RecordTypes, SegmentsStand,
     NoteFiles, AfterNotes, AfterClips, AfterScenes
<1> QED BY <1>2, <1>3, <1>4 DEF FilesStand

\* The segments are cut where the scenes end.
LEMMA SegmentsStage ==
  ASSUME FilesStand, RecordTypes', WriteSegments
  PROVE  FilesStand'
<1> USE DEF At, Goes, GoesOn, Keeps, process, Fields, NoFiles, MidWrite
<1>0. FileTypes /\ RecordTypes /\ StageFiles /\ ClipFiles /\ NoteFiles /\ RecordTypes'
  BY DEF FilesStand, FileTypes
<1>1. [of |-> known.reading, ends |-> known.ends] \in Boundaries
  <2>1. known.reading \in Readings
    BY <1>0, NoneIsNoFile DEF WriteSegments, StageFiles, FileTypes, AfterDialogue, DialogueStands, Whole
  <2> QED BY <1>0, <2>1 DEF RecordTypes, Boundaries
<1>2. disk'.segments = [of |-> known.reading, ends |-> known.ends]
  BY <1>0 DEF RecordTypes, WriteSegments
<1>3. disk'.segments \in Boundaries /\ disk'.segments.ends = known.ends
  <2>1. disk'.segments \in Boundaries
    BY <1>1, <1>2, Zenon
  <2>2. disk'.segments.ends = known.ends
    BY <1>2
  <2> QED BY <2>1, <2>2
<1>4. \A f \in Fields \ {"segments"} : disk'[f] = disk[f]
  BY <1>0 DEF RecordTypes, WriteSegments
<1>5. FileTypes'
  BY <1>0, <1>3, <1>4 DEF WriteSegments, FileTypes
<1>6. StageFiles'
  BY <1>0, <1>3, <1>4 DEF WriteSegments, StageFiles, AfterSubtitle, AfterDialogue, AfterScenes,
     AfterClips, AfterNotes, AfterDescription, AfterStory, DialogueStands
<1>7. ClipFiles' /\ NoteFiles'
  BY <1>0, <1>4 DEF WriteSegments, ClipFiles, NoteFiles, AfterNotes, AfterClips, AfterScenes
<1> QED BY <1>5, <1>6, <1>7 DEF FilesStand

\* A clip is cut for its segment.
LEMMA ClipStage ==
  ASSUME FilesStand, RecordTypes', NEW i \in 1..N, CutClip(i)
  PROVE  FilesStand'
<1> USE DEF At, Goes, GoesOn, Keeps, process, Fields, NoFiles, MidWrite, CutClip
<1>0. FileTypes /\ RecordTypes /\ StageFiles /\ ClipFiles /\ NoteFiles /\ RecordTypes'
  BY DEF FilesStand, FileTypes
<1>1. FileTypes'
  BY <1>0 DEF FileTypes, RecordTypes
<1>2. StageFiles'
  BY <1>0
  DEF StageFiles, FileTypes, RecordTypes, AfterSubtitle, AfterDialogue, AfterScenes,
     AfterClips, AfterNotes, AfterDescription, AfterStory, DialogueStands, SegmentsStand,
     StoryStands, Whole
<1>3. ClipFiles'
  <2>1. disk.segments \in Boundaries /\ disk.scene /\ disk.segments.ends = known.ends
    BY <1>0 DEF StageFiles, AfterScenes
  <2>2. /\ disk'.segments = disk.segments /\ disk'.scene = disk.scene
        /\ disk'.clips = [disk.clips EXCEPT ![i] = Segment(known.ends, i)]
    BY <1>0 DEF RecordTypes
  <2> QED BY <1>0, <2>1, <2>2 DEF ClipFiles, FileTypes
<1>4. NoteFiles'
  BY <1>0 DEF NoteFiles, FileTypes, RecordTypes, AfterNotes, AfterClips, AfterScenes
<1> QED BY <1>1, <1>2, <1>3, <1>4 DEF FilesStand

\* All clips are there when the shots are annotated, and no notes are taken.
LEMMA ClipsStage ==
  ASSUME FilesStand, RecordTypes', ClipsReady
  PROVE  FilesStand'
<1> USE DEF At, Goes, GoesToPool, Fields, NoFiles, MidWrite, ClipsReady
<1>0. FileTypes /\ RecordTypes /\ StageFiles /\ ClipFiles /\ NoteFiles /\ RecordTypes'
  BY DEF FilesStand, FileTypes
<1>1. FileTypes'
  BY <1>0 DEF FileTypes, RecordTypes
<1>2. StageFiles'
  <2>1. \A j \in Segments(known.ends) : disk.clips[j] # None
    BY DEF ClipStands
  <2> QED BY <1>0, <2>1
      DEF StageFiles, FileTypes, RecordTypes, AfterSubtitle, AfterDialogue, AfterScenes,
     AfterClips, AfterNotes, AfterDescription, AfterStory, DialogueStands, SegmentsStand,
     StoryStands, Whole
<1>3. ClipFiles'
  BY <1>0 DEF ClipFiles
<1>4. NoteFiles'
  <2>1. ASSUME NEW u \in Segments(known.ends)
        PROVE  /\ thread'[u] = "waiting" /\ DOMAIN known'.notes[u] = {}
               /\ SegmentOf(u)'[1] \in Int /\ batch'[u] = 1
    <3>1. u \in 1..N /\ Segment(known.ends, u)[1] \in Int
      BY <1>0, SegmentsHoldShots DEF RecordTypes
    <3>2. known'.notes[u] = << >>
      BY <1>0, <3>1 DEF NoteFiles, AfterNotes, AfterClips, AfterScenes
    <3>3. known'.ends = known.ends
      OBVIOUS
    <3> QED BY <3>1, <3>2, <3>3, NoNotes DEF AllWaiting, SegmentOf
  <2>2. ASSUME NEW u \in Segments(known.ends)
        PROVE  TakenShots(u)' = {}
    <3>1. limit' \in Nat
      BY <1>0 DEF RecordTypes
    <3>2. \A x \in ShotsOf(SegmentOf(u)') : x \in Int /\ ~(x < SegmentOf(u)'[1])
      BY <2>1, <2>2, SegmentsHoldShots, <1>0 DEF ShotsOf, SegmentOf, RecordTypes
    <3>3. (batch'[u] - 1) * limit' = 0
      <4>1. batch'[u] = 1
        BY <2>1, <2>2
      <4>2. \A n \in Nat : (1 - 1) * n = 0
        OBVIOUS
      <4> QED BY <3>1, <4>1, <4>2, Zenon
    <3> QED BY <2>1, <2>2, <3>2, <3>3 DEF TakenShots
  <2>3. Units' = Segments(known.ends) /\ stage' = "annotate"
    BY DEF Units
  <2> QED BY <1>0, <2>1, <2>2, <2>3 DEF NoteFiles
<1> QED BY <1>1, <1>2, <1>3, <1>4 DEF FilesStand

\* The notes are taken when every thread is done.
LEMMA NotesStage ==
  ASSUME FilesStand, RecordTypes', NotesTaken
  PROVE  FilesStand'
<1> USE DEF At, Goes, GoesToPool, Fields, NoFiles, MidWrite, NotesTaken
<1>0. FileTypes /\ RecordTypes /\ StageFiles /\ ClipFiles /\ NoteFiles /\ RecordTypes'
  BY DEF FilesStand, FileTypes
<1>1. FileTypes' /\ ClipFiles'
  BY <1>0 DEF FileTypes, RecordTypes, ClipFiles
<1>2. ShotsTold(known.notes, known.ends)
  BY <1>0 DEF AllDone, Units, NoteFiles, TakenShots, ShotsTold, SegmentOf
<1>3. StageFiles'
  BY <1>0, <1>2
  DEF StageFiles, FileTypes, RecordTypes, AfterSubtitle, AfterDialogue, AfterScenes,
     AfterClips, AfterNotes, AfterDescription, AfterStory, DialogueStands, SegmentsStand,
     StoryStands, Whole
<1>4. \A u \in Units' : thread'[u] = "waiting"
  <2>1. \A u \in Segments(known.ends) : u \in 1..N
    BY <1>0, SegmentsHoldShots DEF RecordTypes
  <2> QED BY <2>1 DEF Units, AllWaiting
<1>5. NoteFiles'
  BY <1>0, <1>4 DEF NoteFiles, AfterNotes, AfterClips, AfterScenes
<1> QED BY <1>1, <1>3, <1>5 DEF FilesStand

\* The memory is described with what is known of every segment.
LEMMA DescribeStage ==
  ASSUME FilesStand, RecordTypes', Describe
  PROVE  FilesStand'
<1> USE DEF At, Goes, GoesOn, Keeps, process, Fields, NoFiles, MidWrite, Describe
<1>0. FileTypes /\ RecordTypes /\ StageFiles /\ ClipFiles /\ NoteFiles /\ RecordTypes'
  BY DEF FilesStand, FileTypes
<1>1. known.reading \in Readings /\ ShotsTold(known.notes, known.ends)
  BY <1>0, NoneIsNoFile DEF StageFiles, FileTypes, AfterDialogue, AfterScenes, AfterClips,
     AfterNotes, DialogueStands, Whole
<1>2. Description \in Descriptions
  <2> DEFINE S == Segments(known.ends)
  <2>1. S \in SUBSET (1..N)
    BY <1>0, SegmentsHoldShots DEF RecordTypes
  <2>2. [i \in S |-> known.notes[i]] \in [S -> Notes]
    BY <1>0, <2>1 DEF FileTypes
  <2>3. [i \in S |-> known.says[i]] \in [S -> Sayings]
    BY <1>0, <2>1 DEF FileTypes
  <2>4. /\ [i \in S |-> known.notes[i]] \in UNION {[T -> Notes] : T \in SUBSET (1..N)}
        /\ [i \in S |-> known.says[i]] \in UNION {[T -> Sayings] : T \in SUBSET (1..N)}
    BY <2>1, <2>2, <2>3
  <2>5. known.ends \in SUBSET Windows
    BY <1>0 DEF RecordTypes
  <2> QED BY <1>1, <2>4, <2>5 DEF Description, Descriptions
<1>3. Description.ends = known.ends /\ ShotsTold(Description.notes, known.ends)
  BY <1>1 DEF Description, ShotsTold
<1>4. disk'.description = Description /\ \A f \in Fields \ {"description"} : disk'[f] = disk[f]
  BY <1>0 DEF RecordTypes
<1>5. FileTypes' /\ ClipFiles' /\ NoteFiles'
  BY <1>0, <1>2, <1>4 DEF FileTypes, ClipFiles, NoteFiles, AfterNotes, AfterClips, AfterScenes
<1>6. StageFiles'
  BY <1>0, <1>2, <1>3, <1>4 DEF StageFiles, AfterSubtitle, AfterDialogue, AfterScenes,
     AfterClips, AfterNotes, AfterDescription, AfterStory, DialogueStands, ShotsTold
<1> QED BY <1>5, <1>6 DEF FilesStand

\* The story is told of the description.
LEMMA StoryStage ==
  ASSUME FilesStand, RecordTypes', WriteStory
  PROVE  FilesStand'
<1> USE DEF At, Goes, GoesOn, Keeps, process, Fields, NoFiles, MidWrite
<1>0. FileTypes /\ RecordTypes /\ StageFiles /\ ClipFiles /\ NoteFiles /\ RecordTypes'
  BY DEF FilesStand, FileTypes
<1>1. disk.description \in Descriptions /\ SegmentCount(known.ends) \in Nat
  <2>1. disk.description \in Descriptions
    BY <1>0 DEF StageFiles, AfterDescription, WriteStory
  <2>2. Cardinality(known.ends) \in Nat
    BY <1>0, EndsAreFinite DEF RecordTypes
  <2> QED BY <2>1, <2>2 DEF SegmentCount
<1>2. disk'.story = [of |-> disk.description, count |-> SegmentCount(known.ends)]
  BY <1>0 DEF RecordTypes, WriteStory
<1>3. disk'.story \in Stories /\ disk'.story.count = SegmentCount(known.ends)
  <2>1. [of |-> disk.description, count |-> SegmentCount(known.ends)] \in Stories
    BY <1>1 DEF Stories
  <2>2. disk'.story.count = SegmentCount(known.ends)
    BY <1>2
  <2> QED BY <1>2, <2>1, <2>2, Zenon
<1>4. \A f \in Fields \ {"story"} : disk'[f] = disk[f]
  BY <1>0 DEF RecordTypes, WriteStory
<1>5. FileTypes' /\ ClipFiles' /\ NoteFiles'
  BY <1>0, <1>3, <1>4 DEF WriteStory, FileTypes, ClipFiles, NoteFiles, AfterNotes, AfterClips, AfterScenes
<1>6. StageFiles'
  BY <1>0, <1>3, <1>4 DEF WriteStory, StageFiles, AfterSubtitle, AfterDialogue, AfterScenes,
     AfterClips, AfterNotes, AfterDescription, AfterStory, DialogueStands, ShotsTold
<1> QED BY <1>5, <1>6 DEF FilesStand

\* The shots of the first j batches, and those of the next one.
LEMMA BatchShots ==
  ASSUME NEW range, NEW a \in 1..N, NEW b \in 1..N, range = <<a, b>>, a <= b,
         NEW size \in Nat \ {0}, NEW j \in Nat \ {0}
  PROVE  /\ ShotsOf(Batch(range, size, j)) \subseteq ShotsOf(range)
         /\ {x \in ShotsOf(range) : x < a + (j - 1) * size} \cup ShotsOf(Batch(range, size, j))
              = {x \in ShotsOf(range) : x < a + ((j + 1) - 1) * size}
         /\ j > BatchCount(range, size) =>
              {x \in ShotsOf(range) : x < a + (j - 1) * size} = ShotsOf(range)
<1> DEFINE p == (j - 1) * size
<1>0. N \in Nat /\ a \in Int /\ b \in Int
  BY AnalysisAssumption
<1>1. p \in Nat /\ j * size = p + size /\ ((j + 1) - 1) * size = p + size
  BY SMT
<1>2. j > BatchCount(range, size) => p >= b - a + 1
  <2>1. Length(range) = b - a + 1 /\ Length(range) \in Nat \ {0}
    BY <1>0 DEF Length
  <2> QED BY <2>1, BatchesCover DEF BatchCount
<1> HIDE DEF p
<1>3. ShotsOf(range) = a..b
  BY DEF ShotsOf
<1>4. ShotsOf(Batch(range, size, j)) =
        (a + p)..(IF a + (p + size) - 1 < b THEN a + (p + size) - 1 ELSE b)
  BY <1>1 DEF ShotsOf, Batch, p
<1>5. \A x \in Int :
        x \in ShotsOf(Batch(range, size, j)) <=> a + p <= x /\ x < a + (p + size) /\ x <= b
  BY <1>0, <1>1, <1>4
<1>6. ShotsOf(Batch(range, size, j)) \subseteq Int
  BY <1>0, <1>1, <1>4
<1>7. ShotsOf(Batch(range, size, j)) \subseteq ShotsOf(range)
  BY <1>0, <1>1, <1>3, <1>5, <1>6
<1>8. {x \in ShotsOf(range) : x < a + p} \cup ShotsOf(Batch(range, size, j))
        = {x \in ShotsOf(range) : x < a + (p + size)}
  BY <1>0, <1>1, <1>3, <1>5, <1>6
<1>9. j > BatchCount(range, size) => {x \in ShotsOf(range) : x < a + p} = ShotsOf(range)
  BY <1>0, <1>1, <1>2, <1>3
<1> QED BY <1>1, <1>7, <1>8, <1>9 DEF p

\* The same of the segment and the batches of a thread.
LEMMA ThreadShots ==
  ASSUME RecordTypes, NEW u \in Units, stage = "annotate"
  PROVE  /\ ShotsOf(SegmentOf(u)) \in SUBSET (1..N)
         /\ ShotsOf(BatchOf(u)) \in SUBSET (1..N)
         /\ {x \in ShotsOf(SegmentOf(u)) : x < SegmentOf(u)[1] + (batch[u] - 1) * limit}
              \cup ShotsOf(BatchOf(u))
              = {x \in ShotsOf(SegmentOf(u)) : x < SegmentOf(u)[1] + ((batch[u] + 1) - 1) * limit}
         /\ batch[u] > Batches(u) =>
              {x \in ShotsOf(SegmentOf(u)) : x < SegmentOf(u)[1] + (batch[u] - 1) * limit}
                = ShotsOf(SegmentOf(u))
<1>0. /\ known.ends \subseteq Windows /\ N \in Nat
      /\ limit \in Nat \ {0} /\ batch \in [1..N -> Nat \ {0}]
  BY AnalysisAssumption DEF RecordTypes
<1>1. u \in Segments(known.ends) /\ u \in 1..N
  BY UnitsAreShots DEF Units
<1>2. PICK a \in 1..N, b \in 1..N : SegmentOf(u) = <<a, b>> /\ a <= b
  BY <1>0, <1>1, SegmentsHoldShots DEF SegmentOf
<1>3. batch[u] \in Nat \ {0} /\ SegmentOf(u)[1] = a
  BY <1>0, <1>1, <1>2
<1>4. ShotsOf(SegmentOf(u)) \subseteq 1..N
  BY <1>0, <1>2 DEF ShotsOf
<1>5. SegmentOf(u)[1] = a /\ <<a, b>>[1] = a
  BY <1>2
<1>6. limit \in Nat \ {0} /\ batch[u] \in Nat \ {0} /\ a \in Nat /\ b \in Nat
  BY <1>0, <1>2, <1>3
<1>7. LET range == <<a, b>>
          taken(j) == {x \in ShotsOf(range) : x < a + (j - 1) * limit}
      IN  /\ ShotsOf(Batch(range, limit, batch[u])) \subseteq ShotsOf(range)
          /\ taken(batch[u]) \cup ShotsOf(Batch(range, limit, batch[u])) = taken(batch[u] + 1)
          /\ batch[u] > BatchCount(range, limit) => taken(batch[u]) = ShotsOf(range)
  BY <1>2, <1>6, BatchShots
<1> QED BY <1>2, <1>4, <1>5, <1>7 DEF BatchOf, Batches

\* A thread writes checkpoints only, and knows more of its own segment only.
ThreadWork(u) ==
  /\ \A f \in Fields \ {"windows", "notes", "says"} : disk'[f] = disk[f]
  /\ attempts' = attempts /\ known'.reading = known.reading
  /\ stage \in {"windows", "summarise"} => known'.notes = known.notes
  /\ \A v \in (1..N) \ {u} : known'.notes[v] = known.notes[v]

\* A thread does no other work.
LEMMA ThreadsDoTheirWork ==
  ASSUME FilesStand, RecordTypes, NEW u \in 1..N, Thread(u)
  PROVE  ThreadWork(u)
<1> USE DEF FilesStand, FileTypes, RecordTypes, ThreadWork, Fields, NoFiles, Blank, InThread,
      InPool, PoolStages
<1>0. ASSUME NEW X, known' = [known EXCEPT !.notes[u] = X]
      PROVE  /\ known'.reading = known.reading
             /\ \A v \in (1..N) \ {u} : known'.notes[v] = known.notes[v]
  <2>1. known'.notes = [known.notes EXCEPT ![u] = X] /\ known'.reading = known.reading
    BY <1>0
  <2> QED BY <2>1
<1>1. CASE Begins(u)
  <2>1. \/ known' = known
        \/ stage = "annotate" /\ \E X : known' = [known EXCEPT !.notes[u] = X]
    <3> DEFINE X == disk.notes[<<u, 0>>].notes
    <3>1. CASE stage = "annotate" /\ NotesStand(<<u, 0>>, WholeKey(u))
      <4>1. known' = [known EXCEPT !.notes[u] = X]
        BY <1>1, <3>1 DEF Begins
      <4> QED BY <3>1, <4>1
    <3>2. CASE ~(stage = "annotate" /\ NotesStand(<<u, 0>>, WholeKey(u)))
      BY <1>1, <3>2 DEF Begins
    <3> QED BY <3>1, <3>2
  <2>2. disk' = disk /\ attempts' = attempts
    BY <1>1 DEF Begins
  <2> QED BY <1>0, <2>1, <2>2
<1>2. CASE Asks(u) \/ SaysNothing(u) \/ Answers(u) \/ Fails(u) \/ ThreadStops(u)
  BY <1>2 DEF Asks, SaysNothing, Answers, Fails, ThreadStops
<1>3. CASE Merges(u)
  BY <1>3 DEF Merges
<1>4. ASSUME NEW value, Takes(u, value), stage \in PoolStages
      PROVE  /\ known'.reading = known.reading
             /\ stage \in {"windows", "summarise"} => known'.notes = known.notes
             /\ \A v \in (1..N) \ {u} : known'.notes[v] = known.notes[v]
  <2>1. CASE stage = "windows"
    BY <1>4, <2>1 DEF Takes
  <2>2. CASE stage = "annotate"
    BY <1>0, <1>4, <2>2 DEF Takes
  <2>3. CASE stage = "summarise"
    BY <1>4, <2>3 DEF Takes
  <2> QED BY <1>4, <2>1, <2>2, <2>3
<1>5. CASE Reuses(u)
  BY <1>4, <1>5 DEF Reuses
<1>6. CASE SavesScene(u)
  BY <1>4, <1>6 DEF SavesScene
<1>7. CASE SavesNotes(u)
  BY <1>4, <1>7 DEF SavesNotes
<1>8. CASE SavesSummary(u)
  BY <1>4, <1>8 DEF SavesSummary
<1> QED BY <1>1, <1>2, <1>3, <1>5, <1>6, <1>7, <1>8, Thread(u) DEF Thread

\* What a thread gets for a segment is of the type and the shots of its file.
LEMMA ThreadKeepsNotes ==
  ASSUME SealInv, NEW u \in 1..N, Thread(u), ThreadFrame(u), ThreadWork(u)
  PROVE  /\ known'.notes \in [1..N -> Notes] /\ known'.says \in [1..N -> Sayings]
         /\ stage = "annotate" => DOMAIN known'.notes[u] = TakenShots(u)'
<1> USE DEF InThread, InPool, Becomes
<1>0. /\ RecordTypes /\ FileTypes /\ NoteFiles /\ u \in Units /\ u \in 1..N /\ stage \in PoolStages
      /\ stage' = stage /\ limit' = limit /\ (stage = "annotate" => known'.ends = known.ends)
  BY DEF SealInv, RecordInv, ThreadFrame
<1>1. /\ known.notes \in [1..N -> Notes] /\ known.says \in [1..N -> Sayings]
      /\ DOMAIN known = DOMAIN Blank /\ DOMAIN thread = 1..N /\ batch \in [1..N -> Nat \ {0}]
      /\ known.notes[u] \in Notes
  BY <1>0 DEF FileTypes, RecordTypes
<1>2. stage = "annotate" => DOMAIN known.notes[u] = TakenShots(u) /\ SegmentOf(u)' = SegmentOf(u)
  BY <1>0 DEF NoteFiles, SegmentOf
<1>a. ASSUME known' = known, batch' = batch, (thread[u] = "done") = (thread'[u] = "done")
      PROVE  stage = "annotate" => DOMAIN known'.notes[u] = TakenShots(u)'
  BY <1>0, <1>2, <1>a DEF TakenShots
<1>b. ASSUME NEW X, X \in Notes, known' = [known EXCEPT !.notes[u] = X]
      PROVE  /\ known'.notes \in [1..N -> Notes] /\ known'.says \in [1..N -> Sayings]
             /\ known'.notes[u] = X
  <2>1. known'.notes = [known.notes EXCEPT ![u] = X] /\ known'.says = known.says
    BY <1>1, <1>b DEF Blank
  <2>2. ASSUME NEW f \in [1..N -> Notes], NEW Y \in Notes
        PROVE  [f EXCEPT ![u] = Y] \in [1..N -> Notes] /\ [f EXCEPT ![u] = Y][u] = Y
    OBVIOUS
  <2>3. known'.notes[u] = X /\ known'.notes \in [1..N -> Notes]
    BY <1>1, <1>b, <2>1, <2>2
  <2> QED BY <1>1, <2>1, <2>3
<1>3. CASE Begins(u)
  <2>1. CASE stage = "annotate" /\ NotesStand(<<u, 0>>, WholeKey(u))
    <3>1. <<u, 0>> \in (1..N) \X (0..N)
      BY <1>0, AnalysisAssumption
    <3>2. /\ disk.notes[<<u, 0>>] # None
          /\ disk.notes[<<u, 0>>].key.shots = SegmentOf(u)
      BY <2>1 DEF NotesStand, WholeKey, Fingerprint
    <3>3. /\ disk.notes[<<u, 0>>].notes \in Notes
          /\ DOMAIN disk.notes[<<u, 0>>].notes = ShotsOf(SegmentOf(u))
      BY <1>0, <3>1, <3>2 DEF NoteFiles
    <3>4. /\ thread' = [thread EXCEPT ![u] = "done"]
          /\ known' = [known EXCEPT !.notes[u] = disk.notes[<<u, 0>>].notes]
      BY <1>3, <2>1 DEF Begins
    <3>5. thread'[u] = "done" /\ known'.notes[u] = disk.notes[<<u, 0>>].notes
      BY <1>1, <1>b, <3>3, <3>4
    <3> QED BY <1>b, <1>2, <3>3, <3>4, <3>5 DEF TakenShots
  <2>2. CASE ~(stage = "annotate" /\ NotesStand(<<u, 0>>, WholeKey(u)))
    <3>1. /\ known' = known /\ batch' = batch /\ thread[u] = "waiting"
          /\ thread' = [thread EXCEPT ![u] = "looking"]
      BY <1>3, <2>2 DEF Begins, MayStart
    <3> QED BY <1>0, <1>1, <1>a, <3>1
  <2> QED BY <2>1, <2>2
<1>4. CASE Asks(u) \/ Answers(u) \/ Fails(u)
  <2>1. /\ known' = known /\ batch' = batch
        /\ thread[u] \in {"looking", "asking"} /\ thread'[u] \in {"asking", "answered", "gone"}
    BY <1>1, <1>4 DEF Asks, Answers, Fails
  <2> QED BY <1>1, <1>a, <2>1
<1>5. CASE SaysNothing(u) \/ ThreadStops(u)
  <2>1. known' = known /\ batch' = batch
    BY <1>5 DEF SaysNothing, ThreadStops
  <2>2. stage = "annotate" => thread[u] # "done" /\ thread'[u] # "done"
    BY <1>1, <1>5 DEF SaysNothing, ThreadStops, Mute, MayStart
  <2> QED BY <1>1, <1>2, <1>0, <2>1, <2>2 DEF TakenShots
<1>6. CASE Merges(u)
  <2>1. /\ known' = known /\ thread'[u] = "done" /\ thread[u] = "looking"
        /\ stage = "annotate" /\ batch[u] > Batches(u)
    BY <1>1, <1>6 DEF Merges, AllBatches
  <2> QED BY <1>0, <1>1, <1>2, <2>1, ThreadShots DEF TakenShots
<1>7. ASSUME NEW X, X \in Notes, DOMAIN X = ShotsOf(BatchOf(u)), stage = "annotate",
             thread[u] \in {"looking", "answered"}, Takes(u, X)
      PROVE  /\ known'.notes \in [1..N -> Notes] /\ known'.says \in [1..N -> Sayings]
             /\ DOMAIN known'.notes[u] = TakenShots(u)'
  <2>1. /\ thread' = [thread EXCEPT ![u] = "looking"] /\ batch' = [batch EXCEPT ![u] = @ + 1]
        /\ known' = [known EXCEPT !.notes[u] = Together(known.notes[u], X)]
    BY <1>7 DEF Takes
  <2>2. /\ Together(known.notes[u], X) \in Notes
        /\ DOMAIN Together(known.notes[u], X) = TakenShots(u) \cup ShotsOf(BatchOf(u))
    BY <1>1, <1>2, <1>7, NotesJoin
  <2>3. thread'[u] = "looking" /\ batch'[u] = batch[u] + 1
    BY <1>1, <2>1
  <2>4. TakenShots(u) \cup ShotsOf(BatchOf(u)) = TakenShots(u)'
    BY <1>0, <1>2, <1>7, <2>3, ThreadShots DEF TakenShots
  <2> QED BY <1>b, <2>1, <2>2, <2>4
<1>8. ASSUME NEW X \in Sayings, stage = "summarise", Takes(u, X)
      PROVE  known'.notes \in [1..N -> Notes] /\ known'.says \in [1..N -> Sayings]
  <2>1. known' = [known EXCEPT !.says[u] = X]
    BY <1>8 DEF Takes
  <2>2. known'.says = [known.says EXCEPT ![u] = X] /\ known'.notes = known.notes
    BY <1>1, <2>1 DEF Blank
  <2> QED BY <1>0, <1>1, <2>2
<1>9. ASSUME NEW X, stage = "windows", Takes(u, X)
      PROVE  known'.notes \in [1..N -> Notes] /\ known'.says \in [1..N -> Sayings]
  BY <1>1, <1>9 DEF Takes, Blank
<1>10. CASE Reuses(u)
  <2>1. CASE stage = "annotate"
    <3>1. ~AllBatches(u) /\ NotesStand(FileOf(u), BatchKey(u)) /\ thread[u] = "looking"
          /\ Takes(u, disk.notes[FileOf(u)].notes)
      BY <1>10, <2>1 DEF Reuses, StandsFor, ValueOf
    <3>2. batch[u] <= Batches(u)
      BY <1>0, <1>1, <2>1, <3>1, UnitsAreShots DEF AllBatches, PoolStages
    <3>3. FileOf(u) \in (1..N) \X (0..N)
      BY <1>0, <2>1, <3>2, BatchFiles
    <3>4. disk.notes[FileOf(u)] # None /\ disk.notes[FileOf(u)].key.shots = BatchOf(u)
      BY <3>1 DEF NotesStand, BatchKey, Fingerprint
    <3>5. /\ disk.notes[FileOf(u)].notes \in Notes
          /\ DOMAIN disk.notes[FileOf(u)].notes = ShotsOf(BatchOf(u))
      BY <1>0, <3>3, <3>4 DEF NoteFiles
    <3> QED BY <1>7, <2>1, <3>1, <3>5
  <2>2. CASE stage = "summarise"
    <3>1. Takes(u, disk.says[u].says) /\ disk.says[u] # None
      BY <1>10, <2>2 DEF Reuses, StandsFor, ValueOf, SaysStand
    <3>2. disk.says[u].says \in Sayings
      BY <1>0, <3>1 DEF NoteFiles, Sayings
    <3> QED BY <1>8, <2>2, <3>1, <3>2
  <2>3. CASE stage = "windows"
    BY <1>9, <1>10, <2>3 DEF Reuses
  <2> QED BY <1>0, <2>1, <2>2, <2>3 DEF PoolStages
<1>11. CASE SavesScene(u)
  BY <1>9, <1>11 DEF SavesScene
<1>12. CASE SavesNotes(u)
  <2> DEFINE X == [x \in ShotsOf(BatchOf(u)) |-> answer[u]]
  <2>1. stage = "annotate" /\ thread[u] = "answered" /\ Takes(u, X)
    BY <1>12 DEF SavesNotes
  <2>2. answer[u] \in Nat
    BY <1>0, <2>1 DEF NoteFiles
  <2>3. ShotsOf(BatchOf(u)) \in SUBSET (1..N)
    BY <1>0, <2>1, ThreadShots
  <2>4. X \in [ShotsOf(BatchOf(u)) -> Nat] /\ DOMAIN X = ShotsOf(BatchOf(u))
    BY <2>2
  <2>5. X \in Notes
    BY <2>3, <2>4 DEF Notes
  <2> QED BY <1>7, <2>1, <2>4, <2>5
<1>13. CASE SavesSummary(u)
  <2>1. stage = "summarise" /\ thread[u] = "answered" /\ Takes(u, answer[u])
    BY <1>13 DEF SavesSummary
  <2>2. answer[u] \in Sayings
    BY <1>0, <2>1 DEF NoteFiles, Sayings
  <2> QED BY <1>8, <2>1, <2>2
<1> QED BY <1>0, <1>1, <1>3, <1>4, <1>5, <1>6, <1>10, <1>11, <1>12, <1>13, Thread(u) DEF Thread

\* Any step of a thread leaves the files as they should stand.
LEMMA ThreadFilesStand ==
  ASSUME SealInv, NEW u \in 1..N, Thread(u), RecordTypes'
  PROVE  FilesStand' /\ ThreadFrame(u) /\ ThreadWork(u)
<1>0. /\ FilesStand /\ RecordTypes /\ FileTypes /\ StageFiles /\ ClipFiles /\ NoteFiles
      /\ ThreadFrame(u) /\ ThreadWork(u)
  BY ThreadsKeepTheFrame, ThreadsDoTheirWork DEF SealInv, FilesStand, RecordInv
<1>1. /\ stage \in PoolStages /\ stage' = stage /\ u \in Units /\ limit' = limit
      /\ stage \in {"annotate", "summarise"} => known'.ends = known.ends
  BY <1>0 DEF ThreadFrame
<1>2. /\ known'.notes \in [1..N -> Notes] /\ known'.says \in [1..N -> Sayings]
      /\ stage = "annotate" => DOMAIN known'.notes[u] = TakenShots(u)'
  BY <1>0, ThreadKeepsNotes
<1>3. /\ disk'.srt = disk.srt /\ disk'.dialogues = disk.dialogues /\ disk'.merged = disk.merged
      /\ disk'.segments = disk.segments /\ disk'.description = disk.description
      /\ disk'.story = disk.story /\ disk'.clips = disk.clips /\ disk'.shots = disk.shots
      /\ disk'.scene = disk.scene /\ attempts' = attempts /\ known'.reading = known.reading
  BY <1>0 DEF ThreadWork, Fields, NoFiles
<1>4. FileTypes'
  <2>1. DOMAIN answer' = 1..N
    BY <1>0, Thread(u) DEF FileTypes, Thread, Begins, Reuses, Asks, SaysNothing, Answers, Fails,
       ThreadStops, SavesScene, SavesNotes, SavesSummary, Merges
  <2> QED BY <1>0, <1>2, <1>3, <2>1 DEF FileTypes
<1>5. ClipFiles'
  BY <1>0, <1>1, <1>3 DEF ClipFiles
<1>6. StageFiles'
  <2>1. stage = "summarise" => known'.notes = known.notes
    BY <1>0 DEF ThreadWork
  <2> QED BY <1>0, <1>1, <1>3, <2>1 DEF StageFiles, PoolStages, AfterSubtitle, AfterDialogue,
          AfterScenes, AfterClips, AfterNotes, AfterDescription, AfterStory, DialogueStands
<1>7. Units' = Units
  BY <1>1 DEF Units, PoolStages
<1>8. ASSUME NEW f \in (1..N) \X (0..N), disk'.notes[f] # None
      PROVE  /\ disk'.notes[f].notes \in Notes
             /\ DOMAIN disk'.notes[f].notes = ShotsOf(disk'.notes[f].key.shots)
  <2>1. CASE disk'.notes[f] = disk.notes[f]
    BY <1>0, <1>8, <2>1 DEF NoteFiles
  <2>2. CASE disk'.notes[f] # disk.notes[f]
    <3>1. DOMAIN disk = Fields /\ DOMAIN disk.notes = (1..N) \X (0..N)
      BY <1>0 DEF RecordTypes
    <3>2. CASE SavesNotes(u)
      <4> DEFINE X == [x \in ShotsOf(BatchOf(u)) |-> answer[u]]
      <4>1. disk' = [disk EXCEPT !.notes[FileOf(u)] = [key |-> BatchKey(u), notes |-> X]]
        BY <3>2 DEF SavesNotes
      <4>2. disk'.notes[f] = [key |-> BatchKey(u), notes |-> X]
        BY <2>2, <3>1, <4>1 DEF Fields, NoFiles
      <4>3. answer[u] \in Nat /\ stage = "annotate"
        BY <1>0, <1>1, <3>2 DEF NoteFiles, SavesNotes
      <4>4. ShotsOf(BatchOf(u)) \in SUBSET (1..N)
        BY <1>0, <1>1, <4>3, ThreadShots
      <4>5. X \in [ShotsOf(BatchOf(u)) -> Nat]
        BY <4>3
      <4>6. X \in Notes /\ DOMAIN X = ShotsOf(BatchOf(u))
        BY <4>4, <4>5 DEF Notes
      <4>7. BatchKey(u).shots = BatchOf(u)
        BY DEF BatchKey, Fingerprint
      <4> HIDE DEF X
      <4>8. disk'.notes[f].notes = X /\ disk'.notes[f].key = BatchKey(u)
        BY <4>2
      <4> QED BY <4>6, <4>7, <4>8
    <3>3. CASE Merges(u)
      <4>1. disk' = [disk EXCEPT !.notes[<<u, 0>>] =
                       [key |-> WholeKey(u), notes |-> known.notes[u]]]
        BY <2>2, <3>3 DEF Merges
      <4>2. disk'.notes[f] = [key |-> WholeKey(u), notes |-> known.notes[u]]
        BY <2>2, <3>1, <4>1 DEF Fields, NoFiles
      <4>3. stage = "annotate" /\ batch[u] > Batches(u) /\ thread[u] = "looking"
        BY <3>3 DEF Merges, AllBatches
      <4>4. DOMAIN known.notes[u] = ShotsOf(SegmentOf(u))
        BY <1>0, <1>1, <4>3, ThreadShots DEF NoteFiles, TakenShots
      <4>5. known.notes[u] \in Notes
        BY <1>0 DEF FileTypes
      <4>6. WholeKey(u).shots = SegmentOf(u)
        BY DEF WholeKey, Fingerprint
      <4>7. disk'.notes[f].notes = known.notes[u] /\ disk'.notes[f].key = WholeKey(u)
        BY <4>2
      <4> QED BY <4>4, <4>5, <4>6, <4>7
    <3>4. CASE SavesScene(u) \/ SavesSummary(u)
      BY <2>2, <3>1, <3>4 DEF SavesScene, SavesSummary, Fields, NoFiles
    <3>5. CASE Begins(u) \/ Reuses(u) \/ Asks(u) \/ SaysNothing(u) \/ Answers(u) \/ Fails(u)
                 \/ ThreadStops(u)
      BY <2>2, <3>5 DEF Begins, Reuses, Asks, SaysNothing, Answers, Fails, ThreadStops
    <3> QED BY <3>2, <3>3, <3>4, <3>5, Thread(u) DEF Thread
  <2> QED BY <2>1, <2>2
<1>9. ASSUME NEW i \in 1..N, disk'.says[i] # None
      PROVE  disk'.says[i].says \in Nat
  <2>1. CASE disk'.says[i] = disk.says[i]
    BY <1>0, <1>9, <2>1 DEF NoteFiles
  <2>2. CASE disk'.says[i] # disk.says[i]
    <3>1. DOMAIN disk = Fields /\ DOMAIN disk.says = 1..N
      BY <1>0 DEF RecordTypes
    <3>2. CASE SavesSummary(u)
      <4>1. /\ disk' = [disk EXCEPT !.says[u] = [of |-> SummaryInput(u), says |-> answer[u]]]
            /\ stage = "summarise" /\ thread[u] = "answered"
        BY <3>2 DEF SavesSummary
      <4>2. disk'.says[i] = [of |-> SummaryInput(u), says |-> answer[u]]
        BY <2>2, <3>1, <4>1 DEF Fields, NoFiles
      <4>3. answer[u] \in Nat
        BY <1>0, <1>1, <4>1 DEF NoteFiles
      <4>4. disk'.says[i].says = answer[u]
        BY <4>2
      <4> QED BY <4>3, <4>4
    <3>3. CASE SavesScene(u) \/ SavesNotes(u) \/ Merges(u)
      BY <2>2, <3>1, <3>3 DEF SavesScene, SavesNotes, Merges, Fields, NoFiles
    <3>4. CASE Begins(u) \/ Reuses(u) \/ Asks(u) \/ SaysNothing(u) \/ Answers(u) \/ Fails(u)
                 \/ ThreadStops(u)
      BY <2>2, <3>4 DEF Begins, Reuses, Asks, SaysNothing, Answers, Fails, ThreadStops
    <3> QED BY <3>2, <3>3, <3>4, Thread(u) DEF Thread
  <2> QED BY <2>1, <2>2
<1>10. ASSUME stage \in {"annotate", "summarise"}, NEW v \in Units, thread'[v] = "answered"
       PROVE  answer'[v] \in Nat
  <2>1. v \in 1..N
    BY <1>0, UnitsAreShots
  <2>2. CASE Answers(u)
    <3>1. \E value \in Accepts(u) : answer' = [answer EXCEPT ![u] = value]
      BY <2>2 DEF Answers
    <3>2. Accepts(u) \subseteq Nat
      BY <1>10, <1>0 DEF Accepts, FileTypes, Unavailable
    <3>3. CASE v = u
      BY <1>0, <2>1, <3>1, <3>2, <3>3 DEF FileTypes
    <3>4. CASE v # u
      <4>1. thread[v] = "answered"
        BY <1>0, <1>10, <2>1, <3>4 DEF ThreadFrame
      <4> QED BY <1>0, <1>10, <3>1, <3>4, <4>1 DEF NoteFiles
    <3> QED BY <3>3, <3>4
  <2>3. CASE ~Answers(u)
    <3>1. answer' = answer
      BY <2>3, Thread(u) DEF Thread, Begins, Reuses, Asks, SaysNothing, Fails, ThreadStops,
         SavesScene, SavesNotes, SavesSummary, Merges
    <3>2. thread[v] = "answered"
      <4>1. thread'[u] # "answered"
        BY <2>3, Thread(u), <1>0 DEF Thread, Begins, Reuses, Asks, SaysNothing, Fails, ThreadStops,
           SavesScene, SavesNotes, SavesSummary, Merges, Takes, Becomes, RecordTypes
      <4> QED BY <1>0, <1>10, <2>1, <4>1 DEF ThreadFrame
    <3> QED BY <1>0, <1>10, <3>1, <3>2 DEF NoteFiles
  <2> QED BY <2>2, <2>3
<1>11. ASSUME stage = "annotate", NEW v \in Units
       PROVE  DOMAIN known'.notes[v] = TakenShots(v)'
  <2>1. CASE v = u
    BY <1>2, <1>11, <2>1
  <2>2. CASE v # u
    <3>1. v \in 1..N
      BY <1>0, UnitsAreShots
    <3>2. /\ known'.notes[v] = known.notes[v] /\ thread'[v] = thread[v] /\ batch'[v] = batch[v]
      BY <1>0, <2>2, <3>1 DEF ThreadWork, ThreadFrame
    <3>3. SegmentOf(v)' = SegmentOf(v)
      BY <1>1, <1>11 DEF SegmentOf
    <3> QED BY <1>0, <1>1, <1>11, <3>2, <3>3 DEF NoteFiles, TakenShots
  <2> QED BY <2>1, <2>2
<1>12. stage \notin {"annotate", "publish"} \cup AfterNotes => known'.notes = [i \in 1..N |-> << >>]
  BY <1>0, <1>1 DEF NoteFiles, ThreadWork, PoolStages, AfterNotes, AfterClips, AfterScenes
<1>13. NoteFiles'
  BY <1>1, <1>7, <1>8, <1>9, <1>10, <1>11, <1>12 DEF NoteFiles
<1> QED BY <1>0, <1>4, <1>5, <1>6, <1>13 DEF FilesStand

\* The steps that leave the files and what is known of them.
LEMMA IdleFilesStand ==
  ASSUME SealInv, RecordTypes', Begin \/ RequestStop \/ UNCHANGED vars
  PROVE  FilesStand'
<1>0. FileTypes /\ RecordTypes /\ StageFiles /\ ClipFiles /\ NoteFiles /\ RecordTypes'
  BY DEF SealInv, RecordInv
<1>1. CASE RequestStop \/ UNCHANGED vars \/ \E s \in Signatures : BeginRefused(s)
  <2>1. UNCHANGED <<disk, stage, known, thread, batch, answer, limit>> /\ attempts' \in Nat
    BY <1>0, <1>1 DEF RequestStop, vars, process, BeginRefused, FileTypes
  <2>2. FileTypes' /\ ClipFiles'
    BY <1>0, <2>1 DEF FileTypes, ClipFiles
  <2>3. StageFiles'
    BY <1>0, <2>1 DEF StageFiles, DialogueStands, ShotsTold
  <2>4. NoteFiles'
    <3>1. Units' = Units
      BY <2>1 DEF Units
    <3>2. ASSUME NEW u \in Units PROVE TakenShots(u)' = TakenShots(u)
      <4>1. SegmentOf(u)' = SegmentOf(u)
        BY <2>1 DEF SegmentOf
      <4> QED BY <2>1, <4>1 DEF TakenShots
    <3> QED BY <1>0, <2>1, <3>1, <3>2 DEF NoteFiles
  <2> QED BY <2>2, <2>3, <2>4 DEF FilesStand
<1>2. ASSUME NEW s \in Signatures, NEW l \in Limits, NEW first \in {"spec", "shots", "publish"},
             Enters(first, s, l)
      PROVE  FilesStand'
  <2>1. /\ UNCHANGED <<disk, known, thread, batch, answer>> /\ attempts' = attempts + 1
        /\ stage = "off" /\ stage' \in {"spec", "shots", "publish"}
    BY <1>2 DEF Enters
  <2>2. FileTypes' /\ ClipFiles'
    <3>1. attempts' \in Nat
      BY <1>0, <2>1 DEF FileTypes
    <3> QED BY <1>0, <2>1, <3>1 DEF FileTypes, ClipFiles
  <2>3. StageFiles'
    BY <2>1 DEF StageFiles, AfterSubtitle, AfterDialogue, AfterScenes, AfterClips, AfterNotes,
       AfterDescription, AfterStory
  <2>4. NoteFiles'
    BY <1>0, <2>1 DEF NoteFiles, AfterNotes, AfterClips, AfterScenes
  <2> QED BY <2>2, <2>3, <2>4 DEF FilesStand
<1> QED BY <1>1, <1>2 DEF Begin, BeginCached, BeginResumes, BeginAnew

\* An attempt that ends, however it ends, leaves the files.
LEMMA EndFilesStand ==
  ASSUME SealInv, RecordTypes', NEW how, Leaves(how)
  PROVE  FilesStand'
<1>0. FileTypes /\ RecordTypes /\ ClipFiles /\ NoteFiles /\ RecordTypes'
  BY DEF SealInv, RecordInv
<1>1. /\ disk' = disk /\ stage' = "off" /\ known' = Blank /\ attempts' = attempts
      /\ answer' = [u \in 1..N |-> None]
  BY DEF Leaves
<1>2. FileTypes'
  BY <1>0, <1>1, NoNotes DEF FileTypes, Blank, Sayings
<1>3. StageFiles'
  BY <1>1 DEF StageFiles, AfterSubtitle, AfterDialogue, AfterScenes, AfterClips, AfterNotes,
     AfterDescription, AfterStory
<1>4. ClipFiles'
  BY <1>0, <1>1 DEF ClipFiles
<1>5. NoteFiles'
  BY <1>0, <1>1 DEF NoteFiles, Blank
<1> QED BY <1>2, <1>3, <1>4, <1>5 DEF FilesStand

\* Every step keeps the files standing.
LEMMA FilesStandNext ==
  ASSUME SealInv, RecordTypes', [Next]_vars
  PROVE  FilesStand'
<1>0. FilesStand
  BY DEF SealInv, FilesStand
<1>1. CASE Begin \/ RequestStop \/ UNCHANGED vars
  BY <1>1, IdleFilesStand
<1>2. CASE WindsUp \/ Stops \/ Breaks \/ Crash \/ Publish
  <2>1. \E how : Leaves(how)
    BY <1>2 DEF WindsUp, Stops, Breaks, Crash, Publish
  <2> QED BY <2>1, EndFilesStand
<1>3. CASE \E u \in 1..N : Thread(u)
  BY <1>3, ThreadFilesStand
<1>4. CASE Prepare
  BY <1>0, <1>4, PlainStages, DialogueStages DEF Prepare, PlainStage
<1>5. CASE Segmentation
  BY <1>0, <1>5, PlainStages, SegmentsStage, ClipStage, ClipsStage DEF Segmentation, PlainStage
<1>6. CASE Finish
  BY <1>0, <1>2, <1>6, PlainStages, NotesStage, DescribeStage, StoryStage DEF Finish, PlainStage
<1> QED BY <1>1, <1>2, <1>3, <1>4, <1>5, <1>6 DEF Next, Advance

\* A sealed memory is taken as it is by the analysis on record, and refused to
\* any other.
LEMMA SealedIsNotWorkedOn ==
  ASSUME SealInv, disk.manifest # None, Begin
  PROVE  stage' \in {"off", "publish"} /\ disk' = disk
<1>0. Sealed /\ None \notin Nat \cup Readings \cup Boundaries \cup Descriptions \cup Stories
  BY NoneIsNoFile DEF SealInv, SealFiles
<1>1. Cached(disk.spec)
  <2>1. disk.description # None /\ disk.story # None /\ disk.srt # None
    BY <1>0 DEF Sealed, Whole
  <2> QED BY <1>0, <2>1 DEF Cached, Sealed, StoryStands
<1>2. ASSUME NEW s \in Signatures, NEW l \in Limits, BeginCached(s, l)
      PROVE  stage' = "publish" /\ disk' = disk
  BY <1>2 DEF BeginCached, Enters
<1>3. ASSUME NEW s \in Signatures, NEW l \in Limits, BeginResumes(s, l)
      PROVE  FALSE
  BY <1>1, <1>3 DEF BeginResumes
<1>4. ASSUME NEW s \in Signatures, NEW l \in Limits, BeginAnew(s, l)
      PROVE  FALSE
  BY <1>0, <1>4 DEF BeginAnew, Sealed
<1>5. ASSUME NEW s \in Signatures, BeginRefused(s)
      PROVE  stage' = "off" /\ disk' = disk
  BY <1>5 DEF BeginRefused
<1> QED BY <1>2, <1>3, <1>4, <1>5 DEF Begin

\* Only the last stage seals, and what it seals is whole.
LEMMA SealFilesNext ==
  ASSUME SealInv, [Next]_vars
  PROVE  SealFiles'
<1>0. /\ FileTypes /\ RecordTypes /\ StageFiles /\ ClipFiles /\ WriterInv /\ SealFiles
      /\ DOMAIN disk = Fields
  BY DEF SealInv, RecordInv, RecordTypes
<1>1. CASE disk.manifest # None
  <2>1. Sealed /\ stage \in {"off", "publish"}
    BY <1>0, <1>1 DEF SealFiles
  <2>2. disk' = disk /\ stage' \in {"off", "publish"}
    <3>1. CASE Begin
      BY <1>1, <3>1, SealedIsNotWorkedOn
    <3>2. CASE RequestStop \/ UNCHANGED vars
      BY <2>1, <3>2 DEF RequestStop, vars
    <3>3. CASE WindsUp \/ Stops \/ Breaks \/ Crash \/ Publish
      BY <3>3 DEF WindsUp, Stops, Breaks, Crash, Publish, Leaves
    <3>4. CASE Prepare
      BY <2>1, <3>4 DEF Prepare, OpenSpec, SaveSpec, DetectShots, ReuseSubtitle, Transcribe,
         WriteSubtitle, ReadDialogue, ReconstructDialogue, OpenDialogues, WriteDialogues,
         OpenMerged, WriteMerged, At
    <3>5. CASE Segmentation
      BY <2>1, <3>5 DEF Segmentation, ResumeSegments, WriteFrames, AskForScenes, ScenesFound,
         WriteSegments, WriteScene, CutClip, ClipsReady, At
    <3>6. CASE \E u \in 1..N : Thread(u)
      <4>1. stage \in PoolStages
        BY <3>6 DEF Thread, Begins, Reuses, Asks, SaysNothing, Answers, Fails, SavesScene,
           SavesNotes, SavesSummary, Merges, ThreadStops, InPool
      <4> QED BY <2>1, <4>1 DEF PoolStages
    <3>7. CASE Finish
      BY <2>1, <3>3, <3>7 DEF Finish, NotesTaken, Summarised, Describe, ReuseStory, TellStory,
         WriteStory, MakeCover, Seal, At
    <3> QED BY <3>1, <3>2, <3>3, <3>4, <3>5, <3>6, <3>7 DEF Next, Advance
  <2> QED BY <2>1, <2>2 DEF SealFiles, Sealed, DialogueStands
<1>2. CASE disk.manifest = None /\ Seal
  <2>1. /\ stage = "manifest" /\ stage' = "publish"
        /\ disk' = [disk EXCEPT !.manifest = sig]
    BY <1>2 DEF Seal, At, Goes, GoesOn
  <2>2. /\ disk'.manifest = sig
        /\ \A f \in Fields \ {"manifest"} : disk'[f] = disk[f]
    BY <1>0, <2>1 DEF Fields, NoFiles
  <2>3. disk.spec = sig
    BY <1>0, <2>1 DEF WriterInv
  <2>4. /\ Whole(disk.srt) /\ DialogueStands /\ disk.shots /\ disk.cover
        /\ disk.segments \in Boundaries /\ disk.scene /\ disk.segments.ends = known.ends
        /\ disk.description \in Descriptions /\ disk.description.ends = known.ends
        /\ ShotsTold(disk.description.notes, known.ends)
        /\ \A i \in Segments(known.ends) : disk.clips[i] # None
        /\ disk.story \in Stories /\ disk.story.count = SegmentCount(known.ends)
    BY <1>0, <2>1 DEF StageFiles, AfterSubtitle, AfterDialogue, AfterScenes, AfterClips,
       AfterNotes, AfterDescription, AfterStory
  <2> QED BY <2>1, <2>2, <2>3, <2>4 DEF SealFiles, Sealed, DialogueStands, Fields, NoFiles
<1>3. CASE disk.manifest = None /\ ~Seal
  <2> USE DEF Fields, NoFiles
  <2>1. CASE Begin \/ RequestStop \/ UNCHANGED vars
    BY <1>3, <2>1 DEF Begin, BeginCached, BeginResumes, BeginAnew, BeginRefused, Enters,
       RequestStop, vars, SealFiles
  <2>2. CASE WindsUp \/ Stops \/ Breaks \/ Crash \/ Publish
    BY <1>3, <2>2 DEF WindsUp, Stops, Breaks, Crash, Publish, Leaves, SealFiles
  <2>3. CASE Prepare
    BY <1>0, <1>3, <2>3 DEF Prepare, OpenSpec, SaveSpec, DetectShots, ReuseSubtitle, Transcribe,
       WriteSubtitle, ReadDialogue, ReconstructDialogue, OpenDialogues, WriteDialogues,
       OpenMerged, WriteMerged, SealFiles
  <2>4. CASE Segmentation
    BY <1>0, <1>3, <2>4 DEF Segmentation, ResumeSegments, WriteFrames, AskForScenes, ScenesFound,
       WriteSegments, WriteScene, CutClip, ClipsReady, SealFiles
  <2>5. CASE \E u \in 1..N : Thread(u)
    BY <1>0, <1>3, <2>5, ThreadsDoTheirWork DEF ThreadWork, SealFiles, SealInv, FilesStand
  <2>6. CASE Finish
    BY <1>0, <1>3, <2>2, <2>6 DEF Finish, NotesTaken, Summarised, Describe, ReuseStory, TellStory,
       WriteStory, MakeCover, SealFiles
  <2> QED BY <2>1, <2>2, <2>3, <2>4, <2>5, <2>6 DEF Next, Advance
<1> QED BY <1>1, <1>2, <1>3

\* The first attempt finds an empty memory.
LEMMA SealInvInit == Init => SealInv
<1> SUFFICES ASSUME Init PROVE SealInv
  OBVIOUS
<1>1. WriterInv /\ RecordInv
  BY WriterInvInit, RecordInvInit
<1>2. FileTypes
  BY <1>1, NoNotes DEF Init, FileTypes, RecordInv, NoFiles, Blank, Sayings
<1>3. StageFiles
  BY DEF Init, StageFiles, AfterSubtitle, AfterDialogue, AfterScenes, AfterClips, AfterNotes,
     AfterDescription, AfterStory
<1>4. ClipFiles /\ NoteFiles /\ SealFiles
  BY DEF Init, ClipFiles, NoteFiles, SealFiles, NoFiles, Blank
<1> QED BY <1>1, <1>2, <1>3, <1>4 DEF SealInv

\* Every step leaves the files as the stage it reaches needs them.
LEMMA SealInvNext == SealInv /\ [Next]_vars => SealInv'
<1> SUFFICES ASSUME SealInv, [Next]_vars PROVE SealInv'
  OBVIOUS
<1>1. WriterInv' /\ RecordInv'
  BY WriterInvNext, RecordInvNext DEF SealInv
<1>2. FilesStand'
  BY <1>1, FilesStandNext DEF RecordInv
<1>3. SealFiles'
  BY SealFilesNext
<1> QED BY <1>1, <1>2, <1>3 DEF SealInv, FilesStand

\* A memory with a manifest is whole (SealedMemoryIsWhole).
THEOREM SealedMemoriesAreWhole == Spec => []SealedMemoryIsWhole
<1> QED BY SealInvInit, SealInvNext, SealInvSeals, PTL DEF Spec

(***************************************************************************)
(* A memory is of one analysis, and answers are kept, as long as subtitles *)
(* are reused and every attempt has the same limit.  Once both files of    *)
(* the dialogue are there, the files fix what every later attempt finds:   *)
(* the windows fix the scenes, the scenes the batches, the batches the     *)
(* notes, the notes the summaries, and all of them the description.  The   *)
(* invariant says so of each file, and of each thread that what it asks    *)
(* for is not there.                                                       *)
(***************************************************************************)
SettingsStay == Reuse = TRUE /\ \A k, l \in Limits : k = l
Size == CHOOSE l \in Limits : TRUE

\* The segments and batches of the scenes on disk.
Scene(i) == Segment(disk.segments.ends, i)
Parts(i) == BatchCount(Scene(i), Size)
PartFile(i, j) == BatchFile(i, j, Parts(i))
PartShots(i, j) == ShotsOf(Batch(Scene(i), Size, j))
PartTells(i, j, f) ==
  /\ disk.notes[PartFile(i, j)] # None
  /\ \A x \in PartShots(i, j) : f[x] = disk.notes[PartFile(i, j)].notes[x]

\* f is what the files have to tell of the shots of segment i.
Tells(i, f) ==
  /\ DOMAIN f = ShotsOf(Scene(i))
  /\ \A j \in 1..Parts(i) : PartTells(i, j, f)
\* v is the summary of segment i, of which f is told.
Said(i, f, v) ==
  IF ~HasDialogue(Scene(i)) /\ \A x \in ShotsOf(Scene(i)) : f[x] = Unavailable
    THEN v = None
    ELSE disk.says[i] # None /\ v = disk.says[i].says

OneLimit == stage # "off" => limit = Size

OneReading ==
  /\ Whole(disk.dialogues) => Whole(disk.srt) /\ disk.dialogues.srt = disk.srt
  /\ Whole(disk.merged) => Whole(disk.dialogues) /\ disk.merged = disk.dialogues
  /\ stage = "srt" => ~Whole(disk.srt)
  /\ stage \in {"open dialogues", "write dialogues", "open merged", "write merged"} =>
       ~Whole(disk.merged)
  /\ stage \in {"open merged", "write merged"} =>
       disk.dialogues = [srt |-> disk.srt, text |-> attempts]

WindowOfOne(w) ==
  DialogueStands /\ disk.windows[w].of = disk.dialogues /\ disk.windows[w].end \in BOOLEAN
WindowsOfOne == \A w \in Windows : disk.windows[w] # None => WindowOfOne(w)
ScenesOfOne ==
  disk.segments # None =>
    /\ Size \in Nat \ {0}
    /\ DialogueStands /\ disk.segments.of = disk.dialogues
    /\ \A w \in Windows : disk.windows[w] # None /\ (disk.windows[w].end = (w \in disk.segments.ends))
WindowThread(u) ==
  /\ thread[u] \in {"asking", "answered"} => disk.windows[u] = None
  /\ thread[u] = "answered" => answer[u] \in BOOLEAN
  /\ thread[u] = "done" => disk.windows[u] # None /\ disk.windows[u].end = (u \in known.ends)
  /\ thread[u] # "done" => u \notin known.ends
ScenesFollow ==
  /\ stage \notin {"windows", "segments", "write scene", "publish"} \cup AfterScenes =>
       known.ends = {}
  /\ stage = "windows" => \A u \in Windows : WindowThread(u)
  /\ stage = "segments" => \A w \in Windows :
       disk.windows[w] # None /\ disk.windows[w].end = (w \in known.ends)

NoteOfOne(i, j) ==
  /\ disk.segments # None /\ i \in Segments(disk.segments.ends)
  /\ disk.notes[<<i, j>>] =
       [key |-> disk.notes[<<i, j>>].key, notes |-> disk.notes[<<i, j>>].notes]
  /\ j = 0 => /\ disk.notes[<<i, j>>].key = Fingerprint(disk.dialogues, Scene(i), 1, 1)
              /\ Tells(i, disk.notes[<<i, j>>].notes)
  /\ j # 0 => disk.notes[<<i, j>>].key =
                Fingerprint(disk.dialogues, Batch(Scene(i), Size, j), j, Parts(i))
NotesOfOne == \A i \in 1..N, j \in 0..N : disk.notes[<<i, j>>] # None => NoteOfOne(i, j)
NoteThread(u) ==
  /\ thread[u] \in {"asking", "answered"} => disk.notes[FileOf(u)] = None
  /\ thread[u] \in {"looking", "asking", "answered"} /\ Parts(u) # 1 =>
       disk.notes[<<u, 0>>] = None
  /\ thread[u] # "done" =>
       \A j \in 1..Parts(u) : j < batch[u] => PartTells(u, j, known.notes[u])
  /\ thread[u] = "done" => Tells(u, known.notes[u])
NotesFollow ==
  /\ stage = "annotate" => \A u \in Segments(disk.segments.ends) : NoteThread(u)
  /\ stage \in AfterNotes => \A u \in Segments(disk.segments.ends) : Tells(u, known.notes[u])

SayingOfOne(i) ==
  /\ disk.segments # None /\ i \in Segments(disk.segments.ends)
  /\ disk.says[i].of =
       [reading |-> disk.dialogues, shots |-> Scene(i), notes |-> disk.says[i].of.notes]
  /\ disk.says[i].of.notes \in Notes /\ Tells(i, disk.says[i].of.notes)
SayingsOfOne == \A i \in 1..N : disk.says[i] # None => SayingOfOne(i)
AfterSayings == {"describe"} \cup AfterDescription
SayThread(u) ==
  /\ thread[u] \in {"asking", "answered"} => disk.says[u] = None /\ ~NothingToSay(u)
  /\ IF thread[u] = "done" THEN Said(u, known.notes[u], known.says[u]) ELSE known.says[u] = None
SayingsFollow ==
  /\ stage \notin {"summarise", "publish"} \cup AfterSayings =>
       known.says = [i \in 1..N |-> None]
  /\ stage = "summarise" => \A u \in Segments(disk.segments.ends) : SayThread(u)
  /\ stage \in AfterSayings => \A u \in Segments(disk.segments.ends) :
       Said(u, known.notes[u], known.says[u])

DescriptionOfOne ==
  disk.description # None =>
    /\ disk.segments # None
    /\ disk.description.of = disk.dialogues /\ disk.description.ends = disk.segments.ends
    /\ DOMAIN disk.description.notes = Segments(disk.segments.ends)
    /\ DOMAIN disk.description.says = Segments(disk.segments.ends)
    /\ \A i \in Segments(disk.segments.ends) :
         /\ Tells(i, disk.description.notes[i])
         /\ Said(i, disk.description.notes[i], disk.description.says[i])
StoryOfOne ==
  disk.story # None => disk.description # None /\ disk.story.of = disk.description

FilesOfOne ==
  WindowsOfOne /\ ScenesOfOne /\ NotesOfOne /\ SayingsOfOne /\ DescriptionOfOne /\ StoryOfOne
WorkOfOne == OneLimit /\ ScenesFollow /\ NotesFollow /\ SayingsFollow
OneInv == SealInv /\ OneReading /\ FilesOfOne /\ WorkOfOne

\* A segment of one batch is that batch.
LEMMA OneBatchIsAll ==
  ASSUME NEW a \in 1..N, NEW b \in 1..N, a <= b, NEW size \in Nat \ {0},
         BatchCount(<<a, b>>, size) = 1
  PROVE  Batch(<<a, b>>, size, 1) = <<a, b>>
<1>0. N \in Nat /\ a \in Int /\ b \in Int
  BY AnalysisAssumption
<1>1. Length(<<a, b>>) = b - a + 1
  BY DEF Length
<1>2. b - a + 1 <= size
  <2> DEFINE q == ((b - a + 1) + size - 1) \div size
  <2>1. (b - a + 1) + size - 1 < q * size + size
    BY <1>0, SMT
  <2>2. q = 1
    BY <1>1 DEF BatchCount
  <2> HIDE DEF q
  <2>3. q * size = size
    BY <2>2
  <2> QED BY <1>0, <2>1, <2>3
<1>3. (1 - 1) * size = 0 /\ 1 * size = size
  BY SMT
<1> QED BY <1>0, <1>2, <1>3 DEF Batch

\* Every shot of a segment is in one of its batches.
LEMMA BatchesReachAll ==
  ASSUME NEW a \in 1..N, NEW b \in 1..N, a <= b, NEW size \in Nat \ {0}, NEW x \in a..b
  PROVE  \E j \in 1..BatchCount(<<a, b>>, size) : x \in ShotsOf(Batch(<<a, b>>, size, j))
<1> DEFINE q == (x - a) \div size
           count == ((b - a + 1) + size - 1) \div size
<1>0. N \in Nat /\ a \in Int /\ b \in Int /\ x \in Int /\ a <= x /\ x <= b
  BY AnalysisAssumption
<1>1. q \in Int /\ q * size <= x - a /\ x - a < q * size + size
  BY <1>0, SMT
<1>2. count \in Int /\ (b - a + 1) + size - 1 < count * size + size
  BY <1>0, SMT
<1>c. BatchCount(<<a, b>>, size) = count
  BY DEF BatchCount, Length
<1> HIDE DEF q, count
<1>3. q >= 0
  <2> SUFFICES ASSUME q <= -1 PROVE FALSE
    BY <1>1
  <2>1. q * size <= (-1) * size
    BY <1>1, SMT
  <2>2. (-1) * size = -size
    BY SMT
  <2> QED BY <2>1, <2>2, <1>1, <1>0
<1>4. q + 1 <= count
  <2> SUFFICES ASSUME count <= q PROVE FALSE
    BY <1>1, <1>2
  <2>1. count * size <= q * size
    BY <1>1, <1>2, SMT
  <2> QED BY <2>1, <1>0, <1>1, <1>2
<1>5. q + 1 \in 1..count /\ q + 1 \in Nat \ {0}
  BY <1>1, <1>2, <1>3, <1>4
<1>6. ((q + 1) - 1) * size = q * size /\ (q + 1) * size = q * size + size
  BY <1>1, SMT
<1>7. x \in ShotsOf(Batch(<<a, b>>, size, q + 1))
  <2> DEFINE p == q * size
  <2>1. Batch(<<a, b>>, size, q + 1)
          = <<a + p, IF a + (p + size) - 1 < b THEN a + (p + size) - 1 ELSE b>>
    BY <1>6 DEF Batch
  <2>2. p \in Int
    BY <1>1
  <2> HIDE DEF p
  <2>3. a + p <= x /\ x <= (IF a + (p + size) - 1 < b THEN a + (p + size) - 1 ELSE b)
    BY <1>0, <1>1, <2>2 DEF p
  <2> QED BY <1>0, <2>1, <2>2, <2>3 DEF ShotsOf
<1> QED BY <1>c, <1>5, <1>7

\* The shots of the batches before batch k come before it.
LEMMA BatchesComeInOrder ==
  ASSUME NEW a \in 1..N, NEW b \in 1..N, NEW size \in Nat \ {0},
         NEW j \in Nat \ {0}, NEW k \in Nat \ {0}, NEW x \in ShotsOf(Batch(<<a, b>>, size, j))
  PROVE  /\ x \in ShotsOf(<<a, b>>)
         /\ j < k => x < a + (k - 1) * size
         /\ j = k => ~(x < a + (k - 1) * size)
<1> DEFINE p == (j - 1) * size
           r == (k - 1) * size
<1>0. N \in Nat /\ a \in Int /\ b \in Int /\ a >= 1
  BY AnalysisAssumption
<1>1. p \in Nat /\ r \in Int /\ j * size = p + size
  BY SMT
<1>2. j < k => p + size <= r
  <2> SUFFICES ASSUME j < k PROVE p + size <= r
    OBVIOUS
  <2>1. j * size <= (k - 1) * size
    BY SMT
  <2> QED BY <2>1, <1>1
<1>3. j = k => p = r
  OBVIOUS
<1>4. Batch(<<a, b>>, size, j)
        = <<a + p, IF a + (p + size) - 1 < b THEN a + (p + size) - 1 ELSE b>>
  BY <1>1 DEF Batch
<1> HIDE DEF p, r
<1>5. x \in Int /\ a + p <= x /\ x <= b /\ x <= a + (p + size) - 1
  BY <1>0, <1>1, <1>4 DEF ShotsOf
<1>6. x \in ShotsOf(<<a, b>>)
  BY <1>0, <1>1, <1>5 DEF ShotsOf
<1>7. j < k => x < a + r
  BY <1>0, <1>1, <1>2, <1>5
<1>8. j = k => ~(x < a + r)
  BY <1>0, <1>1, <1>3, <1>5
<1> QED BY <1>6, <1>7, <1>8 DEF r

\* The scenes on disk and their batches.
LEMMA SceneParts ==
  ASSUME FileTypes, ScenesOfOne, disk.segments # None, NEW i \in Segments(disk.segments.ends)
  PROVE  /\ disk.segments.ends \subseteq Windows /\ Size \in Nat \ {0} /\ i \in 1..N
         /\ \E a, b \in 1..N : a <= b /\ Scene(i) = <<a, b>>
         /\ Parts(i) \in 1..N /\ 0 \in 0..N
         /\ \A j \in 1..Parts(i) : PartFile(i, j) = <<i, IF Parts(i) = 1 THEN 0 ELSE j>>
         /\ \A j \in 1..Parts(i) : PartFile(i, j) \in (1..N) \X (0..N)
         /\ ShotsOf(Scene(i)) \in SUBSET (1..N)
<1>0. disk.segments.ends \subseteq Windows /\ Size \in Nat \ {0} /\ N \in Nat
  BY AnalysisAssumption DEF FileTypes, RecordTypes, ScenesOfOne
<1>1. i \in 1..N /\ \E a, b \in 1..N : a <= b /\ Scene(i) = <<a, b>>
  BY <1>0, SegmentsHoldShots DEF Scene
<1>2. Parts(i) \in 1..N
  BY <1>0, BatchesOfSegments DEF Parts, Scene
<1>3. \A j \in 1..Parts(i) : PartFile(i, j) = <<i, IF Parts(i) = 1 THEN 0 ELSE j>>
  BY DEF PartFile, BatchFile
<1>4. ShotsOf(Scene(i)) \in SUBSET (1..N)
  BY <1>0, <1>1 DEF ShotsOf
<1>5. \A j \in 1..Parts(i) : PartFile(i, j) \in (1..N) \X (0..N)
  BY <1>0, <1>1, <1>2, <1>3
<1>6. 0 \in 0..N
  BY <1>0
<1> QED BY <1>0, <1>1, <1>2, <1>3, <1>4, <1>5, <1>6

\* The files tell one thing of a segment.
LEMMA TellsIsOne ==
  ASSUME FileTypes, ScenesOfOne, disk.segments # None, NEW i \in Segments(disk.segments.ends),
         NEW f \in Notes, NEW g \in Notes, Tells(i, f), Tells(i, g)
  PROVE  f = g
<1>0. Size \in Nat \ {0}
  BY SceneParts
<1>1. PICK a \in 1..N, b \in 1..N : a <= b /\ Scene(i) = <<a, b>>
  BY SceneParts
<1>2. DOMAIN f = a..b /\ DOMAIN g = a..b
  BY <1>1 DEF Tells, ShotsOf
<1>3. ASSUME NEW x \in a..b
      PROVE  f[x] = g[x]
  <2>1. PICK j \in 1..Parts(i) : x \in PartShots(i, j)
    BY <1>0, <1>1, BatchesReachAll DEF Parts, PartShots
  <2> QED BY <2>1 DEF Tells, PartTells
<1>4. f = [x \in DOMAIN f |-> f[x]] /\ g = [x \in DOMAIN g |-> g[x]]
  BY DEF Notes
<1> QED BY <1>2, <1>3, <1>4

\* What a step may never do to the files of one analysis.
KeepsFiles ==
  /\ DialogueStands =>
       disk'.dialogues = disk.dialogues /\ disk'.merged = disk.merged /\ disk'.srt = disk.srt
  /\ disk.segments # None => disk'.segments = disk.segments
  /\ \A w \in Windows : disk.windows[w] # None => disk'.windows[w] = disk.windows[w]
  /\ \A f \in (1..N) \X (0..N) : disk.notes[f] # None => disk'.notes[f] = disk.notes[f]
  /\ \A i \in 1..N : disk.says[i] # None => disk'.says[i] = disk.says[i]
  /\ disk.description # None => disk'.description = disk.description

\* What is told of a segment, and said of it, stays told and said.
LEMMA TellsStay ==
  ASSUME FileTypes, ScenesOfOne, KeepsFiles, disk.segments # None,
         NEW i \in Segments(disk.segments.ends)
  PROVE  /\ disk'.segments = disk.segments
         /\ Scene(i)' = Scene(i) /\ Parts(i)' = Parts(i)
         /\ \A j \in 1..Parts(i) :
              /\ PartFile(i, j)' = PartFile(i, j) /\ PartShots(i, j)' = PartShots(i, j)
              /\ \A f : PartTells(i, j, f) => PartTells(i, j, f)'
         /\ \A f : Tells(i, f) => Tells(i, f)'
         /\ \A f, v : Said(i, f, v) => Said(i, f, v)'
<1>1. disk'.segments = disk.segments
  BY DEF KeepsFiles
<1>2. Scene(i)' = Scene(i) /\ Parts(i)' = Parts(i)
  BY <1>1 DEF Scene, Parts
<1>3. ASSUME NEW j \in 1..Parts(i)
      PROVE  /\ PartFile(i, j)' = PartFile(i, j) /\ PartShots(i, j)' = PartShots(i, j)
             /\ disk.notes[PartFile(i, j)] # None =>
                  disk'.notes[PartFile(i, j)] = disk.notes[PartFile(i, j)]
  <2>1. PartFile(i, j) \in (1..N) \X (0..N)
    BY SceneParts
  <2>2. PartFile(i, j)' = PartFile(i, j) /\ PartShots(i, j)' = PartShots(i, j)
    BY <1>2 DEF PartFile, PartShots
  <2> QED BY <2>1, <2>2 DEF KeepsFiles
<1>4. \A j \in 1..Parts(i) : \A f : PartTells(i, j, f) => PartTells(i, j, f)'
  BY <1>3 DEF PartTells
<1>5. \A f : Tells(i, f) => Tells(i, f)'
  BY <1>2, <1>4 DEF Tells
<1>6. i \in 1..N
  BY SceneParts
<1>7. disk.says[i] # None => disk'.says[i] = disk.says[i]
  BY <1>6 DEF KeepsFiles
<1>8. \A f, v : Said(i, f, v) => Said(i, f, v)'
  BY <1>2, <1>7 DEF Said
<1> QED BY <1>1, <1>2, <1>3, <1>4, <1>5, <1>8

\* The files that are there stay those of one analysis as long as none is replaced.
LEMMA KeptFilesStand ==
  ASSUME FileTypes, FilesOfOne, KeepsFiles
  PROVE  /\ \A w \in Windows : disk.windows[w] # None => WindowOfOne(w)'
         /\ disk.segments # None => ScenesOfOne' /\ disk'.segments # None
         /\ \A i \in 1..N, j \in 0..N : disk.notes[<<i, j>>] # None => NoteOfOne(i, j)'
         /\ \A i \in 1..N : disk.says[i] # None => SayingOfOne(i)'
         /\ disk.description # None => DescriptionOfOne'
<1>0. ScenesOfOne
  BY DEF FilesOfOne
<1>1. ASSUME DialogueStands
      PROVE  DialogueStands' /\ disk'.dialogues = disk.dialogues
  BY <1>1 DEF KeepsFiles, DialogueStands
<1>2. ASSUME NEW w \in Windows, disk.windows[w] # None
      PROVE  WindowOfOne(w)'
  BY <1>1, <1>2 DEF FilesOfOne, WindowsOfOne, WindowOfOne, KeepsFiles
<1>3. ASSUME disk.segments # None
      PROVE  /\ ScenesOfOne' /\ disk'.segments # None
             /\ disk'.segments = disk.segments /\ disk'.dialogues = disk.dialogues
  BY <1>0, <1>1, <1>3 DEF ScenesOfOne, KeepsFiles
<1>4. ASSUME NEW i \in 1..N, NEW j \in 0..N, disk.notes[<<i, j>>] # None
      PROVE  NoteOfOne(i, j)'
  <2>1. NoteOfOne(i, j)
    BY <1>4 DEF FilesOfOne, NotesOfOne
  <2>2. disk'.notes[<<i, j>>] = disk.notes[<<i, j>>]
    BY <1>4 DEF KeepsFiles
  <2>3. disk.segments # None /\ i \in Segments(disk.segments.ends)
    BY <2>1 DEF NoteOfOne
  <2>4. Scene(i)' = Scene(i) /\ Parts(i)' = Parts(i) /\ \A f : Tells(i, f) => Tells(i, f)'
    BY <1>0, <2>3, TellsStay
  <2> QED BY <1>3, <2>1, <2>2, <2>3, <2>4 DEF NoteOfOne
<1>5. ASSUME NEW i \in 1..N, disk.says[i] # None
      PROVE  SayingOfOne(i)'
  <2>1. SayingOfOne(i)
    BY <1>5 DEF FilesOfOne, SayingsOfOne
  <2>2. disk'.says[i] = disk.says[i]
    BY <1>5 DEF KeepsFiles
  <2>3. disk.segments # None /\ i \in Segments(disk.segments.ends)
    BY <2>1 DEF SayingOfOne
  <2>4. Scene(i)' = Scene(i) /\ \A f : Tells(i, f) => Tells(i, f)'
    BY <1>0, <2>3, TellsStay
  <2> QED BY <1>3, <2>1, <2>2, <2>3, <2>4 DEF SayingOfOne
<1>6. ASSUME disk.description # None
      PROVE  DescriptionOfOne'
  <2>1. DescriptionOfOne
    BY DEF FilesOfOne
  <2>2. disk'.description = disk.description /\ disk.segments # None
    BY <1>6, <2>1 DEF DescriptionOfOne, KeepsFiles
  <2>3. ASSUME NEW i \in Segments(disk.segments.ends)
        PROVE  /\ \A f : Tells(i, f) => Tells(i, f)'
               /\ \A f, v : Said(i, f, v) => Said(i, f, v)'
    BY <1>0, <2>2, TellsStay
  <2> QED BY <1>3, <1>6, <2>1, <2>2, <2>3 DEF DescriptionOfOne
<1> QED BY <1>2, <1>3, <1>4, <1>5, <1>6

\* The files answers and what is made of them are kept in.
Texts == {"srt", "dialogues", "merged", "windows", "segments", "notes", "says",
          "description", "story"}
SameTexts == \A f \in Texts : disk'[f] = disk[f]

\* Only these steps write such a file.
LEMMA TextSteps ==
  ASSUME FilesStand, RecordTypes, [Next]_vars
  PROVE  \/ SameTexts
         \/ Transcribe \/ WriteSubtitle
         \/ OpenDialogues \/ WriteDialogues \/ OpenMerged \/ WriteMerged
         \/ WriteSegments \/ Describe \/ WriteStory
         \/ \E u \in 1..N : SavesScene(u) \/ SavesNotes(u) \/ Merges(u) \/ SavesSummary(u)
<1> USE DEF SameTexts, Texts, RecordTypes, Fields, NoFiles
<1>1. CASE Begin \/ RequestStop \/ UNCHANGED vars
  BY <1>1 DEF Begin, BeginCached, BeginResumes, BeginAnew, BeginRefused, Enters, RequestStop, vars
<1>2. CASE WindsUp \/ Stops \/ Breaks \/ Crash \/ Publish
  BY <1>2 DEF WindsUp, Stops, Breaks, Crash, Publish, Leaves
<1>3. CASE Prepare
  BY <1>3 DEF Prepare, OpenSpec, SaveSpec, DetectShots, ReuseSubtitle, ReadDialogue,
     ReconstructDialogue
<1>4. CASE Segmentation
  BY <1>4 DEF Segmentation, ResumeSegments, WriteFrames, AskForScenes, ScenesFound,
     WriteScene, CutClip, ClipsReady
<1>5. CASE \E u \in 1..N : Thread(u)
  BY <1>5 DEF Thread, Begins, Reuses, Asks, SaysNothing, Answers, Fails, ThreadStops
<1>6. CASE Finish
  BY <1>2, <1>6 DEF Finish, NotesTaken, Summarised, ReuseStory, TellStory, MakeCover, Seal
<1> QED BY <1>1, <1>2, <1>3, <1>4, <1>5, <1>6 DEF Next, Advance

\* A step that writes none of them keeps them.
LEMMA SameTextsKeep ==
  ASSUME SameTexts, FilesOfOne
  PROVE  KeepsFiles /\ FilesOfOne'
<1>1. /\ disk'.srt = disk.srt /\ disk'.dialogues = disk.dialogues /\ disk'.merged = disk.merged
      /\ disk'.windows = disk.windows /\ disk'.segments = disk.segments
      /\ disk'.notes = disk.notes /\ disk'.says = disk.says
      /\ disk'.description = disk.description /\ disk'.story = disk.story
  BY DEF SameTexts, Texts
<1>2. KeepsFiles
  BY <1>1 DEF KeepsFiles
<1>3. WindowsOfOne' /\ ScenesOfOne' /\ StoryOfOne'
  BY <1>1 DEF FilesOfOne, WindowsOfOne, WindowOfOne, ScenesOfOne, StoryOfOne, DialogueStands
<1>4. \A i : Scene(i)' = Scene(i) /\ Parts(i)' = Parts(i)
  BY <1>1 DEF Scene, Parts
<1>5. \A i, j : PartFile(i, j)' = PartFile(i, j) /\ PartShots(i, j)' = PartShots(i, j)
  BY <1>4 DEF PartFile, PartShots
<1>6. \A i, f : Tells(i, f)' = Tells(i, f)
  BY <1>1, <1>4, <1>5 DEF Tells, PartTells
<1>7. \A i, f, v : Said(i, f, v)' = Said(i, f, v)
  BY <1>1, <1>4 DEF Said
<1>8. NotesOfOne' /\ SayingsOfOne' /\ DescriptionOfOne'
  BY <1>1, <1>4, <1>6, <1>7 DEF FilesOfOne, NotesOfOne, NoteOfOne, SayingsOfOne, SayingOfOne,
     DescriptionOfOne
<1> QED BY <1>2, <1>3, <1>8 DEF FilesOfOne

\* The dialogue is read once, of the one subtitle.
LEMMA OneReadingNext ==
  ASSUME SettingsStay, FilesStand, RecordTypes, OneReading, [Next]_vars
  PROVE  OneReading'
<1> USE DEF At, Goes, GoesOn, GoesToPool, Keeps, process, MidWrite, OneReading, DialogueStands
<1>0. /\ DOMAIN disk = Fields /\ FileTypes /\ StageFiles /\ Reuse = TRUE
  BY DEF RecordTypes, FilesStand, SettingsStay
<1> DEFINE Dialogue == {"srt", "open dialogues", "write dialogues", "open merged", "write merged"}
<1>a. ASSUME SameTexts, stage' \notin Dialogue
      PROVE  OneReading'
  BY <1>a DEF SameTexts, Texts
<1>b. ASSUME \E how : Leaves(how)
      PROVE  OneReading'
  BY <1>b DEF Leaves
<1>1. CASE Begin
  BY <1>1 DEF Begin, BeginCached, BeginResumes, BeginAnew, BeginRefused, Enters
<1>2. CASE RequestStop \/ UNCHANGED vars
  BY <1>2 DEF RequestStop, vars
<1>3. CASE WindsUp \/ Stops \/ Breaks \/ Crash \/ Publish
  <2>1. \E how : Leaves(how)
    BY <1>3 DEF WindsUp, Stops, Breaks, Crash, Publish
  <2> QED BY <2>1, <1>b
<1>4. CASE Prepare
  <2> USE <1>0 DEF Fields, NoFiles
  <2>1. CASE OpenSpec \/ SaveSpec \/ DetectShots \/ ReuseSubtitle \/ ReadDialogue
    BY <2>1 DEF OpenSpec, SaveSpec, DetectShots, ReuseSubtitle, ReadDialogue
  <2>2. CASE Transcribe
    BY <2>2, NoneIsNoFile DEF Transcribe, Whole
  <2>3. CASE WriteSubtitle
    BY <2>3 DEF WriteSubtitle
  <2>4. CASE ReconstructDialogue
    BY <2>4 DEF ReconstructDialogue
  <2>5. CASE OpenDialogues
    BY <2>5, NoneIsNoFile DEF OpenDialogues, Whole
  <2>6. CASE WriteDialogues
    BY <2>6 DEF WriteDialogues, StageFiles, AfterSubtitle
  <2>7. CASE OpenMerged
    BY <2>7, NoneIsNoFile DEF OpenMerged, Whole
  <2>8. CASE WriteMerged
    <3>1. disk.dialogues = [srt |-> disk.srt, text |-> attempts]
      BY <2>8 DEF WriteMerged
    <3>2. disk.srt \in Nat /\ Whole(disk.srt)
      BY <2>8 DEF WriteMerged, StageFiles, AfterSubtitle, FileTypes, Whole
    <3>a. attempts \in Nat
      BY DEF FileTypes
    <3>b. [srt |-> disk.srt, text |-> attempts] \in Readings
      BY <3>2, <3>a DEF Readings
    <3>3. disk.dialogues \in Readings
      BY <3>1, <3>b, Zenon
    <3>4. Whole(disk.dialogues)
      BY <3>3, NoneIsNoFile DEF Whole
    <3> QED BY <2>8, <3>1, <3>4 DEF WriteMerged
  <2> QED BY <1>4, <2>1, <2>2, <2>3, <2>4, <2>5, <2>6, <2>7, <2>8 DEF Prepare
<1>5. CASE Segmentation
  BY <1>0, <1>5 DEF Segmentation, ResumeSegments, WriteFrames, AskForScenes, ScenesFound,
     WriteSegments, WriteScene, CutClip, ClipsReady, Fields, NoFiles
<1>6. CASE \E u \in 1..N : Thread(u)
  <2>1. PICK u \in 1..N : Thread(u)
    BY <1>6
  <2>2. ThreadWork(u) /\ stage \in PoolStages /\ stage' = stage
    BY <2>1, ThreadsDoTheirWork DEF Thread, Begins, Reuses, Asks, SaysNothing, Answers, Fails,
       SavesScene, SavesNotes, SavesSummary, Merges, ThreadStops, InPool, InThread
  <2> QED BY <2>2 DEF ThreadWork, Fields, NoFiles, PoolStages
<1>7. CASE Finish
  BY <1>0, <1>3, <1>7 DEF Finish, NotesTaken, Summarised, Describe, ReuseStory, TellStory,
     WriteStory, MakeCover, Seal, Fields, NoFiles
<1> QED BY <1>1, <1>2, <1>3, <1>4, <1>5, <1>6, <1>7 DEF Next, Advance

\* What is written before the dialogue stands is not built on yet.
LEMMA DialogueFilesKeep ==
  ASSUME SettingsStay, FilesStand, RecordTypes, OneReading, FilesOfOne,
         \/ Transcribe \/ WriteSubtitle
         \/ OpenDialogues \/ WriteDialogues \/ OpenMerged \/ WriteMerged
  PROVE  KeepsFiles /\ FilesOfOne'
<1>0. DOMAIN disk = Fields /\ Reuse = TRUE
  BY DEF RecordTypes, SettingsStay
<1>1. ~DialogueStands
  BY <1>0 DEF Transcribe, WriteSubtitle, OpenDialogues, WriteDialogues, OpenMerged, WriteMerged,
     At, OneReading, DialogueStands
<1>2. \A f \in {"windows", "segments", "notes", "says", "description", "story"} : disk'[f] = disk[f]
  BY <1>0 DEF Transcribe, WriteSubtitle, OpenDialogues, WriteDialogues, OpenMerged, WriteMerged,
     Fields, NoFiles
<1>3. KeepsFiles
  BY <1>1, <1>2 DEF KeepsFiles
<1>4. /\ disk.segments = None /\ disk.description = None /\ disk.story = None
      /\ \A w \in Windows : disk.windows[w] = None
      /\ \A i \in 1..N : disk.says[i] = None
      /\ \A i \in 1..N, j \in 0..N : disk.notes[<<i, j>>] = None
  BY <1>1 DEF FilesOfOne, WindowsOfOne, WindowOfOne, ScenesOfOne, NotesOfOne, NoteOfOne,
     SayingsOfOne, SayingOfOne, DescriptionOfOne, StoryOfOne
<1>5. FilesOfOne'
  BY <1>2, <1>4 DEF FilesOfOne, WindowsOfOne, ScenesOfOne, NotesOfOne,
     SayingsOfOne, DescriptionOfOne, StoryOfOne
<1> QED BY <1>3, <1>5

\* What stands when the scenes, the notes and the summaries are worked on.
LEMMA WorkStands ==
  ASSUME FilesStand, stage \in AfterDialogue
  PROVE  /\ DialogueStands /\ known.reading = disk.dialogues
         /\ stage \in AfterScenes =>
              /\ disk.segments # None /\ disk.segments.ends = known.ends
              /\ disk.segments \in Boundaries
BY NoneIsNoFile DEF FilesStand, StageFiles, AfterDialogue

\* A window is saved that was not there.
LEMMA SceneFilesKeep ==
  ASSUME FilesStand, RecordTypes, FilesOfOne, ScenesFollow, NEW u \in 1..N, SavesScene(u)
  PROVE  KeepsFiles /\ FilesOfOne'
<1>0. /\ DOMAIN disk = Fields /\ DOMAIN disk.windows = Windows
      /\ stage = "windows" /\ u \in Windows /\ thread[u] = "answered"
      /\ disk' = [disk EXCEPT !.windows[u] = [of |-> known.reading, end |-> answer[u]]]
      /\ FileTypes
  BY DEF RecordTypes, SavesScene, InPool, Units, FilesStand
<1>1. disk.windows[u] = None /\ answer[u] \in BOOLEAN
  BY <1>0 DEF ScenesFollow, WindowThread
<1>2. DialogueStands /\ known.reading = disk.dialogues
  BY <1>0, WorkStands DEF AfterDialogue
<1>3. /\ \A f \in Fields \ {"windows"} : disk'[f] = disk[f]
      /\ disk'.windows[u] = [of |-> known.reading, end |-> answer[u]]
      /\ \A w \in Windows \ {u} : disk'.windows[w] = disk.windows[w]
  BY <1>0 DEF Fields, NoFiles
<1>4. KeepsFiles
  BY <1>1, <1>3 DEF KeepsFiles, Fields, NoFiles
<1>5. disk.segments = None
  BY <1>0, <1>1 DEF FilesOfOne, ScenesOfOne
<1>6. disk.description = None /\ disk.story = None
  BY <1>5 DEF FilesOfOne, DescriptionOfOne, StoryOfOne
<1>7. /\ \A i \in 1..N : disk.says[i] = None
      /\ \A i \in 1..N, j \in 0..N : disk.notes[<<i, j>>] = None
  BY <1>5 DEF FilesOfOne, NotesOfOne, NoteOfOne, SayingsOfOne, SayingOfOne
<1>8. WindowsOfOne'
  <2>1. WindowOfOne(u)'
    BY <1>1, <1>2, <1>3 DEF WindowOfOne, DialogueStands, Fields, NoFiles
  <2>2. \A w \in Windows \ {u} : disk'.windows[w] # None => WindowOfOne(w)'
    BY <1>0, <1>3, <1>4, KeptFilesStand
  <2> QED BY <2>1, <2>2 DEF WindowsOfOne
<1>9. /\ disk'.segments = None /\ disk'.description = None /\ disk'.story = None
      /\ disk'.says = disk.says /\ disk'.notes = disk.notes
  BY <1>3, <1>5, <1>6 DEF Fields, NoFiles
<1> QED BY <1>4, <1>7, <1>8, <1>9 DEF FilesOfOne, ScenesOfOne, NotesOfOne, SayingsOfOne,
        DescriptionOfOne, StoryOfOne

\* The scenes that are written are those the windows tell of.
LEMMA SegmentFilesKeep ==
  ASSUME FilesStand, RecordTypes, FilesOfOne, ScenesFollow, OneLimit, WriteSegments
  PROVE  KeepsFiles /\ FilesOfOne'
<1>0. /\ DOMAIN disk = Fields /\ stage = "segments" /\ limit \in Nat \ {0} /\ FileTypes
      /\ disk' = [disk EXCEPT !.segments = [of |-> known.reading, ends |-> known.ends]]
  BY DEF RecordTypes, WriteSegments, At, FilesStand
<1>1. DialogueStands /\ known.reading = disk.dialogues /\ known.ends \subseteq Windows
  BY <1>0, WorkStands DEF AfterDialogue, RecordTypes
<1>2. /\ \A f \in Fields \ {"segments"} : disk'[f] = disk[f]
      /\ disk'.segments = [of |-> known.reading, ends |-> known.ends]
  BY <1>0 DEF Fields, NoFiles
<1>3. Size \in Nat \ {0}
  BY <1>0 DEF OneLimit
<1>4. \A w \in Windows : disk.windows[w] # None /\ disk.windows[w].end = (w \in known.ends)
  BY <1>0 DEF ScenesFollow
<1>5. ASSUME disk.segments # None
      PROVE  disk'.segments = disk.segments
  <2>1. disk.segments \in Boundaries
    BY <1>0, <1>5 DEF FileTypes
  <2>2. /\ disk.segments.of = disk.dialogues
        /\ \A w \in Windows : disk.windows[w].end = (w \in disk.segments.ends)
    BY <1>5 DEF FilesOfOne, ScenesOfOne
  <2>3. disk.segments.ends \subseteq Windows
    BY <2>1 DEF Boundaries
  <2>4. disk.segments.ends = known.ends
    BY <1>1, <1>4, <2>2, <2>3
  <2>5. disk.segments = [of |-> disk.segments.of, ends |-> disk.segments.ends]
    BY <2>1 DEF Boundaries
  <2> QED BY <1>1, <1>2, <2>2, <2>4, <2>5
<1>6. KeepsFiles
  BY <1>2, <1>5 DEF KeepsFiles, Fields, NoFiles
<1>7. CASE disk.segments # None
  <2>1. SameTexts
    BY <1>2, <1>5, <1>7 DEF SameTexts, Texts, Fields, NoFiles
  <2> QED BY <2>1, SameTextsKeep
<1>8. CASE disk.segments = None
  <2>1. disk.description = None /\ disk.story = None
    BY <1>8 DEF FilesOfOne, DescriptionOfOne, StoryOfOne
  <2>2. /\ \A i \in 1..N : disk.says[i] = None
        /\ \A i \in 1..N, j \in 0..N : disk.notes[<<i, j>>] = None
    BY <1>8 DEF FilesOfOne, NotesOfOne, NoteOfOne, SayingsOfOne, SayingOfOne
  <2>3. /\ disk'.windows = disk.windows /\ disk'.dialogues = disk.dialogues
        /\ disk'.description = None /\ disk'.story = None
        /\ disk'.says = disk.says /\ disk'.notes = disk.notes /\ disk'.merged = disk.merged
    BY <1>2, <2>1 DEF Fields, NoFiles
  <2>4. WindowsOfOne'
    BY <2>3 DEF FilesOfOne, WindowsOfOne, WindowOfOne, DialogueStands
  <2>5. ScenesOfOne'
    BY <1>1, <1>2, <1>3, <1>4, <2>3 DEF ScenesOfOne, DialogueStands
  <2> QED BY <1>6, <2>2, <2>3, <2>4, <2>5 DEF FilesOfOne, NotesOfOne, SayingsOfOne,
          DescriptionOfOne, StoryOfOne
<1> QED BY <1>7, <1>8

\* Segment u of the scenes on disk, as the threads of the later pools see it.
LEMMA UnitsAreScenes ==
  ASSUME FilesStand, RecordTypes, FilesOfOne, OneLimit, stage \in {"annotate", "summarise"},
         NEW u \in Units
  PROVE  /\ disk.segments # None /\ u \in Segments(disk.segments.ends) /\ u \in 1..N
         /\ known.reading = disk.dialogues /\ limit = Size /\ Size \in Nat \ {0}
         /\ SegmentOf(u) = Scene(u) /\ Batches(u) = Parts(u)
         /\ BatchOf(u) = Batch(Scene(u), Size, batch[u])
         /\ ShotsOf(BatchOf(u)) = PartShots(u, batch[u])
         /\ FileOf(u) = PartFile(u, batch[u])
         /\ FileTypes /\ ScenesOfOne
<1>1. /\ disk.segments # None /\ disk.segments.ends = known.ends
      /\ known.reading = disk.dialogues /\ FileTypes /\ ScenesOfOne
  BY WorkStands DEF AfterDialogue, AfterScenes, FilesStand, FilesOfOne
<1>2. u \in Segments(disk.segments.ends) /\ limit = Size
  BY <1>1 DEF Units, OneLimit
<1>3. u \in 1..N /\ Size \in Nat \ {0}
  BY <1>1, <1>2, SceneParts
<1>4. SegmentOf(u) = Scene(u)
  BY <1>1 DEF SegmentOf, Scene
<1>5. Batches(u) = Parts(u) /\ BatchOf(u) = Batch(Scene(u), Size, batch[u])
  BY <1>2, <1>4 DEF Batches, Parts, BatchOf
<1> QED BY <1>1, <1>2, <1>3, <1>4, <1>5 DEF PartShots, FileOf, PartFile

\* A batch that is looked for is found under its own key, or is not there.
LEMMA NotesHaveTheirKey ==
  ASSUME FilesStand, RecordTypes, FilesOfOne, OneLimit, stage = "annotate", NEW u \in Units
  PROVE  /\ disk.notes[<<u, 0>>] # None => disk.notes[<<u, 0>>].key = WholeKey(u)
         /\ batch[u] <= Batches(u) /\ disk.notes[FileOf(u)] # None =>
              disk.notes[FileOf(u)].key = BatchKey(u)
         /\ Parts(u) = 1 /\ batch[u] = 1 => BatchKey(u) = WholeKey(u)
<1>0. /\ disk.segments # None /\ u \in Segments(disk.segments.ends) /\ u \in 1..N
      /\ known.reading = disk.dialogues /\ limit = Size
      /\ SegmentOf(u) = Scene(u) /\ Batches(u) = Parts(u)
      /\ BatchOf(u) = Batch(Scene(u), Size, batch[u])
      /\ FileOf(u) = PartFile(u, batch[u]) /\ FileTypes /\ ScenesOfOne
  BY UnitsAreScenes
<1>1. batch[u] \in Nat \ {0} /\ NotesOfOne
  BY <1>0 DEF RecordTypes, FilesOfOne
<1>2. /\ Parts(u) \in 1..N /\ 0 \in 0..N /\ Size \in Nat \ {0}
      /\ \E a, b \in 1..N : a <= b /\ Scene(u) = <<a, b>>
  BY <1>0, SceneParts
<1>3. disk.notes[<<u, 0>>] # None => disk.notes[<<u, 0>>].key = WholeKey(u)
  BY <1>0, <1>1, <1>2 DEF NotesOfOne, NoteOfOne, WholeKey
<1>4. Parts(u) = 1 => Batch(Scene(u), Size, 1) = Scene(u)
  BY <1>2, OneBatchIsAll DEF Parts
<1>5. Parts(u) = 1 /\ batch[u] = 1 => BatchKey(u) = WholeKey(u)
  BY <1>0, <1>4 DEF BatchKey, WholeKey
<1>6. ASSUME batch[u] <= Batches(u), disk.notes[FileOf(u)] # None
      PROVE  disk.notes[FileOf(u)].key = BatchKey(u)
  <2>1. FileOf(u) = <<u, IF Parts(u) = 1 THEN 0 ELSE batch[u]>>
    BY <1>0 DEF PartFile, BatchFile
  <2>2. CASE Parts(u) = 1
    <3>1. batch[u] = 1 /\ FileOf(u) = <<u, 0>>
      BY <1>0, <1>1, <1>6, <2>1, <2>2
    <3> QED BY <1>3, <1>5, <1>6, <2>2, <3>1
  <2>3. CASE Parts(u) # 1
    <3>1. batch[u] \in 0..N /\ batch[u] # 0 /\ FileOf(u) = <<u, batch[u]>>
      BY <1>0, <1>1, <1>2, <1>6, <2>1, <2>3, AnalysisAssumption
    <3> QED BY <1>0, <1>1, <1>6, <3>1 DEF NotesOfOne, NoteOfOne, BatchKey
  <2> QED BY <2>2, <2>3
<1> QED BY <1>3, <1>5, <1>6

\* Notes are saved that were not there.
LEMMA NoteFilesKeep ==
  ASSUME SealInv, FilesOfOne, OneLimit, NotesFollow, NEW u \in 1..N, SavesNotes(u)
  PROVE  /\ KeepsFiles /\ FilesOfOne'
         /\ \A i \in (1..N) \ {u}, j \in 0..N : disk'.notes[<<i, j>>] = disk.notes[<<i, j>>]
         /\ disk'.notes[FileOf(u)] =
              [key |-> BatchKey(u), notes |-> [x \in ShotsOf(BatchOf(u)) |-> answer[u]]]
         /\ FileOf(u) = <<u, IF Parts(u) = 1 THEN 0 ELSE batch[u]>> /\ batch[u] \in 1..Parts(u)
<1>x. PICK X : X = [x \in ShotsOf(BatchOf(u)) |-> answer[u]]
  OBVIOUS
<1>0. /\ FilesStand /\ RecordTypes /\ DOMAIN disk = Fields /\ DOMAIN disk.notes = (1..N) \X (0..N)
      /\ stage = "annotate" /\ u \in Units /\ thread[u] = "answered"
      /\ disk' = [disk EXCEPT !.notes[FileOf(u)] = [key |-> BatchKey(u), notes |-> X]]
  BY <1>x DEF SealInv, FilesStand, RecordInv, RecordTypes, SavesNotes, InPool
<1>1. batch[u] <= Batches(u) /\ batch[u] \in Nat \ {0}
  BY <1>0 DEF SealInv, RecordInv, PoolRecords, PoolRecord, PoolStages, RecordTypes
<1>2. /\ disk.segments # None /\ u \in Segments(disk.segments.ends)
      /\ known.reading = disk.dialogues /\ limit = Size
      /\ SegmentOf(u) = Scene(u) /\ Batches(u) = Parts(u)
      /\ BatchOf(u) = Batch(Scene(u), Size, batch[u])
      /\ FileOf(u) = PartFile(u, batch[u]) /\ FileTypes /\ ScenesOfOne
      /\ ShotsOf(BatchOf(u)) = PartShots(u, batch[u])
  BY <1>0, UnitsAreScenes
<1>3. /\ Parts(u) \in 1..N /\ 0 \in 0..N /\ Size \in Nat \ {0}
      /\ \E a, b \in 1..N : a <= b /\ Scene(u) = <<a, b>>
  BY <1>2, SceneParts
<1>4. FileOf(u) = <<u, IF Parts(u) = 1 THEN 0 ELSE batch[u]>> /\ FileOf(u) \in (1..N) \X (0..N)
      /\ batch[u] \in 1..Parts(u)
  BY <1>1, <1>2, <1>3, AnalysisAssumption DEF PartFile, BatchFile
<1>5. disk.notes[FileOf(u)] = None
  BY <1>0, <1>2 DEF NotesFollow, NoteThread
<1>6. /\ \A f \in Fields \ {"notes"} : disk'[f] = disk[f]
      /\ disk'.notes = [disk.notes EXCEPT ![FileOf(u)] = [key |-> BatchKey(u), notes |-> X]]
  BY <1>0 DEF Fields, NoFiles
<1>7. /\ disk'.notes[FileOf(u)] = [key |-> BatchKey(u), notes |-> X]
      /\ \A f \in (1..N) \X (0..N) : f # FileOf(u) => disk'.notes[f] = disk.notes[f]
  BY <1>0, <1>4, <1>6
<1>8. KeepsFiles
  BY <1>5, <1>6, <1>7 DEF KeepsFiles, Fields, NoFiles
<1>9. \A i \in (1..N) \ {u}, j \in 0..N : disk'.notes[<<i, j>>] = disk.notes[<<i, j>>]
  <2> SUFFICES ASSUME NEW i \in (1..N) \ {u}, NEW j \in 0..N
               PROVE  disk'.notes[<<i, j>>] = disk.notes[<<i, j>>]
    OBVIOUS
  <2>1. <<i, j>> \in (1..N) \X (0..N) /\ <<i, j>> # FileOf(u)
    BY <1>4
  <2> QED BY <1>7, <2>1
<1>10. /\ \A w \in Windows : disk.windows[w] # None => WindowOfOne(w)'
       /\ ScenesOfOne' /\ disk'.segments # None
       /\ \A i \in 1..N, j \in 0..N : disk.notes[<<i, j>>] # None => NoteOfOne(i, j)'
       /\ \A i \in 1..N : disk.says[i] # None => SayingOfOne(i)'
       /\ disk.description # None => DescriptionOfOne'
  BY <1>2, <1>8, KeptFilesStand
<1>11. /\ disk'.windows = disk.windows /\ disk'.says = disk.says /\ disk'.story = disk.story
       /\ disk'.description = disk.description /\ disk'.segments = disk.segments
       /\ disk'.dialogues = disk.dialogues
  BY <1>6 DEF Fields, NoFiles
<1>12. Scene(u)' = Scene(u) /\ Parts(u)' = Parts(u)
       /\ \A j \in 1..Parts(u) : PartFile(u, j)' = PartFile(u, j) /\ PartShots(u, j)' = PartShots(u, j)
  BY <1>2, <1>8, TellsStay
<1>13. NotesOfOne'
  <2> SUFFICES ASSUME NEW i \in 1..N, NEW j \in 0..N, disk'.notes[<<i, j>>] # None
               PROVE  NoteOfOne(i, j)'
    BY DEF NotesOfOne
  <2>1. CASE <<i, j>> # FileOf(u)
    <3>1. disk'.notes[<<i, j>>] = disk.notes[<<i, j>>]
      BY <1>7, <2>1
    <3> QED BY <1>10, <3>1
  <2>2. CASE <<i, j>> = FileOf(u)
    <3>1. i = u /\ j = (IF Parts(u) = 1 THEN 0 ELSE batch[u])
      BY <1>4, <2>2
    <3>2. /\ disk'.notes[<<i, j>>] = [key |-> BatchKey(u), notes |-> X]
          /\ disk'.notes[<<i, j>>].key = BatchKey(u) /\ disk'.notes[<<i, j>>].notes = X
      BY <1>7, <2>2
    <3>3. BatchKey(u) = Fingerprint(disk.dialogues, Batch(Scene(u), Size, batch[u]), batch[u], Parts(u))
      BY <1>2 DEF BatchKey
    <3>4. CASE Parts(u) # 1
      <4>1. j = batch[u] /\ j # 0
        BY <1>1, <3>1, <3>4
      <4> QED BY <1>2, <1>11, <1>12, <3>1, <3>2, <3>3, <4>1 DEF NoteOfOne
    <3>5. CASE Parts(u) = 1
      <4>1. j = 0 /\ batch[u] = 1
        BY <1>4, <3>1, <3>5
      <4>2. Batch(Scene(u), Size, 1) = Scene(u)
        BY <1>3, <3>5, OneBatchIsAll DEF Parts
      <4>3. DOMAIN X = ShotsOf(Scene(u))
        BY <1>x, <1>2, <4>1, <4>2
      <4>4. PartTells(u, 1, X)'
        <5>1. PartFile(u, 1)' = FileOf(u)
          BY <1>2, <1>12, <3>5, <4>1
        <5>2. disk'.notes[PartFile(u, 1)'] # None /\ disk'.notes[PartFile(u, 1)'].notes = X
          BY <2>2, <3>2, <5>1
        <5> QED BY <5>2 DEF PartTells
      <4>5. Tells(u, X)'
        <5>1. \A k \in 1..Parts(u)' : k = 1
          BY <1>12, <3>5
        <5>2. \A k \in 1..Parts(u)' : PartTells(u, k, X)'
          BY <4>4, <5>1
        <5> QED BY <1>12, <4>3, <5>2 DEF Tells
      <4> QED BY <1>2, <1>11, <1>12, <3>1, <3>2, <3>3, <3>5, <4>1, <4>2, <4>5 DEF NoteOfOne
    <3> QED BY <3>4, <3>5
  <2> QED BY <2>1, <2>2
<1>14. FilesOfOne'
  BY <1>10, <1>11, <1>13 DEF FilesOfOne, WindowsOfOne, SayingsOfOne, DescriptionOfOne, StoryOfOne
<1> QED BY <1>x, <1>4, <1>7, <1>8, <1>9, <1>14

\* A thread that has had all batches knows what they tell of its segment.
LEMMA AllBatchesTell ==
  ASSUME SealInv, FilesOfOne, OneLimit, NotesFollow, NEW u \in Units,
         stage = "annotate", thread[u] # "done", batch[u] > Batches(u)
  PROVE  Tells(u, known.notes[u]) /\ known.notes[u] \in Notes
<1>0. FilesStand /\ RecordTypes /\ FileTypes /\ NoteFiles
  BY DEF SealInv, FilesStand, RecordInv
<1>1. /\ disk.segments # None /\ u \in Segments(disk.segments.ends) /\ u \in 1..N
      /\ SegmentOf(u) = Scene(u) /\ Batches(u) = Parts(u) /\ ScenesOfOne
  BY <1>0, UnitsAreScenes
<1>2. Parts(u) \in 1..N /\ batch[u] \in Nat
  BY <1>0, <1>1, SceneParts DEF RecordTypes
<1>3. \A j \in 1..Parts(u) : PartTells(u, j, known.notes[u])
  <2>1. \A j \in 1..Parts(u) : j < batch[u]
    BY <1>1, <1>2, AnalysisAssumption
  <2>2. NoteThread(u)
    BY <1>1 DEF NotesFollow
  <2> QED BY <2>1, <2>2 DEF NoteThread
<1>4. DOMAIN known.notes[u] = ShotsOf(SegmentOf(u))
  BY <1>0, ThreadShots DEF NoteFiles, TakenShots
<1> QED BY <1>0, <1>1, <1>3, <1>4 DEF Tells, FileTypes

\* The notes of a segment are merged into what its file says, if it is there.
LEMMA MergedFilesKeep ==
  ASSUME SealInv, FilesOfOne, OneLimit, NotesFollow, NEW u \in 1..N, Merges(u)
  PROVE  /\ KeepsFiles /\ FilesOfOne'
         /\ \A i \in (1..N) \ {u}, j \in 0..N : disk'.notes[<<i, j>>] = disk.notes[<<i, j>>]
<1>x. PICK f : f = known.notes[u]
  OBVIOUS
<1>0. /\ FilesStand /\ RecordTypes /\ DOMAIN disk = Fields /\ DOMAIN disk.notes = (1..N) \X (0..N)
      /\ stage = "annotate" /\ u \in Units /\ thread[u] = "looking" /\ batch[u] > Batches(u)
      /\ \/ disk' = disk
         \/ disk' = [disk EXCEPT !.notes[<<u, 0>>] = [key |-> WholeKey(u), notes |-> f]]
      /\ NoteFiles /\ FileTypes
  BY <1>x DEF SealInv, FilesStand, RecordInv, RecordTypes, Merges, InPool, AllBatches
<1>1. Tells(u, f) /\ f \in Notes
  BY <1>x, <1>0, AllBatchesTell
<1>2. /\ disk.segments # None /\ u \in Segments(disk.segments.ends) /\ u \in 1..N
      /\ known.reading = disk.dialogues /\ SegmentOf(u) = Scene(u) /\ ScenesOfOne
      /\ NotesOfOne
  BY <1>0, UnitsAreScenes DEF FilesOfOne
<1>3. <<u, 0>> \in (1..N) \X (0..N) /\ 0 \in 0..N
  BY <1>2, AnalysisAssumption
<1>4. CASE disk' = disk
  <2>1. SameTexts
    BY <1>4 DEF SameTexts
  <2> QED BY <1>4, <2>1, SameTextsKeep
<1>5. CASE disk' = [disk EXCEPT !.notes[<<u, 0>>] = [key |-> WholeKey(u), notes |-> f]]
  <2>1. /\ \A t \in Fields \ {"notes"} : disk'[t] = disk[t]
        /\ disk'.notes = [disk.notes EXCEPT ![<<u, 0>>] = [key |-> WholeKey(u), notes |-> f]]
    BY <1>0, <1>5 DEF Fields, NoFiles
  <2>2. /\ disk'.notes[<<u, 0>>] = [key |-> WholeKey(u), notes |-> f]
        /\ \A t \in (1..N) \X (0..N) : t # <<u, 0>> => disk'.notes[t] = disk.notes[t]
    BY <1>0, <1>3, <2>1
  <2>3. ASSUME disk.notes[<<u, 0>>] # None
        PROVE  disk'.notes[<<u, 0>>] = disk.notes[<<u, 0>>]
    <3> DEFINE file == disk.notes[<<u, 0>>]
    <3>1. file = [key |-> file.key, notes |-> file.notes] /\ Tells(u, file.notes)
      BY <1>2, <1>3, <2>3 DEF NotesOfOne, NoteOfOne
    <3>2. file.key = WholeKey(u)
      BY <1>0, <2>3, NotesHaveTheirKey DEF SealInv, FilesOfOne
    <3>3. file.notes \in Notes
      BY <1>0, <1>3, <2>3 DEF NoteFiles
    <3>4. file.notes = f
      BY <1>0, <1>1, <1>2, <3>1, <3>3, TellsIsOne
    <3> QED BY <2>2, <3>1, <3>2, <3>4
  <2>4. KeepsFiles
    BY <2>1, <2>2, <2>3 DEF KeepsFiles, Fields, NoFiles
  <2>5. \A i \in (1..N) \ {u}, j \in 0..N : disk'.notes[<<i, j>>] = disk.notes[<<i, j>>]
    BY <2>2
  <2>6. /\ \A w \in Windows : disk.windows[w] # None => WindowOfOne(w)'
        /\ ScenesOfOne' /\ disk'.segments # None
        /\ \A i \in 1..N, j \in 0..N : disk.notes[<<i, j>>] # None => NoteOfOne(i, j)'
        /\ \A i \in 1..N : disk.says[i] # None => SayingOfOne(i)'
        /\ disk.description # None => DescriptionOfOne'
    BY <1>0, <1>2, <2>4, KeptFilesStand
  <2>7. /\ disk'.windows = disk.windows /\ disk'.says = disk.says /\ disk'.story = disk.story
        /\ disk'.description = disk.description /\ disk'.segments = disk.segments
        /\ disk'.dialogues = disk.dialogues
    BY <2>1 DEF Fields, NoFiles
  <2>8. NoteOfOne(u, 0)'
    <3>1. Scene(u)' = Scene(u) /\ Tells(u, f)'
      BY <1>0, <1>1, <1>2, <2>4, TellsStay
    <3>2. /\ disk'.notes[<<u, 0>>].key = Fingerprint(disk.dialogues, Scene(u), 1, 1)
          /\ disk'.notes[<<u, 0>>].notes = f
      BY <1>2, <2>2 DEF WholeKey
    <3> QED BY <1>2, <2>2, <2>6, <2>7, <3>1, <3>2 DEF NoteOfOne
  <2>9. NotesOfOne'
    <3> SUFFICES ASSUME NEW i \in 1..N, NEW j \in 0..N, disk'.notes[<<i, j>>] # None
                 PROVE  NoteOfOne(i, j)'
      BY DEF NotesOfOne
    <3>1. CASE <<i, j>> = <<u, 0>>
      BY <2>8, <3>1
    <3>2. CASE <<i, j>> # <<u, 0>>
      BY <2>2, <2>6, <3>2
    <3> QED BY <3>1, <3>2
  <2> QED BY <2>4, <2>5, <2>6, <2>7, <2>9
      DEF FilesOfOne, WindowsOfOne, SayingsOfOne, DescriptionOfOne, StoryOfOne
<1> QED BY <1>0, <1>4, <1>5

\* A summary is saved that was not there, of what the files tell.
LEMMA SummaryFilesKeep ==
  ASSUME SealInv, FilesOfOne, OneLimit, NotesFollow, SayingsFollow, NEW u \in 1..N, SavesSummary(u)
  PROVE  /\ KeepsFiles /\ FilesOfOne'
         /\ disk'.says[u] = [of |-> SummaryInput(u), says |-> answer[u]]
         /\ \A i \in (1..N) \ {u} : disk'.says[i] = disk.says[i]
<1>x. PICK f, y : f = known.notes[u] /\ y = answer[u]
  OBVIOUS
<1>0. /\ FilesStand /\ RecordTypes /\ DOMAIN disk = Fields /\ DOMAIN disk.says = 1..N
      /\ stage = "summarise" /\ u \in Units /\ thread[u] = "answered"
      /\ disk' = [disk EXCEPT !.says[u] = [of |-> SummaryInput(u), says |-> y]]
      /\ FileTypes /\ f \in Notes
  BY <1>x DEF SealInv, FilesStand, FileTypes, RecordInv, RecordTypes, SavesSummary, InPool
<1>1. /\ disk.segments # None /\ u \in Segments(disk.segments.ends)
      /\ known.reading = disk.dialogues /\ SegmentOf(u) = Scene(u) /\ ScenesOfOne
  BY <1>0, UnitsAreScenes
<1>2. Tells(u, f) /\ disk.says[u] = None
  BY <1>x, <1>0, <1>1 DEF NotesFollow, SayingsFollow, SayThread, AfterNotes, AfterClips, AfterScenes
<1>3. /\ \A t \in Fields \ {"says"} : disk'[t] = disk[t]
      /\ disk'.says[u] = [of |-> SummaryInput(u), says |-> y]
      /\ \A i \in (1..N) \ {u} : disk'.says[i] = disk.says[i]
  BY <1>0 DEF Fields, NoFiles
<1>4. KeepsFiles
  BY <1>2, <1>3 DEF KeepsFiles, Fields, NoFiles
<1>5. /\ \A w \in Windows : disk.windows[w] # None => WindowOfOne(w)'
      /\ ScenesOfOne' /\ disk'.segments # None
      /\ \A i \in 1..N, j \in 0..N : disk.notes[<<i, j>>] # None => NoteOfOne(i, j)'
      /\ \A i \in 1..N : disk.says[i] # None => SayingOfOne(i)'
      /\ disk.description # None => DescriptionOfOne'
  BY <1>0, <1>1, <1>4, KeptFilesStand
<1>6. /\ disk'.windows = disk.windows /\ disk'.notes = disk.notes /\ disk'.story = disk.story
      /\ disk'.description = disk.description /\ disk'.segments = disk.segments
      /\ disk'.dialogues = disk.dialogues
  BY <1>3 DEF Fields, NoFiles
<1>7. SayingOfOne(u)'
  <2>1. Scene(u)' = Scene(u) /\ Tells(u, f)'
    BY <1>0, <1>1, <1>2, <1>4, TellsStay
  <2>2. SummaryInput(u) = [reading |-> disk.dialogues, shots |-> Scene(u), notes |-> f]
    BY <1>x, <1>1 DEF SummaryInput
  <2>3. disk'.says[u].of = [reading |-> disk.dialogues, shots |-> Scene(u), notes |-> f]
    BY <1>3, <2>2
  <2>4. disk'.says[u].of.notes = f
    BY <2>3
  <2> QED BY <1>0, <1>1, <1>5, <1>6, <2>1, <2>3, <2>4 DEF SayingOfOne
<1>8. SayingsOfOne'
  BY <1>3, <1>5, <1>7 DEF SayingsOfOne
<1>9. FilesOfOne'
  BY <1>5, <1>6, <1>8 DEF FilesOfOne, WindowsOfOne, NotesOfOne, DescriptionOfOne, StoryOfOne
<1> QED BY <1>x, <1>3, <1>4, <1>9

\* The memory is described as it was described before.
LEMMA DescriptionKeeps ==
  ASSUME SealInv, FilesOfOne, NotesFollow, SayingsFollow, Describe
  PROVE  KeepsFiles /\ FilesOfOne'
<1>x. PICK D : D = Description
  OBVIOUS
<1>0. /\ FilesStand /\ DOMAIN disk = Fields /\ stage = "describe"
      /\ disk' = [disk EXCEPT !.description = D]
      /\ FileTypes /\ ScenesOfOne /\ DescriptionOfOne
  BY <1>x DEF SealInv, FilesStand, FileTypes, RecordTypes, Describe, At, FilesOfOne
<1>1. /\ disk.segments # None /\ disk.segments.ends = known.ends /\ known.reading = disk.dialogues
  BY <1>0, WorkStands DEF AfterDialogue, AfterScenes
<1> DEFINE S == Segments(disk.segments.ends)
<1>2. \A i \in S : Tells(i, known.notes[i]) /\ Said(i, known.notes[i], known.says[i])
  BY <1>0 DEF NotesFollow, SayingsFollow, AfterSayings, AfterNotes, AfterClips, AfterScenes
<1>3. D = [of |-> disk.dialogues, ends |-> disk.segments.ends,
           notes |-> [i \in S |-> known.notes[i]], says |-> [i \in S |-> known.says[i]]]
  BY <1>x, <1>1 DEF Description
<1>4. /\ D.of = disk.dialogues /\ D.ends = disk.segments.ends
      /\ DOMAIN D.notes = S /\ DOMAIN D.says = S
      /\ \A i \in S : D.notes[i] = known.notes[i] /\ D.says[i] = known.says[i]
      /\ \A i \in S : Tells(i, D.notes[i]) /\ Said(i, D.notes[i], D.says[i])
      /\ D.notes = [i \in S |-> D.notes[i]] /\ D.says = [i \in S |-> D.says[i]]
  BY <1>2, <1>3
<1>5. /\ \A t \in Fields \ {"description"} : disk'[t] = disk[t]
      /\ disk'.description = D
  BY <1>0 DEF Fields, NoFiles
<1> HIDE DEF S
<1>s. S \subseteq 1..N /\ S = Segments(disk.segments.ends)
  BY <1>0, <1>1, SceneParts DEF S
<1>6. ASSUME disk.description # None
      PROVE  D = disk.description
  <2> DEFINE E == disk.description
  <2>1. /\ E \in Descriptions
        /\ E.of = disk.dialogues /\ E.ends = disk.segments.ends
        /\ DOMAIN E.notes = S /\ DOMAIN E.says = S
        /\ \A i \in S : Tells(i, E.notes[i]) /\ Said(i, E.notes[i], E.says[i])
    BY <1>0, <1>6 DEF DescriptionOfOne, FileTypes, S
  <2>2. PICK T, U \in SUBSET (1..N) : E.notes \in [T -> Notes] /\ E.says \in [U -> Sayings]
    BY <2>1 DEF Descriptions
  <2>3. E.notes \in [S -> Notes] /\ E.says \in [S -> Sayings]
    BY <2>1, <2>2
  <2>4. ASSUME NEW i \in S
        PROVE  D.notes[i] = E.notes[i] /\ D.says[i] = E.says[i]
    <3>1. known.notes[i] \in Notes /\ E.notes[i] \in Notes
      BY <1>0, <1>s, <2>3 DEF FileTypes
    <3>2. D.notes[i] = E.notes[i]
      BY <1>0, <1>1, <1>4, <1>s, <2>1, <3>1, TellsIsOne
    <3> QED BY <1>4, <2>1, <3>2 DEF Said
  <2>5. D.notes = E.notes /\ D.says = E.says
    <3>1. E.notes = [i \in S |-> E.notes[i]] /\ E.says = [i \in S |-> E.says[i]]
      BY <2>3
    <3> HIDE DEF E
    <3>2. [i \in S |-> E.notes[i]] = [i \in S |-> D.notes[i]]
      BY <2>4
    <3>3. [i \in S |-> E.says[i]] = [i \in S |-> D.says[i]]
      BY <2>4
    <3> QED BY <1>4, <3>1, <3>2, <3>3
  <2>6. E = [of |-> E.of, ends |-> E.ends, notes |-> E.notes, says |-> E.says]
    BY <2>1 DEF Descriptions
  <2> HIDE DEF E
  <2>7. D = [of |-> D.of, ends |-> D.ends, notes |-> D.notes, says |-> D.says]
    BY <1>3
  <2> QED BY <1>4, <2>1, <2>5, <2>6, <2>7 DEF E
<1>7. KeepsFiles
  BY <1>5, <1>6 DEF KeepsFiles, Fields, NoFiles
<1>8. /\ \A w \in Windows : disk.windows[w] # None => WindowOfOne(w)'
      /\ ScenesOfOne' /\ disk'.segments # None
      /\ \A i \in 1..N, j \in 0..N : disk.notes[<<i, j>>] # None => NoteOfOne(i, j)'
      /\ \A i \in 1..N : disk.says[i] # None => SayingOfOne(i)'
  BY <1>0, <1>1, <1>7, KeptFilesStand
<1>9. /\ disk'.windows = disk.windows /\ disk'.says = disk.says /\ disk'.story = disk.story
      /\ disk'.notes = disk.notes /\ disk'.segments = disk.segments
      /\ disk'.dialogues = disk.dialogues
  BY <1>5 DEF Fields, NoFiles
<1>10. \A i \in S : Tells(i, D.notes[i])' /\ Said(i, D.notes[i], D.says[i])'
  BY <1>0, <1>1, <1>4, <1>7, <1>s, TellsStay
<1>11. DescriptionOfOne'
  <2>1. S = Segments(disk'.segments.ends)
    BY <1>s, <1>9
  <2> QED BY <1>4, <1>5, <1>8, <1>9, <1>10, <2>1 DEF DescriptionOfOne
<1>12. StoryOfOne'
  BY <1>5, <1>6, <1>9 DEF FilesOfOne, StoryOfOne
<1> QED BY <1>7, <1>8, <1>9, <1>11, <1>12 DEF FilesOfOne, WindowsOfOne, NotesOfOne, SayingsOfOne

\* The story is told of the description.
LEMMA StoryKeeps ==
  ASSUME FilesStand, FilesOfOne, WriteStory
  PROVE  KeepsFiles /\ FilesOfOne'
<1>0. /\ DOMAIN disk = Fields /\ disk.description # None
      /\ disk' = [disk EXCEPT !.story =
                    [of |-> disk.description, count |-> SegmentCount(known.ends)]]
  BY NoneIsNoFile DEF FilesStand, FileTypes, RecordTypes, StageFiles, AfterDescription, WriteStory, At
<1>1. /\ disk'.story = [of |-> disk.description, count |-> SegmentCount(known.ends)]
      /\ \A t \in Fields \ {"story"} : disk'[t] = disk[t]
  BY <1>0 DEF Fields, NoFiles
<1>2. KeepsFiles
  BY <1>1 DEF KeepsFiles, Fields, NoFiles
<1>3. /\ \A w \in Windows : disk.windows[w] # None => WindowOfOne(w)'
      /\ ScenesOfOne'
      /\ \A i \in 1..N, j \in 0..N : disk.notes[<<i, j>>] # None => NoteOfOne(i, j)'
      /\ \A i \in 1..N : disk.says[i] # None => SayingOfOne(i)'
      /\ DescriptionOfOne'
  <2>1. disk.segments # None
    BY <1>0 DEF FilesOfOne, DescriptionOfOne
  <2>2. FileTypes
    BY DEF FilesStand
  <2> QED BY <1>0, <1>2, <2>1, <2>2, KeptFilesStand
<1>4. /\ disk'.windows = disk.windows /\ disk'.says = disk.says
      /\ disk'.notes = disk.notes /\ disk'.description = disk.description
  BY <1>1 DEF Fields, NoFiles
<1>5. StoryOfOne'
  <2>1. disk'.story.of = disk.description
    BY <1>1
  <2> QED BY <1>0, <1>4, <2>1 DEF StoryOfOne
<1> QED BY <1>2, <1>3, <1>4, <1>5 DEF FilesOfOne, WindowsOfOne, NotesOfOne, SayingsOfOne

\* No step replaces a file of the analysis, and what it writes is of it.
LEMMA FilesOfOneNext ==
  ASSUME SettingsStay, OneInv, [Next]_vars
  PROVE  KeepsFiles /\ FilesOfOne'
<1>0. /\ SealInv /\ FilesStand /\ RecordTypes /\ OneReading /\ FilesOfOne
      /\ OneLimit /\ ScenesFollow /\ NotesFollow /\ SayingsFollow
  BY DEF OneInv, WorkOfOne, SealInv, FilesStand, RecordInv
<1>1. CASE SameTexts
  BY <1>0, <1>1, SameTextsKeep
<1>2. CASE \/ Transcribe \/ WriteSubtitle
           \/ OpenDialogues \/ WriteDialogues \/ OpenMerged \/ WriteMerged
  BY <1>0, <1>2, DialogueFilesKeep
<1>3. CASE WriteSegments
  BY <1>0, <1>3, SegmentFilesKeep
<1>4. CASE Describe
  BY <1>0, <1>4, DescriptionKeeps
<1>5. CASE WriteStory
  BY <1>0, <1>5, StoryKeeps
<1>6. CASE \E u \in 1..N : SavesScene(u) \/ SavesNotes(u) \/ Merges(u) \/ SavesSummary(u)
  BY <1>0, <1>6, SceneFilesKeep, NoteFilesKeep, MergedFilesKeep, SummaryFilesKeep
<1> QED BY <1>0, <1>1, <1>2, <1>3, <1>4, <1>5, <1>6, TextSteps

\* Every attempt has the one limit.
LEMMA OneLimitNext ==
  ASSUME SettingsStay, RecordTypes, OneLimit, [Next]_vars
  PROVE  OneLimit'
<1> USE DEF OneLimit
<1>1. CASE Begin
  <2>1. \A l \in Limits : l = Size
    BY DEF SettingsStay, Size
  <2> QED BY <1>1, <2>1 DEF Begin, BeginCached, BeginResumes, BeginAnew, BeginRefused, Enters, process
<1>2. CASE RequestStop \/ UNCHANGED vars
  BY <1>2 DEF RequestStop, vars, process
<1>3. CASE WindsUp \/ Stops \/ Breaks \/ Crash \/ Publish
  BY <1>3 DEF WindsUp, Stops, Breaks, Crash, Publish, Leaves
<1> USE DEF At, Goes, GoesOn, GoesToPool, Keeps, process, InThread
<1>4. CASE Prepare
  BY <1>4 DEF Prepare, OpenSpec, SaveSpec, DetectShots, ReuseSubtitle, Transcribe, WriteSubtitle,
     ReadDialogue, ReconstructDialogue, OpenDialogues, WriteDialogues, OpenMerged, WriteMerged
<1>5. CASE Segmentation
  BY <1>5 DEF Segmentation, ResumeSegments, WriteFrames, AskForScenes, ScenesFound,
     WriteSegments, WriteScene, CutClip, ClipsReady
<1>6. CASE \E u \in 1..N : Thread(u)
  BY <1>6 DEF Thread, Begins, Reuses, Asks, SaysNothing, Answers, Fails, SavesScene, SavesNotes,
     SavesSummary, Merges, ThreadStops, InPool, PoolStages
<1>7. CASE Finish
  BY <1>3, <1>7 DEF Finish, NotesTaken, Summarised, Describe, ReuseStory, TellStory, WriteStory,
     MakeCover, Seal
<1> QED BY <1>1, <1>2, <1>3, <1>4, <1>5, <1>6, <1>7 DEF Next, Advance

\* A window that is done is in its file, and asked for when it has none.
LEMMA WindowThreadsFollow ==
  ASSUME FilesStand, RecordTypes, FilesOfOne, ScenesFollow, KeepsFiles, stage = "windows",
         NEW u \in 1..N, Thread(u)
  PROVE  \A w \in Windows : WindowThread(w)'
<1>0. /\ DOMAIN thread = 1..N /\ DOMAIN answer = 1..N /\ DOMAIN known = DOMAIN Blank
      /\ DOMAIN disk = Fields /\ DOMAIN disk.windows = Windows /\ Windows \subseteq 1..N
      /\ known.ends \subseteq Windows /\ stage # "annotate" /\ stage # "summarise"
  BY AnalysisAssumption DEF RecordTypes, FilesStand, FileTypes, Windows
<1>1. \A w \in Windows : WindowThread(w)
  BY DEF ScenesFollow
<1>2. DialogueStands /\ known.reading = disk.dialogues
  BY WorkStands DEF AfterDialogue
<1>3. \A w \in Windows : disk.windows[w] # None => disk.windows[w].of = known.reading /\ disk.windows[w].end \in BOOLEAN
  BY <1>2 DEF FilesOfOne, WindowsOfOne, WindowOfOne
<1>a. ASSUME NEW ph, u \in Windows, thread' = [thread EXCEPT ![u] = ph], known' = known,
             \A w \in Windows \ {u} : answer'[w] = answer[w],
             disk' = disk, thread[u] # "done", ph # "done",
             ph \in {"asking", "answered"} => disk.windows[u] = None,
             ph = "answered" => answer'[u] \in BOOLEAN
      PROVE  \A w \in Windows : WindowThread(w)'
  BY <1>0, <1>1, <1>a DEF WindowThread
<1>b. ASSUME NEW X \in BOOLEAN, u \in Windows, thread' = [thread EXCEPT ![u] = "done"],
             known' = [known EXCEPT !.ends = IF X THEN @ \cup {u} ELSE @],
             answer' = answer, thread[u] # "done",
             disk'.windows[u] # None /\ disk'.windows[u].end = X,
             \A w \in Windows \ {u} : disk'.windows[w] = disk.windows[w]
      PROVE  \A w \in Windows : WindowThread(w)'
  <2>1. known'.ends = IF X THEN known.ends \cup {u} ELSE known.ends
    BY <1>0, <1>b DEF Blank
  <2>2. u \notin known.ends
    BY <1>1, <1>b DEF WindowThread
  <2>3. WindowThread(u)'
    BY <1>0, <1>b, <2>1, <2>2 DEF WindowThread
  <2>4. \A w \in Windows \ {u} : WindowThread(w)'
    BY <1>0, <1>1, <1>b, <2>1 DEF WindowThread
  <2> QED BY <2>3, <2>4
<1>4. u \in Windows
  BY DEF Thread, Begins, Reuses, Asks, SaysNothing, Answers, Fails, SavesScene, SavesNotes,
     SavesSummary, Merges, ThreadStops, InPool, Units
<1>5. CASE Begins(u)
  BY <1>0, <1>4, <1>5, <1>a DEF Begins, Becomes, MayStart
<1>6. CASE Asks(u)
  <2>1. ~WindowStands(u, known.reading)
    BY <1>6 DEF Asks, StandsFor
  <2>2. disk.windows[u] = None
    BY <1>3, <1>4, <2>1 DEF WindowStands
  <2> QED BY <1>0, <1>4, <1>6, <1>a, <2>2 DEF Asks, Becomes
<1>7. CASE Answers(u)
  <2>1. PICK y \in BOOLEAN : answer' = [answer EXCEPT ![u] = y]
    BY <1>7 DEF Answers, Accepts
  <2>2. disk.windows[u] = None /\ thread[u] = "asking"
    BY <1>1, <1>4, <1>7 DEF Answers, WindowThread
  <2>3. thread' = [thread EXCEPT ![u] = "answered"] /\ known' = known /\ disk' = disk
    BY <1>7 DEF Answers, Becomes
  <2>4. answer'[u] = y /\ \A w \in Windows \ {u} : answer'[w] = answer[w]
    BY <1>0, <2>1
  <2> QED BY <1>4, <1>a, <2>2, <2>3, <2>4
<1>8. CASE Fails(u) \/ ThreadStops(u)
  BY <1>0, <1>4, <1>8, <1>a DEF Fails, ThreadStops, Becomes, MayStart
<1>9. CASE SaysNothing(u) \/ SavesNotes(u) \/ SavesSummary(u) \/ Merges(u)
  BY <1>0, <1>9 DEF SaysNothing, Mute, SavesNotes, SavesSummary, Merges, AllBatches
<1>10. CASE Reuses(u)
  <2>1. disk.windows[u] # None
    BY <1>10 DEF Reuses, StandsFor, WindowStands
  <2>2. PICK X \in BOOLEAN : X = disk.windows[u].end
    BY <1>3, <1>4, <2>1
  <2>3. Takes(u, X) /\ thread[u] = "looking" /\ disk' = disk /\ answer' = answer
    BY <1>10, <2>2 DEF Reuses, ValueOf
  <2>4. /\ thread' = [thread EXCEPT ![u] = "done"]
        /\ known' = [known EXCEPT !.ends = IF X THEN @ \cup {u} ELSE @]
    BY <2>3 DEF Takes, Becomes
  <2> QED BY <1>4, <1>b, <2>1, <2>2, <2>3, <2>4
<1>11. CASE SavesScene(u)
  <2>1. answer[u] \in BOOLEAN /\ thread[u] = "answered"
    BY <1>1, <1>4, <1>11 DEF SavesScene, WindowThread
  <2>2. PICK X \in BOOLEAN : X = answer[u]
    BY <2>1
  <2>3. Takes(u, X) /\ answer' = answer
    BY <1>11, <2>2 DEF SavesScene
  <2>4. /\ thread' = [thread EXCEPT ![u] = "done"]
        /\ known' = [known EXCEPT !.ends = IF X THEN @ \cup {u} ELSE @]
    BY <2>3 DEF Takes, Becomes
  <2>5. PICK r : r = known.reading
    OBVIOUS
  <2>6. disk' = [disk EXCEPT !.windows[u] = [of |-> r, end |-> X]]
    BY <1>11, <2>2, <2>5 DEF SavesScene
  <2>7. disk'.windows = [disk.windows EXCEPT ![u] = [of |-> r, end |-> X]]
    BY <1>0, <2>6 DEF Fields, NoFiles
  <2>8. disk'.windows[u] = [of |-> r, end |-> X] /\ \A w \in Windows \ {u} : disk'.windows[w] = disk.windows[w]
    BY <1>0, <1>4, <2>7
  <2>9. disk'.windows[u].end = X
    BY <2>8
  <2>10. disk'.windows[u] # None
    <3>1. r \in Readings
      BY <1>2, <2>5 DEF FilesStand, FileTypes, DialogueStands, Whole
    <3>2. [of |-> r, end |-> X] \in Decisions
      BY <3>1 DEF Decisions
    <3> QED BY <2>8, <3>2, NoFileAssumption
  <2> QED BY <1>4, <1>b, <2>1, <2>3, <2>4, <2>8, <2>9, <2>10
<1> QED BY <1>5, <1>6, <1>7, <1>8, <1>9, <1>10, <1>11, Thread(u) DEF Thread

\* The scenes are known from the windows, and nothing is known of them before.
LEMMA ScenesFollowNext ==
  ASSUME FilesStand, RecordTypes, FilesOfOne, ScenesFollow, KeepsFiles, [Next]_vars
  PROVE  ScenesFollow'
<1> DEFINE Known == {"windows", "segments", "write scene", "publish"} \cup AfterScenes
<1> USE DEF At, Goes, GoesOn, GoesToPool, Keeps, process
<1>0. DOMAIN known = DOMAIN Blank /\ DOMAIN disk = Fields
  BY DEF RecordTypes
<1>a. ASSUME stage' \notin {"windows", "segments"},
             stage' \in Known \/ known'.ends = {}
      PROVE  ScenesFollow'
  BY <1>a DEF ScenesFollow
<1>b. ASSUME stage \notin Known, stage' \notin {"windows", "segments"}, known'.ends = known.ends
      PROVE  ScenesFollow'
  BY <1>a, <1>b DEF ScenesFollow
<1> USE DEF AfterScenes
<1>1. CASE Begin
  <2>1. CASE \E s \in Signatures : BeginRefused(s)
    BY <1>b, <2>1 DEF BeginRefused
  <2>2. CASE \E first \in {"spec", "shots", "publish"}, s \in Signatures, l \in Limits : Enters(first, s, l)
    BY <1>b, <2>2 DEF Enters
  <2> QED BY <1>1, <2>1, <2>2 DEF Begin, BeginCached, BeginResumes, BeginAnew
<1>2. CASE RequestStop \/ UNCHANGED vars
  <2>1. disk' = disk /\ stage' = stage /\ known' = known /\ thread' = thread /\ answer' = answer
    BY <1>2 DEF RequestStop, vars
  <2> QED BY <2>1 DEF ScenesFollow, WindowThread
<1>3. CASE WindsUp \/ Stops \/ Breaks \/ Crash \/ Publish
  <2>1. \E how : Leaves(how)
    BY <1>3 DEF WindsUp, Stops, Breaks, Crash, Publish
  <2>2. stage' = "off" /\ known' = Blank
    BY <2>1 DEF Leaves
  <2>3. known'.ends = {}
    BY <2>2 DEF Blank
  <2> QED BY <1>a, <2>2, <2>3
<1>4. CASE Prepare
  <2>1. known'.ends = known.ends
    BY <1>0, <1>4 DEF Prepare, OpenSpec, SaveSpec, DetectShots, ReuseSubtitle, Transcribe, WriteSubtitle,
       ReadDialogue, ReconstructDialogue, OpenDialogues, WriteDialogues, OpenMerged, WriteMerged, Blank
  <2>2. stage \notin Known /\ stage' \notin Known
    BY <1>4 DEF Prepare, OpenSpec, SaveSpec, DetectShots, ReuseSubtitle, Transcribe, WriteSubtitle,
       ReadDialogue, ReconstructDialogue, OpenDialogues, WriteDialogues, OpenMerged, WriteMerged
  <2> QED BY <1>b, <2>1, <2>2
<1>5. CASE Segmentation
  <2>1. CASE ResumeSegments \/ WriteSegments \/ WriteScene \/ ClipsReady \/ \E i \in 1..N : CutClip(i)
    BY <1>a, <2>1 DEF ResumeSegments, WriteSegments, WriteScene, ClipsReady, CutClip
  <2>2. CASE WriteFrames
    BY <1>b, <2>2 DEF WriteFrames
  <2>3. CASE AskForScenes
    <3>1. stage' = "windows" /\ thread' = AllWaiting /\ known' = known /\ known.ends = {}
      BY <2>3 DEF AskForScenes, ScenesFollow
    <3>2. \A u \in Windows : thread'[u] = "waiting"
      BY <3>1, AnalysisAssumption DEF AllWaiting, Windows
    <3> QED BY <3>1, <3>2 DEF ScenesFollow, WindowThread
  <2>4. CASE ScenesFound
    <3>1. /\ \A u \in Windows : thread[u] = "done" /\ WindowThread(u)
          /\ stage' = "segments" /\ disk' = disk /\ known' = known
      BY <2>4 DEF ScenesFound, ScenesFollow, AllDone, Units
    <3> QED BY <3>1 DEF ScenesFollow, WindowThread
  <2> QED BY <1>5, <2>1, <2>2, <2>3, <2>4 DEF Segmentation
<1>6. CASE \E u \in 1..N : Thread(u)
  <2> SUFFICES ASSUME NEW u \in 1..N, Thread(u) PROVE ScenesFollow'
    BY <1>6
  <2>1. stage \in PoolStages /\ stage' = stage
    BY DEF Thread, Begins, Reuses, Asks, SaysNothing, Answers, Fails, SavesScene, SavesNotes,
       SavesSummary, Merges, ThreadStops, InPool, InThread
  <2>2. CASE stage = "windows"
    <3>1. \A w \in Windows : WindowThread(w)'
      BY <2>2, WindowThreadsFollow
    <3> QED BY <2>1, <2>2, <3>1 DEF ScenesFollow
  <2>3. CASE stage # "windows"
    BY <1>a, <2>1, <2>3 DEF PoolStages
  <2> QED BY <2>2, <2>3
<1>7. CASE Finish
  BY <1>3, <1>7, <1>a DEF Finish, NotesTaken, Summarised, Describe, ReuseStory, TellStory, WriteStory,
     MakeCover, Seal
<1> QED BY <1>1, <1>2, <1>3, <1>4, <1>5, <1>6, <1>7 DEF Next, Advance

\* What the thread of one segment does leaves the threads of the others.
LEMMA OtherNoteThreads ==
  ASSUME FileTypes, ScenesOfOne, KeepsFiles, disk.segments # None,
         NEW u \in Segments(disk.segments.ends),
         thread'[u] = thread[u], batch'[u] = batch[u], known'.notes[u] = known.notes[u],
         limit' = limit, known'.ends = known.ends,
         \A j \in 0..N : disk'.notes[<<u, j>>] = disk.notes[<<u, j>>],
         FileOf(u) \in {<<u, j>> : j \in 0..N} \/ thread[u] \notin {"asking", "answered"},
         NoteThread(u)
  PROVE  NoteThread(u)'
<1>1. /\ Parts(u)' = Parts(u)
      /\ \A j \in 1..Parts(u) : \A f : PartTells(u, j, f) => PartTells(u, j, f)'
      /\ \A f : Tells(u, f) => Tells(u, f)'
  BY TellsStay
<1>2. FileOf(u)' = FileOf(u)
  BY DEF FileOf, BatchFile, Batches, SegmentOf
<1>3. 0 \in 0..N
  BY AnalysisAssumption
<1> QED BY <1>1, <1>2, <1>3 DEF NoteThread

\* The notes of a batch are a file, and no other.
LEMMA BatchesAreRanges ==
  ASSUME NEW a \in 1..N, NEW b \in 1..N, NEW size \in Nat \ {0}, NEW j \in Nat \ {0}
  PROVE  Batch(<<a, b>>, size, j) \in Nat \X Nat
<1> DEFINE p == (j - 1) * size
<1>0. N \in Nat /\ a \in Int /\ b \in Int /\ a >= 1 /\ b >= 1
  BY AnalysisAssumption
<1>1. p \in Nat /\ j * size = p + size
  BY SMT
<1>2. Batch(<<a, b>>, size, j)
        = <<a + p, IF a + (p + size) - 1 < b THEN a + (p + size) - 1 ELSE b>>
  BY <1>1 DEF Batch
<1> HIDE DEF p
<1> QED BY <1>0, <1>1, <1>2

\* The thread of a segment knows what the files tell of the batches it has had.
LEMMA NoteThreadFollows ==
  ASSUME SealInv, FilesOfOne, OneLimit, NotesFollow, KeepsFiles, stage = "annotate",
         NEW u \in 1..N, Thread(u)
  PROVE  NoteThread(u)' /\ \A v \in Segments(disk.segments.ends) \ {u} : NoteThread(v)'
<1> DEFINE S == Segments(disk.segments.ends)
<1>0. /\ FilesStand /\ RecordTypes /\ FileTypes /\ NoteFiles /\ FilesOfOne
      /\ DOMAIN thread = 1..N /\ batch \in [1..N -> Nat \ {0}] /\ DOMAIN known = DOMAIN Blank
      /\ known.notes \in [1..N -> Notes] /\ DOMAIN disk = Fields
      /\ DOMAIN disk.notes = (1..N) \X (0..N)
  BY DEF SealInv, FilesStand, FileTypes, RecordInv, RecordTypes
<1>f. ThreadFrame(u) /\ ThreadWork(u)
  BY <1>0, ThreadsKeepTheFrame, ThreadsDoTheirWork DEF SealInv
<1>1. /\ u \in Units /\ u \in S /\ disk.segments # None
      /\ known.reading = disk.dialogues /\ limit = Size /\ Size \in Nat \ {0}
      /\ SegmentOf(u) = Scene(u) /\ Batches(u) = Parts(u)
      /\ ShotsOf(BatchOf(u)) = PartShots(u, batch[u])
      /\ BatchOf(u) = Batch(Scene(u), Size, batch[u])
      /\ FileOf(u) = PartFile(u, batch[u]) /\ ScenesOfOne /\ NotesOfOne
  BY <1>0, <1>f, UnitsAreScenes DEF ThreadFrame, FilesOfOne
<1>2. /\ Parts(u) \in 1..N /\ 0 \in 0..N /\ batch[u] \in Nat \ {0} /\ u \in 1..N
      /\ \A j \in 1..Parts(u) : PartFile(u, j) = <<u, IF Parts(u) = 1 THEN 0 ELSE j>>
      /\ \A j \in 1..Parts(u) : PartFile(u, j) \in (1..N) \X (0..N)
  BY <1>0, <1>1, SceneParts
<1>3. NoteThread(u)
  BY <1>1 DEF NotesFollow
<1>4. /\ limit' = limit /\ known'.ends = known.ends /\ known'.reading = known.reading
      /\ disk'.segments = disk.segments
      /\ Scene(u)' = Scene(u) /\ Parts(u)' = Parts(u)
      /\ \A j \in 1..Parts(u) :
           /\ PartFile(u, j)' = PartFile(u, j) /\ PartShots(u, j)' = PartShots(u, j)
           /\ \A f : PartTells(u, j, f) => PartTells(u, j, f)'
      /\ \A f : Tells(u, f) => Tells(u, f)'
  BY <1>0, <1>1, <1>f, TellsStay DEF ThreadFrame, ThreadWork
<1>a. ASSUME NEW ph, thread' = [thread EXCEPT ![u] = ph], known' = known, batch' = batch,
             disk' = disk, thread[u] # "done", ph # "done",
             ph \in {"asking", "answered"} => disk.notes[FileOf(u)] = None,
             ph \in {"looking", "asking", "answered"} /\ Parts(u) # 1 => disk.notes[<<u, 0>>] = None
      PROVE  NoteThread(u)'
  <2>1. FileOf(u)' = FileOf(u)
    BY <1>4, <1>a DEF FileOf, BatchFile, Batches, SegmentOf
  <2> QED BY <1>0, <1>1, <1>3, <1>4, <1>a, <2>1 DEF NoteThread
<1>b. ASSUME NEW Y, thread' = [thread EXCEPT ![u] = "done"], known'.notes[u] = Y, Tells(u, Y)'
      PROVE  NoteThread(u)'
  BY <1>0, <1>b DEF NoteThread
<1>c. ASSUME NEW X, batch[u] \in 1..Parts(u), Takes(u, X), DOMAIN X = PartShots(u, batch[u]),
             thread[u] \in {"looking", "answered"},
             disk'.notes[PartFile(u, batch[u])] # None,
             disk'.notes[PartFile(u, batch[u])].notes = X,
             Parts(u) # 1 => disk'.notes[<<u, 0>>] = None
      PROVE  NoteThread(u)'
  <2>x. PICK f, b, g : f = known.notes[u] /\ b = batch[u] /\ g = Together(f, X)
    OBVIOUS
  <2>1. /\ thread' = [thread EXCEPT ![u] = "looking"] /\ batch' = [batch EXCEPT ![u] = @ + 1]
        /\ known' = [known EXCEPT !.notes[u] = Together(known.notes[u], X)]
    BY <1>c DEF Takes, Becomes
  <2>2. thread'[u] = "looking" /\ batch'[u] = b + 1
    BY <1>0, <2>1, <2>x
  <2>3. known'.notes[u] = g
    <3>1. known'.notes = [known.notes EXCEPT ![u] = g]
      BY <1>0, <2>1, <2>x DEF Blank
    <3> QED BY <1>0, <3>1
  <2>4. DOMAIN f = {x \in ShotsOf(Scene(u)) : x < Scene(u)[1] + (b - 1) * Size}
    BY <1>0, <1>1, <1>c, <2>x DEF NoteFiles, TakenShots
  <2>5. PICK l \in 1..N, r \in 1..N : l <= r /\ Scene(u) = <<l, r>>
    BY <1>0, <1>1, SceneParts
  <2>6. ASSUME NEW j \in 1..Parts(u), j < b + 1
        PROVE  PartTells(u, j, g)'
    <3>0. j \in Nat \ {0} /\ b \in Nat \ {0} /\ Scene(u)[1] = l
      BY <1>2, <2>5, <2>x, AnalysisAssumption
    <3>1. \A x \in PartShots(u, j) :
            /\ x \in ShotsOf(Scene(u))
            /\ j < b => x < l + (b - 1) * Size
            /\ j = b => ~(x < l + (b - 1) * Size)
      BY <1>1, <2>5, <3>0, BatchesComeInOrder DEF PartShots
    <3>2. CASE j < b
      <4>1. PartTells(u, j, f)'
        BY <1>3, <1>4, <1>c, <2>x, <3>2 DEF NoteThread
      <4>2. \A x \in PartShots(u, j) : x \in DOMAIN f
        BY <2>4, <3>0, <3>1, <3>2
      <4>3. \A x \in PartShots(u, j) : g[x] = f[x]
        BY <2>x, <4>2 DEF Together
      <4> QED BY <1>4, <4>1, <4>3 DEF PartTells
    <3>3. CASE j = b
      <4>1. \A x \in PartShots(u, j) : x \notin DOMAIN f /\ x \in DOMAIN X
        BY <1>c, <2>4, <2>x, <3>0, <3>1, <3>3
      <4>2. \A x \in PartShots(u, j) : g[x] = X[x]
        BY <2>x, <4>1 DEF Together
      <4>3. /\ PartFile(u, j)' = PartFile(u, batch[u]) /\ PartShots(u, j)' = PartShots(u, j)
            /\ disk'.notes[PartFile(u, j)'] # None /\ disk'.notes[PartFile(u, j)'].notes = X
        BY <1>4, <1>c, <2>x, <3>3
      <4> QED BY <4>2, <4>3 DEF PartTells
    <3> QED BY <2>6, <3>0, <3>2, <3>3
  <2>7. \A j \in 1..Parts(u)' : j < b + 1 => PartTells(u, j, g)'
    BY <1>4, <2>6
  <2> QED BY <1>4, <2>2, <2>3, <2>7, <1>c DEF NoteThread
<1>5. \/ disk' = disk
      \/ \E i \in (1..N) : i = u /\ (SavesNotes(u) \/ Merges(u))
  BY DEF Thread, Begins, Reuses, Asks, SaysNothing, Answers, Fails, ThreadStops, SavesScene, SavesSummary
<1>6. \A i \in (1..N) \ {u}, j \in 0..N : disk'.notes[<<i, j>>] = disk.notes[<<i, j>>]
  BY <1>5, NoteFilesKeep, MergedFilesKeep
<1>7. \A v \in S \ {u} : NoteThread(v)'
  <2> SUFFICES ASSUME NEW v \in S, v # u PROVE NoteThread(v)'
    OBVIOUS
  <2>1. v \in Units /\ v \in 1..N
    <3>1. disk.segments.ends = known.ends
      BY <1>0, WorkStands DEF AfterDialogue, AfterScenes
    <3> QED BY <1>0, <1>1, <3>1, SceneParts DEF Units
  <2>2. FileOf(v) \in {<<v, j>> : j \in 0..N} \/ thread[v] \notin {"asking", "answered"}
    <3> SUFFICES ASSUME thread[v] \in {"asking", "answered"}
                 PROVE  FileOf(v) \in {<<v, j>> : j \in 0..N}
      OBVIOUS
    <3>1. batch[v] <= Batches(v) /\ batch[v] \in Nat
      BY <1>0, <2>1 DEF SealInv, RecordInv, PoolRecords, PoolRecord, PoolStages
    <3>2. Batches(v) \in 1..N
      BY <1>0, <2>1, UnitsAreShots DEF PoolStages
    <3>3. batch[v] \in 0..N
      BY <3>1, <3>2, AnalysisAssumption
    <3>4. FileOf(v) = <<v, IF Batches(v) = 1 THEN 0 ELSE batch[v]>>
      BY DEF FileOf, BatchFile
    <3> QED BY <1>2, <3>3, <3>4
  <2>3. /\ thread'[v] = thread[v] /\ batch'[v] = batch[v] /\ known'.notes[v] = known.notes[v]
        /\ \A j \in 0..N : disk'.notes[<<v, j>>] = disk.notes[<<v, j>>]
    BY <1>6, <1>f, <2>1 DEF ThreadFrame, ThreadWork
  <2>4. NoteThread(v)
    BY DEF NotesFollow
  <2> QED BY <1>0, <1>1, <1>4, <2>2, <2>3, <2>4, OtherNoteThreads
<1>8. ASSUME Begins(u)
      PROVE  NoteThread(u)'
  <2>1. CASE NotesStand(<<u, 0>>, WholeKey(u))
    <3>x. PICK X : X = disk.notes[<<u, 0>>].notes
      OBVIOUS
    <3>1. Tells(u, X)
      BY <1>1, <1>2, <2>1, <3>x DEF NotesStand, NotesOfOne, NoteOfOne
    <3>2. /\ thread' = [thread EXCEPT ![u] = "done"]
          /\ known' = [known EXCEPT !.notes[u] = X]
      BY <1>8, <2>1, <3>x DEF Begins, Becomes
    <3>3. known'.notes = [known.notes EXCEPT ![u] = X]
      BY <1>0, <3>2 DEF Blank
    <3>4. known'.notes[u] = X
      BY <1>0, <3>3
    <3>5. Tells(u, X)'
      BY <1>4, <3>1
    <3> QED BY <1>b, <3>2, <3>4, <3>5
  <2>2. CASE ~NotesStand(<<u, 0>>, WholeKey(u))
    <3>1. disk.notes[<<u, 0>>] = None
      BY <1>0, <1>1, <2>2, NotesHaveTheirKey DEF NotesStand
    <3>2. /\ thread' = [thread EXCEPT ![u] = "looking"] /\ known' = known /\ batch' = batch
          /\ disk' = disk /\ thread[u] = "waiting"
      BY <1>8, <2>2 DEF Begins, Becomes, MayStart
    <3> QED BY <1>a, <3>1, <3>2
  <2> QED BY <2>1, <2>2
<1>9. ASSUME Asks(u)
      PROVE  NoteThread(u)'
  <2>1. ~NotesStand(FileOf(u), BatchKey(u)) /\ batch[u] <= Batches(u) /\ thread[u] = "looking"
    BY <1>1, <1>2, <1>9, AnalysisAssumption DEF Asks, StandsFor, AllBatches
  <2>2. disk.notes[FileOf(u)] = None
    BY <1>0, <1>1, <2>1, NotesHaveTheirKey DEF NotesStand
  <2>3. /\ thread' = [thread EXCEPT ![u] = "asking"] /\ known' = known /\ batch' = batch
        /\ disk' = disk
    BY <1>9 DEF Asks, Becomes
  <2> QED BY <1>3, <1>a, <2>1, <2>2, <2>3 DEF NoteThread
<1>10. ASSUME Answers(u) \/ Fails(u) \/ ThreadStops(u)
      PROVE  NoteThread(u)'
  <2>1. /\ thread' = [thread EXCEPT ![u] = "answered"] \/ thread' = [thread EXCEPT ![u] = "gone"]
        /\ known' = known /\ batch' = batch /\ disk' = disk
        /\ thread[u] \in {"waiting", "looking", "asking", "answered"}
        /\ thread[u] = "asking" \/ thread' = [thread EXCEPT ![u] = "gone"]
    BY <1>10 DEF Answers, Fails, ThreadStops, Becomes, MayStart
  <2> QED BY <1>3, <1>a, <2>1 DEF NoteThread
<1>11. ASSUME SaysNothing(u) \/ SavesScene(u) \/ SavesSummary(u)
      PROVE  NoteThread(u)'
  BY <1>11 DEF SaysNothing, Mute, SavesScene, SavesSummary
<1>12. ASSUME Merges(u)
      PROVE  NoteThread(u)'
  <2>x. PICK f : f = known.notes[u]
    OBVIOUS
  <2>1. /\ thread' = [thread EXCEPT ![u] = "done"] /\ known' = known
        /\ thread[u] = "looking" /\ batch[u] > Batches(u)
    BY <1>12 DEF Merges, AllBatches, Becomes
  <2>2. Tells(u, f)
    BY <1>1, <2>1, <2>x, AllBatchesTell
  <2>3. Tells(u, f)' /\ known'.notes[u] = f
    BY <1>4, <2>1, <2>2, <2>x
  <2> QED BY <1>b, <2>1, <2>3
<1>13. ASSUME Reuses(u)
      PROVE  NoteThread(u)'
  <2>x. PICK X : X = disk.notes[FileOf(u)].notes
    OBVIOUS
  <2>1. /\ NotesStand(FileOf(u), BatchKey(u)) /\ batch[u] <= Batches(u) /\ thread[u] = "looking"
        /\ Takes(u, X) /\ disk' = disk
    BY <1>1, <1>2, <1>13, <2>x, AnalysisAssumption DEF Reuses, StandsFor, ValueOf, AllBatches
  <2>2. batch[u] \in 1..Parts(u)
    BY <1>1, <1>2, <2>1, AnalysisAssumption
  <2>3. DOMAIN X = PartShots(u, batch[u])
    <3>1. disk.notes[FileOf(u)].key.shots = BatchOf(u) /\ FileOf(u) \in (1..N) \X (0..N)
      BY <1>1, <1>2, <2>1, <2>2 DEF NotesStand, BatchKey, Fingerprint
    <3> QED BY <1>0, <1>1, <2>1, <2>x, <3>1 DEF NoteFiles, NotesStand
  <2>4. disk.notes[PartFile(u, batch[u])] # None /\ disk.notes[PartFile(u, batch[u])].notes = X
    BY <1>1, <2>1, <2>x DEF NotesStand
  <2> QED BY <1>3, <1>c, <2>1, <2>2, <2>3, <2>4 DEF NoteThread
<1>14. ASSUME SavesNotes(u)
      PROVE  NoteThread(u)'
  <2>x. PICK X, K, F : /\ X = [x \in ShotsOf(BatchOf(u)) |-> answer[u]]
                       /\ K = BatchKey(u) /\ F = FileOf(u)
    OBVIOUS
  <2>1. /\ thread[u] = "answered" /\ Takes(u, X)
        /\ disk' = [disk EXCEPT !.notes[F] = [key |-> K, notes |-> X]]
    BY <1>14, <2>x DEF SavesNotes
  <2>2. batch[u] \in 1..Parts(u) /\ F = <<u, IF Parts(u) = 1 THEN 0 ELSE batch[u]>>
    BY <1>14, <2>x, NoteFilesKeep
  <2>3. DOMAIN X = PartShots(u, batch[u])
    BY <1>1, <2>x
  <2>4. disk'.notes = [disk.notes EXCEPT ![F] = [key |-> K, notes |-> X]]
    BY <1>0, <2>1 DEF Fields, NoFiles
  <2>5. F = PartFile(u, batch[u]) /\ F \in (1..N) \X (0..N)
    BY <1>1, <1>2, <2>2, <2>x
  <2>6. /\ disk'.notes[F] = [key |-> K, notes |-> X]
        /\ \A t \in (1..N) \X (0..N) : t # F => disk'.notes[t] = disk.notes[t]
    BY <1>0, <2>4, <2>5
  <2>7. [key |-> K, notes |-> X] \in Annotations
    <3>1. answer[u] \in Nat /\ ShotsOf(BatchOf(u)) \in SUBSET (1..N)
      BY <1>0, <1>1, <2>1, ThreadShots DEF NoteFiles
    <3>2. X \in [ShotsOf(BatchOf(u)) -> Nat]
      BY <2>x, <3>1
    <3>3. X \in Notes
      BY <3>1, <3>2 DEF Notes
    <3>4. known.reading \in Readings
      <4>1. DialogueStands /\ known.reading = disk.dialogues
        BY <1>0, WorkStands DEF AfterDialogue, AfterScenes
      <4> QED BY <1>0, <4>1 DEF FileTypes, DialogueStands, Whole
    <3>5. BatchOf(u) \in Nat \X Nat
      <4>1. PICK l \in 1..N, r \in 1..N : l <= r /\ Scene(u) = <<l, r>>
        BY <1>0, <1>1, SceneParts
      <4> QED BY <1>1, <1>2, <4>1, BatchesAreRanges
    <3>6. Batches(u) \in Nat /\ batch[u] \in Nat
      BY <1>1, <1>2, AnalysisAssumption
    <3>7. K \in Fingerprints
      BY <2>x, <3>4, <3>5, <3>6 DEF BatchKey, Fingerprint, Fingerprints
    <3> QED BY <3>3, <3>7 DEF Annotations
  <2>8. disk'.notes[F] # None /\ disk'.notes[F].notes = X
    BY <2>6, <2>7, NoFileAssumption
  <2>9. Parts(u) # 1 => disk'.notes[<<u, 0>>] = None
    <3> SUFFICES ASSUME Parts(u) # 1 PROVE disk'.notes[<<u, 0>>] = None
      OBVIOUS
    <3>1. <<u, 0>> # F /\ <<u, 0>> \in (1..N) \X (0..N)
      BY <1>2, <2>2
    <3>2. disk.notes[<<u, 0>>] = None
      BY <1>3, <2>1 DEF NoteThread
    <3> QED BY <2>6, <3>1, <3>2
  <2> QED BY <1>c, <2>1, <2>2, <2>3, <2>5, <2>8, <2>9
<1>15. NoteThread(u)'
  BY <1>8, <1>9, <1>10, <1>11, <1>12, <1>13, <1>14, Thread(u) DEF Thread
<1> QED BY <1>7, <1>15

\* What is taken of a segment is what the files tell of it, and stays that.
LEMMA NotesFollowNext ==
  ASSUME SealInv, FilesOfOne, OneLimit, NotesFollow, KeepsFiles, [Next]_vars
  PROVE  NotesFollow'
<1> USE DEF At, Goes, GoesOn, GoesToPool, Keeps, process
<1>0. FilesStand /\ RecordTypes /\ FileTypes /\ NoteFiles /\ ScenesOfOne
  BY DEF SealInv, FilesStand, RecordInv, FilesOfOne
<1>a. ASSUME stage' \notin {"annotate"} \cup AfterNotes
      PROVE  NotesFollow'
  BY <1>a DEF NotesFollow
<1>b. ASSUME stage \in AfterScenes
      PROVE  /\ disk.segments # None /\ disk.segments.ends = known.ends
             /\ disk'.segments = disk.segments
             /\ \A i \in Segments(disk.segments.ends) : \A f : Tells(i, f) => Tells(i, f)'
  <2>1. disk.segments # None /\ disk.segments.ends = known.ends
    BY <1>0, <1>b, WorkStands DEF AfterDialogue
  <2>2. disk'.segments = disk.segments
    BY <2>1 DEF KeepsFiles
  <2>3. ASSUME NEW i \in Segments(disk.segments.ends)
        PROVE  \A f : Tells(i, f) => Tells(i, f)'
    BY <1>0, <2>1, TellsStay
  <2> QED BY <2>1, <2>2, <2>3
<1>c. ASSUME stage \in AfterNotes, stage' # "annotate", known'.notes = known.notes
      PROVE  NotesFollow'
  BY <1>b, <1>c DEF NotesFollow, AfterNotes, AfterClips
<1> USE DEF AfterScenes, AfterClips, AfterNotes
<1>1. CASE Begin
  BY <1>1, <1>a DEF Begin, BeginCached, BeginResumes, BeginAnew, BeginRefused, Enters
<1>2. CASE RequestStop \/ UNCHANGED vars
  <2>1. /\ disk' = disk /\ stage' = stage /\ known' = known /\ thread' = thread /\ batch' = batch
        /\ limit' = limit
    BY <1>2 DEF RequestStop, vars
  <2>2. CASE stage = "annotate"
    <3>1. ASSUME NEW u \in Segments(disk.segments.ends)
          PROVE  NoteThread(u)'
      <4>1. NoteThread(u)
        BY <2>2 DEF NotesFollow
      <4>2. FileOf(u)' = FileOf(u)
        BY <2>1 DEF FileOf, BatchFile, Batches, SegmentOf
      <4>3. /\ Parts(u)' = Parts(u)
            /\ \A j \in 1..Parts(u) : \A f : PartTells(u, j, f) => PartTells(u, j, f)'
            /\ \A f : Tells(u, f) => Tells(u, f)'
        BY <1>0, <1>b, <2>2, TellsStay
      <4> QED BY <2>1, <4>1, <4>2, <4>3 DEF NoteThread
    <3> QED BY <1>b, <2>1, <2>2, <3>1 DEF NotesFollow
  <2>3. CASE stage \in AfterNotes
    BY <1>c, <2>1, <2>3
  <2>4. CASE stage \notin {"annotate"} \cup AfterNotes
    BY <1>a, <2>1, <2>4
  <2> QED BY <2>2, <2>3, <2>4
<1>3. CASE WindsUp \/ Stops \/ Breaks \/ Crash \/ Publish
  <2>1. \E how : Leaves(how)
    BY <1>3 DEF WindsUp, Stops, Breaks, Crash, Publish
  <2> QED BY <1>a, <2>1 DEF Leaves
<1>4. CASE Prepare
  BY <1>4, <1>a DEF Prepare, OpenSpec, SaveSpec, DetectShots, ReuseSubtitle, Transcribe, WriteSubtitle,
     ReadDialogue, ReconstructDialogue, OpenDialogues, WriteDialogues, OpenMerged, WriteMerged
<1>5. CASE ClipsReady
  <2>1. /\ stage = "clips" /\ stage' = "annotate" /\ thread' = AllWaiting /\ disk' = disk
        /\ batch' = [u \in 1..N |-> 1]
    BY <1>5 DEF ClipsReady
  <2>2. ASSUME NEW u \in Segments(disk.segments.ends)
        PROVE  NoteThread(u)'
    <3>1. u \in 1..N /\ Parts(u) \in 1..N /\ Parts(u)' = Parts(u)
      BY <1>0, <1>b, <2>1, SceneParts, TellsStay
    <3>2. thread'[u] = "waiting" /\ batch'[u] = 1
      BY <2>1, <3>1 DEF AllWaiting
    <3>3. \A j \in 1..Parts(u)' : ~(j < batch'[u])
      BY <3>1, <3>2, AnalysisAssumption
    <3> QED BY <3>2, <3>3 DEF NoteThread
  <2> QED BY <1>b, <2>1, <2>2 DEF NotesFollow
<1>6. CASE Segmentation /\ ~ClipsReady
  BY <1>6, <1>a DEF Segmentation, ResumeSegments, WriteFrames, AskForScenes, ScenesFound,
     WriteSegments, WriteScene, CutClip
<1>7. CASE \E u \in 1..N : Thread(u)
  <2> SUFFICES ASSUME NEW u \in 1..N, Thread(u) PROVE NotesFollow'
    BY <1>7
  <2>1. ThreadFrame(u) /\ ThreadWork(u)
    BY <1>0, ThreadsKeepTheFrame, ThreadsDoTheirWork DEF SealInv
  <2>2. CASE stage = "annotate"
    <3>1. \A v \in Segments(disk.segments.ends) : NoteThread(v)'
      BY <2>2, NoteThreadFollows
    <3> QED BY <1>b, <2>1, <2>2, <3>1 DEF NotesFollow, ThreadFrame
  <2>3. CASE stage = "summarise"
    BY <1>c, <2>1, <2>3 DEF ThreadFrame, ThreadWork
  <2>4. CASE stage = "windows"
    BY <1>a, <2>1, <2>4 DEF ThreadFrame
  <2> QED BY <2>1, <2>2, <2>3, <2>4 DEF ThreadFrame, PoolStages
<1>8. CASE NotesTaken
  <2>1. /\ stage = "annotate" /\ stage' = "summarise" /\ disk' = disk /\ known' = known
        /\ \A u \in Units : thread[u] = "done"
    BY <1>8 DEF NotesTaken, AllDone
  <2>2. Units = Segments(disk.segments.ends)
    BY <1>b, <2>1 DEF Units
  <2>3. \A u \in Segments(disk.segments.ends) : Tells(u, known.notes[u])
    BY <2>1, <2>2 DEF NotesFollow, NoteThread
  <2> QED BY <1>b, <2>1, <2>3 DEF NotesFollow
<1>9. CASE Finish /\ ~NotesTaken
  <2>1. CASE Summarised \/ Describe \/ ReuseStory \/ TellStory \/ WriteStory \/ MakeCover
    BY <2>1, <1>c DEF Summarised, Describe, ReuseStory, TellStory, WriteStory, MakeCover
  <2>2. CASE Seal
    BY <2>2, <1>a DEF Seal
  <2> QED BY <1>3, <1>9, <2>1, <2>2 DEF Finish
<1> QED BY <1>1, <1>2, <1>3, <1>4, <1>5, <1>6, <1>7, <1>8, <1>9 DEF Next, Advance

\* The thread of a segment knows what its file says, if there is anything to say.
LEMMA SayThreadsFollow ==
  ASSUME SealInv, FilesOfOne, OneLimit, NotesFollow, SayingsFollow, KeepsFiles, stage = "summarise",
         NEW u \in 1..N, Thread(u)
  PROVE  \A v \in Segments(disk.segments.ends) : SayThread(v)'
<1> DEFINE S == Segments(disk.segments.ends)
<1>0. /\ FilesStand /\ RecordTypes /\ FileTypes /\ NoteFiles
      /\ DOMAIN thread = 1..N /\ DOMAIN known = DOMAIN Blank /\ DOMAIN answer = 1..N
      /\ known.notes \in [1..N -> Notes] /\ known.says \in [1..N -> Sayings]
      /\ DOMAIN disk = Fields /\ DOMAIN disk.says = 1..N
  BY DEF SealInv, FilesStand, FileTypes, RecordInv, RecordTypes
<1>f. ThreadFrame(u) /\ ThreadWork(u)
  BY <1>0, ThreadsKeepTheFrame, ThreadsDoTheirWork DEF SealInv
<1>1. /\ u \in Units /\ u \in S /\ disk.segments # None
      /\ known.reading = disk.dialogues /\ SegmentOf(u) = Scene(u) /\ ScenesOfOne
  BY <1>0, <1>f, UnitsAreScenes DEF ThreadFrame
<1>2. Tells(u, known.notes[u]) /\ \A v \in S : SayThread(v) /\ v \in 1..N
  BY <1>0, <1>1, SceneParts DEF NotesFollow, SayingsFollow, AfterNotes, AfterClips, AfterScenes
<1>3. /\ known'.ends = known.ends /\ known'.notes = known.notes
      /\ \A v \in S : /\ Scene(v)' = Scene(v) /\ SegmentOf(v)' = SegmentOf(v)
                      /\ \A f, y : Said(v, f, y) => Said(v, f, y)'
                      /\ NothingToSay(v)' = NothingToSay(v)
  <2>1. known'.ends = known.ends /\ known'.notes = known.notes
    BY <1>f DEF ThreadFrame, ThreadWork
  <2> QED BY <1>0, <1>1, <2>1, TellsStay DEF SegmentOf, NothingToSay
<1>a. ASSUME NEW ph, thread' = [thread EXCEPT ![u] = ph], known' = known, disk' = disk,
             thread[u] # "done", ph # "done",
             ph \in {"asking", "answered"} => disk.says[u] = None /\ ~NothingToSay(u)
      PROVE  \A v \in S : SayThread(v)'
  <2>1. SayThread(u)'
    BY <1>0, <1>1, <1>2, <1>3, <1>a DEF SayThread
  <2>2. ASSUME NEW v \in S, v # u
        PROVE  SayThread(v)'
    BY <1>0, <1>2, <1>3, <1>a, <2>2 DEF SayThread
  <2> QED BY <2>1, <2>2
<1>b. ASSUME NEW y, NEW f, f = known.notes[u], thread' = [thread EXCEPT ![u] = "done"],
             known'.says = [known.says EXCEPT ![u] = y], Said(u, f, y)',
             \A v \in S \ {u} : disk'.says[v] = disk.says[v]
      PROVE  \A v \in S : SayThread(v)'
  <2>1. SayThread(u)'
    BY <1>0, <1>1, <1>2, <1>3, <1>b DEF SayThread
  <2>2. ASSUME NEW v \in S, v # u
        PROVE  SayThread(v)'
    BY <1>0, <1>2, <1>3, <1>b, <2>2 DEF SayThread
  <2> QED BY <2>1, <2>2
<1>4. CASE Begins(u)
  <2>1. /\ thread' = [thread EXCEPT ![u] = "looking"] /\ known' = known /\ disk' = disk
        /\ thread[u] = "waiting"
    BY <1>4 DEF Begins, Becomes, MayStart
  <2> QED BY <1>a, <2>1
<1>5. CASE Asks(u)
  <2>1. /\ ~SaysStand(u, SummaryInput(u)) /\ ~NothingToSay(u) /\ thread[u] = "looking"
        /\ thread' = [thread EXCEPT ![u] = "asking"] /\ known' = known /\ disk' = disk
    BY <1>5 DEF Asks, StandsFor, Mute, Becomes
  <2>2. ASSUME disk.says[u] # None
        PROVE  FALSE
    <3>x. PICK input : input = disk.says[u].of
      OBVIOUS
    <3>1. /\ input = [reading |-> disk.dialogues, shots |-> Scene(u), notes |-> input.notes]
          /\ input.notes \in Notes /\ Tells(u, input.notes)
      BY <2>2, <3>x DEF FilesOfOne, SayingsOfOne, SayingOfOne
    <3>2. input.notes = known.notes[u]
      BY <1>0, <1>1, <1>2, <3>1, TellsIsOne
    <3>3. input = SummaryInput(u)
      BY <1>1, <3>1, <3>2 DEF SummaryInput
    <3> QED BY <2>1, <2>2, <3>3, <3>x DEF SaysStand
  <2> QED BY <1>a, <2>1, <2>2
<1>6. CASE Answers(u) \/ Fails(u) \/ ThreadStops(u)
  <2>1. /\ thread' = [thread EXCEPT ![u] = "answered"] \/ thread' = [thread EXCEPT ![u] = "gone"]
        /\ known' = known /\ disk' = disk
        /\ thread[u] \in {"waiting", "looking", "asking", "answered"}
        /\ thread[u] = "asking" \/ thread' = [thread EXCEPT ![u] = "gone"]
    BY <1>6 DEF Answers, Fails, ThreadStops, Becomes, MayStart
  <2>2. thread[u] = "asking" => disk.says[u] = None /\ ~NothingToSay(u)
    BY <1>1, <1>2 DEF SayThread
  <2> QED BY <1>a, <2>1, <2>2
<1>7. CASE SavesScene(u) \/ SavesNotes(u) \/ Merges(u)
  BY <1>7 DEF SavesScene, SavesNotes, Merges, AllBatches
<1>8. CASE SaysNothing(u)
  <2>x. PICK f : f = known.notes[u]
    OBVIOUS
  <2>1. /\ NothingToSay(u) /\ thread[u] = "looking" /\ known' = known /\ disk' = disk
        /\ thread' = [thread EXCEPT ![u] = "done"]
    BY <1>8 DEF SaysNothing, Mute, Becomes
  <2>2. known.says[u] = None
    BY <1>1, <1>2, <2>1 DEF SayThread
  <2>3. Said(u, f, None)
    BY <1>1, <2>1, <2>x DEF Said, NothingToSay
  <2>4. Said(u, f, None)'
    BY <1>1, <1>3, <2>3
  <2>5. known'.says = [known.says EXCEPT ![u] = None]
    BY <1>0, <1>1, <2>1, <2>2
  <2> QED BY <1>b, <2>1, <2>4, <2>5, <2>x
<1>9. CASE Reuses(u)
  <2>x. PICK f, y : f = known.notes[u] /\ y = disk.says[u].says
    OBVIOUS
  <2>1. ~NothingToSay(u) /\ disk.says[u] # None /\ Takes(u, y) /\ disk' = disk
    BY <1>9, <2>x DEF Reuses, Mute, StandsFor, SaysStand, ValueOf
  <2>2. thread' = [thread EXCEPT ![u] = "done"] /\ known' = [known EXCEPT !.says[u] = y]
    BY <2>1 DEF Takes, Becomes
  <2>3. known'.says = [known.says EXCEPT ![u] = y]
    BY <1>0, <2>2 DEF Blank
  <2>4. Said(u, f, y)
    BY <1>1, <2>1, <2>x DEF Said, NothingToSay
  <2>5. Said(u, f, y)'
    BY <1>1, <1>3, <2>4
  <2> QED BY <1>b, <2>1, <2>2, <2>3, <2>5, <2>x
<1>10. CASE SavesSummary(u)
  <2>x. PICK f, y, I : f = known.notes[u] /\ y = answer[u] /\ I = SummaryInput(u)
    OBVIOUS
  <2>1. Takes(u, y) /\ thread[u] = "answered"
    BY <1>10, <2>x DEF SavesSummary
  <2>2. thread' = [thread EXCEPT ![u] = "done"] /\ known' = [known EXCEPT !.says[u] = y]
    BY <2>1 DEF Takes, Becomes
  <2>3. known'.says = [known.says EXCEPT ![u] = y]
    BY <1>0, <2>2 DEF Blank
  <2>4. /\ disk'.says[u] = [of |-> I, says |-> y]
        /\ \A i \in (1..N) \ {u} : disk'.says[i] = disk.says[i]
    BY <1>10, <2>x, SummaryFilesKeep
  <2>5. [of |-> I, says |-> y] \in Summaries
    <3>1. y \in Nat /\ f \in Notes
      BY <1>0, <1>1, <2>1, <2>x DEF NoteFiles
    <3>2. known.reading \in Readings
      <4>1. DialogueStands /\ known.reading = disk.dialogues
        BY <1>0, WorkStands DEF AfterDialogue, AfterScenes
      <4> QED BY <1>0, <4>1 DEF FileTypes, DialogueStands, Whole
    <3>3. SegmentOf(u) \in Nat \X Nat
      <4>1. PICK l \in 1..N, r \in 1..N : l <= r /\ Scene(u) = <<l, r>>
        BY <1>0, <1>1, SceneParts
      <4> QED BY <1>1, <4>1, AnalysisAssumption
    <3>4. I \in SummaryInputs
      BY <2>x, <3>1, <3>2, <3>3 DEF SummaryInput, SummaryInputs
    <3> QED BY <3>1, <3>4 DEF Summaries
  <2>6. disk'.says[u] # None /\ disk'.says[u].says = y
    BY <2>4, <2>5, NoFileAssumption
  <2>7. ~(~HasDialogue(Scene(u)) /\ \A x \in ShotsOf(Scene(u)) : f[x] = Unavailable)
    BY <1>1, <1>2, <2>1, <2>x DEF SayThread, NothingToSay
  <2>8. Said(u, f, y)'
    BY <1>1, <1>3, <2>6, <2>7 DEF Said
  <2>9. \A v \in S \ {u} : disk'.says[v] = disk.says[v]
    BY <1>2, <2>4
  <2> QED BY <1>b, <2>2, <2>3, <2>8, <2>9, <2>x
<1> QED BY <1>4, <1>5, <1>6, <1>7, <1>8, <1>9, <1>10, Thread(u) DEF Thread

\* Threads that ask for scenes or notes know no summaries.
LEMMA OtherThreadsSayNothing ==
  ASSUME FilesStand, RecordTypes, stage # "summarise", NEW u \in 1..N, Thread(u)
  PROVE  known'.says = known.says /\ stage' = stage /\ stage \in {"windows", "annotate"}
<1>0. DOMAIN known = DOMAIN Blank
  BY DEF RecordTypes
<1>1. stage' = stage /\ stage \in {"windows", "annotate"}
  BY DEF Thread, Begins, Reuses, Asks, SaysNothing, Answers, Fails, SavesScene, SavesNotes,
     SavesSummary, Merges, ThreadStops, InPool, InThread, PoolStages
<1>2. ASSUME NEW X, known' = [known EXCEPT !.notes[u] = X]
      PROVE  known'.says = known.says
  BY <1>0, <1>2 DEF Blank
<1>3. ASSUME NEW y, Takes(u, y)
      PROVE  known'.says = known.says
  BY <1>0, <1>1, <1>3 DEF Takes, Blank
<1>4. CASE Begins(u)
  <2>x. PICK X : X = disk.notes[<<u, 0>>].notes
    OBVIOUS
  <2>1. known' = known \/ known' = [known EXCEPT !.notes[u] = X]
    BY <1>4, <2>x DEF Begins
  <2> QED BY <1>1, <1>2, <2>1
<1>5. CASE Reuses(u) \/ SavesScene(u) \/ SavesNotes(u) \/ SavesSummary(u)
  BY <1>1, <1>3, <1>5 DEF Reuses, SavesScene, SavesNotes, SavesSummary
<1>6. CASE Asks(u) \/ SaysNothing(u) \/ Answers(u) \/ Fails(u) \/ Merges(u) \/ ThreadStops(u)
  BY <1>1, <1>6 DEF Asks, SaysNothing, Answers, Fails, Merges, ThreadStops
<1> QED BY <1>4, <1>5, <1>6, Thread(u) DEF Thread

\* What is said of a segment is what its file says, and stays that.
LEMMA SayingsFollowNext ==
  ASSUME SealInv, FilesOfOne, OneLimit, NotesFollow, SayingsFollow, KeepsFiles, [Next]_vars
  PROVE  SayingsFollow'
<1> USE DEF At, Goes, GoesOn, GoesToPool, Keeps, process, AfterSayings, AfterDescription
<1> DEFINE Known == {"summarise", "publish"} \cup AfterSayings
<1>0. /\ FilesStand /\ RecordTypes /\ FileTypes /\ NoteFiles /\ ScenesOfOne
      /\ DOMAIN known = DOMAIN Blank
  BY DEF SealInv, FilesStand, RecordInv, RecordTypes, FilesOfOne
<1>a. ASSUME stage' \notin {"summarise"} \cup AfterSayings,
             stage' = "publish" \/ known'.says = [i \in 1..N |-> None]
      PROVE  SayingsFollow'
  BY <1>a DEF SayingsFollow
<1>b. ASSUME stage \notin Known, stage' \notin {"summarise"} \cup AfterSayings,
             known'.says = known.says
      PROVE  SayingsFollow'
  BY <1>a, <1>b DEF SayingsFollow
<1>c. ASSUME stage \in AfterScenes
      PROVE  /\ disk.segments # None /\ disk.segments.ends = known.ends
             /\ disk'.segments = disk.segments
             /\ \A i \in Segments(disk.segments.ends) : i \in 1..N
             /\ \A i \in Segments(disk.segments.ends) : \A f, y : Said(i, f, y) => Said(i, f, y)'
  <2>1. disk.segments # None /\ disk.segments.ends = known.ends
    BY <1>0, <1>c, WorkStands DEF AfterDialogue
  <2>2. disk'.segments = disk.segments
    BY <2>1 DEF KeepsFiles
  <2>3. ASSUME NEW i \in Segments(disk.segments.ends)
        PROVE  i \in 1..N /\ \A f, y : Said(i, f, y) => Said(i, f, y)'
    BY <1>0, <2>1, SceneParts, TellsStay
  <2> QED BY <2>1, <2>2, <2>3
<1>d. ASSUME stage \in AfterSayings, stage' \in AfterSayings,
             known'.notes = known.notes, known'.says = known.says
      PROVE  SayingsFollow'
  BY <1>c, <1>d DEF SayingsFollow, AfterScenes
<1>1. CASE Begin
  <2>1. /\ stage = "off" /\ stage' \in {"off", "spec", "shots", "publish"} /\ known' = known
    BY <1>1 DEF Begin, BeginCached, BeginResumes, BeginAnew, BeginRefused, Enters
  <2> QED BY <1>b, <2>1
<1>2. CASE RequestStop \/ UNCHANGED vars
  <2>1. disk' = disk /\ stage' = stage /\ known' = known /\ thread' = thread
    BY <1>2 DEF RequestStop, vars
  <2>2. CASE stage = "summarise"
    <3>1. ASSUME NEW u \in Segments(disk.segments.ends)
          PROVE  SayThread(u)'
      <4>1. SayThread(u)
        BY <2>2 DEF SayingsFollow
      <4>2. NothingToSay(u)' = NothingToSay(u)
        BY <2>1 DEF NothingToSay, SegmentOf
      <4>3. \A f, y : Said(u, f, y) => Said(u, f, y)'
        BY <1>c, <2>2 DEF AfterScenes
      <4> QED BY <2>1, <4>1, <4>2, <4>3 DEF SayThread
    <3> QED BY <2>1, <2>2, <3>1 DEF SayingsFollow
  <2>3. CASE stage \in AfterSayings
    BY <1>d, <2>1, <2>3
  <2>4. CASE stage \notin {"summarise"} \cup AfterSayings
    BY <2>1, <2>4 DEF SayingsFollow
  <2> QED BY <2>2, <2>3, <2>4
<1>3. CASE WindsUp \/ Stops \/ Breaks \/ Crash \/ Publish
  <2>1. \E how : Leaves(how)
    BY <1>3 DEF WindsUp, Stops, Breaks, Crash, Publish
  <2>2. stage' = "off" /\ known' = Blank
    BY <2>1 DEF Leaves
  <2>3. known'.says = [i \in 1..N |-> None]
    BY <2>2 DEF Blank
  <2> QED BY <1>a, <2>2, <2>3
<1>4. CASE Prepare
  <2>1. known'.says = known.says
    BY <1>0, <1>4 DEF Prepare, OpenSpec, SaveSpec, DetectShots, ReuseSubtitle, Transcribe, WriteSubtitle,
       ReadDialogue, ReconstructDialogue, OpenDialogues, WriteDialogues, OpenMerged, WriteMerged, Blank
  <2>2. stage \notin Known /\ stage' \notin Known
    BY <1>4 DEF Prepare, OpenSpec, SaveSpec, DetectShots, ReuseSubtitle, Transcribe, WriteSubtitle,
       ReadDialogue, ReconstructDialogue, OpenDialogues, WriteDialogues, OpenMerged, WriteMerged
  <2> QED BY <1>b, <2>1, <2>2
<1>5. CASE Segmentation
  <2>1. known'.says = known.says
    BY <1>0, <1>5 DEF Segmentation, ResumeSegments, WriteFrames, AskForScenes, ScenesFound,
       WriteSegments, WriteScene, CutClip, ClipsReady, Blank
  <2>2. stage \notin Known /\ stage' \notin Known
    BY <1>5 DEF Segmentation, ResumeSegments, WriteFrames, AskForScenes, ScenesFound,
       WriteSegments, WriteScene, CutClip, ClipsReady
  <2> QED BY <1>b, <2>1, <2>2
<1>6. CASE \E u \in 1..N : Thread(u)
  <2> SUFFICES ASSUME NEW u \in 1..N, Thread(u) PROVE SayingsFollow'
    BY <1>6
  <2>1. CASE stage = "summarise"
    <3>1. \A v \in Segments(disk.segments.ends) : SayThread(v)'
      BY <2>1, SayThreadsFollow
    <3>2. stage' = stage
      BY <1>0, ThreadsKeepTheFrame DEF SealInv, ThreadFrame
    <3> QED BY <1>c, <2>1, <3>1, <3>2 DEF SayingsFollow, AfterScenes
  <2>2. CASE stage # "summarise"
    BY <1>0, <1>b, <2>2, OtherThreadsSayNothing
  <2> QED BY <2>1, <2>2
<1>7. CASE NotesTaken
  <2>1. /\ stage = "annotate" /\ stage' = "summarise" /\ disk' = disk /\ known' = known
        /\ thread' = AllWaiting
    BY <1>7 DEF NotesTaken
  <2>2. \A u \in Segments(disk.segments.ends) :
          u \in 1..N /\ thread'[u] = "waiting" /\ known'.says[u] = None
    BY <1>c, <2>1 DEF SayingsFollow, AllWaiting, AfterScenes
  <2> QED BY <2>1, <2>2 DEF SayingsFollow, SayThread
<1>8. CASE Summarised
  <2>1. /\ stage = "summarise" /\ stage' = "describe" /\ disk' = disk /\ known' = known
        /\ \A u \in Units : thread[u] = "done"
    BY <1>8 DEF Summarised, AllDone
  <2>2. Units = Segments(disk.segments.ends)
    BY <1>c, <2>1 DEF Units, AfterScenes
  <2>3. \A u \in Segments(disk.segments.ends) : Said(u, known.notes[u], known.says[u])
    BY <2>1, <2>2 DEF SayingsFollow, SayThread
  <2> QED BY <1>c, <2>1, <2>3 DEF SayingsFollow, AfterScenes
<1>9. CASE Finish /\ ~NotesTaken /\ ~Summarised
  <2>1. CASE Describe \/ ReuseStory \/ TellStory \/ WriteStory \/ MakeCover
    BY <2>1, <1>d DEF Describe, ReuseStory, TellStory, WriteStory, MakeCover
  <2>2. CASE Seal
    BY <2>2, <1>a DEF Seal
  <2> QED BY <1>3, <1>9, <2>1, <2>2 DEF Finish
<1> QED BY <1>1, <1>2, <1>3, <1>4, <1>5, <1>6, <1>7, <1>8, <1>9 DEF Next, Advance

\* There is nothing of an analysis before the first attempt.
LEMMA OneInvInit == Init => OneInv
<1> SUFFICES ASSUME Init PROVE OneInv
  OBVIOUS
<1>1. SealInv
  BY SealInvInit
<1>2. disk = NoFiles /\ stage = "off" /\ known = Blank
  BY DEF Init
<1>3. OneReading /\ FilesOfOne
  BY <1>2 DEF OneReading, FilesOfOne, NoFiles, Whole, WindowsOfOne, ScenesOfOne, NotesOfOne,
     SayingsOfOne, DescriptionOfOne, StoryOfOne
<1>4. WorkOfOne
  BY <1>2 DEF WorkOfOne, OneLimit, ScenesFollow, NotesFollow, SayingsFollow, Blank, AfterNotes,
     AfterClips, AfterScenes, AfterSayings, AfterDescription
<1> QED BY <1>1, <1>3, <1>4 DEF OneInv

\* Every step keeps the files of one analysis.
LEMMA OneInvNext ==
  ASSUME SettingsStay, OneInv, [Next]_vars
  PROVE  OneInv' /\ KeepsFiles
<1>0. /\ SealInv /\ FilesStand /\ RecordTypes /\ OneReading /\ FilesOfOne
      /\ OneLimit /\ ScenesFollow /\ NotesFollow /\ SayingsFollow
  BY DEF OneInv, WorkOfOne, SealInv, FilesStand, RecordInv
<1>1. KeepsFiles /\ FilesOfOne'
  BY FilesOfOneNext
<1>2. SealInv'
  BY <1>0, SealInvNext
<1>3. OneReading' /\ OneLimit'
  BY <1>0, OneReadingNext, OneLimitNext
<1>4. ScenesFollow' /\ NotesFollow' /\ SayingsFollow'
  BY <1>0, <1>1, ScenesFollowNext, NotesFollowNext, SayingsFollowNext
<1> QED BY <1>1, <1>2, <1>3, <1>4 DEF OneInv, WorkOfOne

\* A sealed memory has all the files the invariant speaks of.
LEMMA OneInvSeals == OneInv => MemoryIsOfOneAnalysis
<1> SUFFICES ASSUME OneInv, disk.manifest # None PROVE MemoryIsOfOneAnalysis
  BY DEF MemoryIsOfOneAnalysis
<1>1. Sealed /\ OneReading /\ ScenesOfOne /\ DescriptionOfOne /\ StoryOfOne
  BY DEF OneInv, SealInv, SealFiles, FilesOfOne
<1>2. disk.segments # None /\ disk.description # None /\ disk.story # None
  BY <1>1, NoneIsNoFile DEF Sealed
<1> QED BY <1>1, <1>2 DEF Sealed, OneReading, ScenesOfOne, DescriptionOfOne, StoryOfOne,
        DialogueStands, MemoryIsOfOneAnalysis

\* As long as subtitles are reused and the limit on a request stays what it is,
\* the files of a sealed memory are of one analysis, whatever became of the
\* attempts that wrote them (material_analyst.py, _cache_result and the
\* checkpoints it trusts).
THEOREM MemoriesAreOfOneAnalysis ==
  ASSUME Reuse = TRUE, \A k, l \in Limits : k = l
  PROVE  Spec => []MemoryIsOfOneAnalysis
<1>1. SettingsStay
  BY DEF SettingsStay
<1>2. OneInv /\ [Next]_vars => OneInv'
  BY <1>1, OneInvNext
<1> QED BY <1>2, OneInvInit, OneInvSeals, PTL DEF Spec

\* Under the same settings what a model has answered is neither removed nor
\* replaced by any step of any attempt: every stage finds the checkpoint its
\* request is known by before it asks.
THEOREM AnswersStay ==
  ASSUME Reuse = TRUE, \A k, l \in Limits : k = l
  PROVE  Spec => AnswersAreKept
<1>1. SettingsStay
  BY DEF SettingsStay
<1>2. OneInv /\ [Next]_vars => OneInv'
  BY <1>1, OneInvNext
<1>3. OneInv /\ [Next]_vars =>
        [/\ \A w \in Windows : disk.windows[w] # None => disk'.windows[w] = disk.windows[w]
         /\ \A f \in DOMAIN disk.notes : disk.notes[f] # None => disk'.notes[f] = disk.notes[f]
         /\ \A i \in 1..N : disk.says[i] # None => disk'.says[i] = disk.says[i]
         /\ DialogueStands => disk'.dialogues = disk.dialogues]_vars
  <2> SUFFICES ASSUME OneInv, [Next]_vars
               PROVE  /\ \A w \in Windows : disk.windows[w] # None => disk'.windows[w] = disk.windows[w]
                      /\ \A f \in DOMAIN disk.notes :
                           disk.notes[f] # None => disk'.notes[f] = disk.notes[f]
                      /\ \A i \in 1..N : disk.says[i] # None => disk'.says[i] = disk.says[i]
                      /\ DialogueStands => disk'.dialogues = disk.dialogues
    OBVIOUS
  <2>1. KeepsFiles
    BY <1>1, OneInvNext
  <2>2. DOMAIN disk.notes = (1..N) \X (0..N)
    BY DEF OneInv, SealInv, RecordInv, RecordTypes
  <2> QED BY <2>1, <2>2 DEF KeepsFiles
<1> QED BY <1>2, <1>3, OneInvInit, PTL DEF Spec, AnswersAreKept
=============================================================================
