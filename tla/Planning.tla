------------------------------ MODULE Planning ------------------------------
(***************************************************************************)
(* The planners (cutmaster/workflow/planners): one planning of one run.    *)
(* The arrangement agent binds every slot of the output to a segment of    *)
(* the source video, the story agent fixes some slots to passages of       *)
(* original dialogue (the anchors), the scout retrieves trajectories for   *)
(* the runs of slots that are left, and the composer takes one trajectory  *)
(* of each.  A round whose retrieval leaves a group without a trajectory   *)
(* is repaired in place while the budget of local repairs lasts, and       *)
(* otherwise starts again with a new arrangement.  After every agent the   *)
(* planning saves a checkpoint, from which a retried run goes on.          *)
(*                                                                         *)
(* The model's answers are abstracted to every answer its validation       *)
(* accepts.  Times are integers, as the milliseconds of the code are;      *)
(* everything an editor may change about a slot without moving it is one   *)
(* value of Contents.                                                      *)
(***************************************************************************)
EXTENDS Integers, Sequences, FiniteSets

CONSTANTS
  SlotMs,        \* the planned duration of each slot of the output, in order
  SegmentMs,     \* the duration of each segment of the source, in order
  Passages,      \* the dialogue passages that can be anchors
  PassageAt,     \* [Passages -> time at which the passage starts in the source]
  PassageMs,     \* [Passages -> how long it is heard]
  Contents,      \* what can be asked of a slot
  MaxRounds,     \* planners.aster_team.max_rounds
  MaxLocalReplans, \* planners.aster_team.max_local_replans
  MaxAnchors,    \* planners.dialogue_anchors.max_anchors
  Target,        \* planners.candidate_retrieval.target_trajectories_per_group
  MaxResumes,    \* bound: how often a stopped planning is taken up again
  None           \* no anchor, no checkpoint, no arrangement, no trajectories

ASSUME PlanningAssumption ==
  /\ SlotMs \in Seq(Nat \ {0}) /\ SlotMs # << >>
  /\ SegmentMs \in Seq(Nat \ {0}) /\ SegmentMs # << >>
  /\ PassageAt \in [Passages -> Nat] /\ PassageMs \in [Passages -> Nat]
  /\ MaxRounds \in Nat \ {0} /\ MaxLocalReplans \in Nat /\ MaxAnchors \in Nat
  /\ Target \in Nat \ {0} /\ MaxResumes \in Nat
  /\ Contents # {} /\ None \notin Passages

VARIABLES
  phase,     \* "running", "stopped" (cancelled or crashed), "failed", "done"
  rank,      \* completed_rank: the last agent whose work of this round stands
  attempt,   \* aster_attempt: the number of the round
  slots,     \* the slots: the segment, contents and anchor of each
  pool,      \* candidate_pool: the trajectories of each planning group
  path,      \* the trajectory the composer took for each group
  replan,    \* ReplanState: scope, local, reuse and pending
  feedback,  \* what the failures so far tell the next round
  checkpoint, \* the checkpoint the planning would resume from
  resumes    \* history: times the planning was taken up again

vars == <<phase, rank, attempt, slots, pool, path, replan, feedback, checkpoint, resumes>>

(***************************************************************************)
(* Time in the output and in the source.                                   *)
(***************************************************************************)
Slots == 1..Len(SlotMs)
Segments == 1..Len(SegmentMs)

\* When slot i starts in the output; the slot after the last: when it ends.
OutputStart[i \in 1..Len(SlotMs) + 1] ==
  IF i = 1 THEN 0 ELSE OutputStart[i - 1] + SlotMs[i - 1]

\* The slots from i to j together.
RunMs(i, j) == OutputStart[j + 1] - OutputStart[i]

SegmentStart[s \in 1..Len(SegmentMs) + 1] ==
  IF s = 1 THEN 0 ELSE SegmentStart[s - 1] + SegmentMs[s - 1]
SegmentEnd(s) == SegmentStart[s + 1]

\* The groups the planners retrieve for, and the plans that are made of them.
GroupSet == [id: Nat \X Nat, members: SUBSET Slots, segment: Segments, start: Int, end: Int]
Plans == [segment: [Slots -> Segments], contents: [Slots -> Contents],
          anchor: [Slots -> Passages \cup {None}], groups: SUBSET GroupSet]

ASSUME NoPlanAssumption == None \notin Plans

Least(S) == CHOOSE x \in S : \A y \in S : x <= y
Greatest(S) == CHOOSE x \in S : \A y \in S : y <= x

(***************************************************************************)
(* The arrangement: slots with a segment each.  Maximal runs of one        *)
(* segment are its groups, numbered in order.                              *)
(***************************************************************************)
Unanchored == [i \in Slots |-> None]

GroupOf(p, i) == Cardinality({p.segment[j] : j \in 1..i})
GroupNumbers(p) == 1..GroupOf(p, Len(SlotMs))
Members(p, g) == {i \in Slots : GroupOf(p, i) = g}
SegmentOf(p, g) == p.segment[Least(Members(p, g))]
GroupMs(p, g) == RunMs(Least(Members(p, g)), Greatest(Members(p, g)))

\* Segments are used in the order of the source, and every group has room.
ArrangementIsLegal(p) ==
  /\ \A i \in Slots \ {1} : p.segment[i - 1] <= p.segment[i]
  /\ \A g \in GroupNumbers(p) : GroupMs(p, g) <= SegmentMs[SegmentOf(p, g)]

\* The answers a full arrangement may get.
Arrangements(unavailable) ==
  {p \in [segment: [Slots -> Segments \ unavailable],
          contents: {[i \in Slots |-> CHOOSE c \in Contents : TRUE]},
          anchor: {Unanchored}, groups: {{}}] : ArrangementIsLegal(p)}

(***************************************************************************)
(* The story: an anchored slot shows the picture of its passage, the slots *)
(* between two anchors of a group form a planning group with a window of   *)
(* the source of its own.                                                  *)
(***************************************************************************)
AnchorStart(p, i) == PassageAt[p.anchor[i]]
AnchorEnd(p, i) == PassageAt[p.anchor[i]] + SlotMs[i]
Anchored(p) == {i \in Slots : p.anchor[i] # None}
AnchorsBefore(p, i) == {j \in Anchored(p) : j < i /\ GroupOf(p, j) = GroupOf(p, i)}
AnchorsAfter(p, i) == {j \in Anchored(p) : j > i /\ GroupOf(p, j) = GroupOf(p, i)}

\* Mutant: the slots after an anchor may use the source from its start on.
PlanningGroupOverAnchor(p, i) ==
  LET before == AnchorsBefore(p, i)
      after == AnchorsAfter(p, i)
      members == {j \in Members(p, GroupOf(p, i)) :
                    /\ before = {} \/ j > Greatest(before)
                    /\ after = {} \/ j < Least(after)}
      earlier == {j \in Members(p, GroupOf(p, i)) \ Anchored(p) :
                    j < Least(members) /\ (j + 1) \in Anchored(p)}
  IN [id |-> <<GroupOf(p, i), Cardinality(earlier) + 1>>,
      members |-> members,
      segment |-> p.segment[i],
      start |-> IF before = {} THEN SegmentStart[p.segment[i]]
                ELSE AnchorStart(p, Greatest(before)),
      end |-> IF after = {} THEN SegmentEnd(p.segment[i])
              ELSE AnchorStart(p, Least(after))]

\* The planning group of the slot i that has no anchor.
PlanningGroupOf(p, i) ==
  LET before == AnchorsBefore(p, i)
      after == AnchorsAfter(p, i)
      members == {j \in Members(p, GroupOf(p, i)) :
                    /\ before = {} \/ j > Greatest(before)
                    /\ after = {} \/ j < Least(after)}
      earlier == {j \in Members(p, GroupOf(p, i)) \ Anchored(p) :
                    j < Least(members) /\ (j + 1) \in Anchored(p)}
  IN [id |-> <<GroupOf(p, i), Cardinality(earlier) + 1>>,
      members |-> members,
      segment |-> p.segment[i],
      start |-> IF before = {} THEN SegmentStart[p.segment[i]]
                ELSE AnchorEnd(p, Greatest(before)),
      end |-> IF after = {} THEN SegmentEnd(p.segment[i])
              ELSE AnchorStart(p, Least(after))]

PlanningGroups(p) == {PlanningGroupOf(p, i) : i \in Slots \ Anchored(p)}
LaidOut(p) == [p EXCEPT !.groups = PlanningGroups(p)]

HasRoom(group) ==
  RunMs(Least(group.members), Greatest(group.members)) <= group.end - group.start

\* The partition layout: pictures inside their segment and in order, and room
\* for every run of slots between them.
LayoutIsLegal(p) ==
  /\ \A i \in Anchored(p) :
       /\ SegmentStart[p.segment[i]] <= AnchorStart(p, i)
       /\ AnchorEnd(p, i) <= SegmentEnd(p.segment[i])
       /\ \A j \in AnchorsBefore(p, i) : AnchorEnd(p, j) <= AnchorStart(p, i)
  /\ \A group \in p.groups : HasRoom(group)

\* A passage is heard from the start of its slot on, over the slots after it.
AnchorsAreLegal(p) ==
  /\ Cardinality(Anchored(p)) <= MaxAnchors
  /\ \A i \in Anchored(p) :
       /\ OutputStart[i] + PassageMs[p.anchor[i]] <= OutputStart[Len(SlotMs) + 1]
       /\ \A j \in Anchored(p) : j < i =>
            /\ p.anchor[j] # p.anchor[i]
            /\ OutputStart[j] + PassageMs[p.anchor[j]] <= OutputStart[i]
            /\ AnchorEnd(p, j) <= AnchorStart(p, i)
  /\ LayoutIsLegal(p)

Stories(p) ==
  {q \in {LaidOut([p EXCEPT !.anchor = a]) : a \in [Slots -> Passages \cup {None}]} :
     AnchorsAreLegal(q)}

(***************************************************************************)
(* The repair of an arrangement: the groups to redesign and the answers    *)
(* the redesign accepts.                                                   *)
(***************************************************************************)
\* The earliest time slot i can end, the anchors before it where they are.
EarliestEnd(p) ==
  LET end[i \in Slots] ==
        IF p.anchor[i] # None THEN AnchorEnd(p, i)
        ELSE SlotMs[i] + (IF i # 1 /\ GroupOf(p, i - 1) = GroupOf(p, i)
                          THEN end[i - 1] ELSE SegmentStart[p.segment[i]])
  IN end

\* Mutant: the slots before the first anchor are not counted.
RoomBeforeAnchor(p, g) ==
  LET first == Least(Members(p, g) \cap Anchored(p))
  IN AnchorStart(p, first) - SegmentStart[p.segment[first]]

\* What an anchored group g asks of the groups that may be merged with it: the
\* room before its first anchor, and where in the segment it can end.
PrefixRoom(p, g) ==
  LET first == Least(Members(p, g) \cap Anchored(p))
      start == Least(Members(p, g))
  IN AnchorStart(p, first) - SegmentStart[p.segment[first]]
       - (IF start = first THEN 0 ELSE RunMs(start, first - 1))
EndOffset(p, g) ==
  EarliestEnd(p)[Greatest(Members(p, g))] - SegmentStart[SegmentOf(p, g)]

\* Mutant: the room before an anchor is not checked.
KeepsAnchorPictures(p) ==
  \A i \in Anchored(p) :
    EarliestEnd(p)[Greatest(Members(p, GroupOf(p, i)))] <= SegmentEnd(p.segment[i])

KeepsAnchors(p) ==
  \A i \in Anchored(p) :
    /\ AnchorStart(p, i) >= (IF i # 1 /\ GroupOf(p, i - 1) = GroupOf(p, i)
                             THEN EarliestEnd(p)[i - 1]
                             ELSE SegmentStart[p.segment[i]])
    /\ EarliestEnd(p)[Greatest(Members(p, GroupOf(p, i)))] <= SegmentEnd(p.segment[i])

\* Segments that lie strictly between the neighbours of groups l to r.
SegmentsBetween(p, l, r) ==
  {s \in Segments :
     /\ l > 1 => SegmentOf(p, l - 1) < s
     /\ r + 1 \in GroupNumbers(p) => s < SegmentOf(p, r + 1)}

IsAnchoredGroup(p, g) == Members(p, g) \cap Anchored(p) # {}

\* The segments group g may get when groups l to r are given segments again.
SegmentsFor(p, l, r, g, unavailable) ==
  {s \in SegmentsBetween(p, l, r) \ unavailable :
     IsAnchoredGroup(p, g) => s = SegmentOf(p, g)}

\* What is used of segment s before group g is put there, x the segment of the
\* group before and the part of it that is used; and what is used after that.
UsedBefore(x, s) == IF x[1] = s THEN x[2] ELSE 0
UsedAfter(p, g, used) ==
  IF IsAnchoredGroup(p, g) THEN EndOffset(p, g) ELSE used + GroupMs(p, g)

HasRoomIn(p, g, x, s) ==
  /\ x[1] <= s
  /\ IsAnchoredGroup(p, g) => UsedBefore(x, s) <= PrefixRoom(p, g)
  /\ UsedAfter(p, g, UsedBefore(x, s)) <= SegmentMs[s]

\* Whether groups l to r can be given segments again: the pairs of a segment
\* and the part of it that is used, group by group.
Assignments(p, l, r, unavailable) ==
  LET states[g \in (l - 1)..r] ==
        IF g = l - 1 THEN {<<0, 0>>}
        ELSE UNION {{<<s, UsedAfter(p, g, UsedBefore(x, s))>> :
                       x \in {y \in states[g - 1] : HasRoomIn(p, g, y, s)}} :
                      s \in SegmentsFor(p, l, r, g, unavailable)}
  IN states
Assignable(p, l, r, unavailable) == Assignments(p, l, r, unavailable)[r] # {}

\* The maximal runs <<l, r>> of a set of group numbers.
WindowsOf(W) ==
  {w \in W \X W : /\ w[1] <= w[2] /\ w[1]..w[2] \subseteq W
                  /\ w[1] - 1 \notin W /\ w[2] + 1 \notin W}

\* Around each run of failed groups, the least window that can be assigned;
\* where none can, all the groups up to the next failed ones.
FirstWindows(p, failed, unavailable) ==
  LET around(w) ==
        LET left == {g \in failed : g < w[1]}
            right == {g \in failed : g > w[2]}
            minLeft == IF left = {} THEN 1 ELSE Greatest(left) + 1
            maxRight == IF right = {} THEN GroupOf(p, Len(SlotMs)) ELSE Least(right) - 1
            widened(e) == <<IF w[1] - e < minLeft THEN minLeft ELSE w[1] - e,
                            IF w[2] + e > maxRight THEN maxRight ELSE w[2] + e>>
            enough == {e \in 0..Len(SlotMs) :
                         Assignable(p, widened(e)[1], widened(e)[2], unavailable)}
        IN widened(IF enough = {} THEN Len(SlotMs) ELSE Least(enough))
  IN UNION {around(w)[1]..around(w)[2] : w \in WindowsOf(failed)}

\* Windows that cannot be assigned grow and merge until all can be; no groups
\* when one that covers the whole arrangement cannot.
RepairWindow(p, failed, unavailable) ==
  LET grown(W) == W \cup UNION {(w[1] - 1)..(w[2] + 1) \cap GroupNumbers(p) :
                     w \in {v \in WindowsOf(W) : ~Assignable(p, v[1], v[2], unavailable)}}
      round[n \in 0..Len(SlotMs)] ==
        IF n = 0 THEN FirstWindows(p, failed, unavailable) ELSE grown(round[n - 1])
      last == round[Len(SlotMs)]
  IN IF \A w \in WindowsOf(last) : Assignable(p, w[1], w[2], unavailable)
     THEN last ELSE {}

\* The answers the redesign of the groups of window accepts: whole groups move,
\* between the neighbours that stay, and anchored slots are left as they are.
Moved(p, window, f) ==
  [p EXCEPT !.segment = [i \in Slots |-> IF GroupOf(p, i) \in window THEN f[GroupOf(p, i)]
                                         ELSE p.segment[i]]]

Redesigns(p, window, unavailable) ==
  LET windowOf(g) == CHOOSE w \in WindowsOf(window) : g \in w[1]..w[2]
      moves == {f \in [window -> Segments] : \A g \in window :
                  f[g] \in SegmentsFor(p, windowOf(g)[1], windowOf(g)[2], g, unavailable)}
      rewordings == {c \in [Slots -> Contents] : \A i \in Slots :
                       (GroupOf(p, i) \notin window \/ i \in Anchored(p)) => c[i] = p.contents[i]}
      answers == UNION {{[Moved(p, window, f) EXCEPT !.contents = c] : c \in rewordings} :
                          f \in moves}
  IN {q \in answers : ArrangementIsLegal(q) /\ KeepsAnchors(q)}

(***************************************************************************)
(* The trajectories of a planning group: a start for each of its slots.    *)
(***************************************************************************)
AtLeast(x, low) == IF x < low THEN low ELSE x
AtMost(x, high) == IF x > high THEN high ELSE x

\* The starts the code makes of proposed ones: each proposal moved into the
\* window and past the slot before it, and, if the last one then ends too
\* late, all of them moved back from the end.
Clamped(group, proposed, i) ==
  AtMost(AtLeast(proposed[i], group.start), group.end - SlotMs[i])

Forward(group, proposed) ==
  LET forward[i \in group.members] ==
        IF i = Least(group.members) THEN Clamped(group, proposed, i)
        ELSE AtLeast(Clamped(group, proposed, i), forward[i - 1] + SlotMs[i - 1])
  IN forward

Backward(group, forward) ==
  LET backward[i \in group.members] ==
        AtMost(forward[i], (IF i = Greatest(group.members) THEN group.end
                            ELSE backward[i + 1]) - SlotMs[i])
  IN backward

Normalized(group, proposed) ==
  LET forward == Forward(group, proposed)
      last == Greatest(group.members)
  IN IF forward[last] + SlotMs[last] > group.end THEN Backward(group, forward) ELSE forward

\* Every way to place the slots of a group in its window.
Placements(group) ==
  {Normalized(group, proposed) :
     proposed \in [group.members -> SegmentStart[group.segment]..SegmentEnd(group.segment)]}

\* How many trajectories are asked for: as many as the slack of the window lets
\* differ by a whole slot.
BatchSize(group) ==
  LET slack == group.end - group.start
                 - RunMs(Least(group.members), Greatest(group.members))
      count == 1 + slack \div Greatest({SlotMs[i] : i \in group.members})
  IN IF count < Target THEN count ELSE Target

\* A trajectory: its starts, and the contents its pictures were checked for.
Trajectories(p, group) ==
  {[starts |-> starts, made |-> [i \in group.members |-> p.contents[i]]] :
     starts \in Placements(group)}

GroupIds(p) == {group.id : group \in p.groups}
GroupWithId(p, id) == CHOOSE group \in p.groups : group.id = id

\* Two trajectories use different pictures for slot i.
Apart(t, u, i) ==
  t.starts[i] + SlotMs[i] <= u.starts[i] \/ u.starts[i] + SlotMs[i] <= t.starts[i]

\* What a retrieval may bring for group: trajectories that use different
\* pictures for every slot, or none.
Batches(p, group) ==
  {S \in SUBSET Trajectories(p, group) :
     /\ Cardinality(S) <= BatchSize(group)
     /\ \A t, u \in S : t # u => \A i \in group.members : Apart(t, u, i)}

\* The planning contract of a group: the group, its window and its slots.
Contract(p, id) ==
  LET group == GroupWithId(p, id)
  IN [group |-> group, contents |-> [i \in group.members |-> p.contents[i]]]

TrajectoryFits(group, t) ==
  /\ DOMAIN t.starts = group.members
  /\ \A i \in group.members :
       /\ group.start <= t.starts[i] /\ t.starts[i] + SlotMs[i] <= group.end
       /\ (i + 1) \in group.members => t.starts[i] + SlotMs[i] <= t.starts[i + 1]

\* Mutant: a group is taken for the one that had its number.
ReusableByNumber(p, reuse, failed) ==
  {id \in GroupIds(p) \cap GroupIds(reuse.slots) :
     /\ id \notin failed
     /\ reuse.pool[id] # {}
     /\ \A t \in reuse.pool[id] : TrajectoryFits(GroupWithId(p, id), t)}

\* A group keeps the trajectories of the round before if none of its slots
\* failed and the group, its window and its slots are what they were.
Reusable(p, reuse, failed) ==
  LET failedSlots == UNION {GroupWithId(reuse.slots, id).members :
                              id \in failed \cap GroupIds(reuse.slots)}
  IN {id \in GroupIds(p) \cap GroupIds(reuse.slots) :
        /\ GroupWithId(p, id).members \cap failedSlots = {}
        /\ Contract(p, id) = Contract(reuse.slots, id)
        /\ reuse.pool[id] # {}
        /\ \A t \in reuse.pool[id] : TrajectoryFits(GroupWithId(p, id), t)}

\* One member of every set of a function of sets.
Selections(sets) ==
  {c \in [DOMAIN sets -> UNION {sets[id] : id \in DOMAIN sets}] :
     \A id \in DOMAIN sets : c[id] \in sets[id]}

(***************************************************************************)
(* The composer: trajectories in the order of the slots.                   *)
(***************************************************************************)
\* The start in the source of every slot, when group id takes trajectory
\* choice[id].
Starts(p, choice) ==
  [i \in Slots |-> IF p.anchor[i] # None THEN AnchorStart(p, i)
                   ELSE choice[(CHOOSE g \in p.groups : i \in g.members).id].starts[i]]

IsChronological(starts) ==
  \A i \in Slots \ {1} : starts[i - 1] + SlotMs[i - 1] <= starts[i]

(***************************************************************************)
(* The planning.                                                           *)
(***************************************************************************)
NoReuse == [slots |-> None, pool |-> None]
NoReplan == [scope |-> "none", local |-> 0, reuse |-> NoReuse, pending |-> FALSE]
NoFeedback == [failed |-> {}, unavailable |-> {}]

PlanningInit ==
  /\ phase = "running" /\ rank = 0 /\ attempt = 1
  /\ slots = None /\ pool = None /\ path = None
  /\ replan = NoReplan /\ feedback = NoFeedback
  /\ checkpoint = None /\ resumes = 0

\* Mutant: only what could be reused is dropped.
ClearReuse(r) == [r EXCEPT !.reuse = NoReuse, !.pending = FALSE]

\* clear_scope: nothing to reuse; the repairs made stay counted.
ClearScope(r) == [r EXCEPT !.scope = "none", !.reuse = NoReuse, !.pending = FALSE]

\* A checkpoint holds what the agents up to its stage made; a stage that
\* carries no repair must have none.
SaveBoundary(stage) ==
  checkpoint' = [stage |-> stage, attempt |-> attempt', slots |-> slots',
                 pool |-> IF stage \in {"timeline", "edit"} THEN pool' ELSE None,
                 path |-> IF stage = "edit" THEN path' ELSE None,
                 scope |-> replan'.scope, local |-> replan'.local,
                 reuse |-> IF stage \in {"replan_pending", "story"}
                           THEN replan'.reuse ELSE NoReuse,
                 feedback |-> feedback']

\* The planning ends without a result: only its checkpoint remains.
Abandon(p) ==
  /\ phase' = p
  /\ rank' = 0 /\ attempt' = 1 /\ slots' = None /\ pool' = None /\ path' = None
  /\ replan' = NoReplan /\ feedback' = NoFeedback

\* decide_replan: a group without candidates is repaired while the budget of
\* the planning lasts; anything else starts a new round.
IsLocal(candidateFailure) == candidateFailure /\ replan.local < MaxLocalReplans

HandleAttemptFailure(candidateFailure, failed, static, partial) ==
  \/ /\ ~IsLocal(candidateFailure) /\ attempt >= MaxRounds
     /\ Abandon("failed")
     /\ UNCHANGED <<checkpoint, resumes>>
  \/ /\ IsLocal(candidateFailure) \/ attempt < MaxRounds
     /\ feedback' = [failed |-> failed, unavailable |-> feedback.unavailable \cup static]
     /\ IF IsLocal(candidateFailure)
        THEN /\ attempt' = attempt
             /\ pool' = partial
             /\ replan' = [scope |-> "candidate_local", local |-> replan.local + 1,
                           reuse |-> [slots |-> slots, pool |-> partial],
                           pending |-> TRUE]
        ELSE /\ attempt' = attempt + 1
             /\ pool' = None
             /\ replan' = [replan EXCEPT !.scope = "global", !.reuse = NoReuse,
                                         !.pending = FALSE]
     /\ rank' = 0 /\ path' = None
     /\ UNCHANGED <<phase, slots, resumes>>
     /\ SaveBoundary("replan_pending")

\* A new arrangement replaces whatever the rounds before have left.
Arrange ==
  /\ phase = "running" /\ ~replan.pending /\ rank < 1
  /\ slots' \in Arrangements(feedback.unavailable)
  /\ rank' = 1 /\ pool' = None /\ path' = None
  /\ replan' = ClearScope(replan)
  /\ UNCHANGED <<phase, attempt, feedback, resumes>>
  /\ SaveBoundary("arrangement")

\* Nothing can be arranged once every segment that would fit is unavailable:
\* the answers of the model are refused until its retries are used up.
ArrangeFails ==
  /\ phase = "running" /\ ~replan.pending /\ rank < 1
  /\ Arrangements(feedback.unavailable) = {}
  /\ Abandon("failed")
  /\ UNCHANGED <<checkpoint, resumes>>

AnchorStory ==
  /\ phase = "running" /\ rank = 1
  /\ slots' \in Stories([slots EXCEPT !.anchor = Unanchored])
  /\ rank' = 2
  /\ UNCHANGED <<phase, attempt, pool, path, replan, feedback, resumes>>
  /\ SaveBoundary("story")

FailedParents == {id[1] : id \in feedback.failed}
Window == RepairWindow(slots, FailedParents, feedback.unavailable)

\* Mutant: the story of a repaired arrangement is not marked as complete.
RepairWithoutStory ==
  /\ phase = "running" /\ replan.pending /\ Window # {}
  /\ slots' \in {q \in {LaidOut(r) : r \in Redesigns(slots, Window, feedback.unavailable)} :
                   AnchorsAreLegal(q)}
  /\ path' = None
  /\ replan' = [replan EXCEPT !.pending = FALSE]
  /\ UNCHANGED <<phase, rank, attempt, pool, feedback, resumes>>
  /\ SaveBoundary("story")

\* Repair of the failed groups.  The anchors stay, the windows between them are
\* laid out again, and what the round before retrieved may be reused.
RepairGroups ==
  /\ phase = "running" /\ replan.pending /\ Window # {}
  /\ slots' \in {q \in {LaidOut(r) : r \in Redesigns(slots, Window, feedback.unavailable)} :
                   AnchorsAreLegal(q)}
  /\ rank' = 2 /\ path' = None
  /\ replan' = [replan EXCEPT !.pending = FALSE]
  /\ UNCHANGED <<phase, attempt, pool, feedback, resumes>>
  /\ SaveBoundary("story")

\* No window admits a repair.
RepairFails ==
  /\ phase = "running" /\ replan.pending /\ Window = {}
  /\ HandleAttemptFailure(FALSE, feedback.failed, {}, pool)

Retrieved(reusable, batches) ==
  [id \in GroupIds(slots) |-> IF id \in reusable THEN replan.reuse.pool[id] ELSE batches[id]]

\* The scout retrieves for every group that has nothing to reuse.
ScoutWith(batches, static) ==
  LET reusable == IF replan.reuse = NoReuse THEN {}
                  ELSE Reusable(slots, replan.reuse, feedback.failed)
      found == Retrieved(reusable, batches)
      empty == {id \in GroupIds(slots) : found[id] = {}}
  IN IF empty = {}
     THEN /\ static = {}
          /\ pool' = found /\ rank' = 3
          /\ replan' = ClearScope(replan)
          /\ UNCHANGED <<phase, attempt, slots, path, feedback, resumes>>
          /\ SaveBoundary("timeline")
     ELSE /\ static \subseteq {GroupWithId(slots, id).segment : id \in empty}
          /\ HandleAttemptFailure(TRUE, empty, static, found)

\* static: the segments of the groups of which every picture stood still.
Scout ==
  /\ phase = "running" /\ rank = 2
  /\ \E batches \in Selections([id \in GroupIds(slots) |->
                               Batches(slots, GroupWithId(slots, id))]),
        static \in SUBSET {group.segment : group \in slots.groups} :
       ScoutWith(batches, static)

Compose ==
  /\ phase = "running" /\ rank = 3
  /\ path' \in {choice \in Selections(pool) : IsChronological(Starts(slots, choice))}
  /\ rank' = 4
  /\ UNCHANGED <<phase, attempt, slots, pool, replan, feedback, resumes>>
  /\ SaveBoundary("edit")

\* The script and the render plan are made of the path.
CompilePlan ==
  /\ phase = "running" /\ rank = 4
  /\ phase' = "done"
  /\ UNCHANGED <<rank, attempt, slots, pool, path, replan, feedback, checkpoint, resumes>>

\* A stop request, a crash or a model that cannot be reached.
Interrupt ==
  /\ phase = "running"
  /\ Abandon("stopped")
  /\ UNCHANGED <<checkpoint, resumes>>

StageRank(stage) ==
  CASE stage = "replan_pending" -> 0 [] stage = "arrangement" -> 1
    [] stage = "story" -> 2 [] stage = "timeline" -> 3 [] stage = "edit" -> 4

\* The run is retried: the planning goes on after the last saved boundary.
Resume ==
  /\ phase \in {"stopped", "failed"} /\ resumes < MaxResumes
  /\ phase' = "running" /\ resumes' = resumes + 1
  /\ IF checkpoint = None
     THEN UNCHANGED <<rank, attempt, slots, pool, path, replan, feedback>>
     ELSE LET pending == /\ checkpoint.stage = "replan_pending"
                         /\ checkpoint.scope = "candidate_local"
          IN /\ rank' = StageRank(checkpoint.stage)
             /\ attempt' = checkpoint.attempt
             /\ slots' = IF pending THEN checkpoint.reuse.slots ELSE checkpoint.slots
             /\ pool' = IF pending THEN checkpoint.reuse.pool ELSE checkpoint.pool
             /\ path' = checkpoint.path
             /\ replan' = [scope |-> checkpoint.scope, local |-> checkpoint.local,
                           reuse |-> checkpoint.reuse, pending |-> pending]
             /\ feedback' = checkpoint.feedback
  /\ UNCHANGED checkpoint

PlannersStep ==
  Arrange \/ ArrangeFails \/ AnchorStory \/ RepairGroups \/ RepairFails
  \/ Scout \/ Compose \/ CompilePlan

PlanningNext == PlannersStep \/ Interrupt \/ Resume

PlanningSpec == PlanningInit /\ [][PlanningNext]_vars

(***************************************************************************)
(* Properties.                                                             *)
(***************************************************************************)
\* Once the scout is done, every planning group has trajectories, and each of
\* them fits the window and the slots the group has now and was checked for what
\* is asked of those slots now, whatever was repaired or reused before.
PoolFitsPlan ==
  phase = "running" /\ rank >= 3 =>
    /\ DOMAIN pool = GroupIds(slots)
    /\ \A group \in slots.groups :
         /\ pool[group.id] # {}
         /\ \A t \in pool[group.id] :
              /\ TrajectoryFits(group, t)
              /\ t.made = [i \in group.members |-> slots.contents[i]]

\* Whatever trajectories are taken, one of each group, they and the anchors
\* follow each other in the source: the windows of the story leave the composer
\* no dead end, and its failure path is never taken.
EveryChoiceIsChronological ==
  phase = "running" /\ rank >= 3 =>
    \A choice \in Selections(pool) : IsChronological(Starts(slots, choice))

\* The story editor can lay out every redesign the arrangement agent's own
\* validation accepts, with all the anchors where they were.
StoryAcceptsEveryRepair ==
  phase = "running" /\ replan.pending =>
    \A q \in Redesigns(slots, Window, feedback.unavailable) : AnchorsAreLegal(LaidOut(q))

\* A repair window is chosen only if some redesign of it is acceptable: the
\* model is never asked for an answer that does not exist.
RepairWindowAdmitsARepair ==
  phase = "running" /\ replan.pending /\ Window # {} =>
    Redesigns(slots, Window, feedback.unavailable) # {}

\* The checkpoint satisfies what is required of it when it is made and when it
\* is loaded: a repair in it has its failed groups, its budget and the round it
\* reuses; no other checkpoint has any; and its story can be laid out again.
CheckpointIsResumable ==
  checkpoint # None =>
    /\ (checkpoint.scope = "candidate_local") = (checkpoint.reuse # NoReuse)
    /\ checkpoint.scope # "none" => checkpoint.stage \in {"replan_pending", "story"}
    /\ checkpoint.scope = "global" => checkpoint.stage = "replan_pending"
    /\ checkpoint.stage = "replan_pending" => checkpoint.scope # "none"
    /\ checkpoint.reuse # NoReuse =>
         /\ checkpoint.local > 0
         /\ checkpoint.feedback.failed # {}
         /\ checkpoint.feedback.failed \subseteq GroupIds(checkpoint.reuse.slots)
         /\ AnchorsAreLegal(checkpoint.reuse.slots)
    /\ checkpoint.stage \in {"story", "timeline", "edit"} =>
         AnchorsAreLegal(checkpoint.slots)
    /\ checkpoint.path # None => \A id \in DOMAIN checkpoint.pool :
         checkpoint.path[id] \in checkpoint.pool[id]

\* The planning ends: every step of it reaches a later agent, spends a local
\* repair or begins a later round, and of these there are boundedly many.
EveryStepAdvances ==
  [][phase = "running" /\ phase' = "running" =>
       \/ attempt < attempt'
       \/ attempt = attempt' /\ replan.local < replan'.local
       \/ attempt = attempt' /\ replan.local = replan'.local /\ rank < rank']_vars
=============================================================================
