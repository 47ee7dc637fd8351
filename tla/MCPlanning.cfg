CONSTANTS
  None = None
  SlotMs <- ThreeSlots
  SegmentMs <- ThreeSegments
  Passages = {"early", "middle"}
  PassageAt <- At
  PassageMs <- Long
  Contents = {0, 1}
  MaxRounds = 2
  MaxLocalReplans = 1
  MaxAnchors = 2
  Target = 2
  MaxResumes = 1
SPECIFICATION PlanningSpec
INVARIANTS
  PoolFitsPlan
  EveryChoiceIsChronological
  StoryAcceptsEveryRepair
  RepairWindowAdmitsARepair
  CheckpointIsResumable
PROPERTIES
  EveryStepAdvances
CHECK_DEADLOCK FALSE
