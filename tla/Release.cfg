SPECIFICATION MCSpec
CONSTANTS
  MaxBlocks = 8
  MaxCoreBlocks = 5
  MaxForks = 1
  HouseBlueprints = 1
  GuardBlocks = 1
  Sources = {1, 2}
  Reviewed = 1
  MaxCommits = 2
  MaxFaults = 1
  MaxInterrupts = 1
  Promotes = 4
  BootstrapLength = 2
  WeekLength = 4
  MondayOffset = 1
  LockLength = 12
  BoostGross = 7
  Fee = 5
  Q128 = 4
  MaxActiveBoosts = 2
  CoreVersion = 4
  DeadlineBound = 2
  StageMargin = 2
  Terms = {1, 2}
  Focuses = {"reorgs", "artifacts", "sources", "utility", "terms", "ambient"}
INVARIANTS
  PublishedStateIsFinal
  PublishedReceiptsStand
  PublishedSourceIsDeployed
  CandidateIsProved
  CandidateIsAttributed
  RewardsStayCovered
  AmbientHarmless
PROPERTIES
  RecordsStand
  CanaryOnFinalDeployment
  HonestReleaseOpens
CHECK_DEADLOCK FALSE
