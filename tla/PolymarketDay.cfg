SPECIFICATION Spec
CONSTANTS
  One = 20
  Tolerance = 1
  LowLiquidity = 2
  CategoryTags <- MCCategoryTags
  Excluded = {"sports"}
  MinVolume = 1
  MinLiquidity = 1
  MoveFloor = 1
  CandidateLimit = 2
  SpotlightLimit = 2
  NoValue = NoValue
  EconTags = {"fed"}
  GeoTags = {"war"}
  BriefGroups <- MCBriefGroups
  Events = {"race", "rate"}
  Contents <- MCContents
  SlotsPerDay = 2
  QuietSlots = {1}
  RefreshBudget = 2
  NeuronBudget = 2
  Costs = {1, 2}
  MaxBatches = 1
  MinEvents <- MCMinEvents
  KeptGenerations = 2
  OldBrief <- MCOldBrief
  MaxSlot = 2
  MaxKills = 1
CHECK_DEADLOCK FALSE
INVARIANTS
  SpotlightTellsTheTruth
  
  CarriedTextIsHonest
  BudgetsHold
