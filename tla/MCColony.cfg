CONSTANTS
  north = north
  south = south
  Location <- Locations
  NumAgents = 2
  NumTicks = 2
  Programs = {"trial", "demo"}
  Amounts = {"negative", "positive"}
  MaxRuns = 2
SPECIFICATION Spec
INVARIANTS
  TypeOK
  RowsFollowChoices
  ConsensusOnDisk
  FieldFollowsHistory
  LeftOpenByBuildingOnly
CHECK_DEADLOCK FALSE
