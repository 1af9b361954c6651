CONSTANTS
  A = A
  B = B
  Blank = Blank
  Required <- MCRequired
  Plans <- MCPlans
  Experiments <- MCExperiments
  PlanTrials = 2
  SeedBase = 0
  Unit = 2
  NumTicks = 3
  ZSquared = 4
  Grid = 8
SPECIFICATION Spec
INVARIANTS
  PointsMatchTrials
  FilesApart
  PlanRuns
  ReportsExact
CHECK_DEADLOCK FALSE
