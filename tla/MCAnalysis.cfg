CONSTANTS
  NumTrials = 3
  MinConverged = 2
  DemoAgents = 2
  DemoTicks = 2
  MaxRuns = 3
SPECIFICATION Spec
INVARIANTS
  ReturnedComplete
  WrittenInOrder
  SweepArtifactsAgree
CHECK_DEADLOCK FALSE
