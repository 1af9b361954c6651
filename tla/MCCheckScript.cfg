CONSTANTS
  MaxTrouble = 3
SPECIFICATION FairScript
INVARIANTS
  OnlyPinnedRuns
  ExitTellsTruth
PROPERTIES
  CacheHeals
