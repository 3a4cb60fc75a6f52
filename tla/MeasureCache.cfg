\* Three pairs in batches of two, sharing the baseline cache with siblings.
CONSTANTS
  AlphaInv = 2
  Grid = 4
  Margin = 8
  CountGate = 0
  Pass = Pass
  Fail = Fail
  NoAnswer = NoAnswer
  NoEntry = NoEntry
  Tasks <- TwoTasks
  Repeats = 2
  Cap = 3
  Parallel = 2
  ConsecutiveInfraLimit = 2
  UseCache = TRUE
SPECIFICATION FairSpec
INVARIANTS EvidenceIsTheAnsweredPairs GateCountsOutrightLosses OutageStops
PROPERTIES ImplementsSplitTest Terminates
CHECK_DEADLOCK FALSE
