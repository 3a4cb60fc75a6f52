\* Both splits and the calibration, pairs two at a time.
CONSTANTS
  AlphaInv = 1
  Grid = 4
  Margin = 12
  CountGate = 0
  Pass = Pass
  Fail = Fail
  NoAnswer = NoAnswer
  Tasks <- Suite
  Repeats = 1
  Cap = 3
  AAPairs = 5
  Parallel = 2
  ConsecutiveInfraLimit = 2
SPECIFICATION Spec
INVARIANTS FinishedRunReplays PromotionStandsOnTheRows CalibrationIsBalanced
CHECK_DEADLOCK FALSE
