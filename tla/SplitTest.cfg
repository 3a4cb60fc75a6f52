\* The published error rate, on a schedule of ten pairs, batches of three.
CONSTANTS
  AlphaInv = 20
  Grid = 4
  Margin = 12
  CountGate = 0
  NPairs = 10
  Parallel = 3
  ConsecutiveInfraLimit = 5
SPECIFICATION TestSpec
INVARIANTS AnytimeValid CertifiedCoversObserved
PROPERTY CountBreachIsFinal
CHECK_DEADLOCK FALSE
