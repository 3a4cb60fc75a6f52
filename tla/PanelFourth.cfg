SPECIFICATION Spec
CONSTANTS
  Items <- OneItem
  Gold <- OneGold
  Positions = {"c1", "c2", "c3"}
  MinKappa = 667
  Budget = 30
  Abstain = Abstain
  None = None
  Named = Named
  Harness <- OneHarness
  Resettle <- MCResettle
  Requests <- OneRequest
  Days <- OneDay
  ValidityDays = 30
  Parallel = 1
  MaxJobs = 4
  MaxLive = 1
INVARIANTS OneInForce
CHECK_DEADLOCK FALSE
