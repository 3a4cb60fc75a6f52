SPECIFICATION Spec
CONSTANTS
  Items <- MCItems
  Gold <- MCGold
  Positions = {"c1", "c2", "c3"}
  MinKappa = 667
  Budget = 30
  Abstain = Abstain
  None = None
  Named = Named
  Harness <- MCHarness
  Resettle <- MCResettle
  Requests <- MCRequests
  Days <- MCDays
  ValidityDays = 30
  Parallel = 1
  MaxJobs = 2
  MaxLive = 1
INVARIANTS ReplayReproduces EvidenceIsItsOwn VerdictFollowsTheAnswers SameCallsRescored WarnedOnTheDay
CHECK_DEADLOCK FALSE
