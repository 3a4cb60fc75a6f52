SPECIFICATION Spec
CONSTANTS
  Labelled <- MCLabelled
  Positions = {"a", "b"}
  People = {"ann", "bea"}
  Versions = {"v1", "v2"}
  Letter <- MCLetter
  Opinion <- MCOpinion
  Rulings <- MCRulings
  MaxPackets = 2
  MaxEdits = 1
  Cards <- MCCards
  Sources <- MCSources
  Requests <- MCRequests
  BuildSets <- MCBuilds
  Given <- MCGiven
  Answers <- MCAnswers
  Scale = 8
  Width <- MCWidth
  MaxPasses = 3
  MaxLive = 2
  Free = Free
  Torn = Torn
  None = None
INVARIANTS HoldoutUsedOnce ScoredOnWhatPeopleJudged
PROPERTY VerdictIsFinal
CHECK_DEADLOCK FALSE
