\* Two items, two cards, any number of passes.
CONSTANTS
  Dev <- OneItem
  Known <- OneKnown
  Rest <- NoItems
  Cards <- AllCards
  Versions = {"before", "after"}
  Nothing = Nothing
  Longest = 8
SPECIFICATION FairSpec
INVARIANTS FailuresAreSpread StepsRecordedOnce JournalIsOneMeasurement AskedInItsCondition
PROPERTIES ReusedItemsStayPaired ReportSaysWhatIsMissing ResumedTrialEnds
CHECK_DEADLOCK FALSE
