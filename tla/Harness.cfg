\* Nine edits over three paths; two jobs, one change by a person.
CONSTANTS
  SurfaceOf <- MCSurfaceOf
  Documents <- MCDocuments
  Headings <- MCHeadings
  Decided <- MCDecided
  Jobs <- MCJobs
  Walk <- MCWalk
  MaxJobs = 2
  MaxChanges = 1
  None = None
SPECIFICATION Spec
INVARIANTS TreeIsTheEdits DifferenceIsOwned RefusedKeepsTheHarness
CHECK_DEADLOCK FALSE
