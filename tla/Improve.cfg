SPECIFICATION ImproveSpec
CONSTANTS
    Passes = {p1, p2}
    Recorded <- MCRecorded
    Existing <- MCExisting
    Answers <- MCAnswers
    Asks <- MCAsks
    EditNumberMax = 2
    MaxHands = 1
    ABSENT = ABSENT
    Torn = Torn
    TestFiles = {}
    Words <- MCWords
    MinRuns = 2
    MinProposers = 1
    SurfaceOf <- MCSurfaceOf
SYMMETRY PassSymmetry
INVARIANTS EvidenceIsEarned SidecarIsItsOwn EditsReferToWhatIsThere
CHECK_DEADLOCK FALSE
