SPECIFICATION SuiteSpec
CONSTANTS
    Nodes <- MCNodes
    Viable <- MCViable
    Maximum = 2
    Hands <- MCHands
    MaxRuns = 4
INVARIANTS NoDefectTwice DeclaredIsWhole
CHECK_DEADLOCK FALSE
