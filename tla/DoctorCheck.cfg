SPECIFICATION Spec
CONSTANTS
    Checks = {1, 2, 3}
    Alone = {3}
    MaxEdits = 1
    Dirs = {d1, d2, d3}
    Environments <- MCEnvironments
    EndingsUsed <- MCEndings
    Onlys <- MCOnlys
    Mutants <- MCMutants
    ReferenceRuns = 1
    Kind = "exit-code"
    Requested = 2
    Explicit = FALSE
    MinNum = 4
    MinDen = 5
INVARIANTS RowsAreResults HealthyMeansMeasured ReuseNamesTheMeasurement
SYMMETRY DirSymmetry
CHECK_DEADLOCK FALSE
