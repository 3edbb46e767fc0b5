SPECIFICATION FairSpec
CONSTANTS
    Addresses = {1, 2, 3, 4}
    Maximum = 3
    Workers = 2
    MaxRuns = 2
    MaxLines = 2
    Budgets <- Each
INVARIANTS TypeOK ScanIsComplete
PROPERTIES CancelStops WorkEnds
CHECK_DEADLOCK FALSE
