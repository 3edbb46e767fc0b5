SPECIFICATION Spec
CONSTANTS
    MaxTime = 3
    MaxEvents = 4
    MaxRefusals = 1
    Retention = 3
INVARIANTS
    RowIsReality
    OutagesAreDowntime
    PruneOnlyForgets
    KnownIsTracked
