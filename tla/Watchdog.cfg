SPECIFICATION FairSpec
CONSTANTS
    MaxAttempts = 1
    Cooldown = 1
    MaxFaults = 2
    MaxRefusals = 2
    MaxStarts = 2
CHECK_DEADLOCK FALSE
INVARIANTS
    NotifiedOnce
    QueuedIsHeld
PROPERTIES
    IncidentsEnd
