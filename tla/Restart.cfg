SPECIFICATION FairSpec
CONSTANTS
    MaxId = 1
    Retention = 1
    MaxQueue = 2
    Retries = 0
    MaxDelayed = 1
    Limit = 1
    SettingsChoices <- Changing
    MaxFailures = 0
    MaxManual = 0
    MaxTests = 0
    MaxCrashes = 1
PROPERTIES
    ImplementsLedger
    QueuedSettles
    ShutdownCompletes
