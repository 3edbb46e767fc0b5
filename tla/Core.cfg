SPECIFICATION Spec
CONSTANTS
    MaxId = 2
    Retention = 1
    MaxQueue = 2
    Retries = 0
    MaxDelayed = 1
    Limit = 2
    SettingsChoices <- OneWebhook
    MaxFailures = 0
    MaxManual = 0
    MaxTests = 0
    MaxCrashes = 0
INVARIANTS
    OneLiveJob
    QueuedIsLive
    GracefulShutdown
    StopQuiesces
PROPERTIES
    ImplementsLedger
