SPECIFICATION Spec
CONSTANTS
    MaxId = 2
    Retention = 1
    MaxQueue = 1
    Retries = 1
    MaxDelayed = 0
    Limit = 1
    SettingsChoices <- ImmediateOnly
    MaxFailures = 1
    MaxManual = 1
    MaxTests = 1
    MaxCrashes = 0
INVARIANTS
    DeliveredWasAccepted
    OneLiveJob
    QueuedIsLive
    AtMostOnce
    AttemptsCounted
PROPERTIES
    OpenRowsSurvive
    ClearSparesActive
