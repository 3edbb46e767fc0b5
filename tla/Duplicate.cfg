SPECIFICATION Spec
CONSTANTS
    MaxId = 1
    Retention = 1
    MaxQueue = 2
    Retries = 0
    MaxDelayed = 1
    Limit = 1
    SettingsChoices <- OneWebhook
    MaxFailures = 0
    MaxManual = 0
    MaxTests = 0
    MaxCrashes = 0
INVARIANT AtMostOnce
