\* The table, cycles, Auto Refresh, scans, alert boxes, the tray and Exit, all together.
SPECIFICATION FairSpec
CONSTANTS
    Keys = {"k1", "k2"}
    MaxRows = 2
    Files <- OneFile
    Backups <- OneBackup
    MayHide = TRUE
INVARIANTS
    TrackedForCurrentKey
    PromotionStartsUnknown
    UniqueTargets
    OneCycle
    OneTimer
    AutoKeepsGoing
    NoAlertLeftBehind
PROPERTIES
    BackgroundMonitoring
