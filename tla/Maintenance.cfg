SPECIFICATION Spec
CONSTANTS
    Keys = {"k1", "k2"}
    MaxTime = 2
    MaxWindows = 2
    MaxFlaws = 1
    MaxKills = 1
    Files <- OneList
    Backups <- OneBackup
INVARIANTS
    ActiveIsOpen
    EndedOnce
