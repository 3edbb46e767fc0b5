SPECIFICATION Spec
CONSTANTS
    k1 = k1
    k2 = k2
    a = a
    b = b
    Keys = {k1, k2}
    Labels = {a, b}
    Files <- OneFile
    Imports <- TwoImports
    MaxImports = 2
    MaxFailures = 2
    MaxEdits = 1
    MaxKills = 1
INVARIANTS TypeOK SafetyFirst OutcomeIsTrue
