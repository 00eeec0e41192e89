SPECIFICATION Spec
CONSTANTS
    MaxSize = 3
    MaxEdits = 2
    MaxOutages = 2
    MaxLosses = 2
    AllowShrink = TRUE
    LateFailures = TRUE
INVARIANTS TypeOK ReadyUnlessLost OneRing CommitsStaged
