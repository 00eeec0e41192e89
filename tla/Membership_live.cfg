SPECIFICATION FairSpec
CONSTANTS
    MaxSize = 4
    MaxEdits = 1
    MaxOutages = 1
    MaxLosses = 0
    AllowShrink = FALSE
    LateFailures = FALSE
PROPERTY FormsRing
