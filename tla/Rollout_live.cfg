SPECIFICATION FairSpec
CONSTANTS
    MaxSize = 2
    Revs = {a, b}
    FirstRev = a
    NoRev = NoRev
    Sizes = {1, 2}
    Waits = {TRUE}
    MaxEdits = 1
    MaxCrashes = 1
    MidRolloutEdits = FALSE
    AllowShrink = FALSE
PROPERTIES SettledAtRestart RolloutCompletes
