SPECIFICATION Spec
CONSTANTS
    MaxSize = 2
    Revs = {a, b, c}
    FirstRev = a
    NoRev = NoRev
    Sizes = {2}
    Waits = {TRUE}
    MaxEdits = 2
    MaxCrashes = 0
    MidRolloutEdits = TRUE
    AllowShrink = FALSE
INVARIANT RestartsCleared
