SPECIFICATION Spec
CONSTANTS
    MaxSize = 3
    Revs = {a, b}
    FirstRev = a
    NoRev = NoRev
    Sizes = {1, 3}
    Waits = {FALSE}
    MaxEdits = 2
    MaxCrashes = 1
    MidRolloutEdits = FALSE
    AllowShrink = TRUE
INVARIANTS TypeOK RestartsCleared NewestOnTop PauseStops IInv
PROPERTY ImplementsRollingRestart
VIEW SafetyView
