SPECIFICATION FairSpec
CONSTANTS
    Nodes = 2
    Timeout = 2
INVARIANTS TypeOK StalledMeansHeld
PROPERTIES StallIsReported ConditionsCleared
