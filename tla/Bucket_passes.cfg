SPECIFICATION FairSpec
CONSTANTS
    Objs = {b1, b2}
    Types = {"default", "t"}
    DefaultType = "default"
    Specs <- MCSpecs
    Int32Max = 3
    Workers = 2
    MaxEdits = 2
    MaxOutages = 1
    MaxRestarts = 1
INVARIANTS TypeOK SettledMeansApplied RecordedIsActive NValReported
PROPERTY GetsServed
CHECK_DEADLOCK FALSE
