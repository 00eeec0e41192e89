SPECIFICATION FairSpec
CONSTANTS
    Pods = {0}
    Specs <- MCSpecs
    Entries = {"e1"}
    Contents <- MCContents
    Starts <- MCStarts
    Issuers = {"a", "b"}
    OwnCAs = {"own"}
    Missing = Missing
    Keyless = Keyless
    NoTemplate = NoTemplate
    NoSpec = NoSpec
    MaxEdits = 2
    MaxUpsets = 1
INVARIANTS TypeOK VolumesInPlace BundleHasOwnCA
PROPERTIES ObjectsConverge DeletionLeavesNothing
CHECK_DEADLOCK FALSE
