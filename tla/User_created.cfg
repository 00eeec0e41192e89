SPECIFICATION Spec
CONSTANTS
    Objs = {u1}
    Names = {ann, bob}
    NoName = NoName
    GrantLists <- MCTwoLists
    Inherited <- MCInherited
    Width = 2
    CertRefs = {"issuer"}
    NewCert = "usable"
    Workers = 1
    MaxEdits = 2
    MaxOutages = 0
    MaxRestarts = 0
    AllowRename = FALSE
    AllowRecreate = FALSE
INVARIANT NotCreatedMeansAbsent
CHECK_DEADLOCK FALSE
