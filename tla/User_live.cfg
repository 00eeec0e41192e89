SPECIFICATION FairSpec
CONSTANTS
    Objs = {u1}
    Names = {ann, bob}
    NoName = NoName
    GrantLists <- MCLists
    Inherited <- MCInherited
    Width = 2
    CertRefs = {"issuer", "external", "none"}
    NewCert = "pending"
    Workers = 1
    MaxEdits = 2
    MaxOutages = 1
    MaxRestarts = 0
    AllowRename = TRUE
    AllowRecreate = TRUE
INVARIANT SettledMeansProvisioned
PROPERTIES DeletionEnds GetsServed CertificateReported
CHECK_DEADLOCK FALSE
