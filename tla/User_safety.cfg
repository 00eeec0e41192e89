SPECIFICATION Spec
CONSTANTS
    Objs = {u1, u2}
    Names = {ann, bob}
    NoName = NoName
    GrantLists <- MCTwoLists
    Inherited <- MCInherited
    Width = 2
    CertRefs = {"issuer"}
    NewCert = "usable"
    Workers = 2
    MaxEdits = 3
    MaxOutages = 1
    MaxRestarts = 1
    AllowRename = FALSE
    AllowRecreate = FALSE
SYMMETRY UserSymmetry
INVARIANTS TypeOK SettledMeansProvisioned SecuredBeforeUsers DeletedLeavesNothing
CHECK_DEADLOCK FALSE
