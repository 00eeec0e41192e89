SPECIFICATION FairSpec
CONSTANTS
    Retries = 3
    Keep = 2
    Rings <- MCRings
    MaxRewrites = 2
    MaxFailures = 3
INVARIANTS TypeOK OnlyUnderFQDN BootsFromOwnRing
PROPERTIES MembershipKept ComesUp
CHECK_DEADLOCK FALSE
