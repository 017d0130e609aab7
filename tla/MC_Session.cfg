CONSTANTS
    a = a
    b = b
    none = none
    Ids <- MCIds
    Registered0 <- MCRegistered0
    None <- none
    MaxReqs = 4
    MaxMounts = 2

SPECIFICATION FairSpec

INVARIANT TypeOK
PROPERTY LoadingEnds

\* Once MaxReqs XHRs have been issued and settled the page is idle.
CHECK_DEADLOCK FALSE
