CONSTANTS
    me = me
    a = a
    ghost = ghost
    feed = feed
    none = none
    Ids <- MCIds
    Known <- MCKnown
    Me = me
    Feed = feed
    None = none
    MaxMounts = 3
SPECIFICATION FairSpec
INVARIANT TypeOK
PROPERTY ProfileSettles
\* The page may stay idle once every lookup has answered.
CHECK_DEADLOCK FALSE
