\* Is every friend link added to the account of the user who asked for it?
CONSTANTS
    a = a
    b = b
    none = none
    Ids <- MCIds
    Registered0 <- MCRegistered0
    None <- none
    MaxReqs = 4
    MaxMounts = 2

SPECIFICATION Spec

INVARIANT FriendRequestForSubmitter

\* The page may fall idle once every XHR has settled.
CHECK_DEADLOCK FALSE
