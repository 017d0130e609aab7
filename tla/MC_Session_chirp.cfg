\* Does ChirpForm always post as the user the page shows as logged in?
CONSTANTS
    a = a
    b = b
    none = none
    Ids <- MCIds
    Registered0 <- MCRegistered0
    None <- none
    MaxReqs = 4
    MaxMounts = 2

SPECIFICATION Spec

INVARIANT ChirpPostedAsShownUser

\* The page may fall idle once every XHR has settled.
CHECK_DEADLOCK FALSE
