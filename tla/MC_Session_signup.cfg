\* Does a failed sign-up show an error (spec 7(b))?
CONSTANTS
    a = a
    b = b
    none = none
    Ids <- MCIds
    Registered0 <- MCRegistered0
    None <- none
    MaxReqs = 3
    MaxMounts = 2

SPECIFICATION Spec

PROPERTY SignupFailureReported

\* The page may fall idle once every XHR has settled.
CHECK_DEADLOCK FALSE
