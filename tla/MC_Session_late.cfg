\* Does a form callback that runs after its form has gone do nothing?
CONSTANTS
    a = a
    b = b
    none = none
    Ids <- MCIds
    Registered0 <- MCRegistered0
    None <- none
    MaxReqs = 4
    MaxMounts = 2

SPECIFICATION Spec

PROPERTY LateFormCallbackIgnored

\* The page may fall idle once every XHR has settled.
CHECK_DEADLOCK FALSE
