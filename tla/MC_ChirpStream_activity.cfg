\* createActivityStream: the home feed (no onopen handler, no subscription).
CONSTANTS
    u1 = u1
    u2 = u2
    u3 = u3
    Users <- MCUsers
    Known <- MCKnown
    HasOnOpen = FALSE
    MaxChirps = 4

SPECIFICATION FairSpec

PROPERTY PushedEventuallyShown

\* The feed is idle once the server stops pushing and every request settled.
CHECK_DEADLOCK FALSE
