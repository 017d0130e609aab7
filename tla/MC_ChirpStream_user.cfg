\* createUserStream: the feed of one user's page (subscription sent on open).
CONSTANTS
    u1 = u1
    u2 = u2
    u3 = u3
    Users <- MCUsers
    Known <- MCKnown
    HasOnOpen = TRUE
    MaxChirps = 4

SPECIFICATION Spec

INVARIANT TypeOK
INVARIANT FeedIsReversedDelivery
PROPERTY ImplementsSubscriber
INVARIANT NoDuplicateFetch

\* Once the server has pushed MaxChirps chirps and every request has
\* settled, the page really is idle.
CHECK_DEADLOCK FALSE
