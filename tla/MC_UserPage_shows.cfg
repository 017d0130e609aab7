\* Does a user page always show the user its location names?
CONSTANTS
    me = me
    a = a
    ghost = ghost
    feed = feed
    none = none
    Ids <- MCIds
    Known <- MCKnown
    Me = me
    Feed = feed
    None = none
    MaxMounts = 3
SPECIFICATION Spec
INVARIANT PageShowsRouteUser
CHECK_DEADLOCK FALSE
