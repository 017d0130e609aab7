CONSTANTS
    t1 = t1
    t2 = t2
    h1 = h1
    h2 = h2
    none = none
    blank = blank
    Tabs <- MCTabs
    Hosts <- MCHosts
    DefaultHost = h1
    None = none
    Blank = blank
    NB = 1
    MaxSnaps = 2
SPECIFICATION Spec
INVARIANT TypeOK
INVARIANT LatestSnapshotShown
PROPERTY ImplementsView
SYMMETRY TabSymmetry
