CONSTANTS
    missing = missing
    Missing = missing
    MaxTenths = 120000
SPECIFICATION Spec
INVARIANT NearestOnGrid
