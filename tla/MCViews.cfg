SPECIFICATION ViewFairSpec
CONSTANTS
    Vehicles = {v1}
    Requests = {r1, r2}
    Flushes = {f1, f2}
    MaxViews = 3
    None = None
INVARIANTS
    ViewTypeOK
    ViewsAreCounted
PROPERTIES
    CountersAreFlushed
CHECK_DEADLOCK FALSE
