SPECIFICATION ListingSpec
CONSTANTS
    Vehicles = {car}
    Images = {i1, i2}
    Requests = {r1, r2}
    MaxFiles = 1
    None = None
INVARIANT OrdersDiffer
CHECK_DEADLOCK FALSE
