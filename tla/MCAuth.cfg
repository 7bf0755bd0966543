CONSTANTS
    Phones = {u1}
    Users = {u1}
    Requests = {r1, r2}
    Codes = {c1, c2}
    None = None
    MaxOtpAttempts = 2
    MaxOtpRequests = 2
    LastSecond = 2
SYMMETRY Symmetry
SPECIFICATION AuthSpec
INVARIANTS
    OtpTypeOK
    CachedCodeIsUnused
    AcceptedIsSpent
    SessionTypeOK
    OneHeir
    BlacklistedIsRevoked
PROPERTIES
    RotationKeepsFamilies
