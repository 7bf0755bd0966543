CHECK_DEADLOCK FALSE
CONSTANTS
    Vehicles = {car}
    Images = {i1, i2}
    MaxFiles = 2
    Users = {u1, u2}
    Talks <- MCTalks
    Topics = {car}
    Keys = {k1}
    Rooms = {room1, room2}
    Messages = {m1, m2}
    Requests = {r1, r2}
    None = None
SYMMETRY Symmetry
SPECIFICATION ListingChatSpec
INVARIANTS
    ListingTypeOK
    FilesMatchRows
    NoDanglingRow
    AuctionedIsKept
    ChatTypeOK
    OneRoomPerVehicle
    OnlyDisturbedKeysRepeat
    CountersAreExact
