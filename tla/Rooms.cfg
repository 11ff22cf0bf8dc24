\* Three clients, one room id that can be drawn again, one level, fragmented level data.
CONSTANTS
    Account = {a1, a2, a3}
    NoAccount = NoAccount
    RoomId = {r1}
    Global = Global
    LevelId = {l1}
    NoLevel = NoLevel
    Settings <- TwoSettings
    DefaultSettings <- MCDefaultSettings
    Protections = {TRUE, FALSE}
    MaxPerPacket = 1
    FreshIds = FALSE
SPECIFICATION Spec
SYMMETRY Symmetry
INVARIANTS LevelListsWellFormed OwnerIsMember EmptyRoomIsBeingRemoved
