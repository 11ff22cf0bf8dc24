CONSTANTS
    OpenRooms = {1}
    ProtectedRooms = {2}
    OwnRooms = {3}
    MaxInputs = 3
    MaxChanges = 1
    MaxFaults = 2
    Levels = {"a", "b", "c"}
    Deleted = {"c"}
    PageSize = 2
    MaxAsks = 3
    MaxMessages = 3
    MaxInvites = 5
    InvitesFrom = "friends"
SPECIFICATION FairSpec
INVARIANTS MenuAgrees
PROPERTIES  
    InvitesDrain
CHECK_DEADLOCK FALSE
