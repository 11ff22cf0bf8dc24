CONSTANTS
    MainUrl = "main"
    OtherUrls = {"x", "y"}
    Hosted <- OneEach
    MaxPresses = 4
    PingServers = {"a", "b"}
    PingIds = {1, 2, 3}
    MaxPending = 1
    MaxListings = 4
    MaxLostPings = 1
    Users = {"on", "off"}
    Offline = {"off"}
    Nameless = {"off"}
    AllRoles <- Roles
    GivenRoles <- RoleLists
    MaxActs = 3
    MaxSlips = 2
SPECIFICATION FairSpec
INVARIANTS
    TokenOfActive
    
    

    
CHECK_DEADLOCK FALSE
