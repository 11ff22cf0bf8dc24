\* Two clients, two rooms whose ids are not drawn again; two
\* admins; two applicants at one address; two game servers and two visitors.
CONSTANTS
    Account = {a1, a2}
    NoAccount = NoAccount
    RoomId = {r1, r2}
    Global = Global
    LevelId = {l1}
    NoLevel = NoLevel
    Settings <- OneSetting
    DefaultSettings <- MCDefaultSettings
    Protections = {FALSE}
    MaxPerPacket = 3
    FreshIds = TRUE
    Admins = {"a", "b"}
    RoleSets = {{}, {"mod"}}
    MaxUpdates = 3
    MaxFailures = 1
    Applicants = {"a", "b"}
    MaxChallenges = 3
    FlushPeriods = 2
    PageSize = 2
    DeleteBatch = 1
    MaxMessages = 4
    MaxEvents = 2
    GameServers = {"s", "t"}
    Visitors = {"u", "v"}
    MaxRounds = 4
    MaxTroubles = 2
SPECIFICATION BackendSpec
INVARIANTS   
    RefusalHasCause EachRoundOnce
PROPERTIES OwnChallengeRemoved
CHECK_DEADLOCK FALSE
