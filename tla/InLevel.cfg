\* Two other players, datagrams in any order, profiles asked for again after two
\* updates; two opus frames per packet, and the user waits for the threads
\* between two actions.
CONSTANTS
    Id = {p1, p2}
    ProfileTicks = 2
    RequestAllAbove = 1
    MaxInFlight = 2
    LevelCapacity = 2
    Patient = TRUE
SPECIFICATION FairSpec
INVARIANTS
    TestAudioNotSent
PROPERTIES LeftPlayersRemoved 
