CONSTANTS
    LastStage = 2
    PerStage = 2
    Worker = {w1, w2}
    MaxDeaths = 3
    MaxDatagrams = 2
    Viewed = {a, b}
    IconTypes = {cube, ship}
    IconIds = {i1, i2}
SPECIFICATION FairSpec
INVARIANTS PreloadedMeansCached
     ShownOrComing
PROPERTIES LoadingEnds
