\* A level with others keeps pushing player data while the connection is lost.
CONSTANTS
    MaxTasks = 1
    MaxCalls = 2
SPECIFICATION FairSpec
PROPERTY LossNoticed
CHECK_DEADLOCK FALSE
