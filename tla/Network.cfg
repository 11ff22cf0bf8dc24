\* Two uses of the menus, tasks one at a time, a server that answers until a session exists.
CONSTANTS
    MaxTasks = 1
    MaxCalls = 2
SPECIFICATION AnsweringSpec
INVARIANTS AgreeAtRest
PROPERTIES ConnectionSettles LossNoticedOutsideLevels SilenceNoticed
CHECK_DEADLOCK FALSE
