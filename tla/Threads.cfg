SPECIFICATION ThreadsSpec
CONSTANTS
    Producers = {net, sched}
    TimerThread = sched
    Tasks = {walk, think, save, timed, sigint, sigterm}
    Timed = {timed}
    CloseTasks = {sigint, sigterm}
    Alone = {walk, timed, sigint, sigterm}
    Shared = {walk, think, sigterm}
    ShutdownTask = gameShutdown
    TerminateTask = terminate
    Events = {walk, think, save}
    IdLimit = 2
    NoWait = noWait
    Absent = absent
INVARIANTS
    TypeOK
    DispatchOrder
    NoLostWakeup
    DrainedAtExit
    EventsSafe
PROPERTIES
    Exits
    Implements
    EventsServed
CHECK_DEADLOCK FALSE
