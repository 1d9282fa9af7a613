\* Three environments of two priorities, no slot reused: the order in which
\* they run, and liveness under a ticking timer.
CONSTANTS
    NENV = 3
    NASID = 3
    NULL = NULL
    HEAD = HEAD
    Priorities = {1, 2}
    NBoot = 2
    MaxIds = 3
    Discipline = {"destroy_queued", "wake_fresh", "suspend_others"}
SPECIFICATION FairSpec
PROPERTIES ImplementsRoundRobin FairTurns
CHECK_DEADLOCK FALSE
