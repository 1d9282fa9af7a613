\* User code may destroy an environment that is not on the run queue.
CONSTANTS
    NENV = 3
    NASID = 3
    NULL = NULL
    HEAD = HEAD
    Priorities = {1}
    NBoot = 1
    MaxIds = 3
    Discipline = {"wake_fresh", "suspend_others"}
SPECIFICATION Spec
INVARIANTS SchedListInv
CHECK_DEADLOCK FALSE
