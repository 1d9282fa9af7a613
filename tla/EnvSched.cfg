\* Four slots and three ASIDs, so that slots are reused and sys_exofork fails after
\* env_alloc has renamed its slot; two environments from boot.  Every order of fork,
\* exit, block, wake, suspend and tick that user code keeping the three rules can
\* produce.
CONSTANTS
    NENV = 4
    NASID = 3
    NULL = NULL
    HEAD = HEAD
    Priorities = {2}
    NBoot = 2
    MaxIds = 4
    Discipline = {"destroy_queued", "wake_fresh", "suspend_others"}
SPECIFICATION Spec
INVARIANTS SchedListInv QueueUsable BlockedWhileReceiving CurenvRunnable FreeListExact
PROPERTIES MessageNotOverwritten
CHECK_DEADLOCK FALSE
