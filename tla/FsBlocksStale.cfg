\* A directory or an index may get a block that was used before.
CONSTANTS
    Name = {"a", "b"}
    NBlocks = 7
    NDIRECT = 1
    NINDIRECT = 2
    FILE2BLK = 2
    BY2BLK = 2
    Sizes = {0, 4}
    Paths <- DeepPaths
    Requests = {"open", "create", "map", "set_size", "close", "remove"}
    Types = {"reg", "dir"}
    MAXOPEN = 1
    MaxCrashes = 0
    Discipline = {"kept", "inside", "files", "booted"}
    NoName = ""
SPECIFICATION Spec
INVARIANTS NewBlocksEmpty
CHECK_DEADLOCK FALSE
