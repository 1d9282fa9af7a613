\* Two names, and two more inside a directory; four blocks to give away, so that
\* the disk gets full; files of up to two blocks, one of them through the index.
CONSTANTS
    Name = {"a", "b"}
    NBlocks = 7
    NDIRECT = 1
    NINDIRECT = 2
    FILE2BLK = 2
    BY2BLK = 2
    Sizes = {0, 4}
    Paths <- DeepPaths
    Requests = {"open", "create", "map", "set_size", "close", "remove"}
    Types = {"reg", "dir"}
    MAXOPEN = 1
    MaxCrashes = 0
    Discipline = {"fresh", "kept", "inside", "files", "booted"}
    NoName = ""
SPECIFICATION PowerOnSpec
INVARIANTS ServesSoundly FreeSlotEmpty
CHECK_DEADLOCK FALSE
