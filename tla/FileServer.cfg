\* A client and its child, whose descriptors are copied by fork and dup.  The sizes
\* of the disk and of the image are in MCFileServer.
CONSTANTS
    Client = {c1, c2}
    First = {c1}
    FileSet = {f, g}
    MAXOPEN = 2
    MAXFD = 2
    IdSign = 16
    MaxCalls = 4
    Discipline = {"room", "memory", "tables"}
    NONE = NONE
SPECIFICATION PartsSpec
INVARIANTS OpenFilesKept SoundAfterFailure ImageServes
PROPERTIES RequestsAnswered
CHECK_DEADLOCK FALSE
