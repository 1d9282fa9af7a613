\* spawn: two children at a time; two segments and two library pages, so that a
\* failure can come between them.  fork: data, a library page and the stack; two
\* forks.  ELF: two segments of up to two and a half pages, anywhere.  The sizes of
\* PrintFmt are in MCPrograms.
CONSTANTS
    Slot = {s, t}
    NSegs = 2
    NLibs = 2
    MaxFd = 2
    ShortFiles = FALSE
    NONE = NONE
    BadId = BadId
    Env = {a, b}
    Value = {0, 1}
    Zero = 0
    NPages = 3
    Library = {2}
    NFrames = 9
    MaxForks = 2
    MapMayFail = FALSE
    NIL = NIL
    BY2PG = 2
    MaxVa = 5
    MaxSize = 5
    NPhdr = 2
    LinkRules = {"own pages", "full first page"}
    NULL = NULL
    ZeroByte = ZeroByte
SPECIFICATION ProgramsSpec
SYMMETRY Symmetry
INVARIANTS LoadedExactly ForkSafe
PROPERTIES SpawnSound CopiesMemory PrintsRight
CHECK_DEADLOCK FALSE
