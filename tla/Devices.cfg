\* A pipe of three cells, positions modulo 6 so that they wrap, ten bytes; a file of
\* up to two pages, used by a process and its child.
CONSTANTS
    BY2PIPE = 3
    PosMod = 6
    MaxBytes = 10
    Sizes = {1, 3}
    Proc = {p1, p2}
    Desc = {d1}
    Block = {b1, b2}
    BY2PG = 2
    NPages = 2
    Byte = {1, 2}
    FileRules = {"one", "alone", "space"}
    Own = Own
    NONE = NONE
SPECIFICATION DevicesSpec
INVARIANTS BytesIntact ShortOnlyIfClosed
PROPERTIES CallsEnd FileKept
CHECK_DEADLOCK FALSE
