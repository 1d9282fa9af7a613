\* Two processes open the file, each with a descriptor of its own.
CONSTANTS
    Proc = {p1, p2}
    Desc = {d1, d2}
    Block = {b1, b2}
    BY2PG = 2
    NPages = 2
    Byte = {1, 2}
    FileRules = {"alone", "space"}
    Own = Own
    NONE = NONE
SPECIFICATION FileSpec
PROPERTY WriteNeverShrinks
