\* Nobody counts the entries.
CONSTANTS
    Name = {x, y}
    Value = {0, 1}
    MAX_VALUE_NUM = 3
    MaxShells = 2
    CharMod = 8
    TableRules = {"own names"}
    UNSET = UNSET
SPECIFICATION TableSpec
INVARIANTS TableBound
CHECK_DEADLOCK FALSE
