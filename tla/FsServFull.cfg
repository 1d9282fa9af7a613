\* A second file is opened while the only entry of the table is in use.
CONSTANTS
    Client = {c1, c2}
    First = {c1}
    FileSet = {f, g}
    MAXOPEN = 1
    MAXFD = 3
    IdSign = 16
    MaxCalls = 4
    Discipline = {"memory", "tables"}
    NONE = NONE
SPECIFICATION FairSpec
PROPERTY RequestsAnswered
CHECK_DEADLOCK FALSE
