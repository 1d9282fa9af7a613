\* Two commands, with redirections before a pipe.
CONSTANTS
    Lines <- Piped
    MaxProc = 8
    MaxFd = 5
    Garbage = {1, NONE}
    Discipline = {"cd"}
    NONE = NONE
SPECIFICATION Spec
CHECK_DEADLOCK FALSE
INVARIANT StreamsRight
