\* Lines of up to three commands, with redirections; each command needs a process
\* that runs it and a program.  Of five descriptors one goes to no open: a pipe finds
\* its two numbers, unless a failing open has left one.
CONSTANTS
    Lines <- UpToThree
    MaxProc = 8
    MaxFd = 5
    Garbage = {1, NONE}
    Discipline = {"plain", "cd"}
    NONE = NONE
SPECIFICATION FairSpec
INVARIANTS StreamsRight ShellWaits
PROPERTIES LineEnds
CHECK_DEADLOCK FALSE
