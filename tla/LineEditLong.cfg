\* A character is inserted before others in a line of N - 1.
CONSTANTS
    Key = {a, b}
    N = 4
    MaxHis = 2
    Older = FALSE
    MaxCmds = 2
    LineRules = {"some", "few"}
    NL = NL
    NUL = NUL
    Guard = Guard
SPECIFICATION LineSpec
CHECK_DEADLOCK FALSE
INVARIANT InBounds
