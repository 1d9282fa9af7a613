\* One shell and the two jobs of a pipe; arguments of up to three characters,
\* and buffers that hold a path of two levels.  Two shells, two names, and a table in
\* which a name can be declared again after it was unset.  Lines of up
\* to three characters, and two commands to recall.
CONSTANTS
    Shells = {s1}
    Jobs = {j1, j2}
    Letters = {"a"}
    MaxArg = 3
    PathLen = 6
    MaxCalls = 3
    PathRules = {"alone", "exists", "kept", "plain", "short"}
    Name = {"x", "y"}
    Value = {0, 1}
    MAX_VALUE_NUM = 3
    MaxShells = 2
    CharMod = 8
    TableRules = {"own names", "few names"}
    UNSET = UNSET
    Key = {a, b}
    N = 4
    MaxHis = 2
    Older = FALSE
    MaxCmds = 2
    LineRules = {"room", "some", "few"}
    NL = NL
    NUL = NUL
    Guard = Guard
SPECIFICATION ShellSpec
SYMMETRY Symmetry
INVARIANTS CurPathKept RequestsMeanArgs TableKept LineKept
PROPERTIES ImplementsEditor ImplementsScopes
CHECK_DEADLOCK FALSE
