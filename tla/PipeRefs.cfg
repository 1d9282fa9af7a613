\* Three environments with two descriptors each; an end is passed on by fork only
\* while nobody else holds it.
CONSTANTS
    Env = {a, b, c}
    NFd = 2
    NONE = NONE
    SharedFork = FALSE
SYMMETRY Symmetry
SPECIFICATION Spec
INVARIANTS AnswerRight AnswerIsSnapshot
CHECK_DEADLOCK FALSE
