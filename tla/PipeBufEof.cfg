\* The smallest pipe on which a reader can see the end of file too early.
CONSTANTS
    BY2PIPE = 2
    PosMod = 4
    MaxBytes = 3
    Sizes = {1, 3}
SPECIFICATION Spec
INVARIANTS EofMeansDrained
CHECK_DEADLOCK FALSE
