\* Three slots but two ASIDs, page tables with two entries, and so few pages that
\* every allocation can fail.
CONSTANTS
    Page = {p1, p2, p3, p4, p5}
    Space = {s1, s2, s3}
    Pdx = {0}
    Ptx = {0, 1}
    NASID = 2
    TlbSize = 2
    RefMod = 16
    MayWrap = FALSE
    NULL = NULL
    UVPT = UVPT
SYMMETRY Symmetry
SPECIFICATION Spec
INVARIANTS FramesExact TranslationsExact
PROPERTIES LeakOnlyWhenFull
