---------------------------- MODULE MCShellJobs -----------------------------
(* ShellJobs for TLC: command lines.                                        *)
EXTENDS ShellJobs

LinesOf(m, cds) == {l \in [1..m -> [in : BOOLEAN, out : BOOLEAN, cd : cds,
                                    sep : {"|", ";", "&", "end"}]] : WellFormed(l)}
Bare(l) == \A k \in 1..Len(l) : ~l[k].in /\ ~l[k].out
InSequence(l) == \A k \in 1..Len(l) : l[k].sep \in {";", "end"}
UpToThree == LinesOf(1, BOOLEAN) \cup LinesOf(2, {FALSE}) \cup {l \in LinesOf(2, BOOLEAN) : Bare(l)}
             \cup {l \in LinesOf(3, {FALSE}) : Bare(l) \/ InSequence(l)}
Piped == {l \in LinesOf(2, {FALSE}) : l[1].sep = "|"}

=============================================================================
