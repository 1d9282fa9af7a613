------------------------------ MODULE LineEdit ------------------------------
(***************************************************************************)
(* The shell's command line (user/sh.c): readline edits a line in a fixed   *)
(* buffer, savecmd appends it to /.history and notes where it ends, gethis  *)
(* cuts a command out of the file again.  One action is the handling of one *)
(* key.  The screen is left out.                                            *)
(***************************************************************************)
EXTENDS Integers, Sequences, FiniteSets, FiniteSetsExt

CONSTANTS Key,         \* characters that can be typed
          N,           \* sizeof buf
          MaxHis,      \* entries of hisoffsets
          Older,       \* whether /.history has a line from before
          MaxCmds,     \* bound: commands entered
          LineRules,   \* what the user is assumed to do
          NL, NUL,
          Guard        \* what is in the cells next to an array

\* "room": no character is inserted before others in a line of N - 1;
\* "some": the up key is used after a command was entered;
\* "few": at most MaxHis commands are entered.
AllLineRules == {"room", "some", "few"}
TypistKeeps(rule, holds) == rule \in LineRules => holds

LineConstantsOK ==
    /\ N \in Nat /\ N > 1 /\ MaxHis \in Nat \ {0} /\ MaxCmds \in Nat
    /\ Key # {} /\ {NL, NUL, Guard} \cap Key = {}
    /\ NL # NUL /\ NL # Guard /\ NUL # Guard
    /\ LineRules \subseteq AllLineRules /\ Older \in BOOLEAN

ASSUME LineConstantsAssumption == LineConstantsOK

VARIABLES buf,         \* the shell's buffer, with the cells before and behind it
          len, cursor, \* readline's len and i
          index,       \* the history line shown
          curcmd,      \* the line that was being typed
          skipping,    \* the line was too long, the rest is thrown away
          history,     \* the file /.history
          hisinit, hislen, hisoffsets

lineVars == <<buf, len, cursor, index, curcmd, skipping, history, hisinit, hislen, hisoffsets>>

Cells == -1..N
Text == [k \in 1..len |-> buf[k - 1]]

LineTypeOK ==
    /\ buf \in [Cells -> Key \cup {NUL, Guard}]
    /\ len \in 0..(N - 1) /\ cursor \in 0..len
    /\ hislen \in 0..MaxCmds /\ index \in 0..hislen
    /\ curcmd \in Seq(Key) /\ Len(curcmd) < N
    /\ skipping \in BOOLEAN /\ hisinit \in BOOLEAN
    /\ history \in Seq(Key \cup {NL})
    /\ hisoffsets \in [0..MaxHis -> Nat \cup {Guard}]

\* Some line left by an earlier shell.
OldLine == <<CHOOSE c \in Key : TRUE, NL>>

LineInit ==
    /\ buf = [k \in Cells |-> IF k \in {-1, N} THEN Guard ELSE NUL]
    /\ len = 0 /\ cursor = 0 /\ index = 0 /\ curcmd = <<>> /\ skipping = FALSE
    /\ history = IF Older THEN OldLine ELSE <<>>
    /\ hisinit = FALSE /\ hislen = 0
    /\ hisoffsets = [k \in 0..MaxHis |-> IF k = MaxHis THEN Guard ELSE 0]

-----------------------------------------------------------------------------
(* Characters.                                                              *)

\* An ordinary character goes to the cursor; what is behind it moves up, and the
\* cell behind the line is cleared.  When the line is full, the rest of it is read
\* to buf[0] and nothing is left.
insert(c) ==
    /\ ~skipping
    /\ TypistKeeps("room", cursor = len \/ len + 1 < N)
    /\ LET moved == [k \in Cells |-> IF k = cursor THEN c
                                     ELSE IF cursor < len /\ k = len + 1 THEN NUL
                                     ELSE IF k > cursor /\ k <= len THEN buf[k - 1] ELSE buf[k]]
           full == len + 1 >= N
       IN  /\ buf' = IF full THEN [moved EXCEPT ![0] = NUL] ELSE moved
           /\ len' = IF full THEN 0 ELSE len + 1
           /\ cursor' = IF full THEN 0 ELSE cursor + 1
           /\ skipping' = full
    /\ UNCHANGED <<index, curcmd, history, hisinit, hislen, hisoffsets>>

\* Faulty variant: the shift stops one cell early.
backspace_short ==
    /\ ~skipping /\ cursor > 0
    /\ buf' = [k \in Cells |-> IF k = len - 1 THEN NUL
                               ELSE IF k \in (cursor - 1)..(len - 3) THEN buf[k + 1] ELSE buf[k]]
    /\ len' = len - 1 /\ cursor' = cursor - 1
    /\ UNCHANGED <<index, curcmd, skipping, history, hisinit, hislen, hisoffsets>>

\* '\b': the characters from the cursor on move down.
backspace ==
    /\ ~skipping /\ cursor > 0
    /\ buf' = [k \in Cells |-> IF k = len - 1 THEN NUL
                               ELSE IF k \in (cursor - 1)..(len - 2) THEN buf[k + 1] ELSE buf[k]]
    /\ len' = len - 1 /\ cursor' = cursor - 1
    /\ UNCHANGED <<index, curcmd, skipping, history, hisinit, hislen, hisoffsets>>

left_right ==
    /\ ~skipping
    /\ \E d \in {-1, 1} : cursor + d \in 0..len /\ cursor' = cursor + d
    /\ UNCHANGED <<buf, len, index, curcmd, skipping, history, hisinit, hislen, hisoffsets>>

-----------------------------------------------------------------------------
(* History.                                                                 *)

\* gethis(k, b): the bytes from the end of line k - 1 to the end of line k, the
\* last of them replaced by a zero.
gethis(k, b) ==
    LET start == IF k = 0 THEN 0 ELSE hisoffsets[k - 1]
        cmdlen == hisoffsets[k] - start
    IN  [c \in Cells |-> IF c = cmdlen - 1 THEN NUL
                         ELSE IF c >= 0 /\ c < cmdlen THEN history[start + c + 1] ELSE b[c]]

strlen(b) == Min({k \in 0..N : b[k] \in {NUL, Guard}})

\* The buffer is shown with the cursor at its end.
Shown(b) == buf' = b /\ len' = strlen(b) /\ cursor' = strlen(b)

\* The up key.  Without the file gethis ends the shell.
up ==
    /\ ~skipping /\ history # <<>>
    /\ TypistKeeps("some", hislen > 0)
    /\ LET b == IF index = hislen THEN [buf EXCEPT ![len] = NUL] ELSE buf
           k == IF index > 0 THEN index - 1 ELSE index
       IN  /\ curcmd' = IF index = hislen THEN Text ELSE curcmd
           /\ index' = k
           /\ Shown(gethis(k, b))
    /\ UNCHANGED <<skipping, history, hisinit, hislen, hisoffsets>>

down ==
    /\ ~skipping /\ index < hislen
    /\ index' = index + 1
    /\ IF index = hislen - 1
       THEN Shown([k \in Cells |-> IF k \in 0..(Len(curcmd) - 1) THEN curcmd[k + 1]
                                   ELSE IF k = Len(curcmd) THEN NUL ELSE buf[k]])
       ELSE Shown(gethis(index + 1, buf))
    /\ UNCHANGED <<curcmd, skipping, history, hisinit, hislen, hisoffsets>>

\* Faulty variant: the end of the next line is noted too.
savecmd_twice(s) ==
    /\ history' = history \o s \o <<NL>>
    /\ hisinit' = TRUE /\ hislen' = hislen + 1
    /\ hisoffsets' = [k \in 0..MaxHis |->
                        IF k \in {hislen, hislen + 1}
                        THEN (IF hisinit THEN hisoffsets[hislen - 1] ELSE 0) + Len(s) + 1
                        ELSE hisoffsets[k]]

\* savecmd: the line is appended to the file; its end is counted from the end of
\* the line before, for the first one from 0.
savecmd(s) ==
    /\ history' = history \o s \o <<NL>>
    /\ hisinit' = TRUE /\ hislen' = hislen + 1
    /\ hisoffsets' = [hisoffsets EXCEPT ![hislen] =
                        (IF hisinit THEN hisoffsets[hislen - 1] ELSE 0) + Len(s) + 1]

\* '\r' or '\n': the line is saved (and run), and readline begins anew.  A line
\* that was too long is saved as an empty one.
enter ==
    /\ hislen < MaxCmds /\ hislen <= MaxHis
    /\ TypistKeeps("few", hislen < MaxHis)
    /\ savecmd(Text)
    /\ buf' = [buf EXCEPT ![len] = NUL]
    /\ len' = 0 /\ cursor' = 0 /\ index' = hislen + 1 /\ curcmd' = <<>> /\ skipping' = FALSE

LineNext == (\E c \in Key : insert(c)) \/ backspace \/ left_right \/ up \/ down \/ enter

LineSpec == LineInit /\ [][LineNext]_lineVars

-----------------------------------------------------------------------------
(* Properties.                                                              *)

\* The commands entered since the shell started.
Commands == [k \in 1..hislen |->
               LET start == IF k = 1 THEN 0 ELSE hisoffsets[k - 2]
               IN  SubSeq(history, start + 1, hisoffsets[k - 1] - 1)]

\* The buffer and the history file implement EditLine, a line with a cursor and a list
\* of commands (readline, savecmd, gethis): no key loses or changes a character it
\* should not, whatever the buffer held before, and the keys recall the commands that
\* were entered.
Editor == INSTANCE EditLine WITH Char <- Key, Room <- N, text <- Text, hist <- Commands,
                                 pos <- index, typed <- curcmd, lost <- skipping
ImplementsEditor == Editor!Spec

\* readline and savecmd stay inside buf and hisoffsets (sh.c: "char buf[1024]",
\* "readline(buf, sizeof buf)", "int hisoffsets[128]").
InBounds == buf[-1] = Guard /\ buf[N] = Guard /\ hisoffsets[MaxHis] = Guard

\* Once a command was saved, hislen counts the lines of the file and hisoffsets
\* are where they end (sh.c: "lines of .history", "offset of lines in .history").
HistoryTold ==
    LET ends == {k \in 1..Len(history) : history[k] = NL} IN
    hisinit => /\ hislen = Cardinality(ends)
               /\ {hisoffsets[k] : k \in 0..(hislen - 1)} = ends

\* LineEdit: readline and savecmd stay inside buf and hisoffsets (sh.c: "char buf[1024]",
\* "int hisoffsets[128]"), and hisoffsets are where the lines of /.history end.
LineKept == LineTypeOK /\ InBounds /\ HistoryTold

=============================================================================
