------------------------------ MODULE EditLine ------------------------------
(***************************************************************************)
(* What the shell's line editor promises: a line with a cursor, and the     *)
(* commands entered before, which the up and down keys recall.  The line    *)
(* that was being typed comes back below the last of them.                  *)
(***************************************************************************)
EXTENDS Naturals, Sequences, SequencesExt

CONSTANTS Char, Room   \* a line has fewer than Room characters

VARIABLES text, cursor,
          hist,     \* commands entered
          pos,      \* the command shown, Len(hist) for the line being typed
          typed,    \* that line, while a command is shown
          lost      \* the line got too long and is thrown away

vars == <<text, cursor, hist, pos, typed, lost>>

Init ==
    /\ text = <<>> /\ cursor = 0 /\ hist = <<>> /\ pos = 0 /\ typed = <<>> /\ lost = FALSE

Insert(c) ==
    /\ ~lost
    /\ IF Len(text) + 1 < Room
       THEN /\ text' = InsertAt(text, cursor + 1, c)
            /\ cursor' = cursor + 1 /\ lost' = FALSE
       ELSE text' = <<>> /\ cursor' = 0 /\ lost' = TRUE
    /\ UNCHANGED <<hist, pos, typed>>

Erase ==
    /\ ~lost /\ cursor > 0
    /\ text' = RemoveAt(text, cursor) /\ cursor' = cursor - 1
    /\ UNCHANGED <<hist, pos, typed, lost>>

Move(to) ==
    /\ ~lost /\ to \in 0..Len(text)
    /\ cursor' = to
    /\ UNCHANGED <<text, hist, pos, typed, lost>>

Show(p) ==
    /\ ~lost /\ p \in 0..Len(hist) /\ Len(hist) > 0
    /\ pos' = p
    /\ typed' = IF pos = Len(hist) THEN text ELSE typed
    /\ text' = IF p = Len(hist) THEN typed' ELSE hist[p + 1]
    /\ cursor' = Len(text')
    /\ UNCHANGED <<hist, lost>>

Enter ==
    /\ hist' = Append(hist, text)
    /\ pos' = Len(hist) + 1 /\ text' = <<>> /\ cursor' = 0
    /\ typed' = <<>> /\ lost' = FALSE

Next ==
    \/ \E c \in Char : Insert(c)
    \/ Erase
    \/ \E to \in {cursor - 1, cursor + 1} : Move(to)
    \/ \E p \in {pos, pos - 1, pos + 1} : Show(p)
    \/ Enter

Spec == Init /\ [][Next]_vars

=============================================================================
