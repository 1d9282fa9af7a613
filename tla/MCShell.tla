------------------------------- MODULE MCShell ------------------------------
(***************************************************************************)
(* What a shell keeps for its user, for TLC: the current path (CurPath),    *)
(* the line being edited and the history (LineEdit), and the variables      *)
(* (EnvValue).  They share no state; a behaviour is about one of them, and  *)
(* the variables of the others keep their first values.                     *)
(***************************************************************************)
EXTENDS CurPath, EnvValue, LineEdit, TLC

VARIABLE about       \* the part this behaviour is about

ShellInit == PathInit /\ LineInit /\ TableInit /\ about \in {"path", "line", "values"}

ShellNext ==
    \/ about = "path" /\ PathNext /\ UNCHANGED <<about, lineVars, tableVars>>
    \/ about = "line" /\ LineNext /\ UNCHANGED <<about, pathVars, tableVars>>
    \/ about = "values" /\ TableNext /\ UNCHANGED <<about, pathVars, lineVars>>

ShellSpec == ShellInit /\ [][ShellNext]_<<about, pathVars, lineVars, tableVars>>

\* No key is told apart from another.
Symmetry == Permutations(Key)

=============================================================================
