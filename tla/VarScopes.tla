----------------------------- MODULE VarScopes ------------------------------
(***************************************************************************)
(* What the shell's variables promise: every shell has variables of its own *)
(* and sees the global ones (scope 0) beside them.  A read-only variable is *)
(* neither changed nor unset.  EnvValue is shown to implement this.         *)
(***************************************************************************)
EXTENDS Naturals

CONSTANTS Name, Value,
          Shells,       \* identifiers of shells, not 0
          UNSET

Scope == Shells \cup {0}
Var == [value : Value, mood : BOOLEAN]    \* mood: read-only

VARIABLE store

ScopesInit == store = [s \in Scope |-> [n \in Name |-> UNSET]]

Writable(s, n) == store[s][n] = UNSET \/ ~store[s][n].mood

Declare(s, n, x) ==
    /\ Writable(s, n)
    /\ store' = [store EXCEPT ![s][n] = x]

Unset(s, n) ==
    \E scope \in {s, 0} :
        /\ store[scope][n] # UNSET /\ Writable(scope, n)
        /\ store' = [store EXCEPT ![scope][n] = UNSET]

ScopesNext ==
    /\ store' # store
    /\ \E s \in Scope, n \in Name :
           \/ \E x \in Var : Declare(s, n, x)
           \/ Unset(s, n)

ScopesSpec == ScopesInit /\ [][ScopesNext]_store

=============================================================================
