------------------------------ MODULE EnvValue ------------------------------
(***************************************************************************)
(* The table of shell variables of kern/syscall_all.c, with the programs    *)
(* that change it (user/declare.c, user/unset.c) and the shells that read   *)
(* it.  Every system call is one step.                                      *)
(*                                                                         *)
(* A shell passes its identifier to the two programs as a character of      *)
(* their argument list (user/sh.c), and reads variables under the           *)
(* identifier itself.                                                       *)
(***************************************************************************)
EXTENDS Integers

CONSTANTS Name, Value,
          MAX_VALUE_NUM,  \* entries of env_value (128 in the code)
          MaxShells,      \* bound: shells ever started
          CharMod,        \* values of a char (256)
          TableRules,     \* what the users of the shells are assumed to do
          UNSET

\* No two scopes use the same name; no more entries are used than there are.
AllTableRules == {"own names", "few names"}

Index == 0..(MAX_VALUE_NUM - 1)
ShellId == (-(CharMod \div 2))..MaxShells
Entry == [name : Name, value : Value, shell_id : ShellId, mood : BOOLEAN,
          valid : BOOLEAN]

TableConstantsOK ==
    /\ MAX_VALUE_NUM \in Nat \ {0} /\ MaxShells \in Nat
    /\ CharMod \in Nat \ {0} /\ CharMod % 2 = 0
    /\ TableRules \subseteq AllTableRules
    /\ UNSET \notin Entry \cup [value : Value, mood : BOOLEAN]

ASSUME TableConstantsAssumption == TableConstantsOK

VARIABLES env_value,      \* the table
          env_value_num,  \* entries in use
          shell_num,      \* the next shell's identifier
          table_overrun   \* an entry behind the table has been written

tableVars == <<env_value, env_value_num, shell_num, table_overrun>>

Shell == 1..(shell_num - 1)

TableTypeOK ==
    /\ env_value \in [Index -> Entry \cup {UNSET}]
    /\ env_value_num \in Nat
    /\ \A i \in Index : i < env_value_num <=> env_value[i] # UNSET
    /\ shell_num \in 1..(MaxShells + 1)
    /\ table_overrun \in BOOLEAN

TableInit ==
    /\ env_value = [i \in Index |-> UNSET]
    /\ env_value_num = 0
    /\ shell_num = 1
    /\ table_overrun = FALSE

-----------------------------------------------------------------------------

\* Entry i is valid and has this name.
Holds(i, name) == env_value[i] # UNSET /\ env_value[i].valid /\ env_value[i].name = name

\* Entry i is valid and belongs to this shell or to all.
Visible(i, shell_id) == env_value[i] # UNSET /\ env_value[i].valid
                        /\ env_value[i].shell_id \in {shell_id, 0}

\* The loops stop at the first entry that satisfies their condition.
FirstEntry(S) == CHOOSE i \in S : \A j \in S : i <= j

\* (int)s[0] for the string { (char)shellid, 0 }: a signed char.
AsChar(id) == LET c == id % CharMod IN IF 2 * c >= CharMod THEN c - CharMod ELSE c

sys_create_shell_id ==
    /\ shell_num <= MaxShells
    /\ shell_num' = shell_num + 1
    /\ UNCHANGED <<env_value, env_value_num, table_overrun>>

\* Faulty variant: the loop leaves out the first entry.
SameName_from_one(name) == {i \in Index \ {0} : Holds(i, name)}

\* The entries that a declaration would overwrite.
SameName(name) == {i \in Index : Holds(i, name)}

\* An entry of this name is overwritten, whoever declared it, unless it is read-only;
\* otherwise the next entry is used.
sys_declare_env_value(name, value, shell_id, mood) ==
    LET found == SameName(name)
        dec_id == IF found = {} THEN env_value_num ELSE FirstEntry(found)
        entry == [name |-> name, value |-> value, shell_id |-> shell_id, mood |-> mood,
                  valid |-> TRUE]
    IN /\ \A i \in found : i = FirstEntry(found) => ~env_value[i].mood
       /\ "few names" \in TableRules => dec_id \in Index
       /\ ~table_overrun
       /\ env_value' = [i \in Index |-> IF i = dec_id THEN entry ELSE env_value[i]]
       /\ table_overrun' = (dec_id \notin Index)
       /\ env_value_num' = IF dec_id = env_value_num THEN env_value_num + 1
                                                     ELSE env_value_num
       /\ UNCHANGED shell_num

\* declare [-x] [-r] name =value, run by shell s.
declare(s, name, value, x, r) ==
    LET id == IF x THEN 0 ELSE AsChar(s)
    IN /\ "own names" \in TableRules => \A i \in SameName(name) : env_value[i].shell_id = id
       /\ sys_declare_env_value(name, value, id, r)

sys_unset_env_value(name, shell_id) ==
    LET found == {i \in Index : Holds(i, name) /\ Visible(i, shell_id)}
    IN /\ found # {} /\ ~env_value[FirstEntry(found)].mood
       /\ env_value' = [env_value EXCEPT ![FirstEntry(found)].valid = FALSE]
       /\ UNCHANGED <<env_value_num, shell_num, table_overrun>>

\* unset name, run by shell s.
unset(s, name) == sys_unset_env_value(name, AsChar(s))

\* Faulty variant: valid is not looked at.
sys_get_env_value_stale(name, shell_id) ==
    LET found == {i \in Index : env_value[i] # UNSET /\ env_value[i].name = name
                                 /\ env_value[i].shell_id \in {shell_id, 0}}
    IN IF found = {} THEN UNSET ELSE env_value[FirstEntry(found)].value

\* The value that $name has in a shell, UNSET for -E_ENV_VALUE.
sys_get_env_value(name, shell_id) ==
    LET found == {i \in Index : Holds(i, name) /\ Visible(i, shell_id)}
    IN IF found = {} THEN UNSET ELSE env_value[FirstEntry(found)].value

TableNext ==
    \/ sys_create_shell_id
    \/ \E s \in Shell, n \in Name, v \in Value, x, r \in BOOLEAN :
           declare(s, n, v, x, r)
    \/ \E s \in Shell, n \in Name : unset(s, n)

TableSpec == TableInit /\ [][TableNext]_tableVars

-----------------------------------------------------------------------------
(* Properties                                                              *)

\* However often names are declared, unset and declared again, a name has at
\* most one valid entry: sys_get_env_value, sys_unset_env_value and the next
\* declaration, which all take the first they find, mean the same one.
OneEntryPerName ==
    \A i, j \in Index, n \in Name : Holds(i, n) /\ Holds(j, n) => i = j
TableKept == TableTypeOK /\ OneEntryPerName

\* The variables of each scope, as the table has them.
Scoped ==
    [s \in 0..MaxShells |-> [n \in Name |->
        LET found == {i \in Index : Holds(i, n) /\ env_value[i].shell_id = s}
        IN IF found = {} THEN UNSET
           ELSE [value |-> env_value[FirstEntry(found)].value,
                 mood |-> env_value[FirstEntry(found)].mood]]]

Scopes == INSTANCE VarScopes WITH Shells <- 1..MaxShells, store <- Scoped

\* What a shell has declared, for itself or for all, it reads: invalid entries of
\* the same name in front of the new one, and the character that stood for the
\* identifier on the way, make no difference.
DeclareReads ==
    \A s \in Shell, n \in Name, v \in Value, x, r \in BOOLEAN :
        declare(s, n, v, x, r) => sys_get_env_value(n, s)' = v
DeclaredIsRead == [][DeclareReads]_tableVars

\* As long as no name is used in two scopes, the table behaves as one store per
\* shell and one for all, whatever entries are left invalid in between (declare.c,
\* unset.c, syscall_all.c:565-620), and what is declared is read.
ImplementsScopes == Scopes!ScopesSpec /\ DeclaredIsRead

\* No entry is written behind the end of env_value (syscall_all.c:549).
TableBound == ~table_overrun

\* A step never takes away a variable of one shell unless that shell acts on the
\* name itself: a declaration elsewhere leaves it alone.
LocalsKept ==
    [][\A s, t \in Shell, n \in Name, v \in Value, x, r \in BOOLEAN :
           s # t /\ declare(s, n, v, x, r) /\ Scoped[t][n] # UNSET
               => Scoped'[t][n] # UNSET]_tableVars

=============================================================================
