----------------------------- MODULE ShellJobs ------------------------------
(***************************************************************************)
(* The processes of one command line (user/sh.c: main, runcmd, parsecmd;    *)
(* user/lib/wait.c).  The shell forks a process that parses the line; at    *)
(* |, ; and & it forks again, and every process that has a command spawns   *)
(* it, closes its descriptors and waits.  A process has a table of          *)
(* descriptors; what is modelled of one is what it is open on.  open, pipe, *)
(* fork and dup fail when the numbers or the memory run out, and sh.c tests *)
(* few of them: a process of which an untested call has failed goes on.     *)
(* A child that fork leaves without its code, its stack or the data of an   *)
(* open descriptor is not modelled (ForkCow has fork's untested mappings).  *)
(*                                                                         *)
(* Programs may read a pipe to its end and write more than it holds: such a *)
(* program ends only when nobody can write the pipe it reads, and when the  *)
(* pipe it writes has a program that reads it, or nobody who could.         *)
(* Whoever reads the console blocks all the others until a key is typed     *)
(* (sys_cgetc).                                                             *)
(***************************************************************************)
EXTENDS Naturals, Sequences, FiniteSets

CONSTANTS Lines,       \* command lines
          MaxProc,     \* processes a line may need, after the shell
          MaxFd,       \* MAXFD: descriptors of a process
          Garbage,     \* what p may hold when pipe has not set it
          Discipline,  \* which lines the user is assumed to type
          NONE

\* "plain": a command with a redirection is not followed by |, has not both < and >
\*    unless it is the last, and ; and & do not follow the right side of a pipe;
\* "cd": cd is not the left side of a pipe.
AllRules == {"plain", "cd"}
Ask(rule, holds) == rule \in Discipline => holds

Command == [in : BOOLEAN, out : BOOLEAN, cd : BOOLEAN, sep : {"|", ";", "&", "end"}]

\* A line ends with a command, or with ; or & behind one.
WellFormed(line) == \A k \in 1..Len(line) : line[k].sep \in {"|", "end"} =>
                        (line[k].sep = "end" <=> k = Len(line))
Plain(line) == \A k \in 1..Len(line) :
    /\ (line[k].in \/ line[k].out) => line[k].sep # "|"
    /\ (line[k].in /\ line[k].out) => line[k].sep = "end"
    /\ (k > 1 /\ line[k].sep \in {";", "&"}) => line[k - 1].sep # "|"
CdAlone(line) == \A k \in 1..Len(line) : line[k].cd => line[k].sep # "|"

ASSUME LineAssumption == /\ Lines \subseteq Seq(Command)
                         /\ \A l \in Lines : Len(l) > 0 /\ WellFormed(l)
ASSUME RuleAssumption == Discipline \subseteq AllRules /\ MaxProc \in Nat \ {0}
ASSUME FdAssumption == MaxFd \in Nat /\ MaxFd > 2

Proc == 1..MaxProc
Fd == 0..(MaxFd - 1)
ASSUME GarbageAssumption == Garbage \subseteq Fd \cup {NONE}
Kinds == {"console", "in", "out", "read", "write"}
ASSUME NoneAssumption == NONE \notin Nat /\ NONE \notin Kinds \X Nat

Console == <<"console", 0>>
InFile(k) == <<"in", k>>
OutFile(k) == <<"out", k>>
ReadEnd(k) == <<"read", k>>
WriteEnd(k) == <<"write", k>>

VARIABLES line,   \* the command line
          proc,   \* the processes it needs
          n,      \* how many have been made
          shell,  \* the shell: "wait" until its child has ended, then "prompt"
          reader  \* who sys_cgetc keeps waiting for a key: "nobody", a "program", the "shell"

jobVars == <<line, proc, n, shell>>
vars == <<jobVars, reader>>

Object == Kinds \X (0..Len(line))
Table == [fd : [Fd -> Object \cup {NONE}], lost : BOOLEAN]

\* tab: what the descriptors are open on, and whether an untested open, dup, pipe or
\* mapping of fork has failed in the process or in one it was forked by; ends: p[0] and
\* p[1], NONE for what is no descriptor's number; child, right: whom it waits for.
Closed == [fd |-> [x \in Fd |-> NONE], lost |-> FALSE]
Nobody == [pc |-> "none", k |-> 0, tab |-> Closed, ends |-> <<NONE, NONE>>,
           dup0 |-> FALSE, dup1 |-> FALSE, child |-> 0, right |-> 0]
First == [Nobody EXCEPT !.pc = "begin", !.k = 1,
                        !.tab.fd = [x \in Fd |-> IF x < 2 THEN Console ELSE NONE]]

\* fork does not test its mappings: when there is no memory for the page table of the
\* descriptors, the child has none of them.
Lose(t) == [t EXCEPT !.lost = TRUE]
Copies(t) == {t, Lose(Closed)}

JobsTypeOK ==
    /\ line \in Lines /\ n \in Proc /\ shell \in {"wait", "prompt"}
    /\ proc \in [Proc -> [pc : {"none", "begin", "words", "sep", "left", "right", "next",
                                "spawn", "close", "wait", "program", "gone"},
                          k : 0..(Len(line) + 1), tab : Table,
                          ends : (Fd \cup {NONE}) \X (Fd \cup {NONE}),
                          dup0 : BOOLEAN, dup1 : BOOLEAN,
                          child : 0..MaxProc, right : 0..MaxProc]]
TypeOK == JobsTypeOK /\ reader \in {"nobody", "program", "shell"}

Init ==
    /\ line \in Lines /\ Ask("plain", Plain(line)) /\ Ask("cd", CdAlone(line))
    /\ \E t \in Copies(First.tab) :
         proc = [p \in Proc |-> IF p = 1 THEN [First EXCEPT !.tab = t] ELSE Nobody]
    /\ n = 1 /\ shell = "wait" /\ reader = "nobody"

At(p, label) == proc[p].pc = label
Become(p, r) == proc' = [proc EXCEPT ![p] = r] /\ UNCHANGED <<line, n, shell>>
Gone(p) == p # 0 => At(p, "gone")

\* exit: every descriptor is closed.
Exited == [Nobody EXCEPT !.pc = "gone"]

\* p goes on as r, and a new process as q.
Fork(p, r, q) == /\ n < MaxProc
                 /\ n' = n + 1
                 /\ proc' = [proc EXCEPT ![p] = r, ![n + 1] = q]
                 /\ UNCHANGED <<line, shell>>

-----------------------------------------------------------------------------
(* Descriptors.                                                             *)

Close(t, x) == IF x \in Fd THEN [t EXCEPT !.fd[x] = NONE] ELSE t

\* fd_alloc gives the lowest free number, and never the last one: {} when none is free.
Unused(t) == {x \in Fd : x + 1 \in Fd /\ t.fd[x] = NONE}
fd_alloc(t) == {x \in Unused(t) : \A y \in Unused(t) : x <= y}

\* dup closes the new descriptor once it has found the old one, and then maps the
\* old one's pages, which fails for want of memory and when it has just closed them.
Dups(t, old, new) ==
    IF old \notin Fd \/ t.fd[old] = NONE THEN {Lose(t)}
    ELSE {Lose(Close(t, new))} \cup
         (IF old = new THEN {} ELSE {[t EXCEPT !.fd[new] = t.fd[old]]})

\* What open returns, and the table: a failing open may leave its descriptor.
Opens(t, o) ==
    {<<t, NONE>>}
    \cup {<<[t EXCEPT !.fd[x] = o], IF ok THEN x ELSE NONE>> : x \in fd_alloc(t), ok \in BOOLEAN}

\* dup of what open returned onto b, and close: what < and > do with a file.
Onto(opened, b) == {Close(t, opened[2]) : t \in Dups(opened[1], opened[2], b)}

\* What a failing pipe leaves in p is whatever the stack held.
NoPipe(t) == {<<Lose(t), <<x, y>> >> : x, y \in Garbage}
PipeFrom(t, k, x) ==
    {<<[t EXCEPT !.fd[x] = ReadEnd(k), !.fd[y] = WriteEnd(k)], <<x, y>> >> :
       y \in fd_alloc([t EXCEPT !.fd[x] = ReadEnd(k)])}
Pipes(t, k) == NoPipe(t) \cup UNION {PipeFrom(t, k, x) : x \in fd_alloc(t)}

-----------------------------------------------------------------------------
(* parsecmd.                                                                *)

\* Faulty variant: redirections stay for the commands behind.
parsecmd_kept(p) ==
    /\ At(p, "begin")
    /\ Become(p, IF proc[p].k > Len(line) THEN Exited ELSE [proc[p] EXCEPT !.pc = "words"])

\* A redirection of the command before is undone, 0 from 1 and then 1 from 0.
Undone(r) ==
    UNION {IF r.dup1 THEN Dups(t, 0, 1) ELSE {t} :
             t \in IF r.dup0 THEN Dups(r.tab, 1, 0) ELSE {r.tab}}

\* The entry.  At the end of the line there is no command, and the process exits.
parsecmd(p) ==
    /\ At(p, "begin")
    /\ IF proc[p].k > Len(line) THEN Become(p, Exited)
       ELSE \E t \in Undone(proc[p]) :
              Become(p, [proc[p] EXCEPT !.pc = "words", !.dup0 = FALSE, !.dup1 = FALSE,
                                        !.tab = t])

\* < : a file that cannot be opened ends the process, dup is not tested.
Reading(t, k) ==
    IF ~line[k].in THEN {t}
    ELSE UNION {Onto(o, 0) : o \in {x \in Opens(t, InFile(k)) : x[2] # NONE}}

\* > : the file is opened, or created and opened once more, which is not tested.
Writing(t, k) ==
    IF ~line[k].out THEN {t} ELSE UNION {Onto(o, 1) : o \in Opens(t, OutFile(k))}

\* The words and redirections of a command, < before > : the process exits when the
\* file cannot be opened to read, or can be neither opened to write nor created.
redirect(p) ==
    /\ At(p, "words")
    /\ LET c == line[proc[p].k] IN
       \/ \E r \in Reading(proc[p].tab, proc[p].k) : \E w \in Writing(r, proc[p].k) :
            Become(p, [proc[p] EXCEPT !.pc = "sep", !.dup0 = c.in, !.dup1 = c.out, !.tab = w])
       \/ (c.in \/ c.out) /\ Become(p, Exited)

\* | : a pipe, and a child for the right side.  Neither call is tested: p may hold
\* anything, and without a child the process is the left side all the same.
parse_pipe(p) ==
    /\ At(p, "sep") /\ line[proc[p].k].sep = "|"
    /\ \E made \in Pipes(proc[p].tab, proc[p].k) :
         LET left == [proc[p] EXCEPT !.pc = "left", !.tab = made[1], !.ends = made[2]]
         IN  \/ Become(p, left)
             \/ \E t \in Copies(made[1]) :
                  Fork(p, [left EXCEPT !.right = n + 1],
                          [left EXCEPT !.pc = "right", !.tab = t])

\* dup of one end onto its standard descriptor, and both are closed.
OntoPipe(r, which, b) ==
    {[r EXCEPT !.tab = Close(Close(t, r.ends[1]), r.ends[2]), !.ends = <<NONE, NONE>>] :
       t \in Dups(r.tab, r.ends[which], b)}

pipe_left(p) ==
    /\ At(p, "left")
    /\ \E r \in OntoPipe(proc[p], 2, 1) : Become(p, [r EXCEPT !.pc = "spawn"])

\* Faulty variant: the right side keeps the write end.
pipe_right_open(p) ==
    /\ At(p, "right")
    /\ \E t \in Dups(proc[p].tab, proc[p].ends[1], 0) :
         Become(p, [proc[p] EXCEPT !.pc = "begin", !.k = @ + 1, !.ends = <<NONE, NONE>>,
                                   !.tab = Close(t, proc[p].ends[1])])

pipe_right(p) ==
    /\ At(p, "right")
    /\ \E r \in OntoPipe(proc[p], 1, 0) : Become(p, [r EXCEPT !.pc = "begin", !.k = @ + 1])

\* ; and & : a child runs the command; after ; its end is awaited.  fork is not tested:
\* when it fails, the command is left out.
parse_list(p) ==
    /\ At(p, "sep") /\ line[proc[p].k].sep \in {";", "&"}
    /\ LET on(child) == IF line[proc[p].k].sep = ";"
                        THEN [proc[p] EXCEPT !.pc = "next", !.child = child]
                        ELSE [proc[p] EXCEPT !.pc = "begin", !.k = @ + 1]
       IN  \/ Become(p, on(0))
           \/ \E t \in Copies(proc[p].tab) :
                Fork(p, on(n + 1), [proc[p] EXCEPT !.pc = "spawn", !.child = 0, !.tab = t])

wait_next(p) ==
    /\ At(p, "next") /\ Gone(proc[p].child)
    /\ Become(p, [proc[p] EXCEPT !.pc = "begin", !.k = @ + 1, !.child = 0])

parse_end(p) ==
    /\ At(p, "sep") /\ line[proc[p].k].sep = "end"
    /\ Become(p, [proc[p] EXCEPT !.pc = "spawn"])

-----------------------------------------------------------------------------
(* runcmd.                                                                  *)

\* The program has every descriptor of the process; spawn may fail.  cd is done
\* by the process itself, which then exits.
runcmd(p) ==
    /\ At(p, "spawn")
    /\ \/ /\ line[proc[p].k].cd
          /\ Become(p, Exited)
       \/ /\ ~line[proc[p].k].cd
          /\ \/ Fork(p, [proc[p] EXCEPT !.pc = "close", !.child = n + 1],
                     [Nobody EXCEPT !.pc = "program", !.k = proc[p].k, !.tab = proc[p].tab])
             \/ Become(p, [proc[p] EXCEPT !.pc = "close"])

close_all(p) ==
    /\ At(p, "close")
    /\ Become(p, [proc[p] EXCEPT !.pc = "wait", !.tab.fd = Closed.fd])

\* Faulty variant: the right side of a pipe is not awaited.
wait_exit_left(p) == At(p, "wait") /\ Gone(proc[p].child) /\ Become(p, Exited)

\* wait(child), wait(rightpipe), exit().
wait_exit(p) ==
    /\ At(p, "wait") /\ Gone(proc[p].child) /\ Gone(proc[p].right)
    /\ Become(p, Exited)

main_wait ==
    /\ shell = "wait" /\ Gone(1)
    /\ shell' = "prompt"
    /\ UNCHANGED <<line, proc, n>>

-----------------------------------------------------------------------------
(* Programs.                                                                *)

Has(p, o) == \E x \in Fd : proc[p].tab.fd[x] = o

\* A program that reads all its input and writes much can come to its end.
AtEnd(p) ==
    \A k \in 1..Len(line) :
        /\ proc[p].tab.fd[0] = ReadEnd(k) => \A q \in Proc : ~Has(q, WriteEnd(k))
        /\ proc[p].tab.fd[1] = WriteEnd(k) =>
             \/ \A q \in Proc : ~Has(q, ReadEnd(k))
             \/ \E q \in Proc : At(q, "program") /\ proc[q].tab.fd[0] = ReadEnd(k)

\* A program may also end earlier.
program_exit(p) == At(p, "program") /\ Become(p, Exited)

\* The shell's processes are never blocked for good but in wait.
ShellStep(p) ==
    \/ parsecmd(p) \/ redirect(p) \/ parse_pipe(p) \/ pipe_left(p) \/ pipe_right(p)
    \/ parse_list(p) \/ wait_next(p) \/ parse_end(p)
    \/ runcmd(p) \/ close_all(p) \/ wait_exit(p)

JobsNext == main_wait \/ \E p \in Proc : ShellStep(p) \/ program_exit(p)

\* sys_cgetc blocks everyone: a program that reads the console is in it, and the shell
\* at its prompt.
read_console ==
    /\ reader = "nobody" /\ UNCHANGED jobVars
    /\ \/ shell = "prompt" /\ reader' = "shell"
       \/ /\ \E p \in Proc : At(p, "program") /\ proc[p].tab.fd[0] = Console
          /\ reader' = "program"

key == reader # "nobody" /\ reader' = "nobody" /\ UNCHANGED jobVars

Next ==
    \/ reader = "nobody" /\ JobsNext /\ UNCHANGED reader
    \/ read_console
    \/ key

Spec == Init /\ [][Next]_vars

\* As often as nobody waits for a key, the scheduler lets some process go on that can;
\* a program ends when it can.  Nobody has to type.
GoesOn == main_wait \/ \E p \in Proc : ShellStep(p) \/ (AtEnd(p) /\ program_exit(p))
FairSpec == Spec /\ SF_vars(reader = "nobody" /\ GoesOn /\ UNCHANGED reader)

-----------------------------------------------------------------------------
(* Properties.                                                              *)

\* What the line says a command reads and writes.  Behind | it reads the pipe,
\* before | it writes the pipe ("dup the read end of the pipe onto 0", "dup the
\* write end of the pipe onto 1", sh.c).
Input(k) == IF line[k].in THEN InFile(k)
            ELSE IF k > 1 /\ line[k - 1].sep = "|" THEN ReadEnd(k - 1) ELSE Console
Output(k) == IF line[k].sep = "|" THEN WriteEnd(k)
             ELSE IF line[k].out THEN OutFile(k) ELSE Console

\* Every program runs with the input and output the line gives it, whichever
\* process parsed its command and whatever was redirected before, unless an untested
\* call of sh.c has failed on the way to it.
StreamsRight ==
    \A p \in Proc : (At(p, "program") /\ ~proc[p].tab.lost) =>
        proc[p].tab.fd[0] = Input(proc[p].k) /\ proc[p].tab.fd[1] = Output(proc[p].k)

\* Behind ; a command starts when the one before has ended.
ListInOrder ==
    \A p, q \in Proc : (At(p, "program") /\ At(q, "program") /\ proc[p].k < proc[q].k) =>
        line[proc[p].k].sep # ";"

\* When the shell prompts, only programs behind which there is & still run.
PromptAfterJobs ==
    shell = "prompt" => \A p \in Proc : At(p, "program") => line[proc[p].k].sep = "&"

\* Whichever calls fail, the shell prompts again, unless a program waits for a key for
\* ever; and everything the line started comes to its end, unless the prompt does: no
\* process waits for one that holds the end of a pipe for it.
LineEnds ==
    /\ []<>(reader # "program") => <>(shell = "prompt")
    /\ []<>(reader = "nobody") =>
         <>(shell = "prompt" /\ \A p \in Proc : proc[p].pc \in {"none", "gone"})

\* The shell waits where the line says so: a list runs in order, and the prompt
\* comes after the jobs (parsecmd, runcmd, main).
ShellWaits == TypeOK /\ ListInOrder /\ PromptAfterJobs

=============================================================================
