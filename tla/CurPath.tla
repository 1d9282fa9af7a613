---------------------------- MODULE CurPath ----------------------------
(***************************************************************************)
(* The current path: one string in the kernel (kern/env.c cur_path), which *)
(* every shell sets (sh.c main and runcmd's cd) and every relative name    *)
(* given to open, create or remove is appended to (user/lib/path.c,        *)
(* file.c).  Between getcwd and the request to the file server, and        *)
(* between cd's look at a directory and its chdir, other jobs run.         *)
(*                                                                         *)
(* Strings are sequences of characters, names have one character, or a dot *)
(* and one.  Of the file tree only the paths and their types are kept.     *)
(***************************************************************************)
EXTENDS Naturals, Sequences, SequencesExt, FiniteSets

CONSTANTS
  Shells,      \* shells, each started by init or by another
  Jobs,        \* processes a shell's line can run at once
  Letters,     \* characters other than "/" and "."
  MaxArg,      \* longest argument of a command
  PathLen,     \* MAX_PATH_LEN, and the size of every path buffer
  MaxCalls,    \* bound on calls of cd, open, create and remove
  PathRules   \* what the user is assumed to do, see AllPathRules

\* "plain": no argument has a component "." or ".." or begins with a dot,
\* except for a leading "./"; "exists": an absolute path given to cd is a
\* directory's; "kept": the directories of the current path, and those a cd
\* is about to enter, are not removed; "short": the current path and an
\* argument fit into a buffer; "alone": the jobs beside a cd use no path
AllPathRules == {"plain", "exists", "kept", "short", "alone"}
UserKeeps(rule, holds) == rule \in PathRules => holds

PathConstantsOK ==
  /\ Shells # {} /\ Jobs # {} /\ PathRules \subseteq AllPathRules
  /\ Letters \cap {"/", "."} = {}
  /\ MaxArg \in Nat \ {0} /\ PathLen \in Nat \ {0, 1} /\ MaxCalls \in Nat

ASSUME PathConstantsAssumption == PathConstantsOK

Char == Letters \cup {"/", "."}
\* The root once more, under a name just too long for the kernel.
Slashes == [i \in 1..PathLen |-> "/"]
Arg == (BoundedSeq(Char, MaxArg) \ {<<>>}) \cup {Slashes}
Caller == Shells \X Jobs
Sh(p) == p[1]

VARIABLES
  tree,        \* the paths that exist, as component sequences, and their types
  cur_path,    \* kern/env.c cur_path
  started,     \* the shells that have begun, in this order
  own,         \* history: the path each shell last set, in main or by a cd
  pc,          \* where each process is
  arg,         \* the argument of its call
  path,        \* its path[128] or dpath[128]
  overrun,     \* history: pathcat has stored behind the end of a buffer
  calls

pathVars == <<tree, cur_path, started, own, pc, arg, path, overrun, calls>>

\* The components of a string, empty ones left out, as skip_slash leaves
\* them out (fs.c:575, 614).
Components(s) ==
  LET starts == {i \in DOMAIN s : s[i] # "/" /\ (i = 1 \/ s[i - 1] = "/")}
      start(k) == CHOOSE i \in starts : Cardinality({j \in starts : j <= i}) = k
      end(i) == CHOOSE j \in i..Len(s) : /\ \A m \in i..j : s[m] # "/"
                                         /\ j = Len(s) \/ s[j + 1] = "/"
  IN [k \in 1..Cardinality(starts) |-> SubSeq(s, start(k), end(start(k)))]

Calls == {"open", "create_reg", "create_dir", "remove"}
InCd == {"cd_open", "cd_stat", "cd_chdir"}

PathTypeOK ==
  /\ tree \in [DOMAIN tree -> {"reg", "dir"}] /\ <<>> \in DOMAIN tree
  /\ cur_path \in Seq(Char) /\ Len(cur_path) < PathLen
  /\ Range(started) \subseteq Shells
  /\ own \in [Shells -> Seq(Char)]
  /\ pc \in [Caller -> {"idle"} \cup Calls \cup InCd]
  /\ arg \in [Caller -> Arg \cup {<<>>}]
  /\ path \in [Caller -> Seq(Char)]
  /\ overrun \in BOOLEAN /\ calls \in 0..MaxCalls

PathInit ==
  /\ tree = [t \in {<<>>} |-> "dir"] /\ cur_path = <<>>
  /\ started = <<>> /\ own = [s \in Shells |-> <<>>]
  /\ pc = [p \in Caller |-> "idle"] /\ arg = [p \in Caller |-> <<>>]
  /\ path = [p \in Caller |-> <<>>]
  /\ overrun = FALSE /\ calls = 0

\* sys_set_cur_path: refuses what is too long, else stores it for everybody.
sys_set_cur_path(s, new) ==
  IF Len(new) >= PathLen
    THEN UNCHANGED <<cur_path, own>>
    ELSE cur_path' = new /\ own' = [own EXCEPT ![s] = new]

\* sh.c main: a shell begins at the root.
main(s) ==
  /\ s \notin Range(started)
  /\ started' = Append(started, s)
  /\ sys_set_cur_path(s, <<"/">>)
  /\ UNCHANGED <<tree, pc, arg, path, overrun, calls>>

\* path.c pathcat: a leading dot takes the character behind it along.  For
\* "." alone the pointer passes the terminator, and any string may lie there.
Rests(suffix) ==
  CASE suffix = <<".">> -> Arg \cup {<<>>}
    [] suffix # <<".">> /\ suffix[1] = "." -> {SubSeq(suffix, 3, Len(suffix))}
    [] OTHER -> {suffix}

\* Faulty variant: the slash is always left out.
pathcat_bare(dir, suffix) == {dir \o rest : rest \in Rests(suffix)}

pathcat(dir, suffix) ==
  {(IF Len(dir) = 1 THEN dir ELSE Append(dir, "/")) \o rest : rest \in Rests(suffix)}

\* The strings that open, create, remove and cd may go on with.
Full(a) == IF a[1] = "/" THEN {a} ELSE pathcat(cur_path, a)

\* What an argument means to its user in a directory.
Means(dir, a) ==
  LET step(at, c) == CASE c = <<".">> -> at
                       [] c = <<".", ".">> -> IF at = <<>> THEN at ELSE Front(at)
                       [] OTHER -> Append(at, c)
  IN FoldLeft(step, IF a[1] = "/" THEN <<>> ELSE dir, Components(a))

PlainArg(a) ==
  LET names == Components(a) IN
  /\ a[1] = "." => Len(a) > 1 /\ a[2] = "/"
  /\ \A i \in DOMAIN names :
       names[i] \in {<<".">>, <<".", ".">>} => i = 1 /\ a[1] = "."

\* The arguments that a user gives.
Given == {a \in Arg : UserKeeps("plain", PlainArg(a))}

Others(p) == Caller \ {p}

\* The processes that can begin a call.
Ready == IF calls = MaxCalls THEN {}
         ELSE {p \in Caller : pc[p] = "idle" /\ Sh(p) \in Range(started)}

\* A process of shell Sh(p) begins a call with argument a: getcwd and
\* pathcat, if the argument is relative (sh.c:334-341, file.c:37-44, 79-83,
\* 275-279).
Begin(p, label, a) ==
  /\ p \in Ready
  /\ UserKeeps("short", a[1] # "/" => \A s \in Full(a) : Len(s) < PathLen)
  /\ pc' = [pc EXCEPT ![p] = label]
  /\ arg' = [arg EXCEPT ![p] = a]
  /\ \E s \in Full(a) :
       /\ path' = [path EXCEPT ![p] = s]
       /\ overrun' = (overrun \/ (a[1] # "/" /\ Len(s) >= PathLen))
  /\ calls' = calls + 1
  /\ UNCHANGED <<tree, cur_path, started, own>>

Free(p) == UserKeeps("alone", \A q \in Others(p) : pc[q] = "idle")

cd(p, a) == a[1] # "/" /\ Free(p) /\ Begin(p, "cd_open", a)

\* An absolute path is set as it is (sh.c:327-331).
cd_absolute(p, a) ==
  /\ a[1] = "/" /\ Free(p)
  /\ UserKeeps("exists", Components(a) \in DOMAIN tree /\ tree[Components(a)] = "dir")
  /\ Begin(p, "cd_chdir", a)

call(p, f, a) ==
  /\ UserKeeps("alone", \A q \in Others(p) : pc[q] \notin InCd)
  /\ Begin(p, f, a)

Leave(p) == /\ pc' = [pc EXCEPT ![p] = "idle"]
            /\ arg' = [arg EXCEPT ![p] = <<>>]
            /\ path' = [path EXCEPT ![p] = <<>>]
Goto(p, label) == pc' = [pc EXCEPT ![p] = label] /\ UNCHANGED <<arg, path>>

Found(p) == Components(path[p]) \in DOMAIN tree

\* cd without an argument (sh.c:320-325).
cd_root(p) ==
  /\ p \in Ready /\ Free(p)
  /\ sys_set_cur_path(Sh(p), <<"/">>)
  /\ calls' = calls + 1
  /\ UNCHANGED <<tree, started, pc, arg, path, overrun>>

\* "Confirm the path exists" (sh.c:343-348).
cd_open(p) ==
  /\ pc[p] = "cd_open"
  /\ IF Found(p) THEN Goto(p, "cd_stat") ELSE Leave(p)
  /\ UNCHANGED <<tree, cur_path, started, own, overrun, calls>>

\* Faulty variant: any file will do.
cd_stat_any(p) ==
  /\ pc[p] = "cd_stat"
  /\ IF Found(p) THEN Goto(p, "cd_chdir") ELSE Leave(p)
  /\ UNCHANGED <<tree, cur_path, started, own, overrun, calls>>

\* "... and is a directory": stat opens the path again, and panics if it has
\* gone (sh.c:349-356).
cd_stat(p) ==
  /\ pc[p] = "cd_stat"
  /\ IF Found(p) /\ tree[Components(path[p])] = "dir"
       THEN Goto(p, "cd_chdir") ELSE Leave(p)
  /\ UNCHANGED <<tree, cur_path, started, own, overrun, calls>>

cd_chdir(p) ==
  /\ pc[p] = "cd_chdir"
  /\ sys_set_cur_path(Sh(p), path[p])
  /\ Leave(p)
  /\ UNCHANGED <<tree, started, overrun, calls>>

\* The server's part of open: it finds the file or not.
file_open(p) ==
  /\ pc[p] = "open"
  /\ Leave(p)
  /\ UNCHANGED <<tree, cur_path, started, own, overrun, calls>>

\* serve_create: the last component is entered in its directory, which must
\* exist, unless it is there already (fs.c:663-689).
file_create(p) ==
  LET q == Components(path[p]) IN
  /\ pc[p] \in {"create_reg", "create_dir"}
  /\ tree' = IF q \in DOMAIN tree \/ Front(q) \notin DOMAIN tree \/ tree[Front(q)] # "dir"
               THEN tree
               ELSE [t \in DOMAIN tree \cup {q} |->
                       IF t # q THEN tree[t]
                       ELSE IF pc[p] = "create_dir" THEN "dir" ELSE "reg"]
  /\ Leave(p)
  /\ UNCHANGED <<cur_path, started, own, overrun, calls>>

\* serve_remove: a directory is truncated with all that is in it; the root
\* stays, empty (fs.c:793-817).
file_remove(p) ==
  LET q == Components(path[p])
      inUse == {Components(cur_path)}
                 \cup {Components(path[o]) : o \in {x \in Others(p) : pc[x] \in InCd}}
      kept == {t \in DOMAIN tree : t = <<>> \/ ~IsPrefix(q, t)}
  IN
  /\ pc[p] = "remove"
  /\ UserKeeps("kept", \A u \in inUse : ~IsPrefix(q, u))
  /\ tree' = IF Found(p) THEN [t \in kept |-> tree[t]] ELSE tree
  /\ Leave(p)
  /\ UNCHANGED <<cur_path, started, own, overrun, calls>>

PathNext ==
  \/ \E s \in Shells : main(s)
  \/ \E p \in Ready : \/ cd_root(p)
                      \/ \E a \in Given : cd(p, a) \/ cd_absolute(p, a)
                      \/ \E a \in Given, f \in Calls : call(p, f, a)
  \/ \E p \in Caller : cd_open(p) \/ cd_stat(p) \/ cd_chdir(p)
  \/ \E p \in Caller : file_open(p) \/ file_create(p) \/ file_remove(p)

PathSpec == PathInit /\ [][PathNext]_pathVars

-----------------------------------------------------------------------------
\* The current path names a directory: what cd has confirmed (sh.c:343-356)
\* is still so when it sets the path, and stays so.
CurPathIsDir ==
  started # <<>> =>
    LET d == Components(cur_path) IN d \in DOMAIN tree /\ tree[d] = "dir"

\* While a call is under way, the string that getcwd and pathcat have put
\* together (path.c:20-36) leads the server to what the argument means in the
\* directory that is current now.
RequestsMeanArgs ==
  \A p \in Caller : pc[p] # "idle" =>
    Components(path[p]) = Means(Components(cur_path), arg[p])

\* A shell finds the path that it has set: what others set is their own
\* (the per-environment path of syscall_all.c:269-270 and env.h:41-42).
OwnPath == \A s \in Range(started) : Components(own[s]) = Components(cur_path)

\* pathcat stays inside the buffers of 128 bytes it is given (sh.c:334,
\* file.c:40).
InBuffer == ~overrun

\* cur_path fits its array and names a directory (sys_set_cur_path, runcmd).
CurPathKept == PathTypeOK /\ CurPathIsDir

=============================================================================
