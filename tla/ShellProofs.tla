----------------------------- MODULE ShellProofs -----------------------------
(***************************************************************************)
(* Theorems about what makes a shell: its jobs (ShellJobs), for any command *)
(* lines and any number of processes, its variables (EnvValue), the current *)
(* path (CurPath) and the line that is edited with the history (LineEdit),  *)
(* for any number of shells and any sizes.                                  *)
(***************************************************************************)
EXTENDS ShellJobs, EnvValue, CurPath, LineEdit, FiniteSetTheorems, WellFoundedInduction, TLAPS

-----------------------------------------------------------------------------
(* The jobs of a line.                                                      *)

Process == [pc : {"none", "begin", "words", "sep", "left", "right", "next",
                  "spawn", "close", "wait", "program", "gone"},
            k : 0..(Len(line) + 1),
            tab : Table, ends : (Fd \cup {NONE}) \X (Fd \cup {NONE}),
            dup0 : BOOLEAN, dup1 : BOOLEAN,
            child : 0..MaxProc, right : 0..MaxProc]

Runners == {"spawn", "close", "wait"}
Parsers == {"begin", "words", "sep", "right", "next"}

\* Processes are made one after the other, a command's number is one of the line's,
\* and what follows a command tells which forks are made at it.
Placed ==
    \A p \in Proc :
        /\ p > n <=> At(p, "none")
        /\ p > n => proc[p] = Nobody
        /\ proc[p].pc \notin {"none", "gone"} => proc[p].k \in 1..(Len(line) + 1)
        /\ proc[p].pc \notin {"none", "gone", "begin"} => proc[p].k \in 1..Len(line)
        /\ proc[p].pc \in {"left", "right"} => line[proc[p].k].sep = "|"
        /\ At(p, "next") => line[proc[p].k].sep = ";"

\* What a command reads before its redirections.
Base(k) == IF k > 1 /\ line[k - 1].sep = "|" THEN ReadEnd(k - 1) ELSE Console

\* The descriptors of a process, by where it is, as long as no untested call has failed:
\* undone redirections give back the console, and a pipe's ends are not 0 or 1.
Streams(r) ==
    ~r.tab.lost =>
      /\ r.pc = "begin" =>
             LET zero == IF r.dup0 THEN r.tab.fd[1] ELSE r.tab.fd[0]
                 one == IF r.dup1 THEN zero ELSE r.tab.fd[1]
             IN zero = Base(r.k) /\ one = Console
      /\ r.pc = "words" => /\ r.tab.fd[0] = Base(r.k) /\ r.tab.fd[1] = Console
                           /\ ~r.dup0 /\ ~r.dup1
      /\ r.pc \in {"sep", "left", "right", "next"} =>
             /\ r.tab.fd[0] = Input(r.k)
             /\ r.tab.fd[1] = IF line[r.k].out THEN OutFile(r.k) ELSE Console
             /\ r.dup0 = line[r.k].in /\ r.dup1 = line[r.k].out
      /\ r.pc \in {"left", "right"} =>
             /\ r.ends[1] \in Fd \ {0, 1} /\ r.ends[2] \in Fd \ {0, 1}
             /\ r.tab.fd[r.ends[1]] = ReadEnd(r.k) /\ r.tab.fd[r.ends[2]] = WriteEnd(r.k)
      /\ r.pc \in {"spawn", "program"} =>
             r.tab.fd[0] = Input(r.k) /\ r.tab.fd[1] = Output(r.k)

\* A process is alive.
Active(p) == proc[p].pc \notin {"none", "gone"}

\* One process at most has the rest of the line before it.
FrontInv ==
    \A f, p \in Proc : proc[f].pc \in Parsers /\ Active(p) =>
        proc[p].k <= proc[f].k /\ (proc[p].pc \in Parsers => p = f)

\* A program is awaited by the process that spawned it,
ProgramsAwaited ==
    \A p \in Proc : At(p, "program") =>
        \E w \in Proc : /\ proc[w].pc \in {"close", "wait"} /\ w < p
                        /\ proc[w].child = p /\ proc[w].k = proc[p].k
\* a command before ; by the process with the rest of the line,
ListAwaited ==
    \A p \in Proc : proc[p].pc \in Runners /\ line[proc[p].k].sep = ";" =>
        \E w \in Proc : /\ At(w, "next") /\ w < p
                        /\ proc[w].child = p /\ proc[w].k = proc[p].k
\* and the right side of a pipe by the left.
PipesAwaited ==
    \A p \in Proc :
        \/ proc[p].pc \in Parsers \cup {"left"}
        \/ proc[p].pc \in Runners /\ line[proc[p].k].sep \in {"|", "end"}
        => p = 1 \/ \E w \in Proc : /\ proc[w].pc \in Runners \cup {"left"} /\ w < p
                                    /\ proc[w].right = p /\ line[proc[w].k].sep = "|"

PromptInv == shell = "prompt" => At(1, "gone")

WaitInv == JobsTypeOK /\ Placed /\ FrontInv /\ ProgramsAwaited /\ ListAwaited /\ PipesAwaited
           /\ PromptInv
StreamInv == JobsTypeOK /\ Placed /\ \A p \in Proc : Streams(proc[p])

LEMMA LineFacts ==
    ASSUME JobsTypeOK
    PROVE  /\ line \in Seq(Command) /\ Len(line) \in Nat \ {0} /\ WellFormed(line)
           /\ \A k \in 1..Len(line) : line[k] \in Command
           /\ MaxProc \in Nat \ {0}
<1>1. line \in Lines
  BY DEF JobsTypeOK
<1>2. line \in Seq(Command) /\ Len(line) > 0 /\ WellFormed(line)
  BY <1>1, LineAssumption
<1>3. Len(line) \in Nat /\ \A k \in 1..Len(line) : line[k] \in Command
  BY <1>2
<1> QED BY <1>2, <1>3, RuleAssumption

LEMMA ProcessType == JobsTypeOK <=> /\ line \in Lines /\ n \in Proc /\ shell \in {"wait", "prompt"}
                                /\ proc \in [Proc -> Process]
BY DEF JobsTypeOK, Process

\* The objects there are.
LEMMA Objects ==
    ASSUME JobsTypeOK
    PROVE  /\ Console \in Object
           /\ \A k \in 1..Len(line) : /\ InFile(k) \in Object /\ OutFile(k) \in Object
                                      /\ ReadEnd(k) \in Object /\ WriteEnd(k) \in Object
<1>1. Len(line) \in Nat
  BY LineFacts
<1> QED BY <1>1 DEF Object, Kinds, Console, InFile, OutFile, ReadEnd, WriteEnd

LEMMA FdFacts == /\ Fd \subseteq Nat /\ 0 \in Fd /\ 1 \in Fd /\ NONE \notin Fd /\ Closed \in Table
                 /\ ~Closed.lost
BY FdAssumption, NoneAssumption DEF Fd, Closed, Table

LEMMA NobodyType == JobsTypeOK => Nobody \in Process /\ Exited \in Process
<1> SUFFICES ASSUME JobsTypeOK PROVE Nobody \in Process /\ Exited \in Process
  OBVIOUS
<1>1. Len(line) \in Nat /\ MaxProc \in Nat
  BY LineFacts
<1>2. Nobody \in Process
  <2> HIDE DEF Closed, Table
  <2> QED BY <1>1, FdFacts DEF Nobody, Process
<1> QED BY <1>1, <1>2 DEF Exited, Process

\* One process becomes another record, or forks a process.
LEMMA BecomeIs ==
    ASSUME JobsTypeOK, NEW p \in Proc, NEW r \in Process, Become(p, r)
    PROVE  /\ JobsTypeOK' /\ proc'[p] = r /\ \A q \in Proc : q # p => proc'[q] = proc[q]
           /\ UNCHANGED <<line, n, shell>>
<1>1. UNCHANGED <<line, n, shell>> /\ proc' = [proc EXCEPT ![p] = r]
  BY DEF Become
<1>2. proc \in [Proc -> Process]
  BY ProcessType
<1>3. Process' = Process
  BY <1>1 DEF Process, Table, Object
<1>4. proc' \in [Proc -> Process']
  BY <1>1, <1>2, <1>3
<1>5. JobsTypeOK'
  BY <1>1, <1>4 DEF JobsTypeOK, Process, Table
<1> QED BY <1>1, <1>2, <1>5

LEMMA ForkIs ==
    ASSUME JobsTypeOK, NEW p \in Proc, NEW r \in Process, NEW c \in Process, p <= n, Fork(p, r, c)
    PROVE  /\ JobsTypeOK' /\ proc'[p] = r /\ n + 1 \in Proc /\ proc'[n + 1] = c /\ n' = n + 1
           /\ \A q \in Proc : q # p /\ q # n + 1 => proc'[q] = proc[q]
           /\ UNCHANGED <<line, shell>>
<1>1. /\ UNCHANGED <<line, shell>> /\ n' = n + 1 /\ n < MaxProc
      /\ proc' = [proc EXCEPT ![p] = r, ![n + 1] = c]
  BY DEF Fork
<1>2. proc \in [Proc -> Process] /\ n \in Proc /\ MaxProc \in Nat
  BY ProcessType, LineFacts
<1>3. Process' = Process
  BY <1>1 DEF Process, Table, Object
<1>4. n + 1 \in Proc /\ p # n + 1
  BY <1>1, <1>2 DEF Proc
<1>5. proc' \in [Proc -> Process']
  BY <1>1, <1>2, <1>3, <1>4
<1>6. JobsTypeOK'
  BY <1>1, <1>4, <1>5 DEF JobsTypeOK, Process
<1> QED BY <1>1, <1>2, <1>4, <1>6

-----------------------------------------------------------------------------
\* What the calls on descriptors do to a table.
LEMMA ObjectFacts == JobsTypeOK => NONE \notin Object
<1> SUFFICES ASSUME JobsTypeOK PROVE NONE \notin Object
  OBVIOUS
<1>1. Object \subseteq Kinds \X Nat
  BY LineFacts DEF Object
<1> QED BY <1>1, NoneAssumption

LEMMA LoseFacts ==
    ASSUME NEW t \in Table
    PROVE  Lose(t) \in Table /\ Lose(t).lost
BY DEF Lose, Table

LEMMA CloseFacts ==
    ASSUME NEW t \in Table, NEW x
    PROVE  /\ Close(t, x) \in Table /\ Close(t, x).lost = t.lost
           /\ \A y \in Fd : Close(t, x).fd[y] = IF y = x THEN NONE ELSE t.fd[y]
BY DEF Close, Table

LEMMA DupsFacts ==
    ASSUME NEW t \in Table, NEW old, NEW new \in Fd, NEW d \in Dups(t, old, new)
    PROVE  /\ d \in Table
           /\ ~d.lost => /\ ~t.lost /\ old \in Fd /\ t.fd[old] # NONE /\ old # new
                         /\ \A y \in Fd : d.fd[y] = IF y = new THEN t.fd[old] ELSE t.fd[y]
<1>1. CASE d = Lose(t)
  BY <1>1, LoseFacts
<1>2. CASE d = Lose(Close(t, new))
  BY <1>2, CloseFacts, LoseFacts
<1>3. CASE old \in Fd /\ t.fd[old] # NONE /\ old # new /\ d = [t EXCEPT !.fd[new] = t.fd[old]]
  <2>1. d = [t EXCEPT !.fd = [t.fd EXCEPT ![new] = t.fd[old]]]
    BY <1>3
  <2> QED BY <1>3, <2>1 DEF Table
<1> QED BY <1>1, <1>2, <1>3 DEF Dups

LEMMA AllocFacts ==
    ASSUME NEW t \in Table
    PROVE  /\ \A x \in fd_alloc(t) : x \in Fd /\ t.fd[x] = NONE
           /\ \A x, y \in fd_alloc(t) : x = y
<1>1. \A x \in fd_alloc(t) : x \in Fd /\ t.fd[x] = NONE
  BY DEF fd_alloc, Unused
<1>2. \A x, y \in fd_alloc(t) : x <= y /\ y <= x
  BY DEF fd_alloc
<1> QED BY <1>1, <1>2, FdFacts

\* An object put where nothing was.
LEMMA PutFacts ==
    ASSUME NEW t \in Table, NEW o \in Object, NEW x \in Fd
    PROVE  /\ [t EXCEPT !.fd[x] = o] \in Table /\ [t EXCEPT !.fd[x] = o].lost = t.lost
           /\ \A y \in Fd : [t EXCEPT !.fd[x] = o].fd[y] = IF y = x THEN o ELSE t.fd[y]
BY DEF Table

LEMMA OpensFacts ==
    ASSUME NEW t \in Table, NEW o \in Object, NEW r \in Opens(t, o)
    PROVE  /\ r[1] \in Table /\ r[1].lost = t.lost
           /\ r[2] \in Fd => /\ t.fd[r[2]] = NONE
                             /\ \A y \in Fd : r[1].fd[y] = IF y = r[2] THEN o ELSE t.fd[y]
<1>1. CASE r = <<t, NONE>>
  BY <1>1, FdFacts
<1>2. CASE \E x \in fd_alloc(t), ok \in BOOLEAN :
             r = <<[t EXCEPT !.fd[x] = o], IF ok THEN x ELSE NONE>>
  <2>1. PICK x \in fd_alloc(t), ok \in BOOLEAN :
          r = <<[t EXCEPT !.fd[x] = o], IF ok THEN x ELSE NONE>>
    BY <1>2
  <2>2. x \in Fd /\ t.fd[x] = NONE
    BY AllocFacts
  <2>3. r[1] = [t EXCEPT !.fd[x] = o] /\ (r[2] \in Fd => r[2] = x)
    BY <2>1, FdFacts
  <2> QED BY <2>2, <2>3, PutFacts
<1> QED BY <1>1, <1>2 DEF Opens

LEMMA OntoFacts ==
    ASSUME NEW t \in Table, NEW o \in Object, NEW r \in Opens(t, o),
           NEW a \in {0, 1}, NEW b \in {0, 1}, a # b, NEW d \in Onto(r, b)
    PROVE  /\ d \in Table
           /\ ~d.lost => /\ ~t.lost
                         /\ t.fd[0] # NONE /\ t.fd[1] # NONE => d.fd[b] = o /\ d.fd[a] = t.fd[a]
<1>1. PICK u \in Dups(r[1], r[2], b) : d = Close(u, r[2])
  BY DEF Onto
<1>2. r[1] \in Table /\ a \in Fd /\ b \in Fd
  BY OpensFacts, FdFacts
<1>3. /\ u \in Table
      /\ ~u.lost => /\ ~r[1].lost /\ r[2] \in Fd
                    /\ \A y \in Fd : u.fd[y] = IF y = b THEN r[1].fd[r[2]] ELSE r[1].fd[y]
  BY <1>2, DupsFacts
<1>4. /\ d \in Table /\ d.lost = u.lost
      /\ \A y \in Fd : d.fd[y] = IF y = r[2] THEN NONE ELSE u.fd[y]
  BY <1>1, <1>3, CloseFacts
<1>5. ASSUME ~d.lost, t.fd[0] # NONE, t.fd[1] # NONE
      PROVE  d.fd[b] = o /\ d.fd[a] = t.fd[a]
  <2>1. r[2] \in Fd /\ t.fd[r[2]] = NONE
    BY <1>3, <1>4, <1>5, OpensFacts
  <2>2. r[2] # a /\ r[2] # b
    BY <1>5, <2>1
  <2>3. d.fd[b] = r[1].fd[r[2]] /\ d.fd[a] = r[1].fd[a]
    BY <1>2, <1>3, <1>4, <1>5, <2>2
  <2>4. \A y \in Fd : r[1].fd[y] = IF y = r[2] THEN o ELSE t.fd[y]
    BY <2>1, OpensFacts
  <2> QED BY <1>2, <2>1, <2>2, <2>3, <2>4
<1>6. ~d.lost => ~t.lost
  BY <1>3, <1>4, OpensFacts
<1> QED BY <1>4, <1>5, <1>6

LEMMA UndoneFacts ==
    ASSUME NEW r \in Process, NEW t \in Undone(r)
    PROVE  /\ t \in Table
           /\ ~t.lost => LET zero == IF r.dup0 THEN r.tab.fd[1] ELSE r.tab.fd[0]
                             one == IF r.dup1 THEN zero ELSE r.tab.fd[1]
                         IN ~r.tab.lost /\ t.fd[0] = zero /\ t.fd[1] = one
<1>1. r.tab \in Table /\ 0 \in Fd /\ 1 \in Fd
  BY FdFacts DEF Process
<1>2. PICK u : /\ IF r.dup0 THEN u \in Dups(r.tab, 1, 0) ELSE u = r.tab
               /\ IF r.dup1 THEN t \in Dups(u, 0, 1) ELSE t = u
  BY DEF Undone
<1>3. /\ u \in Table
      /\ ~u.lost => /\ ~r.tab.lost /\ u.fd[1] = r.tab.fd[1]
                    /\ u.fd[0] = IF r.dup0 THEN r.tab.fd[1] ELSE r.tab.fd[0]
  BY <1>1, <1>2, DupsFacts
<1>4. /\ t \in Table
      /\ ~t.lost => /\ ~u.lost /\ t.fd[0] = u.fd[0]
                    /\ t.fd[1] = IF r.dup1 THEN u.fd[0] ELSE u.fd[1]
  BY <1>1, <1>2, <1>3, DupsFacts
<1> QED BY <1>3, <1>4

LEMMA RedirectFacts ==
    ASSUME JobsTypeOK, NEW k \in 1..Len(line), NEW t \in Table,
           NEW r \in Reading(t, k), NEW w \in Writing(r, k)
    PROVE  /\ w \in Table
           /\ ~w.lost =>
                /\ ~t.lost
                /\ t.fd[0] # NONE /\ t.fd[1] # NONE =>
                     /\ w.fd[0] = IF line[k].in THEN InFile(k) ELSE t.fd[0]
                     /\ w.fd[1] = IF line[k].out THEN OutFile(k) ELSE t.fd[1]
<1>1. InFile(k) \in Object /\ OutFile(k) \in Object /\ NONE \notin Object
  BY Objects, ObjectFacts
<1>2. /\ r \in Table
      /\ ~r.lost =>
           /\ ~t.lost
           /\ t.fd[0] # NONE /\ t.fd[1] # NONE =>
                r.fd[0] = (IF line[k].in THEN InFile(k) ELSE t.fd[0]) /\ r.fd[1] = t.fd[1]
  <2>1. CASE ~line[k].in
    BY <2>1 DEF Reading
  <2>2. CASE line[k].in
    <3>1. PICK o \in Opens(t, InFile(k)) : r \in Onto(o, 0)
      BY <2>2 DEF Reading
    <3> QED BY <1>1, <2>2, <3>1, OntoFacts
  <2> QED BY <2>1, <2>2
<1>3. /\ w \in Table
      /\ ~w.lost =>
           /\ ~r.lost
           /\ r.fd[0] # NONE /\ r.fd[1] # NONE =>
                w.fd[1] = (IF line[k].out THEN OutFile(k) ELSE r.fd[1]) /\ w.fd[0] = r.fd[0]
  <2>1. CASE ~line[k].out
    BY <1>2, <2>1 DEF Writing
  <2>2. CASE line[k].out
    <3>1. PICK o \in Opens(r, OutFile(k)) : w \in Onto(o, 1)
      BY <2>2 DEF Writing
    <3> QED BY <1>1, <1>2, <2>2, <3>1, OntoFacts
  <2> QED BY <2>1, <2>2
<1>4. ASSUME t.fd[0] # NONE
      PROVE  (IF line[k].in THEN InFile(k) ELSE t.fd[0]) # NONE
  BY <1>1, <1>4
<1> QED BY <1>2, <1>3, <1>4

LEMMA PipesFacts ==
    ASSUME JobsTypeOK, NEW k \in 1..Len(line), NEW t \in Table, NEW made \in Pipes(t, k)
    PROVE  /\ made[1] \in Table /\ made[2] \in (Fd \cup {NONE}) \X (Fd \cup {NONE})
           /\ ~made[1].lost =>
                /\ ~t.lost
                /\ t.fd[0] # NONE /\ t.fd[1] # NONE =>
                     /\ made[2][1] \in Fd \ {0, 1} /\ made[2][2] \in Fd \ {0, 1}
                     /\ made[1].fd[made[2][1]] = ReadEnd(k)
                     /\ made[1].fd[made[2][2]] = WriteEnd(k)
                     /\ made[1].fd[0] = t.fd[0] /\ made[1].fd[1] = t.fd[1]
<1>1. CASE made \in NoPipe(t)
  <2>1. Garbage \subseteq Fd \cup {NONE}
    BY GarbageAssumption
  <2> QED BY <1>1, <2>1, LoseFacts DEF NoPipe
<1>2. CASE made \notin NoPipe(t)
  <2>1. ReadEnd(k) \in Object /\ WriteEnd(k) \in Object /\ NONE \notin Object
    BY Objects, ObjectFacts
  <2>2. PICK x \in fd_alloc(t) : made \in PipeFrom(t, k, x)
    BY <1>2 DEF Pipes
  <2> DEFINE u == [t EXCEPT !.fd[x] = ReadEnd(k)]
  <2>3. x \in Fd /\ t.fd[x] = NONE
    BY AllocFacts
  <2>4. PICK y \in fd_alloc(u) :
          made = <<[t EXCEPT !.fd[x] = ReadEnd(k), !.fd[y] = WriteEnd(k)], <<x, y>> >>
    BY <2>2 DEF PipeFrom
  <2>5. u \in Table /\ u.lost = t.lost
        /\ \A v \in Fd : u.fd[v] = IF v = x THEN ReadEnd(k) ELSE t.fd[v]
    BY <2>1, <2>3, PutFacts
  <2>6. made = <<[u EXCEPT !.fd[y] = WriteEnd(k)], <<x, y>> >>
    BY <2>4 DEF Table
  <2> HIDE DEF u
  <2>7. y \in Fd /\ u.fd[y] = NONE
    BY <2>5, AllocFacts
  <2>8. y # x /\ t.fd[y] = NONE
    BY <2>1, <2>3, <2>5, <2>7
  <2>9. /\ made[1] \in Table /\ made[1].lost = t.lost
        /\ \A v \in Fd : made[1].fd[v] = IF v = y THEN WriteEnd(k) ELSE u.fd[v]
    <3>1. made[1] = [u EXCEPT !.fd[y] = WriteEnd(k)]
      BY <2>6
    <3> QED BY <2>1, <2>5, <2>7, <3>1, PutFacts
  <2>10. made[2] = <<x, y>> /\ made[2][1] = x /\ made[2][2] = y
    BY <2>6
  <2>11. made[1].fd[x] = ReadEnd(k) /\ made[1].fd[y] = WriteEnd(k)
    BY <2>3, <2>5, <2>7, <2>8, <2>9
  <2>12. ASSUME t.fd[0] # NONE, t.fd[1] # NONE
         PROVE  /\ x \in Fd \ {0, 1} /\ y \in Fd \ {0, 1}
                /\ made[1].fd[0] = t.fd[0] /\ made[1].fd[1] = t.fd[1]
    BY <2>3, <2>5, <2>7, <2>8, <2>9, <2>12, FdFacts
  <2> QED BY <2>3, <2>7, <2>9, <2>10, <2>11, <2>12
<1> QED BY <1>1, <1>2

LEMMA OntoPipeFacts ==
    ASSUME JobsTypeOK, NEW r \in Process, NEW which \in {1, 2}, NEW a \in {0, 1}, NEW b \in {0, 1},
           a # b, NEW q \in OntoPipe(r, which, b)
    PROVE  /\ q \in Process /\ q.pc = r.pc /\ q.k = r.k /\ q.child = r.child
           /\ q.right = r.right /\ q.dup0 = r.dup0 /\ q.dup1 = r.dup1
           /\ ~q.tab.lost =>
                /\ ~r.tab.lost
                /\ r.ends[1] \notin {0, 1} /\ r.ends[2] \notin {0, 1} =>
                     q.tab.fd[b] = r.tab.fd[r.ends[which]] /\ q.tab.fd[a] = r.tab.fd[a]
<1>1. PICK t \in Dups(r.tab, r.ends[which], b) :
        q = [r EXCEPT !.tab = Close(Close(t, r.ends[1]), r.ends[2]), !.ends = <<NONE, NONE>>]
  BY DEF OntoPipe
<1>2. r.tab \in Table /\ a \in Fd /\ b \in Fd
  BY FdFacts DEF Process
<1>3. /\ t \in Table
      /\ ~t.lost => /\ ~r.tab.lost
                    /\ \A y \in Fd : t.fd[y] = IF y = b THEN r.tab.fd[r.ends[which]]
                                               ELSE r.tab.fd[y]
  BY <1>2, DupsFacts
<1> DEFINE u == Close(t, r.ends[1])
           w == Close(u, r.ends[2])
<1>4. u \in Table /\ u.lost = t.lost
      /\ \A y \in Fd : u.fd[y] = IF y = r.ends[1] THEN NONE ELSE t.fd[y]
  BY <1>3, CloseFacts
<1> HIDE DEF u
<1>5. w \in Table /\ w.lost = u.lost
      /\ \A y \in Fd : w.fd[y] = IF y = r.ends[2] THEN NONE ELSE u.fd[y]
  BY <1>4, CloseFacts
<1>6. q = [r EXCEPT !.tab = w, !.ends = <<NONE, NONE>>]
  BY <1>1 DEF u
<1> HIDE DEF w
<1>7. /\ q \in Process /\ q.pc = r.pc /\ q.k = r.k /\ q.child = r.child
      /\ q.right = r.right /\ q.dup0 = r.dup0 /\ q.dup1 = r.dup1 /\ q.tab = w
  <2> HIDE DEF Table
  <2> QED BY <1>5, <1>6 DEF Process
<1>8. ASSUME ~w.lost, r.ends[1] \notin {0, 1}, r.ends[2] \notin {0, 1}
      PROVE  w.fd[b] = r.tab.fd[r.ends[which]] /\ w.fd[a] = r.tab.fd[a]
  <2>1. w.fd[a] = t.fd[a] /\ w.fd[b] = t.fd[b]
    BY <1>2, <1>4, <1>5, <1>8
  <2> QED BY <1>2, <1>3, <1>4, <1>5, <1>8, <2>1
<1>9. ~w.lost => ~r.tab.lost
  BY <1>3, <1>4, <1>5
<1> QED BY <1>7, <1>8, <1>9

LEMMA CopiesFacts ==
    ASSUME NEW t \in Table, NEW u \in Copies(t)
    PROVE  u \in Table /\ (~u.lost => u = t)
BY LoseFacts, FdFacts DEF Copies

-----------------------------------------------------------------------------
\* What a step does to who is where and who waits for whom.
Same(p, q) == proc'[p].child = proc[q].child /\ proc'[p].right = proc[q].right

Exits(p) ==
    /\ proc'[p] = Exited
    /\ \/ proc[p].pc \in {"begin", "words", "program"}
       \/ At(p, "spawn") /\ line[proc[p].k].cd
       \/ At(p, "wait") /\ Gone(proc[p].child) /\ Gone(proc[p].right)

Goes(p, from, to) == At(p, from) /\ proc'[p].pc = to

Moves(p) ==
    \/ /\ proc'[p].k = proc[p].k /\ Same(p, p)
       /\ \/ Goes(p, "begin", "words") /\ proc[p].k <= Len(line)
          \/ Goes(p, "words", "sep") \/ Goes(p, "left", "spawn")
          \/ Goes(p, "spawn", "close") \/ Goes(p, "close", "wait")
          \/ Goes(p, "sep", "spawn") /\ line[proc[p].k].sep = "end"
          \/ Goes(p, "sep", "left") /\ line[proc[p].k].sep = "|"
    \/ /\ proc'[p].k = proc[p].k /\ proc'[p].right = proc[p].right
       /\ Goes(p, "sep", "next") /\ line[proc[p].k].sep = ";"
    \/ /\ proc'[p].k = proc[p].k + 1 /\ proc'[p].right = proc[p].right
       /\ \/ Goes(p, "right", "begin") \/ Goes(p, "sep", "begin")
          \/ Goes(p, "next", "begin") /\ Gone(proc[p].child)

Forks(p, c) ==
    /\ proc'[c].k = proc[p].k
    /\ \/ /\ Goes(p, "sep", "left") /\ line[proc[p].k].sep = "|" /\ proc'[c].pc = "right"
          /\ proc'[p].k = proc[p].k /\ proc'[p].right = c
       \/ /\ Goes(p, "sep", "next") /\ line[proc[p].k].sep = ";" /\ proc'[c].pc = "spawn"
          /\ proc'[p].k = proc[p].k /\ proc'[p].child = c /\ proc'[p].right = proc[p].right
       \/ /\ Goes(p, "sep", "begin") /\ line[proc[p].k].sep = "&" /\ proc'[c].pc = "spawn"
          /\ proc'[p].k = proc[p].k + 1 /\ proc'[p].right = proc[p].right
       \/ /\ Goes(p, "spawn", "close") /\ proc'[c].pc = "program"
          /\ proc'[p].k = proc[p].k /\ proc'[p].child = c /\ proc'[p].right = proc[p].right

StepEffect(p) ==
    /\ JobsTypeOK' /\ UNCHANGED <<line, shell>>
    /\ \/ /\ n' = n /\ \A q \in Proc : q # p => proc'[q] = proc[q]
          /\ Exits(p) \/ Moves(p)
       \/ /\ n' = n + 1 /\ n' \in Proc /\ \A q \in Proc : q # p /\ q # n' => proc'[q] = proc[q]
          /\ Forks(p, n')

LEMMA ForkEffect ==
    ASSUME JobsTypeOK, Placed, NEW p \in Proc, NEW r \in Process, NEW c \in Process, Fork(p, r, c),
           ~At(p, "none"),
           proc'[p] = r /\ proc'[n'] = c /\ n' = n + 1 => Forks(p, n')
    PROVE  StepEffect(p)
<1>1. p <= n
  <2>1. p \in Nat /\ n \in Nat /\ ~(p > n)
    <3>1. n \in Proc /\ Proc \subseteq Nat
      BY LineFacts, ProcessType DEF Proc
    <3> QED BY <3>1 DEF Placed
  <2> QED BY <2>1
<1>2. /\ JobsTypeOK' /\ proc'[p] = r /\ n + 1 \in Proc /\ proc'[n + 1] = c /\ n' = n + 1
      /\ \A q \in Proc : q # p /\ q # n + 1 => proc'[q] = proc[q]
      /\ UNCHANGED <<line, shell>>
  BY <1>1, ForkIs
<1> QED BY <1>2 DEF StepEffect

LEMMA BecomeEffect ==
    ASSUME JobsTypeOK, NEW p \in Proc, NEW r \in Process, Become(p, r),
           proc'[p] = r => Exits(p) \/ Moves(p)
    PROVE  StepEffect(p)
BY BecomeIs DEF StepEffect

\* A process with a command on its line.
LEMMA AtCommand ==
    ASSUME JobsTypeOK, Placed, NEW p \in Proc, proc[p].pc \notin {"none", "gone", "begin"}
    PROVE  /\ proc[p] \in Process /\ proc[p].k \in 1..Len(line) /\ line[proc[p].k] \in Command
           /\ proc[p].k + 1 \in 0..(Len(line) + 1) /\ ~At(p, "none")
<1>1. proc[p] \in Process /\ proc[p].k \in 1..Len(line)
  BY ProcessType DEF Placed
<1>2. Len(line) \in Nat
  BY LineFacts
<1> QED BY <1>1, <1>2, LineFacts DEF At

LEMMA ShellStepEffect ==
    ASSUME JobsTypeOK, Placed, NEW p \in Proc, ShellStep(p) \/ program_exit(p)
    PROVE  StepEffect(p)
<1> DEFINE k == proc[p].k
<1>1. proc[p] \in Process /\ Exited \in Process /\ Nobody \in Process
  BY ProcessType, NobodyType
<1>2. n + 1 \in 0..MaxProc \/ ~(n < MaxProc)
  BY LineFacts, ProcessType DEF Proc
<1>3. CASE parsecmd(p)
  <2>1. At(p, "begin")
    BY <1>3 DEF parsecmd
  <2>2. CASE k > Len(line)
    <3>1. Become(p, Exited)
      BY <1>3, <2>2 DEF parsecmd
    <3> QED BY <1>1, <2>1, <3>1, BecomeEffect DEF Exits, At
  <2>3. CASE ~(k > Len(line))
    <3>1. PICK t \in Undone(proc[p]) :
            Become(p, [proc[p] EXCEPT !.pc = "words", !.dup0 = FALSE, !.dup1 = FALSE, !.tab = t])
      BY <1>3, <2>3 DEF parsecmd
    <3> DEFINE r == [proc[p] EXCEPT !.pc = "words", !.dup0 = FALSE, !.dup1 = FALSE, !.tab = t]
    <3>2. r \in Process /\ r.pc = "words" /\ r.k = k /\ r.child = proc[p].child
          /\ r.right = proc[p].right
      <4>1. t \in Table
        BY <1>1, UndoneFacts
      <4> QED BY <1>1, <4>1 DEF Process
    <3>3. k <= Len(line)
      BY <1>1, <2>3, LineFacts DEF Process
    <3>4. Become(p, r)
      BY <3>1
    <3> HIDE DEF r
    <3> QED BY <2>1, <3>2, <3>3, <3>4, BecomeEffect DEF Moves, Goes, Same
  <2> QED BY <2>2, <2>3
<1>4. CASE redirect(p)
  <2>1. At(p, "words")
    BY <1>4 DEF redirect
  <2>2. k \in 1..Len(line) /\ line[k] \in Command
    BY <2>1, AtCommand DEF At
  <2>3. ASSUME NEW t \in Reading(proc[p].tab, k), NEW w \in Writing(t, k),
               Become(p, [proc[p] EXCEPT !.pc = "sep", !.dup0 = line[k].in,
                                         !.dup1 = line[k].out, !.tab = w])
        PROVE  StepEffect(p)
    <3> DEFINE r == [proc[p] EXCEPT !.pc = "sep", !.dup0 = line[k].in, !.dup1 = line[k].out,
                                    !.tab = w]
    <3>1. proc[p].tab \in Table /\ line[k].in \in BOOLEAN /\ line[k].out \in BOOLEAN
      BY <1>1, <2>2 DEF Process, Command
    <3>2. w \in Table
      BY <2>2, <3>1, RedirectFacts
    <3>3. r \in Process /\ r.pc = "sep" /\ r.k = k /\ r.child = proc[p].child
          /\ r.right = proc[p].right
      BY <1>1, <3>1, <3>2 DEF Process
    <3>4. Become(p, r)
      BY <2>3
    <3> HIDE DEF r
    <3> QED BY <2>1, <3>3, <3>4, BecomeEffect DEF Moves, Goes, Same
  <2>4. CASE Become(p, Exited)
    BY <1>1, <2>1, <2>4, BecomeEffect DEF Exits, At
  <2> QED BY <1>4, <2>3, <2>4 DEF redirect
<1>5. CASE parse_pipe(p)
  <2>1. At(p, "sep") /\ line[k].sep = "|"
    BY <1>5 DEF parse_pipe
  <2>2. k \in 1..Len(line) /\ ~At(p, "none")
    BY <2>1, AtCommand DEF At
  <2>3. PICK made \in Pipes(proc[p].tab, k) :
          LET left == [proc[p] EXCEPT !.pc = "left", !.tab = made[1], !.ends = made[2]]
          IN  \/ Become(p, left)
              \/ \E t \in Copies(made[1]) :
                   Fork(p, [left EXCEPT !.right = n + 1],
                           [left EXCEPT !.pc = "right", !.tab = t])
    BY <1>5 DEF parse_pipe
  <2> DEFINE left == [proc[p] EXCEPT !.pc = "left", !.tab = made[1], !.ends = made[2]]
  <2>4. left \in Process /\ left.pc = "left" /\ left.k = k /\ left.child = proc[p].child
        /\ left.right = proc[p].right
    <3>1. made[1] \in Table /\ made[2] \in (Fd \cup {NONE}) \X (Fd \cup {NONE})
      <4>1. proc[p].tab \in Table
        BY <1>1 DEF Process
      <4> QED BY <2>2, <4>1, PipesFacts
    <3> QED BY <1>1, <3>1 DEF Process
  <2>5. CASE Become(p, left)
    <3> HIDE DEF left
    <3> QED BY <2>1, <2>4, <2>5, BecomeEffect DEF Moves, Goes, Same
  <2>6. ASSUME NEW t \in Copies(made[1]),
               Fork(p, [left EXCEPT !.right = n + 1], [left EXCEPT !.pc = "right", !.tab = t])
        PROVE  StepEffect(p)
    <3> DEFINE r == [left EXCEPT !.right = n + 1]
               c == [left EXCEPT !.pc = "right", !.tab = t]
    <3>1. t \in Table /\ n + 1 \in 0..MaxProc
      <4>1. made[1] \in Table
        BY <2>4, <1>1, <2>2, PipesFacts DEF Process
      <4> QED BY <1>2, <2>6, <4>1, CopiesFacts DEF Fork
    <3>2. r \in Process /\ c \in Process /\ r.pc = "left" /\ c.pc = "right" /\ r.k = k
          /\ c.k = k /\ r.right = n + 1
      <4> HIDE DEF left
      <4> QED BY <2>4, <3>1 DEF Process
    <3>3. Fork(p, r, c)
      BY <2>6
    <3> HIDE DEF r, c
    <3> QED BY <2>1, <2>2, <3>2, <3>3, ForkEffect DEF Forks, Goes
  <2> QED BY <2>3, <2>5, <2>6
<1>6. CASE pipe_left(p)
  <2>1. At(p, "left")
    BY <1>6 DEF pipe_left
  <2>2. PICK q \in OntoPipe(proc[p], 2, 1) : Become(p, [q EXCEPT !.pc = "spawn"])
    BY <1>6 DEF pipe_left
  <2>3. q \in Process /\ q.k = k /\ q.child = proc[p].child /\ q.right = proc[p].right
    BY <1>1, OntoPipeFacts
  <2> DEFINE r == [q EXCEPT !.pc = "spawn"]
  <2>4. r \in Process /\ r.pc = "spawn" /\ r.k = k /\ r.child = proc[p].child
        /\ r.right = proc[p].right
    BY <2>3 DEF Process
  <2>5. Become(p, r)
    BY <2>2
  <2> HIDE DEF r
  <2> QED BY <2>1, <2>4, <2>5, BecomeEffect DEF Moves, Goes, Same
<1>7. CASE pipe_right(p)
  <2>1. At(p, "right")
    BY <1>7 DEF pipe_right
  <2>2. PICK q \in OntoPipe(proc[p], 1, 0) : Become(p, [q EXCEPT !.pc = "begin", !.k = @ + 1])
    BY <1>7 DEF pipe_right
  <2>3. q \in Process /\ q.k = k /\ q.child = proc[p].child /\ q.right = proc[p].right
    BY <1>1, OntoPipeFacts
  <2>4. k \in 1..Len(line) /\ k + 1 \in 0..(Len(line) + 1)
    BY <2>1, AtCommand DEF At
  <2> DEFINE r == [q EXCEPT !.pc = "begin", !.k = q.k + 1]
  <2>5. r \in Process /\ r.pc = "begin" /\ r.k = k + 1 /\ r.right = proc[p].right
    BY <2>3, <2>4 DEF Process
  <2>6. Become(p, r)
    BY <2>2
  <2> HIDE DEF r
  <2> QED BY <2>1, <2>5, <2>6, BecomeEffect DEF Moves, Goes, Same
<1>8. CASE parse_list(p)
  <2> DEFINE r1(child) == [proc[p] EXCEPT !.pc = "next", !.child = child]
             r2 == [proc[p] EXCEPT !.pc = "begin", !.k = k + 1]
             c(t) == [proc[p] EXCEPT !.pc = "spawn", !.child = 0, !.tab = t]
  <2>1. At(p, "sep") /\ line[k].sep \in {";", "&"}
    BY <1>8 DEF parse_list
  <2>2. \/ Become(p, IF line[k].sep = ";" THEN r1(0) ELSE r2)
        \/ \E t \in Copies(proc[p].tab) :
             Fork(p, IF line[k].sep = ";" THEN r1(n + 1) ELSE r2, c(t))
    BY <1>8 DEF parse_list
  <2>3. k \in 1..Len(line) /\ k + 1 \in 0..(Len(line) + 1) /\ ~At(p, "none")
        /\ 0 \in 0..MaxProc
    <3>1. k \in 1..Len(line) /\ k + 1 \in 0..(Len(line) + 1) /\ ~At(p, "none")
      BY <2>1, AtCommand DEF At
    <3>2. 0 \in 0..MaxProc
      BY LineFacts
    <3> QED BY <3>1, <3>2
  <2>4. \A t \in Table : c(t) \in Process /\ c(t).pc = "spawn" /\ c(t).k = k
    BY <1>1, <2>3 DEF Process
  <2>5. \A child \in 0..MaxProc :
          /\ r1(child) \in Process /\ r1(child).pc = "next" /\ r1(child).k = k
          /\ r1(child).child = child /\ r1(child).right = proc[p].right
    BY <1>1 DEF Process
  <2>6. r2 \in Process /\ r2.pc = "begin" /\ r2.k = k + 1 /\ r2.right = proc[p].right
    BY <1>1, <2>3 DEF Process
  <2> HIDE DEF r1, r2, c
  <2>7. CASE Become(p, IF line[k].sep = ";" THEN r1(0) ELSE r2)
    <3>1. CASE line[k].sep = ";"
      <4>1. Become(p, r1(0)) /\ r1(0) \in Process
        BY <2>3, <2>5, <2>7, <3>1
      <4>2. proc'[p] = r1(0) => Moves(p)
        BY <2>1, <2>3, <2>5, <3>1 DEF Moves, Goes
      <4> QED BY <4>1, <4>2, BecomeEffect
    <3>2. CASE line[k].sep # ";"
      BY <2>1, <2>6, <2>7, <3>2, BecomeEffect DEF Moves, Goes
    <3> QED BY <3>1, <3>2
  <2>8. ASSUME NEW t \in Copies(proc[p].tab),
               Fork(p, IF line[k].sep = ";" THEN r1(n + 1) ELSE r2, c(t))
        PROVE  StepEffect(p)
    <3>1. n + 1 \in 0..MaxProc
      BY <1>2, <2>8 DEF Fork
    <3>2. c(t) \in Process /\ c(t).pc = "spawn" /\ c(t).k = k
      <4>1. t \in Table
        BY <1>1, CopiesFacts DEF Process
      <4> QED BY <2>4, <4>1
    <3>3. CASE line[k].sep = ";"
      <4>1. Fork(p, r1(n + 1), c(t)) /\ r1(n + 1) \in Process
        BY <2>5, <2>8, <3>1, <3>3
      <4>2. proc'[p] = r1(n + 1) /\ proc'[n'] = c(t) /\ n' = n + 1 => Forks(p, n')
        BY <2>1, <2>5, <3>1, <3>2, <3>3 DEF Forks, Goes
      <4> QED BY <2>3, <3>2, <4>1, <4>2, ForkEffect
    <3>4. CASE line[k].sep = "&"
      BY <2>1, <2>3, <2>6, <2>8, <3>2, <3>4, ForkEffect DEF Forks, Goes
    <3> QED BY <2>1, <3>3, <3>4
  <2> QED BY <2>2, <2>7, <2>8
<1>9. CASE wait_next(p)
  <2> DEFINE r == [proc[p] EXCEPT !.pc = "begin", !.k = k + 1, !.child = 0]
  <2>1. At(p, "next") /\ Gone(proc[p].child) /\ Become(p, r)
    BY <1>9 DEF wait_next
  <2>2. k \in 1..Len(line) /\ k + 1 \in 0..(Len(line) + 1) /\ 0 \in 0..MaxProc
    BY <2>1, AtCommand, LineFacts DEF At
  <2>3. r \in Process /\ r.pc = "begin" /\ r.k = k + 1 /\ r.right = proc[p].right
    BY <1>1, <2>2 DEF Process
  <2> HIDE DEF r
  <2> QED BY <2>1, <2>3, BecomeEffect DEF Moves, Goes, Same
<1>10. CASE parse_end(p)
  <2> DEFINE r == [proc[p] EXCEPT !.pc = "spawn"]
  <2>1. At(p, "sep") /\ line[k].sep = "end" /\ Become(p, r)
    BY <1>10 DEF parse_end
  <2>2. r \in Process /\ r.pc = "spawn" /\ r.k = k /\ r.child = proc[p].child
        /\ r.right = proc[p].right
    BY <1>1 DEF Process
  <2> HIDE DEF r
  <2> QED BY <2>1, <2>2, BecomeEffect DEF Moves, Goes, Same
<1>11. CASE runcmd(p)
  <2> DEFINE r1 == [proc[p] EXCEPT !.pc = "close", !.child = n + 1]
             r2 == [proc[p] EXCEPT !.pc = "close"]
             c == [Nobody EXCEPT !.pc = "program", !.k = k, !.tab = proc[p].tab]
  <2>1. At(p, "spawn") /\ (\/ line[k].cd /\ Become(p, Exited)
                          \/ Fork(p, r1, c)
                          \/ Become(p, r2))
    BY <1>11 DEF runcmd
  <2>2. ~At(p, "none")
    BY <2>1, AtCommand DEF At
  <2>3. c \in Process /\ c.pc = "program" /\ c.k = k
    BY <1>1 DEF Process, Nobody
  <2>4. r2 \in Process /\ r2.pc = "close" /\ r2.k = k /\ r2.child = proc[p].child
        /\ r2.right = proc[p].right
    BY <1>1 DEF Process
  <2>5. n < MaxProc => r1 \in Process /\ r1.pc = "close" /\ r1.k = k /\ r1.child = n + 1
                       /\ r1.right = proc[p].right
    BY <1>1, <1>2 DEF Process
  <2> HIDE DEF r1, r2, c
  <2>6. CASE line[k].cd /\ Become(p, Exited)
    BY <1>1, <2>1, <2>6, BecomeEffect DEF Exits
  <2>7. CASE Fork(p, r1, c)
    BY <2>1, <2>2, <2>3, <2>5, <2>7, ForkEffect DEF Forks, Goes, Fork
  <2>8. CASE Become(p, r2)
    BY <2>1, <2>4, <2>8, BecomeEffect DEF Moves, Goes, Same
  <2> QED BY <2>1, <2>6, <2>7, <2>8
<1>12. CASE close_all(p)
  <2> DEFINE r == [proc[p] EXCEPT !.pc = "wait", !.tab = [proc[p].tab EXCEPT !.fd = Closed.fd]]
  <2>1. At(p, "close") /\ Become(p, r)
    BY <1>12 DEF close_all
  <2>2. r \in Process /\ r.pc = "wait" /\ r.k = k /\ r.child = proc[p].child
        /\ r.right = proc[p].right
    <3>1. [proc[p].tab EXCEPT !.fd = Closed.fd] \in Table
      BY <1>1, FdFacts DEF Process, Table
    <3> QED BY <1>1, <3>1 DEF Process
  <2> HIDE DEF r
  <2> QED BY <2>1, <2>2, BecomeEffect DEF Moves, Goes, Same
<1>13. CASE wait_exit(p)
  BY <1>1, <1>13, BecomeEffect DEF wait_exit, Exits
<1>14. CASE program_exit(p)
  BY <1>1, <1>14, BecomeEffect DEF program_exit, Exits, At
<1> QED BY <1>3, <1>4, <1>5, <1>6, <1>7, <1>8, <1>9, <1>10, <1>11, <1>12, <1>13, <1>14
        DEF ShellStep

-----------------------------------------------------------------------------
\* Numbers that the steps count.
LEMMA Counts ==
    ASSUME JobsTypeOK
    PROVE  /\ n \in Nat /\ Proc \subseteq Nat \ {0} /\ Len(line) \in Nat
           /\ \A p \in Proc : proc[p].k \in Nat
<1>1. proc \in [Proc -> Process] /\ n \in Proc
  BY ProcessType
<1>2. Proc \subseteq Nat \ {0} /\ Len(line) \in Nat
  BY LineFacts DEF Proc
<1>3. \A p \in Proc : proc[p].k \in 0..(Len(line) + 1)
  BY <1>1 DEF Process
<1> QED BY <1>1, <1>2, <1>3

LEMMA ExitedIs == Exited.pc = "gone" /\ Exited # Nobody
BY DEF Exited, Nobody

LEMMA PlacedStep ==
    ASSUME JobsTypeOK, Placed, NEW p \in Proc, StepEffect(p)
    PROVE  Placed'
<1>1. n \in Nat /\ p \in Nat /\ proc[p].k \in Nat /\ Len(line) \in Nat
  BY Counts
<1> DEFINE Here(q) ==
        /\ q > n <=> At(q, "none")
        /\ q > n => proc[q] = Nobody
        /\ proc[q].pc \notin {"none", "gone"} => proc[q].k \in 1..(Len(line) + 1)
        /\ proc[q].pc \notin {"none", "gone", "begin"} => proc[q].k \in 1..Len(line)
        /\ proc[q].pc \in {"left", "right"} => line[proc[q].k].sep = "|"
        /\ At(q, "next") => line[proc[q].k].sep = ";"
<1>2. \A q \in Proc : Here(q)
  BY DEF Placed
<1>3. line' = line
  BY DEF StepEffect
<1>4. CASE /\ n' = n /\ \A q \in Proc : q # p => proc'[q] = proc[q]
           /\ Exits(p) \/ Moves(p)
  <2>1. \A q \in Proc : q # p => Here(q)'
    BY <1>2, <1>3, <1>4 DEF At
  <2>2. CASE Exits(p)
    <3>1. proc'[p].pc = "gone" /\ ~At(p, "none")
      BY <2>2, ExitedIs DEF Exits, At
    <3> QED BY <1>2, <1>4, <2>1, <3>1 DEF Placed, At
  <2>3. CASE Moves(p)
    <3>1. /\ proc[p].pc \notin {"none", "gone"}
          /\ proc'[p].pc \notin {"none", "gone", "right"}
          /\ proc'[p].pc = "begin" => proc'[p].k = proc[p].k + 1 /\ proc[p].pc # "begin"
          /\ proc'[p].pc # "begin" => proc'[p].k = proc[p].k
                                     /\ (proc[p].pc = "begin" => proc[p].k <= Len(line))
      BY <2>3 DEF Moves, Goes, At
    <3>5. /\ proc'[p].pc = "left" => line[proc'[p].k].sep = "|"
          /\ proc'[p].pc = "next" => line[proc'[p].k].sep = ";"
      BY <2>3 DEF Moves, Goes, At
    <3>2. ~(p > n) /\ proc[p].k \in 1..(Len(line) + 1)
          /\ (proc[p].pc # "begin" => proc[p].k \in 1..Len(line))
      BY <1>2, <3>1 DEF At
    <3>3. /\ proc'[p].k \in 1..(Len(line) + 1)
          /\ proc'[p].pc # "begin" => proc'[p].k \in 1..Len(line)
      BY <1>1, <3>1, <3>2
    <3>4. Here(p)'
      BY <1>3, <1>4, <3>1, <3>2, <3>3, <3>5 DEF At
    <3> QED BY <2>1, <3>4 DEF Placed
  <2> QED BY <1>4, <2>2, <2>3
<1>5. CASE /\ n' = n + 1 /\ n' \in Proc /\ \A q \in Proc : q # p /\ q # n' => proc'[q] = proc[q]
           /\ Forks(p, n')
  <2>0. PICK c \in Proc : c = n'
    BY <1>5
  <2>1. /\ proc[p].pc \notin {"none", "gone", "begin"}
        /\ proc'[p].pc \notin {"none", "gone", "right"}
        /\ proc'[p].pc = "begin" => proc'[p].k = proc[p].k + 1
        /\ proc'[p].pc # "begin" => proc'[p].k = proc[p].k
        /\ proc'[p].pc = "left" => line[proc[p].k].sep = "|"
        /\ proc'[p].pc = "next" => line[proc[p].k].sep = ";"
        /\ proc'[c].pc \in {"right", "spawn", "program"} /\ proc'[c].k = proc[p].k
        /\ proc'[c].pc = "right" => line[proc[p].k].sep = "|"
    BY <1>5, <2>0 DEF Forks, Goes, At
  <2>2. ~(p > n) /\ proc[p].k \in 1..Len(line)
    BY <1>2, <2>1 DEF At
  <2>3. /\ proc'[p].k \in 1..(Len(line) + 1)
        /\ proc'[p].pc # "begin" => proc'[p].k \in 1..Len(line)
        /\ proc'[c].k \in 1..Len(line) /\ proc'[c].k \in 1..(Len(line) + 1)
        /\ ~(p > n') /\ ~(c > n')
    <3>1. c \in Nat /\ c = n + 1 /\ n' = n + 1
      BY <1>1, <1>5, <2>0
    <3>2. ~(p > n') /\ ~(c > n')
      BY <1>1, <2>2, <3>1
    <3>3. \A m \in 1..Len(line) : m \in 1..(Len(line) + 1) /\ m + 1 \in 1..(Len(line) + 1)
      BY <1>1
    <3> QED BY <2>1, <2>2, <3>2, <3>3
  <2>4. \A q \in Proc : q # p /\ q # c => Here(q)'
    <3> SUFFICES ASSUME NEW q \in Proc, q # p, q # c PROVE Here(q)'
      OBVIOUS
    <3>1. q \in Nat
      BY Counts
    <3>2. proc'[q] = proc[q] /\ (q > n' <=> q > n)
      BY <1>1, <1>5, <2>0, <3>1
    <3> QED BY <1>2, <1>3, <3>2 DEF At
  <2>5. Here(p)'
    BY <1>3, <2>1, <2>3 DEF At
  <2>6. Here(c)'
    BY <1>3, <2>1, <2>3 DEF At
  <2>7. \A q \in Proc : Here(q)'
    <3> HIDE DEF Here
    <3> QED BY <2>4, <2>5, <2>6
  <2> QED BY <2>7 DEF Placed
<1> QED BY <1>4, <1>5 DEF StepEffect

LEMMA FrontStep ==
    ASSUME JobsTypeOK, Placed, FrontInv, NEW p \in Proc, StepEffect(p)
    PROVE  FrontInv'
<1>1. /\ n \in Nat /\ Proc \subseteq Nat \ {0} /\ Len(line) \in Nat
      /\ \A q \in Proc : proc[q].k \in Nat
  BY Counts
<1>2. \A f, q \in Proc : proc[f].pc \in Parsers /\ Active(q) =>
        proc[q].k <= proc[f].k /\ (proc[q].pc \in Parsers => q = f)
  BY DEF FrontInv
<1>3. CASE /\ n' = n /\ \A q \in Proc : q # p => proc'[q] = proc[q]
           /\ Exits(p)
  <2>1. proc'[p].pc = "gone"
    BY <1>3, ExitedIs DEF Exits
  <2> QED BY <1>2, <1>3, <2>1 DEF FrontInv, Active, Parsers
<1>4. CASE /\ n' = n /\ \A q \in Proc : q # p => proc'[q] = proc[q]
           /\ Moves(p)
  <2>1. Active(p) /\ proc'[p].k \in {proc[p].k, proc[p].k + 1}
    BY <1>4 DEF Moves, Goes, At, Active
  <2>2. /\ proc'[p].pc \in Parsers => proc[p].pc \in Parsers
        /\ proc'[p].k = proc[p].k + 1 => proc[p].pc \in Parsers
    <3>1. proc[p].k + 1 # proc[p].k
      BY <1>1
    <3> QED BY <1>4, <3>1 DEF Moves, Goes, At, Parsers
  <2> QED BY <1>1, <1>2, <1>4, <2>1, <2>2 DEF FrontInv, Active
<1>5. CASE /\ n' = n + 1 /\ n' \in Proc /\ \A q \in Proc : q # p /\ q # n' => proc'[q] = proc[q]
           /\ Forks(p, n')
  <2>1. Active(p) /\ proc'[p].k \in {proc[p].k, proc[p].k + 1} /\ proc'[n'].k = proc[p].k
    BY <1>5 DEF Forks, Goes, At, Active
  <2>2. /\ proc'[p].pc \in Parsers \/ proc'[n'].pc \in Parsers => proc[p].pc \in Parsers
        /\ proc'[p].k = proc[p].k + 1 => proc[p].pc \in Parsers
        /\ ~(proc'[p].pc \in Parsers /\ proc'[n'].pc \in Parsers)
        /\ proc'[n'].pc \in Parsers => proc'[p].k = proc[p].k
    <3>1. proc[p].k + 1 # proc[p].k
      BY <1>1
    <3> QED BY <1>5, <3>1 DEF Forks, Goes, At, Parsers
  <2>3. \A q \in Proc : q # p /\ q # n' /\ Active(q)' => Active(q) /\ proc'[q].k = proc[q].k
    BY <1>5 DEF Active
  <2> SUFFICES ASSUME NEW f \in Proc, NEW q \in Proc, proc'[f].pc \in Parsers, Active(q)'
               PROVE  proc'[q].k <= proc'[f].k /\ (proc'[q].pc \in Parsers => q = f)
    BY DEF FrontInv
  <2>4. CASE f \in {p, n'}
    <3>1. proc[p].pc \in Parsers /\ proc'[f].k \in Nat /\ proc[p].k <= proc'[f].k
      BY <1>1, <2>1, <2>2, <2>4
    <3>2. CASE q \in {p, n'}
      <4>1. proc'[q].k <= proc'[f].k
        BY <1>1, <2>1, <2>2, <2>4, <3>2
      <4> QED BY <2>2, <2>4, <3>2, <4>1
    <3>3. CASE q # p /\ q # n'
      <4>1. proc'[q] = proc[q] /\ proc[q].k <= proc[p].k /\ proc[q].pc \notin Parsers
        BY <1>2, <1>5, <2>3, <3>1, <3>3
      <4> QED BY <1>1, <2>1, <3>1, <4>1
    <3> QED BY <3>2, <3>3
  <2>5. CASE f # p /\ f # n'
    <3>1. proc'[f] = proc[f] /\ proc[f].pc \in Parsers
      BY <1>5, <2>5
    <3>2. proc[p].k <= proc[f].k /\ proc[p].pc \notin Parsers
      BY <1>2, <2>1, <2>5, <3>1
    <3>3. CASE q \in {p, n'}
      BY <1>1, <2>1, <2>2, <3>1, <3>2, <3>3
    <3>4. CASE q # p /\ q # n'
      BY <1>2, <1>5, <2>3, <3>1, <3>4
    <3> QED BY <3>3, <3>4
  <2> QED BY <2>4, <2>5
<1> QED BY <1>3, <1>4, <1>5 DEF StepEffect

\* A waiting process is alive, and so is the one waited for until its wait is over.
LEMMA StepKinds ==
    ASSUME JobsTypeOK, Placed, NEW p \in Proc, StepEffect(p)
    PROVE  /\ line' = line /\ proc[p].pc \notin {"none", "gone"}
           /\ \/ /\ n' = n /\ \A q \in Proc : q # p => proc'[q] = proc[q]
                 /\ Exits(p) \/ Moves(p)
              \/ \E c \in Proc :
                    /\ c = n' /\ c # p /\ At(c, "none")
                    /\ \A q \in Proc : q < c <=> ~At(q, "none")
                    /\ \A q \in Proc : q # p /\ q # c => proc'[q] = proc[q]
                    /\ Forks(p, c)
<1>1. proc[p].pc \notin {"none", "gone"}
  BY DEF StepEffect, Exits, Moves, Forks, Goes, At
<1>2. CASE n' = n
  BY <1>1, <1>2, Counts DEF StepEffect
<1>3. CASE /\ n' = n + 1 /\ n' \in Proc /\ \A q \in Proc : q # p /\ q # n' => proc'[q] = proc[q]
           /\ Forks(p, n')
  <2>1. PICK c \in Proc : c = n'
    BY <1>3
  <2>2. n \in Nat /\ c \in Nat /\ c = n + 1 /\ Proc \subseteq Nat
    BY <1>3, <2>1, Counts
  <2>3. \A q \in Proc : q < c <=> ~(q > n)
    BY <2>2
  <2>4. \A q \in Proc : q > n <=> At(q, "none")
    BY DEF Placed
  <2>5. \A q \in Proc : q < c <=> ~At(q, "none")
    BY <2>3, <2>4
  <2>6. At(c, "none") /\ c # p
    <3>1. ~(c < c)
      BY <2>2
    <3> QED BY <1>1, <2>5, <3>1 DEF At
  <2> QED BY <1>1, <1>3, <2>1, <2>5, <2>6 DEF StepEffect
<1> QED BY <1>2, <1>3 DEF StepEffect

LEMMA ProgramsStep ==
    ASSUME JobsTypeOK, Placed, ProgramsAwaited, NEW p \in Proc, StepEffect(p)
    PROVE  ProgramsAwaited'
<1> SUFFICES ASSUME NEW q \in Proc, At(q, "program")'
             PROVE  \E w \in Proc : /\ proc'[w].pc \in {"close", "wait"} /\ w < q
                                    /\ proc'[w].child = q /\ proc'[w].k = proc'[q].k
  BY DEF ProgramsAwaited
<1>1. CASE At(q, "program") /\ proc'[q] = proc[q]
  <2>1. PICK w \in Proc : /\ proc[w].pc \in {"close", "wait"} /\ w < q
                          /\ proc[w].child = q /\ proc[w].k = proc[q].k
    BY <1>1 DEF ProgramsAwaited
  <2>2. /\ proc'[w].pc \in {"close", "wait"}
        /\ proc'[w].child = q /\ proc'[w].k = proc[q].k
    <3>1. CASE w # p
      <4>1. proc'[w] = proc[w]
        BY <2>1, <3>1, StepKinds DEF At
      <4> QED BY <2>1, <4>1
    <3>2. CASE w = p
      <4>1. q # 0
        BY Counts
      <4>2. ~(At(p, "wait") /\ Gone(proc[p].child))
        BY <1>1, <2>1, <3>2, <4>1 DEF Gone, At
      <4>3. ~Exits(p)
        BY <2>1, <3>2, <4>2 DEF Exits, At
      <4>4. ~(\E c \in Proc : Forks(p, c))
        BY <2>1, <3>2 DEF Forks, Goes, At
      <4>5. Moves(p)
        BY <4>3, <4>4, StepKinds
      <4> QED BY <2>1, <3>2, <4>5 DEF Moves, Goes, At, Same
    <3> QED BY <3>1, <3>2
  <2> QED BY <1>1, <2>1, <2>2
<1>2. CASE ~(At(q, "program") /\ proc'[q] = proc[q])
  <2>1. PICK c \in Proc :
          /\ c # p /\ (\A r \in Proc : r < c <=> ~At(r, "none"))
          /\ \A r \in Proc : r # p /\ r # c => proc'[r] = proc[r]
          /\ Forks(p, c)
    BY <1>2, StepKinds, ExitedIs DEF Exits, Moves, Goes, At
  <2>2. q = c
    BY <1>2, <2>1 DEF Forks, Goes, At
  <2>3. p < c
    BY <2>1, StepKinds DEF At
  <2>4. proc'[p].pc = "close" /\ proc'[p].child = q /\ proc'[p].k = proc'[q].k
    BY <2>1, <2>2 DEF Forks, Goes, At
  <2> QED BY <2>2, <2>3, <2>4
<1> QED BY <1>1, <1>2

LEMMA ListStep ==
    ASSUME JobsTypeOK, Placed, ListAwaited, NEW p \in Proc, StepEffect(p)
    PROVE  ListAwaited'
<1>0. line' = line
  BY StepKinds
<1> SUFFICES ASSUME NEW q \in Proc, proc'[q].pc \in Runners, line[proc'[q].k].sep = ";"
             PROVE  \E w \in Proc : /\ proc'[w].pc = "next" /\ w < q
                                    /\ proc'[w].child = q /\ proc'[w].k = proc'[q].k
  BY <1>0 DEF ListAwaited, At
<1>1. CASE proc[q].pc \in Runners /\ proc'[q].k = proc[q].k
  <2>1. PICK w \in Proc : /\ At(w, "next") /\ w < q
                          /\ proc[w].child = q /\ proc[w].k = proc[q].k
    BY <1>1 DEF ListAwaited
  <2>2. w # p
    <3> SUFFICES ASSUME w = p PROVE FALSE
      OBVIOUS
    <3>1. ~Exits(p) /\ ~(\E c \in Proc : Forks(p, c))
      BY <2>1 DEF Exits, Forks, Goes, At
    <3>2. Moves(p)
      BY <3>1, StepKinds
    <3>3. Gone(q)
      BY <2>1, <3>2 DEF Moves, Goes, At
    <3>4. q # 0
      BY Counts
    <3> QED BY <1>1, <3>3, <3>4 DEF Gone, At, Runners
  <2>3. proc'[w] = proc[w]
    BY <2>1, <2>2, StepKinds DEF At
  <2> QED BY <1>1, <2>1, <2>3 DEF At
<1>2. CASE ~(proc[q].pc \in Runners /\ proc'[q].k = proc[q].k)
  <2>1. ~(q = p /\ Exits(p)) /\ ~(q = p /\ Moves(p)) /\ ~(q = p /\ \E c \in Proc : Forks(p, c))
    <3>1. At(p, "left") => line[proc[p].k].sep = "|"
      BY DEF Placed, At
    <3>2. ~(q = p /\ Exits(p))
      BY ExitedIs DEF Exits, Runners
    <3>3. ~(q = p /\ Moves(p))
      BY <1>2, <3>1 DEF Moves, Goes, At, Runners
    <3>4. ~(q = p /\ \E c \in Proc : Forks(p, c))
      BY <1>2 DEF Forks, Goes, At, Runners
    <3> QED BY <3>2, <3>3, <3>4
  <2>2. PICK c \in Proc :
          /\ c # p /\ (\A r \in Proc : r < c <=> ~At(r, "none"))
          /\ \A r \in Proc : r # p /\ r # c => proc'[r] = proc[r]
          /\ Forks(p, c)
    BY <1>2, <2>1, StepKinds
  <2>3. q = c
    BY <1>2, <2>1, <2>2
  <2>4. p < c
    BY <2>2, StepKinds DEF At
  <2>5. proc'[p].pc = "next" /\ proc'[p].child = q /\ proc'[p].k = proc'[q].k
    BY <2>2, <2>3 DEF Forks, Goes, At, Runners
  <2> QED BY <2>3, <2>4, <2>5
<1> QED BY <1>1, <1>2

\* The processes that may be the right side of a pipe.
MayBeRight(p) == \/ proc[p].pc \in Parsers \cup {"left"}
                 \/ proc[p].pc \in Runners /\ line[proc[p].k].sep \in {"|", "end"}

LEMMA PipesStep ==
    ASSUME JobsTypeOK, Placed, CdAlone(line), PipesAwaited, NEW p \in Proc, StepEffect(p)
    PROVE  PipesAwaited'
<1>1. line' = line
  BY StepKinds
<1> SUFFICES ASSUME NEW q \in Proc, MayBeRight(q)', q # 1
             PROVE  \E w \in Proc : /\ proc'[w].pc \in Runners \cup {"left"} /\ w < q
                                    /\ proc'[w].right = q /\ line[proc'[w].k].sep = "|"
  BY <1>1 DEF PipesAwaited, MayBeRight
<1>2. CASE MayBeRight(q)
  <2>1. PICK w \in Proc : /\ proc[w].pc \in Runners \cup {"left"} /\ w < q
                          /\ proc[w].right = q /\ line[proc[w].k].sep = "|"
    BY <1>2 DEF PipesAwaited, MayBeRight
  <2>2. /\ proc'[w].pc \in Runners \cup {"left"}
        /\ proc'[w].right = q /\ proc'[w].k = proc[w].k
    <3>1. CASE w # p
      <4>1. proc'[w] = proc[w]
        BY <2>1, <3>1, StepKinds DEF At, Runners
      <4> QED BY <2>1, <4>1
    <3>2. CASE w = p
      <4>1. ~Gone(q)
        <5>1. q # 0
          BY Counts
        <5> QED BY <1>2, <5>1 DEF MayBeRight, Gone, At, Parsers, Runners
      <4>2. ~line[proc[p].k].cd
        <5>1. proc[p].k \in 1..Len(line)
          BY <2>1, <3>2, AtCommand DEF Runners
        <5>2. line[proc[p].k] \in Command
          BY <5>1, LineFacts
        <5> QED BY <2>1, <3>2, <5>1, <5>2 DEF CdAlone, Command
      <4>3. ~Exits(p)
        BY <2>1, <3>2, <4>1, <4>2 DEF Exits, At, Runners
      <4>4. \A c \in Proc :
              Forks(p, c) => /\ proc'[p].pc = "close"
                             /\ proc'[p].k = proc[p].k /\ proc'[p].right = proc[p].right
        BY <2>1, <3>2 DEF Forks, Goes, At, Runners
      <4>5. Moves(p) => /\ proc'[p].pc \in Runners
                        /\ proc'[p].k = proc[p].k /\ proc'[p].right = proc[p].right
        BY <2>1, <3>2 DEF Moves, Goes, At, Runners, Same
      <4> QED BY <2>1, <3>2, <4>3, <4>4, <4>5, StepKinds DEF Runners
    <3> QED BY <3>1, <3>2
  <2> QED BY <2>1, <2>2
<1>3. CASE ~MayBeRight(q)
  <2>1. ~(q = p /\ Exits(p)) /\ ~(q = p /\ Moves(p)) /\ ~(q = p /\ \E c \in Proc : Forks(p, c))
    <3>1. ~(q = p /\ Exits(p))
      BY ExitedIs DEF MayBeRight, Exits, Parsers, Runners
    <3>2. ~(q = p /\ Moves(p))
      BY <1>1, <1>3 DEF MayBeRight, Moves, Goes, At, Parsers, Runners
    <3>3. ~(q = p /\ \E c \in Proc : Forks(p, c))
      BY <1>1, <1>3 DEF MayBeRight, Forks, Goes, At, Parsers, Runners
    <3> QED BY <3>1, <3>2, <3>3
  <2>2. PICK c \in Proc :
          /\ c # p /\ (\A r \in Proc : r < c <=> ~At(r, "none"))
          /\ \A r \in Proc : r # p /\ r # c => proc'[r] = proc[r]
          /\ Forks(p, c)
    BY <1>1, <1>3, <2>1, StepKinds DEF MayBeRight
  <2>3. q = c
    BY <1>1, <1>3, <2>1, <2>2 DEF MayBeRight
  <2>4. p < c
    BY <2>2, StepKinds DEF At
  <2>5. /\ proc'[p].pc = "left" /\ proc'[p].right = q
        /\ proc'[p].k = proc[p].k /\ line[proc[p].k].sep = "|"
    <3>1. proc'[c].k = proc[p].k
      BY <2>2 DEF Forks
    <3> QED BY <1>1, <2>2, <2>3, <3>1 DEF MayBeRight, Forks, Goes, At, Runners, Parsers
  <2> QED BY <2>3, <2>4, <2>5
<1> QED BY <1>2, <1>3

\* Reading the console and typing change nothing of the jobs.
LEMMA StepOfJobs == [Next]_vars => [JobsNext]_jobVars
BY DEF Next, vars, read_console, key

ReaderTyped == reader \in {"nobody", "program", "shell"}
LEMMA ReaderStep == ReaderTyped /\ [Next]_vars => ReaderTyped'
BY DEF ReaderTyped, Next, vars, read_console, key

LEMMA InitPlaced ==
    ASSUME Init
    PROVE  /\ JobsTypeOK /\ Placed /\ 1 \in Proc /\ proc[1].k = 1
           /\ \A p \in Proc : proc[p].pc = IF p = 1 THEN "begin" ELSE "none"
<1>1. line \in Lines /\ n = 1 /\ shell = "wait"
  BY DEF Init
<1>0. PICK t \in Copies(First.tab) :
        proc = [p \in Proc |-> IF p = 1 THEN [First EXCEPT !.tab = t] ELSE Nobody]
  BY DEF Init
<1> DEFINE first == [First EXCEPT !.tab = t]
<1>2. line \in Seq(Command) /\ Len(line) \in Nat \ {0} /\ MaxProc \in Nat \ {0}
  <2>1. line \in Seq(Command) /\ Len(line) > 0
    BY <1>1, LineAssumption
  <2> QED BY <2>1, RuleAssumption
<1>3. Nobody \in Process /\ first \in Process /\ 1 \in Proc /\ Proc \subseteq Nat \ {0}
  <2>1. Nobody \in Process
    <3> HIDE DEF Closed, Table
    <3> QED BY <1>2, FdFacts DEF Process, Nobody
  <2>2. Console \in Object
    BY <1>2 DEF Object, Console, Kinds
  <2>3. First \in Process
    <3>1. 1 \in 0..(Len(line) + 1)
      BY <1>2
    <3> DEFINE tab == [Nobody.tab EXCEPT !.fd = [x \in Fd |-> IF x < 2 THEN Console ELSE NONE]]
    <3>2. tab \in Table
      BY <2>1, <2>2 DEF Process, Table
    <3>3. First = [Nobody EXCEPT !.pc = "begin", !.k = 1, !.tab = tab]
      BY DEF First
    <3> HIDE DEF Nobody, tab
    <3> QED BY <2>1, <3>1, <3>2, <3>3 DEF Process
  <2>4. first \in Process
    <3>1. t \in Table
      BY <2>3, CopiesFacts DEF Process
    <3> HIDE DEF First
    <3> QED BY <2>3, <3>1 DEF Process
  <2> QED BY <1>2, <2>1, <2>4 DEF Proc
<1>5. Nobody.pc = "none" /\ first.pc = "begin" /\ first.k = 1
  BY DEF Nobody, First
<1> HIDE DEF first
<1>9. proc = [p \in Proc |-> IF p = 1 THEN first ELSE Nobody]
  BY <1>0 DEF first
<1>4. JobsTypeOK
  BY <1>1, <1>3, <1>9, ProcessType
<1>6. \A p \in Proc : proc[p].pc = IF p = 1 THEN "begin" ELSE "none"
  BY <1>5, <1>9
<1>7. Placed
  <2>1. \A p \in Proc : p > n <=> p # 1
    BY <1>1, <1>3
  <2>2. \A p \in Proc : p > n => proc[p] = Nobody
    BY <1>9, <2>1
  <2>3. 1 \in 1..Len(line) /\ 1 \in 1..(Len(line) + 1)
    BY <1>2
  <2>4. proc[1].k = 1
    BY <1>3, <1>5, <1>9
  <2> QED BY <1>6, <2>1, <2>2, <2>3, <2>4 DEF Placed, At
<1>8. proc[1].k = 1
  BY <1>3, <1>5, <1>9
<1> QED BY <1>3, <1>4, <1>6, <1>7, <1>8

LEMMA WaitInit ==
    ASSUME "cd" \in Discipline
    PROVE  Init => WaitInv /\ CdAlone(line)
<1> SUFFICES ASSUME Init PROVE WaitInv /\ CdAlone(line)
  OBVIOUS
<1>1. shell = "wait" /\ CdAlone(line)
  BY DEF Init, Ask
<1>2. FrontInv
  <2>1. proc[1].k <= proc[1].k
    BY InitPlaced
  <2> QED BY <2>1, InitPlaced DEF FrontInv, Active, Parsers
<1>3. ProgramsAwaited /\ ListAwaited /\ PipesAwaited /\ PromptInv
  BY <1>1, InitPlaced DEF ProgramsAwaited, ListAwaited, PipesAwaited, PromptInv, At, Runners,
                          Parsers
<1> QED BY <1>1, <1>2, <1>3, InitPlaced DEF WaitInv

LEMMA WaitUnchanged ==
    ASSUME WaitInv, UNCHANGED <<line, proc, n>>
    PROVE  Placed' /\ FrontInv' /\ ProgramsAwaited' /\ ListAwaited' /\ PipesAwaited'
<1>1. Placed'
  BY DEF WaitInv, Placed, At
<1>2. FrontInv'
  BY DEF WaitInv, FrontInv, Active
<1>3. ProgramsAwaited'
  BY DEF WaitInv, ProgramsAwaited, At
<1>4. ListAwaited'
  BY DEF WaitInv, ListAwaited, At
<1>5. PipesAwaited'
  BY DEF WaitInv, PipesAwaited
<1> QED BY <1>1, <1>2, <1>3, <1>4, <1>5

LEMMA WaitStep == WaitInv /\ CdAlone(line) /\ [JobsNext]_jobVars => (WaitInv /\ CdAlone(line))'
<1> SUFFICES ASSUME WaitInv, CdAlone(line), [JobsNext]_jobVars PROVE (WaitInv /\ CdAlone(line))'
  OBVIOUS
<1>1. ASSUME NEW p \in Proc, ShellStep(p) \/ program_exit(p) PROVE (WaitInv /\ CdAlone(line))'
  <2>1. StepEffect(p)
    BY <1>1, ShellStepEffect DEF WaitInv
  <2>2. PromptInv'
    <3>1. shell' = shell
      BY <2>1 DEF StepEffect
    <3>2. At(p, "gone") => FALSE
      BY <2>1, StepKinds DEF WaitInv, At
    <3>3. CASE shell = "prompt"
      <4>1. At(1, "gone") /\ 1 \in Proc
        BY <3>3, LineFacts DEF WaitInv, PromptInv, Proc
      <4>2. proc'[1] = proc[1]
        BY <2>1, <3>2, <4>1, StepKinds DEF WaitInv, At
      <4> QED BY <4>1, <4>2 DEF PromptInv, At
    <3> QED BY <3>1, <3>3 DEF PromptInv
  <2> QED BY <2>1, <2>2, PlacedStep, FrontStep, ProgramsStep, ListStep, PipesStep
           DEF WaitInv, StepEffect, CdAlone
<1>2. CASE main_wait
  <2>1. Gone(1) /\ shell' = "prompt" /\ UNCHANGED <<line, proc, n>>
    BY <1>2 DEF main_wait
  <2>2. JobsTypeOK'
    BY <2>1 DEF WaitInv, JobsTypeOK, Table, Object
  <2>3. PromptInv'
    BY <2>1 DEF PromptInv, Gone, At
  <2> QED BY <2>1, <2>2, <2>3, WaitUnchanged DEF WaitInv, CdAlone
<1>3. CASE UNCHANGED jobVars
  <2>1. UNCHANGED <<line, proc, n, shell>>
    BY <1>3 DEF jobVars
  <2>2. JobsTypeOK' /\ PromptInv'
    BY <2>1 DEF WaitInv, JobsTypeOK, Table, Object, PromptInv, At
  <2> QED BY <2>1, <2>2, WaitUnchanged DEF WaitInv, CdAlone
<1> QED BY <1>1, <1>2, <1>3 DEF JobsNext

\* The processes that are waited for, and the shell's child.
InLine(p) == Active(p) /\ ~(proc[p].pc \in Runners \cup {"program"} /\ line[proc[p].k].sep = "&")

LEMMA ParentInLine ==
    ASSUME WaitInv, NEW p \in Proc, InLine(p), p # 1
    PROVE  \E w \in Proc : w < p /\ InLine(w)
<1>1. CASE At(p, "program")
  <2>1. PICK w \in Proc : /\ proc[w].pc \in {"close", "wait"} /\ w < p
                          /\ proc[w].child = p /\ proc[w].k = proc[p].k
    BY <1>1 DEF WaitInv, ProgramsAwaited
  <2> QED BY <1>1, <2>1 DEF InLine, Active, At
<1>2. CASE proc[p].pc \in Runners /\ line[proc[p].k].sep = ";"
  <2>1. PICK w \in Proc : At(w, "next") /\ w < p
    BY <1>2 DEF WaitInv, ListAwaited
  <2> QED BY <2>1 DEF InLine, Active, At, Runners
<1>3. CASE MayBeRight(p)
  <2>1. PICK w \in Proc : /\ proc[w].pc \in Runners \cup {"left"} /\ w < p
                          /\ line[proc[w].k].sep = "|"
    BY <1>3 DEF WaitInv, PipesAwaited, MayBeRight
  <2> QED BY <2>1 DEF InLine, Active, Runners
<1>4. \/ At(p, "program")
      \/ proc[p].pc \in Runners /\ line[proc[p].k].sep = ";"
      \/ MayBeRight(p)
  <2>1. proc[p] \in Process
    BY ProcessType DEF WaitInv
  <2>2. proc[p].pc \in Runners => line[proc[p].k] \in Command
    BY AtCommand DEF WaitInv, Runners
  <2>3. proc[p].pc \in Parsers \cup {"left"} \cup Runners \cup {"program"}
    BY <2>1 DEF InLine, Active, Process, Parsers, Runners
  <2>4. proc[p].pc \in Runners => line[proc[p].k].sep \in {"|", ";", "end"}
    BY <2>2 DEF InLine, Command
  <2>5. CASE proc[p].pc \in Runners
    <3>1. line[proc[p].k].sep = ";" \/ line[proc[p].k].sep \in {"|", "end"}
      BY <2>4, <2>5, Zenon
    <3> QED BY <2>5, <3>1, Zenon DEF MayBeRight
  <2>6. CASE proc[p].pc \notin Runners
    <3>1. proc[p].pc = "program" \/ proc[p].pc \in Parsers \cup {"left"}
      BY <2>3, <2>6, Zenon
    <3>2. CASE proc[p].pc = "program"
      BY <3>2 DEF At
    <3>3. CASE proc[p].pc \in Parsers \cup {"left"}
      BY <3>3 DEF MayBeRight
    <3> QED BY <3>1, <3>2, <3>3
  <2> QED BY <2>5, <2>6, Zenon
<1> QED BY <1>1, <1>2, <1>3, <1>4

\* As long as anybody is in line, process 1 is.
LEMMA FirstInLine ==
    ASSUME WaitInv, NEW p \in Proc, InLine(p)
    PROVE  InLine(1)
<1> DEFINE T0 == {q \in Proc : InLine(q)}
<1>1. Proc \subseteq Nat
  BY Counts DEF WaitInv
<1>2. \E x \in T0 : \A y \in T0 : ~(<<y, x>> \in OpToRel(<, Nat))
  <2>1. T0 \subseteq Nat /\ T0 # {}
    BY <1>1
  <2> HIDE DEF T0
  <2> QED BY <2>1, NatLessThanWellFounded, WFMin, Zenon
<1>3. PICK x \in T0 : \A y \in T0 : ~(<<y, x>> \in OpToRel(<, Nat))
  BY <1>2
<1>4. \A y \in T0 : ~(y < x)
  <2> SUFFICES ASSUME NEW y \in T0, y < x PROVE FALSE
    OBVIOUS
  <2>1. x \in Nat /\ y \in Nat
    BY <1>1
  <2>2. <<y, x>> \in OpToRel(<, Nat)
    BY <2>1 DEF OpToRel
  <2> QED BY <1>3, <2>2
<1> QED BY <1>3, <1>4, ParentInLine

LEMMA LessOrNot == \A a, b \in Nat : a < b => ~(b <= a)
OBVIOUS

\* The shell waits where the line says so (parsecmd, runcmd, main): a command behind ;
\* starts when the one before has ended, and the prompt comes when only programs behind
\* which there is & still run.  For any lines and any number of processes, as long as
\* cd is not the left side of a pipe.
THEOREM ShellWaitsForJobs ==
    ASSUME "cd" \in Discipline
    PROVE  Spec => []ShellWaits
<1>1. WaitInv => ListInOrder
  <2> SUFFICES ASSUME WaitInv, NEW p \in Proc, NEW q \in Proc, At(p, "program"), At(q, "program"),
                      proc[p].k < proc[q].k, line[proc[p].k].sep = ";"
               PROVE  FALSE
    BY DEF ListInOrder
  <2>1. PICK w \in Proc : proc[w].pc \in {"close", "wait"} /\ proc[w].k = proc[p].k
    BY DEF WaitInv, ProgramsAwaited
  <2>2. PICK f \in Proc : At(f, "next") /\ proc[f].k = proc[w].k
    BY <2>1 DEF WaitInv, ListAwaited, Runners
  <2>3. proc[q].k <= proc[p].k
    BY <2>1, <2>2 DEF WaitInv, FrontInv, Active, Parsers, At
  <2>4. proc[p].k \in Nat /\ proc[q].k \in Nat
    BY Counts DEF WaitInv
  <2> QED BY <2>3, <2>4, LessOrNot, Zenon
<1>2. WaitInv => PromptAfterJobs
  <2> SUFFICES ASSUME WaitInv, shell = "prompt", NEW p \in Proc, At(p, "program"),
                      line[proc[p].k].sep # "&"
               PROVE  FALSE
    BY DEF PromptAfterJobs
  <2>1. InLine(p)
    BY DEF InLine, Active, At
  <2> QED BY <2>1, FirstInLine DEF WaitInv, PromptInv, InLine, Active, At
<1>3. WaitInv /\ ReaderTyped => ShellWaits
  BY <1>1, <1>2 DEF WaitInv, ReaderTyped, ShellWaits, TypeOK
<1>4. Init => WaitInv /\ CdAlone(line) /\ ReaderTyped
  BY WaitInit DEF Init, ReaderTyped
<1> QED BY <1>3, <1>4, StepOfJobs, WaitStep, ReaderStep, PTL DEF Spec

-----------------------------------------------------------------------------
(* The descriptors of the jobs.                                             *)

\* What the rule about redirections says of a command.
LEMMA PlainFacts ==
    ASSUME JobsTypeOK, Plain(line), NEW k \in 1..Len(line)
    PROVE  /\ line[k] \in Command
           /\ line[k].sep = "|" => line[k].in = FALSE /\ line[k].out = FALSE
           /\ line[k].in /\ line[k].out => line[k].sep = "end"
           /\ line[k].sep \in {";", "&"} => Base(k) = Console
           /\ Input(k) = IF line[k].in THEN InFile(k) ELSE Base(k)
           /\ line[k].sep = "|" => Base(k + 1) = ReadEnd(k)
           /\ line[k].sep # "|" => Base(k + 1) = Console
<1>1. line[k] \in Command /\ k \in Nat \ {0}
  BY LineFacts
<1>2. k + 1 > 1 /\ k + 1 - 1 = k
  BY <1>1
<1>3. /\ line[k].sep = "|" => line[k].in = FALSE /\ line[k].out = FALSE
      /\ line[k].in /\ line[k].out => line[k].sep = "end"
  BY <1>1 DEF Plain, Command
<1>4. line[k].sep \in {";", "&"} => Base(k) = Console
  BY DEF Plain, Base
<1>5. Input(k) = IF line[k].in THEN InFile(k) ELSE Base(k)
  BY DEF Input, Base
<1>6. Base(k + 1) = IF line[k].sep = "|" THEN ReadEnd(k) ELSE Console
  BY <1>2 DEF Base
<1> QED BY <1>1, <1>3, <1>4, <1>5, <1>6

LEMMA StreamsSame == ASSUME line' = line, NEW r, Streams(r) PROVE Streams(r)'
BY DEF Streams, Base, Input, Output

LEMMA StreamsBecome ==
    ASSUME StreamInv, NEW p \in Proc, NEW r \in Process, Become(p, r), Streams(r)
    PROVE  \A q \in Proc : Streams(proc[q])'
<1>1. /\ proc'[p] = r /\ \A q \in Proc : q # p => proc'[q] = proc[q]
      /\ line' = line
  BY BecomeIs DEF StreamInv
<1> SUFFICES ASSUME NEW q \in Proc PROVE Streams(proc[q])'
  OBVIOUS
<1>2. PICK x : x = proc'[q]
  OBVIOUS
<1>3. Streams(x)
  BY <1>1, <1>2 DEF StreamInv
<1>4. Streams(x)'
  BY <1>1, <1>3, StreamsSame
<1> QED BY <1>2, <1>4 DEF Streams

LEMMA StreamsFork ==
    ASSUME StreamInv, NEW p \in Proc, NEW r \in Process, NEW c \in Process, Fork(p, r, c),
           ~At(p, "none"), Streams(r), Streams(c)
    PROVE  \A q \in Proc : Streams(proc[q])'
<1>1. p <= n
  <2>1. n \in Nat /\ p \in Nat /\ ~(p > n)
    BY Counts DEF StreamInv, Placed
  <2> QED BY <2>1
<1>2. /\ proc'[p] = r /\ proc'[n + 1] = c /\ line' = line
      /\ \A q \in Proc : q # p /\ q # n + 1 => proc'[q] = proc[q]
  BY <1>1, ForkIs DEF StreamInv
<1> SUFFICES ASSUME NEW q \in Proc PROVE Streams(proc[q])'
  OBVIOUS
<1>3. PICK x : x = proc'[q]
  OBVIOUS
<1>4. Streams(x)
  BY <1>2, <1>3 DEF StreamInv
<1>5. Streams(x)'
  BY <1>2, <1>4, StreamsSame
<1> QED BY <1>3, <1>5 DEF Streams

\* The streams a command gets are open.
LEMMA StreamsOpen ==
    ASSUME StreamInv, NEW k \in 1..Len(line)
    PROVE  /\ Console # NONE /\ Base(k) # NONE /\ Input(k) # NONE
           /\ OutFile(k) # NONE
<1>1. JobsTypeOK /\ Len(line) \in Nat /\ NONE \notin Object
  BY ObjectFacts, LineFacts DEF StreamInv
<1>2. k > 1 => k - 1 \in 1..Len(line)
  BY <1>1
<1>3. Console \in Object /\ InFile(k) \in Object /\ OutFile(k) \in Object
      /\ (k > 1 => ReadEnd(k - 1) \in Object)
  BY <1>1, <1>2, Objects
<1> QED BY <1>1, <1>3 DEF Base, Input

LEMMA StreamsStep ==
    ASSUME StreamInv, Plain(line), NEW p \in Proc, ShellStep(p) \/ program_exit(p)
    PROVE  \A q \in Proc : Streams(proc[q])'
<1> DEFINE k == proc[p].k
<1>1. proc[p] \in Process /\ Exited \in Process /\ Nobody \in Process
  BY ProcessType, NobodyType DEF StreamInv
<1>2. n + 1 \in 0..MaxProc \/ ~(n < MaxProc)
  BY LineFacts, ProcessType DEF Proc, StreamInv
<1>3. Streams(proc[p]) /\ Streams(Exited)
  BY ExitedIs DEF StreamInv, Streams
<1>4. ASSUME proc[p].pc \notin {"none", "gone", "begin"}
      PROVE  /\ k \in 1..Len(line) /\ k + 1 \in 0..(Len(line) + 1) /\ ~At(p, "none")
             /\ line[k] \in Command
             /\ line[k].sep = "|" => line[k].in = FALSE /\ line[k].out = FALSE
             /\ line[k].in /\ line[k].out => line[k].sep = "end"
             /\ line[k].sep \in {";", "&"} => Base(k) = Console
             /\ Input(k) = IF line[k].in THEN InFile(k) ELSE Base(k)
             /\ line[k].sep = "|" => Base(k + 1) = ReadEnd(k)
             /\ line[k].sep # "|" => Base(k + 1) = Console
  BY <1>4, AtCommand, PlainFacts DEF StreamInv
<1>5. CASE parsecmd(p)
  <2>1. At(p, "begin")
    BY <1>5 DEF parsecmd
  <2>2. CASE k > Len(line)
    BY <1>1, <1>3, <1>5, <2>2, StreamsBecome DEF parsecmd
  <2>3. CASE ~(k > Len(line))
    <3>1. PICK t \in Undone(proc[p]) :
            Become(p, [proc[p] EXCEPT !.pc = "words", !.dup0 = FALSE, !.dup1 = FALSE, !.tab = t])
      BY <1>5, <2>3 DEF parsecmd
    <3> DEFINE r == [proc[p] EXCEPT !.pc = "words", !.dup0 = FALSE, !.dup1 = FALSE, !.tab = t]
    <3>2. /\ t \in Table
          /\ ~t.lost => t.fd[0] = Base(k) /\ t.fd[1] = Console
      BY <1>1, <1>3, <2>1, UndoneFacts DEF Streams, At
    <3>3. r \in Process /\ r.pc = "words" /\ r.k = k /\ r.tab = t
          /\ r.dup0 = FALSE /\ r.dup1 = FALSE
      BY <1>1, <3>2 DEF Process
    <3>4. Become(p, r)
      BY <3>1
    <3> HIDE DEF r
    <3>5. Streams(r)
      BY <3>2, <3>3 DEF Streams
    <3> QED BY <3>3, <3>4, <3>5, StreamsBecome
  <2> QED BY <2>2, <2>3
<1>6. CASE redirect(p)
  <2>1. At(p, "words")
    BY <1>6 DEF redirect
  <2>2. k \in 1..Len(line) /\ line[k] \in Command
        /\ Input(k) = (IF line[k].in THEN InFile(k) ELSE Base(k))
    BY <1>4, <2>1 DEF At
  <2>3. ASSUME NEW t \in Reading(proc[p].tab, k), NEW w \in Writing(t, k),
               Become(p, [proc[p] EXCEPT !.pc = "sep", !.dup0 = line[k].in,
                                         !.dup1 = line[k].out, !.tab = w])
        PROVE  \A q \in Proc : Streams(proc[q])'
    <3> DEFINE r == [proc[p] EXCEPT !.pc = "sep", !.dup0 = line[k].in, !.dup1 = line[k].out,
                                    !.tab = w]
    <3>1. proc[p].tab \in Table /\ line[k].in \in BOOLEAN /\ line[k].out \in BOOLEAN
      BY <1>1, <2>2 DEF Process, Command
    <3>2. /\ w \in Table
          /\ ~w.lost =>
               /\ ~proc[p].tab.lost
               /\ proc[p].tab.fd[0] # NONE /\ proc[p].tab.fd[1] # NONE =>
                    /\ w.fd[0] = IF line[k].in THEN InFile(k) ELSE proc[p].tab.fd[0]
                    /\ w.fd[1] = IF line[k].out THEN OutFile(k) ELSE proc[p].tab.fd[1]
      BY <2>2, <3>1, RedirectFacts DEF StreamInv
    <3>3. r \in Process /\ r.pc = "sep" /\ r.k = k /\ r.tab = w /\ r.dup0 = line[k].in
          /\ r.dup1 = line[k].out
      BY <1>1, <3>1, <3>2 DEF Process
    <3>4. Become(p, r)
      BY <2>3
    <3>5. Base(k) # NONE /\ Console # NONE
      BY <2>2, StreamsOpen
    <3> HIDE DEF r
    <3>6. ASSUME ~w.lost
          PROVE  /\ w.fd[0] = Input(k)
                 /\ w.fd[1] = IF line[k].out THEN OutFile(k) ELSE Console
      <4>1. proc[p].tab.fd[0] = Base(k) /\ proc[p].tab.fd[1] = Console
        BY <1>3, <2>1, <3>2, <3>6 DEF Streams, At
      <4> QED BY <2>2, <3>2, <3>5, <3>6, <4>1
    <3>7. Streams(r)
      BY <3>3, <3>6 DEF Streams
    <3> QED BY <3>3, <3>4, <3>7, StreamsBecome
  <2>4. CASE Become(p, Exited)
    BY <1>1, <1>3, <2>4, StreamsBecome
  <2> QED BY <1>6, <2>3, <2>4 DEF redirect
<1>7. CASE parse_pipe(p)
  <2>1. At(p, "sep") /\ line[k].sep = "|"
    BY <1>7 DEF parse_pipe
  <2>2. k \in 1..Len(line) /\ ~At(p, "none")
    BY <1>4, <2>1 DEF At
  <2>3. PICK made \in Pipes(proc[p].tab, k) :
          LET left == [proc[p] EXCEPT !.pc = "left", !.tab = made[1], !.ends = made[2]]
          IN  \/ Become(p, left)
              \/ \E t \in Copies(made[1]) :
                   Fork(p, [left EXCEPT !.right = n + 1],
                           [left EXCEPT !.pc = "right", !.tab = t])
    BY <1>7 DEF parse_pipe
  <2> DEFINE left == [proc[p] EXCEPT !.pc = "left", !.tab = made[1], !.ends = made[2]]
  <2>4. /\ made[1] \in Table /\ made[2] \in (Fd \cup {NONE}) \X (Fd \cup {NONE})
        /\ ~made[1].lost =>
             /\ ~proc[p].tab.lost
             /\ proc[p].tab.fd[0] # NONE /\ proc[p].tab.fd[1] # NONE =>
                  /\ made[2][1] \in Fd \ {0, 1} /\ made[2][2] \in Fd \ {0, 1}
                  /\ made[1].fd[made[2][1]] = ReadEnd(k) /\ made[1].fd[made[2][2]] = WriteEnd(k)
                  /\ made[1].fd[0] = proc[p].tab.fd[0] /\ made[1].fd[1] = proc[p].tab.fd[1]
    <3>1. proc[p].tab \in Table
      BY <1>1 DEF Process
    <3> QED BY <2>2, <3>1, PipesFacts DEF StreamInv
  <2>5. left \in Process /\ left.pc = "left" /\ left.k = k /\ left.tab = made[1]
        /\ left.ends = made[2] /\ left.dup0 = proc[p].dup0 /\ left.dup1 = proc[p].dup1
    BY <1>1, <2>4 DEF Process
  <2> HIDE DEF left
  <2>6. ASSUME NEW r, r.pc \in {"left", "right"}, r.k = k, ~r.tab.lost => r.tab = made[1],
               r.ends = made[2], r.dup0 = proc[p].dup0, r.dup1 = proc[p].dup1
        PROVE  Streams(r)
    <3> SUFFICES ASSUME ~r.tab.lost PROVE Streams(r)
      BY DEF Streams
    <3>1. ~made[1].lost /\ r.tab = made[1]
      BY <2>6
    <3>2. /\ proc[p].tab.fd[0] = Input(k) /\ proc[p].dup0 = line[k].in
          /\ proc[p].dup1 = line[k].out
          /\ proc[p].tab.fd[1] = IF line[k].out THEN OutFile(k) ELSE Console
      BY <1>3, <2>1, <2>4, <3>1 DEF Streams, At
    <3>3. proc[p].tab.fd[0] # NONE /\ proc[p].tab.fd[1] # NONE
      BY <2>2, <3>2, StreamsOpen
    <3>4. /\ made[2][1] \in Fd \ {0, 1} /\ made[2][2] \in Fd \ {0, 1}
          /\ made[1].fd[made[2][1]] = ReadEnd(k) /\ made[1].fd[made[2][2]] = WriteEnd(k)
          /\ made[1].fd[0] = proc[p].tab.fd[0] /\ made[1].fd[1] = proc[p].tab.fd[1]
      BY <2>4, <3>1, <3>3
    <3> QED BY <2>6, <3>1, <3>2, <3>4 DEF Streams
  <2>7. CASE Become(p, left)
    <3>1. Streams(left)
      BY <2>5, <2>6
    <3> QED BY <2>5, <2>7, <3>1, StreamsBecome
  <2>8. ASSUME NEW t \in Copies(made[1]),
               Fork(p, [left EXCEPT !.right = n + 1], [left EXCEPT !.pc = "right", !.tab = t])
        PROVE  \A q \in Proc : Streams(proc[q])'
    <3> DEFINE r == [left EXCEPT !.right = n + 1]
               c == [left EXCEPT !.pc = "right", !.tab = t]
    <3>1. t \in Table /\ (~t.lost => t = made[1]) /\ n + 1 \in 0..MaxProc
      BY <1>2, <2>4, <2>8, CopiesFacts DEF Fork
    <3>2. /\ r \in Process /\ r.pc = "left" /\ r.k = k /\ r.tab = made[1] /\ r.ends = made[2]
          /\ r.dup0 = proc[p].dup0 /\ r.dup1 = proc[p].dup1
      BY <2>5, <3>1 DEF Process
    <3>3. /\ c \in Process /\ c.pc = "right" /\ c.k = k /\ c.tab = t /\ c.ends = made[2]
          /\ c.dup0 = proc[p].dup0 /\ c.dup1 = proc[p].dup1
      BY <2>5, <3>1 DEF Process
    <3>4. Fork(p, r, c)
      BY <2>8
    <3> HIDE DEF r, c
    <3>5. Streams(r) /\ Streams(c)
      BY <2>6, <3>1, <3>2, <3>3
    <3> QED BY <2>2, <3>2, <3>3, <3>4, <3>5, StreamsFork
  <2> QED BY <2>3, <2>7, <2>8 DEF left
<1>8. CASE pipe_left(p)
  <2>1. At(p, "left")
    BY <1>8 DEF pipe_left
  <2>2. PICK q \in OntoPipe(proc[p], 2, 1) : Become(p, [q EXCEPT !.pc = "spawn"])
    BY <1>8 DEF pipe_left
  <2>3. k \in 1..Len(line) /\ line[k].sep = "|"
    BY <1>4, <2>1 DEF At, StreamInv, Placed
  <2>4. /\ q \in Process /\ q.k = k
        /\ ~q.tab.lost =>
             /\ ~proc[p].tab.lost
             /\ proc[p].ends[1] \notin {0, 1} /\ proc[p].ends[2] \notin {0, 1} =>
                  /\ q.tab.fd[1] = proc[p].tab.fd[proc[p].ends[2]]
                  /\ q.tab.fd[0] = proc[p].tab.fd[0]
    BY <1>1, OntoPipeFacts DEF StreamInv
  <2> DEFINE r == [q EXCEPT !.pc = "spawn"]
  <2>5. r \in Process /\ r.pc = "spawn" /\ r.k = k /\ r.tab = q.tab
    BY <2>4 DEF Process
  <2>6. Become(p, r)
    BY <2>2
  <2> HIDE DEF r
  <2>7. ~r.tab.lost => r.tab.fd[0] = Input(k) /\ r.tab.fd[1] = Output(k)
    BY <1>3, <2>1, <2>3, <2>4, <2>5 DEF Streams, At, Output
  <2>8. Streams(r)
    BY <2>5, <2>7 DEF Streams
  <2> QED BY <2>5, <2>6, <2>8, StreamsBecome
<1>9. CASE pipe_right(p)
  <2>1. At(p, "right")
    BY <1>9 DEF pipe_right
  <2>2. PICK q \in OntoPipe(proc[p], 1, 0) : Become(p, [q EXCEPT !.pc = "begin", !.k = @ + 1])
    BY <1>9 DEF pipe_right
  <2>3. k \in 1..Len(line) /\ k + 1 \in 0..(Len(line) + 1) /\ line[k].sep = "|"
    BY <1>4, <2>1 DEF At, StreamInv, Placed
  <2>4. /\ q \in Process /\ q.k = k /\ q.dup0 = proc[p].dup0 /\ q.dup1 = proc[p].dup1
        /\ ~q.tab.lost =>
             /\ ~proc[p].tab.lost
             /\ proc[p].ends[1] \notin {0, 1} /\ proc[p].ends[2] \notin {0, 1} =>
                  /\ q.tab.fd[0] = proc[p].tab.fd[proc[p].ends[1]]
                  /\ q.tab.fd[1] = proc[p].tab.fd[1]
    BY <1>1, OntoPipeFacts DEF StreamInv
  <2> DEFINE r == [q EXCEPT !.pc = "begin", !.k = q.k + 1]
  <2>5. r \in Process /\ r.pc = "begin" /\ r.k = k + 1 /\ r.tab = q.tab
        /\ r.dup0 = proc[p].dup0 /\ r.dup1 = proc[p].dup1
    BY <2>3, <2>4 DEF Process
  <2>6. Become(p, r)
    BY <2>2
  <2> HIDE DEF r
  <2>7. line[k].in = FALSE /\ line[k].out = FALSE /\ Base(k + 1) = ReadEnd(k)
    BY <1>4, <2>1, <2>3 DEF At
  <2>8. ~r.tab.lost => /\ r.tab.fd[0] = ReadEnd(k) /\ r.tab.fd[1] = Console
                       /\ r.dup0 = FALSE /\ r.dup1 = FALSE
    BY <1>3, <2>1, <2>4, <2>5, <2>7 DEF Streams, At
  <2>9. Streams(r)
    BY <2>5, <2>7, <2>8 DEF Streams
  <2> QED BY <2>5, <2>6, <2>9, StreamsBecome
<1>10. ASSUME NEW r \in Process, r.pc = "begin", r.k = k + 1, proc[p].pc \in {"sep", "next"},
              line[k].sep \in {";", "&"}, r.tab = proc[p].tab,
              r.dup0 = proc[p].dup0, r.dup1 = proc[p].dup1
       PROVE  Streams(r)
  <2> SUFFICES ASSUME ~r.tab.lost PROVE Streams(r)
    BY DEF Streams
  <2>1. /\ r.tab.fd[0] = Input(k) /\ r.dup0 = line[k].in /\ r.dup1 = line[k].out
        /\ r.tab.fd[1] = IF line[k].out THEN OutFile(k) ELSE Console
    BY <1>3, <1>10 DEF Streams
  <2>2. /\ Input(k) = (IF line[k].in THEN InFile(k) ELSE Console)
        /\ Base(k + 1) = Console /\ ~(line[k].in /\ line[k].out)
    BY <1>4, <1>10
  <2>3. (IF r.dup0 THEN r.tab.fd[1] ELSE r.tab.fd[0]) = Console
    BY <2>1, <2>2
  <2>4. (IF r.dup1 THEN Console ELSE r.tab.fd[1]) = Console
    BY <2>1, <2>2
  <2> QED BY <1>10, <2>2, <2>3, <2>4 DEF Streams
<1>11. CASE parse_list(p)
  <2> DEFINE r1(child) == [proc[p] EXCEPT !.pc = "next", !.child = child]
             r2 == [proc[p] EXCEPT !.pc = "begin", !.k = k + 1]
             c(t) == [proc[p] EXCEPT !.pc = "spawn", !.child = 0, !.tab = t]
  <2>1. At(p, "sep") /\ line[k].sep \in {";", "&"}
    BY <1>11 DEF parse_list
  <2>2. \/ Become(p, IF line[k].sep = ";" THEN r1(0) ELSE r2)
        \/ \E t \in Copies(proc[p].tab) :
             Fork(p, IF line[k].sep = ";" THEN r1(n + 1) ELSE r2, c(t))
    BY <1>11 DEF parse_list
  <2>3. k + 1 \in 0..(Len(line) + 1) /\ ~At(p, "none") /\ 0 \in 0..MaxProc
    <3>1. k + 1 \in 0..(Len(line) + 1) /\ ~At(p, "none")
      BY <1>4, <2>1 DEF At
    <3>2. 0 \in 0..MaxProc
      BY LineFacts DEF StreamInv
    <3> QED BY <3>1, <3>2
  <2>4. \A t \in Table : c(t) \in Process /\ c(t).pc = "spawn" /\ c(t).k = k /\ c(t).tab = t
    BY <1>1, <2>3 DEF Process
  <2>5. \A child \in 0..MaxProc :
          /\ r1(child) \in Process /\ r1(child).pc = "next" /\ r1(child).k = k
          /\ r1(child).tab = proc[p].tab
          /\ r1(child).dup0 = proc[p].dup0 /\ r1(child).dup1 = proc[p].dup1
    BY <1>1 DEF Process
  <2>6. r2 \in Process /\ r2.pc = "begin" /\ r2.k = k + 1 /\ r2.tab = proc[p].tab
        /\ r2.dup0 = proc[p].dup0 /\ r2.dup1 = proc[p].dup1
    BY <1>1, <2>3 DEF Process
  <2> HIDE DEF r1, r2, c
  <2>7. \A child \in 0..MaxProc : Streams(r1(child))
    BY <1>3, <2>1, <2>5 DEF Streams, At
  <2>8. Streams(r2)
    BY <1>10, <2>1, <2>6 DEF At
  <2>9. \A t \in Copies(proc[p].tab) : c(t) \in Process /\ Streams(c(t))
    <3> SUFFICES ASSUME NEW t \in Copies(proc[p].tab) PROVE c(t) \in Process /\ Streams(c(t))
      OBVIOUS
    <3>1. t \in Table /\ (~t.lost => t = proc[p].tab)
      BY <1>1, CopiesFacts DEF Process
    <3>2. c(t) \in Process /\ c(t).pc = "spawn" /\ c(t).k = k /\ c(t).tab = t
      BY <2>4, <3>1
    <3>3. ~t.lost => t.fd[0] = Input(k) /\ t.fd[1] = Output(k)
      BY <1>3, <2>1, <3>1 DEF Streams, At, Output
    <3> QED BY <3>2, <3>3 DEF Streams
  <2> DEFINE r(child) == IF line[k].sep = ";" THEN r1(child) ELSE r2
  <2>10. \A child \in 0..MaxProc : r(child) \in Process /\ Streams(r(child))
    BY <2>5, <2>6, <2>7, <2>8
  <2>11. Become(p, r(0)) \/ \E t \in Copies(proc[p].tab) : Fork(p, r(n + 1), c(t))
    BY <2>2
  <2> HIDE DEF r
  <2>12. CASE Become(p, r(0))
    BY <2>3, <2>10, <2>12, StreamsBecome
  <2>13. ASSUME NEW t \in Copies(proc[p].tab), Fork(p, r(n + 1), c(t))
         PROVE  \A q \in Proc : Streams(proc[q])'
    <3>1. n + 1 \in 0..MaxProc
      BY <1>2, <2>13 DEF Fork
    <3> QED BY <2>3, <2>9, <2>10, <2>13, <3>1, StreamsFork
  <2> QED BY <2>11, <2>12, <2>13
<1>12. CASE wait_next(p)
  <2> DEFINE r == [proc[p] EXCEPT !.pc = "begin", !.k = k + 1, !.child = 0]
  <2>1. At(p, "next") /\ Become(p, r)
    BY <1>12 DEF wait_next
  <2>2. k + 1 \in 0..(Len(line) + 1) /\ 0 \in 0..MaxProc
    <3>1. k + 1 \in 0..(Len(line) + 1)
      BY <1>4, <2>1 DEF At
    <3>2. 0 \in 0..MaxProc
      BY LineFacts DEF StreamInv
    <3> QED BY <3>1, <3>2
  <2>3. r \in Process /\ r.pc = "begin" /\ r.k = k + 1 /\ r.tab = proc[p].tab
        /\ r.dup0 = proc[p].dup0 /\ r.dup1 = proc[p].dup1
    BY <1>1, <2>2 DEF Process
  <2>4. line[k].sep = ";"
    BY <2>1 DEF StreamInv, Placed
  <2> HIDE DEF r
  <2>5. Streams(r)
    BY <1>10, <2>1, <2>3, <2>4 DEF At
  <2> QED BY <2>1, <2>3, <2>5, StreamsBecome
<1>13. CASE parse_end(p)
  <2> DEFINE r == [proc[p] EXCEPT !.pc = "spawn"]
  <2>1. At(p, "sep") /\ line[k].sep = "end" /\ Become(p, r)
    BY <1>13 DEF parse_end
  <2>2. r \in Process /\ r.pc = "spawn" /\ r.k = k /\ r.tab = proc[p].tab
    BY <1>1 DEF Process
  <2> HIDE DEF r
  <2>3. Streams(r)
    BY <1>3, <2>1, <2>2 DEF Streams, At, Output
  <2> QED BY <2>1, <2>2, <2>3, StreamsBecome
<1>14. CASE runcmd(p)
  <2> DEFINE r1 == [proc[p] EXCEPT !.pc = "close", !.child = n + 1]
             r2 == [proc[p] EXCEPT !.pc = "close"]
             c == [Nobody EXCEPT !.pc = "program", !.k = k, !.tab = proc[p].tab]
  <2>1. At(p, "spawn") /\ (Become(p, Exited) \/ Fork(p, r1, c) \/ Become(p, r2))
    BY <1>14 DEF runcmd
  <2>2. ~At(p, "none")
    BY <1>4, <2>1 DEF At
  <2>3. c \in Process /\ c.pc = "program" /\ c.k = k /\ c.tab = proc[p].tab
    BY <1>1 DEF Process, Nobody
  <2>4. r2 \in Process /\ r2.pc = "close"
    BY <1>1 DEF Process
  <2>5. n < MaxProc => r1 \in Process /\ r1.pc = "close"
    BY <1>1, <1>2 DEF Process
  <2> HIDE DEF r1, r2, c
  <2>6. Streams(c)
    BY <1>3, <2>1, <2>3 DEF Streams, At
  <2>7. Streams(r2) /\ (n < MaxProc => Streams(r1))
    BY <2>4, <2>5 DEF Streams
  <2>8. CASE Fork(p, r1, c)
    <3>1. n < MaxProc
      BY <2>8 DEF Fork
    <3> QED BY <2>2, <2>3, <2>5, <2>6, <2>7, <2>8, <3>1, StreamsFork
  <2> QED BY <1>1, <1>3, <2>1, <2>4, <2>7, <2>8, StreamsBecome
<1>15. CASE close_all(p)
  <2> DEFINE r == [proc[p] EXCEPT !.pc = "wait", !.tab = [proc[p].tab EXCEPT !.fd = Closed.fd]]
  <2>1. Become(p, r)
    BY <1>15 DEF close_all
  <2>2. r \in Process /\ r.pc = "wait"
    <3>1. [proc[p].tab EXCEPT !.fd = Closed.fd] \in Table
      BY <1>1, FdFacts DEF Process, Table
    <3> QED BY <1>1, <3>1 DEF Process
  <2> HIDE DEF r
  <2>3. Streams(r)
    BY <2>2 DEF Streams
  <2> QED BY <2>1, <2>2, <2>3, StreamsBecome
<1>16. CASE wait_exit(p) \/ program_exit(p)
  BY <1>1, <1>3, <1>16, StreamsBecome DEF wait_exit, program_exit
<1> QED BY <1>5, <1>6, <1>7, <1>8, <1>9, <1>11, <1>12, <1>13, <1>14, <1>15, <1>16 DEF ShellStep

\* Every program runs with the input and output that the line gives it (parsecmd: "dup the
\* read end of the pipe onto 0", "dup the write end of the pipe onto 1", and the undoing of
\* redirections before the next command), whichever process parsed its command.  For any
\* lines that keep to the rule about redirections, any number of processes and of
\* descriptors; a program on whose way an untested call has failed is not spoken of.
THEOREM ProgramsHaveTheirStreams ==
    ASSUME "plain" \in Discipline
    PROVE  Spec => []StreamsRight
<1>1. Init => StreamInv /\ Plain(line)
  <2> SUFFICES ASSUME Init PROVE StreamInv /\ Plain(line)
    OBVIOUS
  <2>1. JobsTypeOK /\ Placed
    BY InitPlaced
  <2>2. Plain(line)
    BY DEF Init, Ask
  <2>3. PICK t \in Copies(First.tab) :
          proc = [p \in Proc |-> IF p = 1 THEN [First EXCEPT !.tab = t] ELSE Nobody]
    BY DEF Init
  <2> DEFINE first == [First EXCEPT !.tab = t]
  <2>4. Streams(first) /\ Streams(Nobody)
    <3>1. /\ first.pc = "begin" /\ first.k = 1 /\ first.tab = t
          /\ First.tab.fd[0] = Console /\ First.tab.fd[1] = Console
          /\ first.dup0 = FALSE /\ first.dup1 = FALSE /\ Nobody.pc = "none"
      BY FdFacts DEF First, Nobody, Closed
    <3>2. Base(1) = Console
      BY DEF Base
    <3>3. ~t.lost => t = First.tab
      BY DEF Copies, Lose, Closed
    <3> HIDE DEF first
    <3> QED BY <3>1, <3>2, <3>3 DEF Streams
  <2> HIDE DEF first
  <2>5. \A p \in Proc : proc[p] = IF p = 1 THEN first ELSE Nobody
    BY <2>3 DEF first
  <2> QED BY <2>1, <2>2, <2>4, <2>5 DEF StreamInv
<1>2. StreamInv /\ Plain(line) /\ [JobsNext]_jobVars => (StreamInv /\ Plain(line))'
  <2> SUFFICES ASSUME StreamInv, Plain(line), [JobsNext]_jobVars PROVE (StreamInv /\ Plain(line))'
    OBVIOUS
  <2>1. ASSUME NEW p \in Proc, ShellStep(p) \/ program_exit(p) PROVE (StreamInv /\ Plain(line))'
    <3>1. StepEffect(p) /\ \A q \in Proc : Streams(proc[q])'
      BY <2>1, ShellStepEffect, StreamsStep DEF StreamInv
    <3>2. JobsTypeOK' /\ Placed' /\ line' = line
      BY <3>1, PlacedStep DEF StepEffect, StreamInv
    <3> QED BY <3>1, <3>2 DEF StreamInv, Plain
  <2>2. ASSUME UNCHANGED <<line, proc, n>>, shell' \in {"wait", "prompt"}
        PROVE  (StreamInv /\ Plain(line))'
    <3>1. JobsTypeOK'
      BY <2>2 DEF StreamInv, JobsTypeOK, Table, Object
    <3>2. Placed'
      BY <2>2 DEF StreamInv, Placed, At
    <3>3. \A q \in Proc : Streams(proc[q])'
      BY <2>2 DEF StreamInv, Streams, Base, Input, Output
    <3> QED BY <2>2, <3>1, <3>2, <3>3 DEF StreamInv, Plain
  <2>3. CASE main_wait
    BY <2>2, <2>3 DEF main_wait
  <2>4. CASE UNCHANGED jobVars
    BY <2>2, <2>4 DEF jobVars, StreamInv, JobsTypeOK
  <2> QED BY <2>1, <2>3, <2>4 DEF JobsNext
<1>3. StreamInv => StreamsRight
  BY DEF StreamInv, StreamsRight, Streams, At
<1> QED BY <1>1, <1>2, <1>3, StepOfJobs, PTL DEF Spec
-----------------------------------------------------------------------------
(* The table of variables.                                                  *)

\* The place of an entry follows from its name.
LEMMA FirstOfOne ==
    ASSUME NEW S, NEW i \in Int, i \in S, \A j \in S : j = i
    PROVE  FirstEntry(S) = i
<1>1. \A j \in S : i <= j
  OBVIOUS
<1>2. FirstEntry(S) \in S
  BY <1>1 DEF FirstEntry
<1> QED BY <1>2

LEMMA AsCharFacts ==
    ASSUME TableConstantsOK, TableTypeOK, NEW s \in Shell
    PROVE  /\ AsChar(s) \in ShellId /\ 0 \in ShellId
           /\ 2 * MaxShells < CharMod => AsChar(s) = s
<1>1. s \in Nat /\ s <= MaxShells /\ MaxShells \in Nat /\ CharMod \in Nat \ {0}
  BY DEF TableConstantsOK, TableTypeOK, Shell
<1>2. CharMod % 2 = 0 /\ 2 * (CharMod \div 2) = CharMod /\ CharMod \div 2 \in Nat
  BY <1>1 DEF TableConstantsOK
<1>3. s % CharMod \in 0..(CharMod - 1) /\ s % CharMod <= s
  BY <1>1
<1>4. s < CharMod => s % CharMod = s
  BY <1>1
<1>5. CASE 2 * (s % CharMod) >= CharMod
  <2>1. AsChar(s) = (s % CharMod) - CharMod
    BY <1>5 DEF AsChar
  <2> QED BY <1>1, <1>2, <1>3, <1>4, <1>5, <2>1 DEF ShellId
<1>6. CASE ~(2 * (s % CharMod) >= CharMod)
  <2>1. AsChar(s) = s % CharMod
    BY <1>6 DEF AsChar
  <2> QED BY <1>1, <1>2, <1>3, <1>4, <1>6, <2>1 DEF ShellId
<1> QED BY <1>5, <1>6

\* What a declaration does: entry d, of this name or the next unused one, becomes e.
DeclareEffect(name, e) ==
    /\ e \in Entry /\ e # UNSET /\ e.name = name /\ e.valid = TRUE
    /\ UNCHANGED shell_num /\ table_overrun' \in BOOLEAN
    /\ env_value' \in [Index -> Entry \cup {UNSET}] /\ env_value_num' \in Nat
    /\ "own names" \in TableRules =>
           \A i \in Index : Holds(i, name) => env_value[i].shell_id = e.shell_id
    /\ \E d \in Nat :
          /\ \A i \in Index : env_value'[i] = IF i = d THEN e ELSE env_value[i]
          /\ \A i \in Index : Holds(i, name) => i = d /\ env_value[i].mood = FALSE
          /\ \A i \in Index : i = d => env_value[i] = UNSET \/ Holds(i, name)
          /\ \A i \in Index : i < env_value_num' <=> i < env_value_num \/ i = d
          /\ d \in Index <=> ~table_overrun'

LEMMA DeclareFacts ==
    ASSUME TableConstantsOK, TableKept,
           NEW s \in Shell, NEW name \in Name, NEW v \in Value, NEW x \in BOOLEAN,
           NEW r \in BOOLEAN, declare(s, name, v, x, r)
    PROVE  DeclareEffect(name, [name |-> name, value |-> v, mood |-> r, valid |-> TRUE,
                                shell_id |-> IF x THEN 0 ELSE AsChar(s)])
<1> DEFINE id == IF x THEN 0 ELSE AsChar(s)
           e == [name |-> name, value |-> v, mood |-> r, valid |-> TRUE, shell_id |-> id]
<1> SUFFICES DeclareEffect(name, e)
  OBVIOUS
<1>8. e.name = name /\ e.valid = TRUE /\ e.shell_id = id
  OBVIOUS
<1> USE DEF TableKept
<1> DEFINE found == SameName(name)
           d == IF found = {} THEN env_value_num ELSE FirstEntry(found)
<1>1. id \in ShellId
  BY AsCharFacts
<1>2. e \in Entry /\ e # UNSET
  <2>1. e \in Entry
    BY <1>1 DEF Entry
  <2> QED BY <2>1 DEF TableConstantsOK
<1>3. /\ \A i \in found : i = FirstEntry(found) => ~env_value[i].mood
      /\ env_value' = [i \in Index |-> IF i = d THEN e ELSE env_value[i]]
      /\ table_overrun' = (d \notin Index)
      /\ env_value_num' = IF d = env_value_num THEN env_value_num + 1 ELSE env_value_num
      /\ UNCHANGED shell_num
      /\ "own names" \in TableRules => \A i \in found : env_value[i].shell_id = id
  BY DEF declare, sys_declare_env_value
<1>4. found = {i \in Index : Holds(i, name)} /\ Index \subseteq Nat
  BY DEF SameName, Index, TableConstantsOK
<1>5. /\ env_value \in [Index -> Entry \cup {UNSET}] /\ env_value_num \in Nat
      /\ \A i \in Index : i < env_value_num <=> env_value[i] # UNSET
  BY DEF TableTypeOK
<1>9. /\ d \in Index <=> ~table_overrun'
      /\ table_overrun' \in BOOLEAN
  BY <1>3
<1>10. "own names" \in TableRules =>
           \A i \in Index : Holds(i, name) => env_value[i].shell_id = id
  BY <1>3, <1>4
<1>11. \A i \in Index : env_value'[i] = IF i = d THEN e ELSE env_value[i]
  <2> HIDE DEF d, e
  <2> QED BY <1>3
<1>6. CASE found = {}
  <2>1. d = env_value_num
    BY <1>6
  <2>7. env_value_num' = env_value_num + 1
    BY <1>3, <2>1
  <2> HIDE DEF d
  <2>2. \A i \in Index : ~Holds(i, name)
    BY <1>4, <1>6
  <2>3. \A i \in Index : i = d => env_value[i] = UNSET
    BY <1>4, <1>5, <2>1
  <2>4. \A i \in Index : i < env_value_num' <=> i < env_value_num \/ i = d
    BY <1>4, <1>5, <2>1, <2>7
  <2>5. env_value' \in [Index -> Entry \cup {UNSET}]
    BY <1>2, <1>3, <1>5
  <2>6. d \in Nat /\ env_value_num' \in Nat
    BY <1>5, <2>1, <2>7
  <2> HIDE DEF e, id
  <2> QED BY <1>2, <1>3, <1>8, <1>9, <1>10, <1>11, <2>2, <2>3, <2>4, <2>5, <2>6
          DEF DeclareEffect
<1>7. CASE found # {}
  <2>1. PICK i \in Index : Holds(i, name)
    BY <1>4, <1>7
  <2>2. \A j \in found : j = i
    BY <1>4, <2>1 DEF OneEntryPerName
  <2>3. i \in Int /\ i \in found
    BY <1>4, <2>1
  <2>4. d = i
    BY <1>7, <2>2, <2>3, FirstOfOne
  <2> HIDE DEF d
  <2>5. i < env_value_num /\ env_value_num' = env_value_num
    <3>1. i < env_value_num
      BY <1>5, <2>1 DEF Holds
    <3>2. d # env_value_num
      BY <1>4, <1>5, <2>4, <3>1
    <3> QED BY <1>3, <3>1, <3>2
  <2>6. env_value' \in [Index -> Entry \cup {UNSET}]
    BY <1>2, <1>3, <1>5
  <2>7. \A j \in Index : Holds(j, name) => j = d /\ env_value[j].mood = FALSE
    <3>1. env_value[i].mood \in BOOLEAN
      BY <1>5, <2>1 DEF Holds, Entry
    <3>2. ~env_value[i].mood
      BY <1>3, <1>7, <2>3, <2>4 DEF d
    <3> QED BY <1>4, <2>2, <2>4, <3>1, <3>2
  <2>8. \A j \in Index : j < env_value_num' <=> j < env_value_num \/ j = d
    BY <2>4, <2>5
  <2>9. d \in Nat /\ env_value_num' \in Nat
    BY <1>5, <2>4, <2>5, <1>4, <2>1
  <2> HIDE DEF e, id
  <2> QED BY <1>2, <1>3, <1>8, <1>9, <1>10, <1>11, <2>1, <2>4, <2>6, <2>7, <2>8, <2>9
          DEF DeclareEffect
<1> QED BY <1>6, <1>7

LEMMA DeclareKeeps ==
    ASSUME TableKept, NEW name \in Name, NEW e, DeclareEffect(name, e)
    PROVE  TableKept'
<1>1. PICK d \in Nat :
        /\ \A i \in Index : env_value'[i] = IF i = d THEN e ELSE env_value[i]
        /\ \A i \in Index : Holds(i, name) => i = d
        /\ \A i \in Index : i < env_value_num' <=> i < env_value_num \/ i = d
  BY DEF DeclareEffect
<1>2. /\ e # UNSET /\ e.name = name /\ e.valid = TRUE
      /\ env_value' \in [Index -> Entry \cup {UNSET}] /\ env_value_num' \in Nat
      /\ table_overrun' \in BOOLEAN /\ UNCHANGED shell_num
  BY DEF DeclareEffect
<1>3. TableTypeOK'
  <2>1. \A i \in Index : i < env_value_num' <=> env_value'[i] # UNSET
    BY <1>1, <1>2 DEF TableKept, TableTypeOK
  <2> QED BY <1>2, <2>1 DEF TableKept, TableTypeOK
<1>4. \A i \in Index, m \in Name : Holds(i, m)' =>
          IF i = d THEN m = name ELSE Holds(i, m)
  BY <1>1, <1>2 DEF Holds
<1>5. OneEntryPerName'
  BY <1>1, <1>4 DEF TableKept, OneEntryPerName
<1> QED BY <1>3, <1>5 DEF TableKept

\* What unset does: one entry of this name is no longer valid.
LEMMA UnsetFacts ==
    ASSUME TableConstantsOK, TableKept, NEW s \in Shell, NEW name \in Name, unset(s, name)
    PROVE  \E d \in Index :
             /\ Holds(d, name) /\ env_value[d].mood = FALSE
             /\ \A i \in Index \ {d} : env_value'[i] = env_value[i]
             /\ env_value'[d] = [env_value[d] EXCEPT !.valid = FALSE]
             /\ env_value' \in [Index -> Entry \cup {UNSET}]
             /\ UNCHANGED <<env_value_num, shell_num, table_overrun>>
<1> USE DEF TableKept
<1> DEFINE found == {i \in Index : Holds(i, name) /\ Visible(i, AsChar(s))}
<1>1. /\ found # {} /\ ~env_value[FirstEntry(found)].mood
      /\ env_value' = [env_value EXCEPT ![FirstEntry(found)].valid = FALSE]
      /\ UNCHANGED <<env_value_num, shell_num, table_overrun>>
  BY DEF unset, sys_unset_env_value
<1>2. PICK d \in Index : d \in found
  BY <1>1
<1>3. \A j \in found : j = d
  BY <1>2 DEF OneEntryPerName
<1>4. d \in Int
  BY DEF Index, TableConstantsOK
<1>5. FirstEntry(found) = d
  BY <1>2, <1>3, <1>4, FirstOfOne
<1>6. Holds(d, name)
  BY <1>2
<1> HIDE DEF found
<1>7. env_value[d] \in Entry /\ env_value[d].mood \in BOOLEAN
  BY <1>6 DEF Holds, TableTypeOK, Entry
<1>8. /\ env_value'[d] = [env_value[d] EXCEPT !.valid = FALSE]
      /\ \A i \in Index \ {d} : env_value'[i] = env_value[i]
      /\ [env_value[d] EXCEPT !.valid = FALSE] \in Entry
  BY <1>1, <1>5, <1>7 DEF TableTypeOK, Entry
<1>9. env_value' \in [Index -> Entry \cup {UNSET}]
  BY <1>1, <1>5, <1>8 DEF TableTypeOK
<1>10. env_value[d].mood = FALSE
  BY <1>1, <1>5, <1>7
<1> QED BY <1>1, <1>6, <1>8, <1>9, <1>10

LEMMA UnsetKeeps ==
    ASSUME TableConstantsOK, TableKept, NEW s \in Shell, NEW name \in Name, unset(s, name)
    PROVE  TableKept'
<1>1. PICK d \in Index :
        /\ Holds(d, name)
        /\ \A i \in Index \ {d} : env_value'[i] = env_value[i]
        /\ env_value'[d] = [env_value[d] EXCEPT !.valid = FALSE]
        /\ env_value' \in [Index -> Entry \cup {UNSET}]
        /\ UNCHANGED <<env_value_num, shell_num, table_overrun>>
  BY UnsetFacts
<1>2. env_value[d] \in Entry
  BY <1>1 DEF Holds, TableKept, TableTypeOK
<1>3. env_value'[d] # UNSET /\ env_value'[d].valid = FALSE
  <2>1. [env_value[d] EXCEPT !.valid = FALSE] \in Entry
    BY <1>2 DEF Entry
  <2> QED BY <1>1, <1>2, <2>1 DEF Entry, TableConstantsOK
<1>4. TableTypeOK'
  <2>1. \A i \in Index : i < env_value_num <=> env_value'[i] # UNSET
    BY <1>1, <1>3 DEF Holds, TableKept, TableTypeOK
  <2> QED BY <1>1, <2>1 DEF TableKept, TableTypeOK
<1>5. \A i \in Index, m \in Name : Holds(i, m)' => Holds(i, m)
  BY <1>1, <1>3 DEF Holds
<1>6. OneEntryPerName'
  BY <1>5 DEF TableKept, OneEntryPerName
<1> QED BY <1>4, <1>6 DEF TableKept

LEMMA TableStep == TableConstantsOK /\ TableKept /\ [TableNext]_tableVars => TableKept'
<1> SUFFICES ASSUME TableConstantsOK, TableKept, [TableNext]_tableVars PROVE TableKept'
  OBVIOUS
<1>1. CASE sys_create_shell_id
  <2>1. shell_num' \in 1..(MaxShells + 1)
    BY <1>1 DEF sys_create_shell_id, TableConstantsOK, TableKept, TableTypeOK
  <2> QED BY <1>1, <2>1 DEF sys_create_shell_id, TableKept, TableTypeOK, OneEntryPerName, Holds
<1>2. CASE UNCHANGED tableVars
  BY <1>2 DEF tableVars, TableKept, TableTypeOK, OneEntryPerName, Holds
<1>3. ASSUME NEW s \in Shell, NEW name \in Name, NEW v \in Value, NEW x \in BOOLEAN,
             NEW r \in BOOLEAN, declare(s, name, v, x, r)
      PROVE  TableKept'
  BY <1>3, DeclareFacts, DeclareKeeps
<1> QED BY <1>1, <1>2, <1>3, UnsetKeeps DEF TableNext

LEMMA TableStart == TableConstantsOK /\ TableInit => TableKept
<1> SUFFICES ASSUME TableConstantsOK, TableInit PROVE TableKept
  OBVIOUS
<1>1. TableTypeOK
  <2>1. \A i \in Index : ~(i < 0)
    BY DEF TableConstantsOK, Index
  <2>2. 1 \in 1..(MaxShells + 1)
    BY DEF TableConstantsOK
  <2> QED BY <2>1, <2>2 DEF TableInit, TableTypeOK
<1> QED BY <1>1 DEF TableInit, TableKept, OneEntryPerName, Holds

\* However often names are declared, unset and declared again, a name has at most one
\* valid entry (sys_declare_env_value and its loops over valid entries); for a table
\* of any size, also when more names are declared than it has entries.
THEOREM OneEntry == TableSpec => []TableKept
<1> USE TableConstantsAssumption
<1>1. TableInit => TableKept
  BY TableStart
<1>2. TableKept /\ [TableNext]_tableVars => TableKept'
  BY TableStep
<1> QED BY <1>1, <1>2, PTL DEF TableSpec

LEMMA TableSizes ==
    ASSUME TableConstantsOK
    PROVE  Index \subseteq Int /\ Scopes!Scope = 0..MaxShells
<1>1. MAX_VALUE_NUM \in Nat \ {0} /\ MaxShells \in Nat
  BY DEF TableConstantsOK
<1>2. \A k : k \in (1..MaxShells) \cup {0} <=> k \in 0..MaxShells
  BY <1>1
<1> QED BY <1>1, <1>2 DEF Index, Scopes!Scope

\* The variables of the scopes, entry by entry.
ScopedFacts ==
    /\ \A sc \in 0..MaxShells, name \in Name, i \in Index :
           Holds(i, name) /\ env_value[i].shell_id = sc =>
               Scoped[sc][name] = [value |-> env_value[i].value, mood |-> env_value[i].mood]
    /\ \A sc \in 0..MaxShells, name \in Name :
           (\A i \in Index : ~(Holds(i, name) /\ env_value[i].shell_id = sc)) =>
               Scoped[sc][name] = UNSET

LEMMA TableScoped == TableConstantsOK /\ TableKept => ScopedFacts
<1> SUFFICES ASSUME TableConstantsOK, TableKept, NEW sc \in 0..MaxShells, NEW name \in Name
             PROVE  /\ \A i \in Index : Holds(i, name) /\ env_value[i].shell_id = sc =>
                           Scoped[sc][name] =
                               [value |-> env_value[i].value, mood |-> env_value[i].mood]
                    /\ (\A i \in Index : ~(Holds(i, name) /\ env_value[i].shell_id = sc)) =>
                           Scoped[sc][name] = UNSET
  BY DEF ScopedFacts
<1> DEFINE found == {i \in Index : Holds(i, name) /\ env_value[i].shell_id = sc}
<1>1. Scoped[sc][name] = IF found = {} THEN UNSET
                           ELSE [value |-> env_value[FirstEntry(found)].value,
                                 mood |-> env_value[FirstEntry(found)].mood]
  BY DEF Scoped
<1>2. ASSUME NEW i \in Index, Holds(i, name), env_value[i].shell_id = sc
      PROVE  FirstEntry(found) = i /\ found # {}
  <2>1. i \in Int /\ i \in found
    BY <1>2 DEF Index, TableConstantsOK
  <2>2. \A j \in found : j = i
    BY <1>2 DEF TableKept, OneEntryPerName
  <2> QED BY <2>1, <2>2, FirstOfOne
<1>3. (\A i \in Index : ~(Holds(i, name) /\ env_value[i].shell_id = sc)) => found = {}
  OBVIOUS
<1> HIDE DEF found
<1> QED BY <1>1, <1>2, <1>3

LEMMA ScopedAt ==
    ASSUME NEW sc \in 0..MaxShells, NEW name \in Name, NEW i \in Index,
           Holds(i, name), env_value[i].shell_id = sc, ScopedFacts
    PROVE  Scoped[sc][name] = [value |-> env_value[i].value, mood |-> env_value[i].mood]
BY Zenon DEF ScopedFacts

LEMMA ScopedNone ==
    ASSUME NEW sc \in 0..MaxShells, NEW name \in Name, ScopedFacts,
           \A i \in Index : ~(Holds(i, name) /\ env_value[i].shell_id = sc)
    PROVE  Scoped[sc][name] = UNSET
BY Zenon DEF ScopedFacts

LEMMA ScopedAtNext ==
    ASSUME NEW sc \in 0..MaxShells, NEW name \in Name, NEW i \in Index,
           Holds(i, name)', env_value'[i].shell_id = sc, ScopedFacts'
    PROVE  Scoped'[sc][name] = [value |-> env_value'[i].value, mood |-> env_value'[i].mood]
BY Zenon DEF ScopedFacts

LEMMA ScopedNoneNext ==
    ASSUME NEW sc \in 0..MaxShells, NEW name \in Name, ScopedFacts',
           \A i \in Index : ~(Holds(i, name)' /\ env_value'[i].shell_id = sc)
    PROVE  Scoped'[sc][name] = UNSET
BY Zenon DEF ScopedFacts

\* A variable whose entry is left alone, or that has none before and after.
LEMMA ScopedKept ==
    ASSUME NEW sc \in 0..MaxShells, NEW name \in Name, ScopedFacts, ScopedFacts',
           \A i \in Index :
               /\ Holds(i, name)' /\ env_value'[i].shell_id = sc
                      <=> Holds(i, name) /\ env_value[i].shell_id = sc
               /\ Holds(i, name) /\ env_value[i].shell_id = sc => env_value'[i] = env_value[i]
    PROVE  Scoped'[sc][name] = Scoped[sc][name]
<1>1. CASE \E i \in Index : Holds(i, name) /\ env_value[i].shell_id = sc
  <2>1. PICK i \in Index : Holds(i, name) /\ env_value[i].shell_id = sc
    BY <1>1
  <2>2. Holds(i, name)' /\ env_value'[i].shell_id = sc /\ env_value'[i] = env_value[i]
    BY <2>1
  <2>3. /\ Scoped[sc][name] = [value |-> env_value[i].value, mood |-> env_value[i].mood]
        /\ Scoped'[sc][name] = [value |-> env_value'[i].value, mood |-> env_value'[i].mood]
    BY <2>1, <2>2, ScopedAt, ScopedAtNext
  <2> QED BY <2>2, <2>3
<1>2. CASE \A i \in Index : ~(Holds(i, name) /\ env_value[i].shell_id = sc)
  <2>1. \A i \in Index : ~(Holds(i, name)' /\ env_value'[i].shell_id = sc)
    BY <1>2
  <2> QED BY <1>2, <2>1, ScopedNone, ScopedNoneNext
<1> QED BY <1>1, <1>2

\* A step that changes at most the variable of one scope.
LEMMA ScopedIs ==
    ASSUME NEW s0 \in 0..MaxShells, NEW n0 \in Name, NEW x,
           \A sc \in 0..MaxShells, m \in Name :
               Scoped'[sc][m] = IF sc = s0 /\ m = n0 THEN x ELSE Scoped[sc][m]
    PROVE  Scoped' = [Scoped EXCEPT ![s0][n0] = x]
<1>1. \A sc \in 0..MaxShells :
        Scoped[sc] = [m \in Name |-> Scoped[sc][m]] /\ Scoped'[sc] = [m \in Name |-> Scoped'[sc][m]]
  BY DEF Scoped
<1>2. /\ Scoped = [sc \in 0..MaxShells |-> Scoped[sc]]
      /\ Scoped' = [sc \in 0..MaxShells |-> Scoped'[sc]]
  BY DEF Scoped
<1>3. \A sc \in 0..MaxShells :
        Scoped'[sc] = IF sc = s0 THEN [Scoped[sc] EXCEPT ![n0] = x] ELSE Scoped[sc]
  BY <1>1
<1> QED BY <1>2, <1>3

LEMMA ScopedSame ==
    ASSUME \A sc \in 0..MaxShells, m \in Name : Scoped'[sc][m] = Scoped[sc][m]
    PROVE  Scoped' = Scoped
<1>1. /\ Scoped = [sc \in 0..MaxShells |-> [m \in Name |-> Scoped[sc][m]]]
      /\ Scoped' = [sc \in 0..MaxShells |-> [m \in Name |-> Scoped'[sc][m]]]
  BY DEF Scoped
<1> QED BY <1>1

LEMMA DeclareRefines ==
    ASSUME TableConstantsOK, "own names" \in TableRules, TableKept, ScopedFacts, ScopedFacts',
           NEW name \in Name, NEW e, DeclareEffect(name, e)
    PROVE  \/ Scoped' = Scoped
           \/ /\ e.shell_id \in 0..MaxShells
              /\ Scopes!Declare(e.shell_id, name, [value |-> e.value, mood |-> e.mood])
<1> DEFINE s0 == e.shell_id
           x == [value |-> e.value, mood |-> e.mood]
<1>1. PICK d \in Nat :
        /\ \A i \in Index : env_value'[i] = IF i = d THEN e ELSE env_value[i]
        /\ \A i \in Index : Holds(i, name) => i = d /\ env_value[i].mood = FALSE
        /\ \A i \in Index : i = d => env_value[i] = UNSET \/ Holds(i, name)
  BY DEF DeclareEffect
<1>2. /\ e \in Entry /\ e # UNSET /\ e.name = name /\ e.valid = TRUE
      /\ \A i \in Index : Holds(i, name) => env_value[i].shell_id = s0
  BY DEF DeclareEffect
<1>3. \A i \in Index, m \in Name :
        Holds(i, m)' <=> IF i = d THEN m = name ELSE Holds(i, m)
  BY <1>1, <1>2 DEF Holds
<1>4. \A i \in Index, m \in Name :
        m # name => (Holds(i, m)' <=> Holds(i, m)) /\ (i = d => ~Holds(i, m))
  BY <1>1, <1>3 DEF Holds
<1>5. ASSUME NEW sc \in 0..MaxShells, NEW m \in Name, m # name
      PROVE  Scoped'[sc][m] = Scoped[sc][m]
  <2>1. \A i \in Index :
           /\ Holds(i, m)' <=> Holds(i, m)
           /\ Holds(i, m) => env_value'[i] = env_value[i]
    BY <1>1, <1>4, <1>5
  <2> QED BY <2>1, ScopedKept
<1>6. CASE d \in Index
  <2>1. ASSUME NEW sc \in 0..MaxShells, sc # s0
        PROVE  Scoped'[sc][name] = Scoped[sc][name]
    <3>1. \A i \in Index : ~(Holds(i, name) /\ env_value[i].shell_id = sc)
      BY <1>2, <2>1
    <3>2. \A i \in Index : ~(Holds(i, name)' /\ env_value'[i].shell_id = sc)
      BY <1>1, <1>3, <2>1, <3>1
    <3> QED BY <3>1, <3>2, ScopedKept
  <2>2. CASE s0 \in 0..MaxShells
    <3>1. Holds(d, name)' /\ env_value'[d] = e
      BY <1>1, <1>3, <1>6
    <3>2. Scoped'[s0][name] = x
      BY <1>6, <2>2, <3>1, ScopedAtNext
    <3>3. \A sc \in 0..MaxShells, m \in Name :
             Scoped'[sc][m] = IF sc = s0 /\ m = name THEN x ELSE Scoped[sc][m]
      BY <1>5, <2>1, <3>2
    <3>4. Scoped[s0][name] = UNSET \/ Scoped[s0][name].mood = FALSE
      <4>1. CASE Holds(d, name)
        <5>1. Scoped[s0][name] = [value |-> env_value[d].value, mood |-> env_value[d].mood]
          BY <1>2, <1>6, <2>2, <4>1, ScopedAt
        <5>2. env_value[d].mood = FALSE
          BY <1>1, <1>6, <4>1
        <5> HIDE DEF s0
        <5>3. [value |-> env_value[d].value, mood |-> env_value[d].mood].mood = env_value[d].mood
          OBVIOUS
        <5> QED BY <5>1, <5>2, <5>3
      <4>2. CASE ~Holds(d, name)
        <5>1. \A i \in Index : ~(Holds(i, name) /\ env_value[i].shell_id = s0)
          BY <1>1, <4>2
        <5> QED BY <2>2, <5>1, ScopedNone
      <4> QED BY <4>1, <4>2
    <3> HIDE DEF x, s0
    <3>5. Scoped' = [Scoped EXCEPT ![s0][name] = x]
      BY <2>2, <3>3, ScopedIs
    <3>6. Scopes!Declare(s0, name, x)
      BY <3>4, <3>5 DEF Scopes!Declare, Scopes!Writable
    <3> QED BY <2>2, <3>6 DEF s0, x
  <2>3. CASE s0 \notin 0..MaxShells
    <3>1. \A sc \in 0..MaxShells, m \in Name : Scoped'[sc][m] = Scoped[sc][m]
      BY <1>5, <2>1, <2>3
    <3> QED BY <3>1, ScopedSame
  <2> QED BY <2>2, <2>3
<1>7. CASE d \notin Index
  <2>1. \A i \in Index : env_value'[i] = env_value[i] /\ (Holds(i, name)' <=> Holds(i, name))
    BY <1>1, <1>3, <1>7
  <2>2. ASSUME NEW sc \in 0..MaxShells
        PROVE  Scoped'[sc][name] = Scoped[sc][name]
    BY <2>1, <2>2, ScopedKept
  <2>3. \A sc \in 0..MaxShells, m \in Name : Scoped'[sc][m] = Scoped[sc][m]
    BY <1>5, <2>2
  <2> QED BY <2>3, ScopedSame
<1> QED BY <1>6, <1>7

LEMMA UnsetRefines ==
    ASSUME TableConstantsOK, TableKept, ScopedFacts, ScopedFacts',
           NEW s \in Shell, NEW name \in Name, unset(s, name)
    PROVE  \/ Scoped' = Scoped
           \/ \E sc \in 0..MaxShells : Scopes!Unset(sc, name)
<1>1. PICK d \in Index :
        /\ Holds(d, name) /\ env_value[d].mood = FALSE
        /\ \A i \in Index \ {d} : env_value'[i] = env_value[i]
        /\ env_value'[d] = [env_value[d] EXCEPT !.valid = FALSE]
  BY UnsetFacts
<1>2. env_value[d] \in Entry
  BY <1>1 DEF Holds, TableKept, TableTypeOK
<1>3. env_value'[d].valid = FALSE
  BY <1>1, <1>2 DEF Entry
<1>4. \A i \in Index, m \in Name : Holds(i, m)' <=> i # d /\ Holds(i, m)
  BY <1>1, <1>3 DEF Holds
<1> DEFINE s0 == env_value[d].shell_id
<1>5. ASSUME NEW sc \in 0..MaxShells, NEW m \in Name, ~(sc = s0 /\ m = name)
      PROVE  Scoped'[sc][m] = Scoped[sc][m]
  <2>1. \A i \in Index : Holds(i, m) /\ env_value[i].shell_id = sc => i # d
    BY <1>1, <1>5 DEF Holds
  <2>2. \A i \in Index :
           /\ Holds(i, m)' /\ env_value'[i].shell_id = sc
                  <=> Holds(i, m) /\ env_value[i].shell_id = sc
           /\ Holds(i, m) /\ env_value[i].shell_id = sc => env_value'[i] = env_value[i]
    BY <1>1, <1>4, <2>1
  <2> QED BY <2>2, ScopedKept
<1>6. CASE s0 \in 0..MaxShells
  <2>1. Scoped[s0][name] = [value |-> env_value[d].value, mood |-> env_value[d].mood]
    BY <1>1, <1>6, ScopedAt
  <2>2. Scoped[s0][name] # UNSET /\ Scoped[s0][name].mood = FALSE
    <3>1. Scoped[s0][name] \in [value : Value, mood : BOOLEAN]
      BY <1>2, <2>1 DEF Entry
    <3> QED BY <1>1, <2>1, <3>1 DEF TableConstantsOK
  <2>3. Scoped'[s0][name] = UNSET
    <3>1. \A i \in Index : ~(Holds(i, name)' /\ env_value'[i].shell_id = s0)
      BY <1>1, <1>4 DEF TableKept, OneEntryPerName
    <3> QED BY <1>6, <3>1, ScopedNoneNext
  <2>4. \A sc \in 0..MaxShells, m \in Name :
           Scoped'[sc][m] = IF sc = s0 /\ m = name THEN UNSET ELSE Scoped[sc][m]
    BY <1>5, <2>3
  <2> HIDE DEF s0
  <2>5. Scoped' = [Scoped EXCEPT ![s0][name] = UNSET]
    BY <1>6, <2>4, ScopedIs
  <2>6. Scopes!Unset(s0, name)
    BY <2>2, <2>5 DEF Scopes!Unset, Scopes!Writable
  <2> QED BY <1>6, <2>6
<1>7. CASE s0 \notin 0..MaxShells
  <2>1. \A sc \in 0..MaxShells, m \in Name : Scoped'[sc][m] = Scoped[sc][m]
    BY <1>5, <1>7
  <2> QED BY <2>1, ScopedSame
<1> QED BY <1>6, <1>7

LEMMA TableRefines ==
    TableConstantsOK /\ "own names" \in TableRules /\ TableKept /\ ScopedFacts /\ ScopedFacts'
    /\ [TableNext]_tableVars => [Scopes!ScopesNext]_(Scoped)
<1> SUFFICES ASSUME TableConstantsOK, "own names" \in TableRules, TableKept, ScopedFacts,
                    ScopedFacts', [TableNext]_tableVars, Scoped' # Scoped
             PROVE  Scopes!ScopesNext
  OBVIOUS
<1>1. Scopes!Scope = 0..MaxShells
  BY TableSizes
<1>2. ASSUME NEW s \in Shell, NEW name \in Name, NEW v \in Value, NEW x \in BOOLEAN,
             NEW r \in BOOLEAN, declare(s, name, v, x, r)
      PROVE  Scopes!ScopesNext
  <2> DEFINE e == [name |-> name, value |-> v, mood |-> r, valid |-> TRUE,
                   shell_id |-> IF x THEN 0 ELSE AsChar(s)]
  <2>1. DeclareEffect(name, e)
    BY <1>2, DeclareFacts
  <2>2. e.value = v /\ e.mood = r
    OBVIOUS
  <2>3. [value |-> v, mood |-> r] \in Scopes!Var
    BY DEF Scopes!Var
  <2> HIDE DEF e
  <2>4. /\ e.shell_id \in 0..MaxShells
        /\ Scopes!Declare(e.shell_id, name, [value |-> e.value, mood |-> e.mood])
    BY <2>1, DeclareRefines
  <2> QED BY <1>1, <2>2, <2>3, <2>4 DEF Scopes!ScopesNext
<1>3. ASSUME NEW s \in Shell, NEW name \in Name, unset(s, name)
      PROVE  Scopes!ScopesNext
  <2>1. PICK sc \in 0..MaxShells : Scopes!Unset(sc, name)
    BY <1>3, UnsetRefines
  <2> QED BY <1>1, <2>1 DEF Scopes!ScopesNext
<1>4. ~sys_create_shell_id /\ ~UNCHANGED tableVars
  <2>1. env_value' # env_value
    <3> SUFFICES ASSUME env_value' = env_value PROVE Scoped' = Scoped
      OBVIOUS
    <3>1. \A i \in Index, m \in Name : Holds(i, m)' <=> Holds(i, m)
      BY DEF Holds
    <3>2. \A sc \in 0..MaxShells, m \in Name : Scoped'[sc][m] = Scoped[sc][m]
      BY <3>1, ScopedKept
    <3> QED BY <3>2, ScopedSame
  <2> QED BY <2>1 DEF sys_create_shell_id, tableVars
<1> QED BY <1>2, <1>3, <1>4 DEF TableNext

LEMMA TableInitRefines == TableConstantsOK /\ TableInit => Scopes!ScopesInit
<1> SUFFICES ASSUME TableConstantsOK, TableInit PROVE Scopes!ScopesInit
  OBVIOUS
<1>1. Scopes!Scope = 0..MaxShells
  BY TableSizes
<1>2. \A i \in Index, name \in Name : ~Holds(i, name)
  BY DEF TableInit, Holds
<1>3. Scoped = [sc \in 0..MaxShells |-> [name \in Name |-> UNSET]]
  BY <1>2 DEF Scoped
<1> QED BY <1>1, <1>3 DEF Scopes!ScopesInit

\* As long as no name is used in two scopes, the one table of the kernel behaves as a
\* store of its own for each shell and one for all (VarScopes): declare and unset
\* change the variable they name, in the scope they name, read-only variables
\* excepted.  For any number of shells, identifiers that do not fit a char included.
THEOREM TableKeepsScopes ==
    ASSUME "own names" \in TableRules
    PROVE  TableSpec => Scopes!ScopesSpec
<1> USE TableConstantsAssumption
<1>1. TableInit => TableKept /\ Scopes!ScopesInit
  BY TableStart, TableInitRefines
<1>2. TableKept /\ [TableNext]_tableVars => TableKept'
  BY TableStep
<1>3. TableKept => ScopedFacts
  BY TableScoped
<1>4. TableKept /\ ScopedFacts /\ ScopedFacts' /\ [TableNext]_tableVars
        => [Scopes!ScopesNext]_(Scoped)
  BY TableRefines
<1> QED BY <1>1, <1>2, <1>3, <1>4, PTL DEF TableSpec, Scopes!ScopesSpec

LEMMA DeclareIsRead ==
    ASSUME TableConstantsOK, "few names" \in TableRules, 2 * MaxShells < CharMod,
           TableKept, TableKept', NEW s \in Shell, NEW name \in Name, NEW v \in Value,
           NEW x \in BOOLEAN, NEW r \in BOOLEAN, declare(s, name, v, x, r)
    PROVE  sys_get_env_value(name, s)' = v
<1> DEFINE e == [name |-> name, value |-> v, mood |-> r, valid |-> TRUE,
                 shell_id |-> IF x THEN 0 ELSE AsChar(s)]
<1>1. DeclareEffect(name, e)
  BY DeclareFacts
<1>2. e.value = v /\ e.shell_id \in {0, s} /\ e.valid = TRUE /\ e.name = name /\ e # UNSET
  <2>1. AsChar(s) = s
    BY AsCharFacts DEF TableKept
  <2>2. e # UNSET
    BY <1>1 DEF DeclareEffect
  <2> QED BY <2>1, <2>2
<1>3. table_overrun' = FALSE
  BY DEF declare, sys_declare_env_value
<1> HIDE DEF e
<1>4. PICK d \in Index : env_value'[d] = e
  BY <1>1, <1>3 DEF DeclareEffect
<1> DEFINE found == {i \in Index : Holds(i, name) /\ Visible(i, s)}'
<1>5. d \in found
  BY <1>2, <1>4 DEF Holds, Visible
<1>6. \A j \in found : j = d
  BY <1>5 DEF TableKept, OneEntryPerName
<1>7. d \in Int
  BY TableSizes
<1>8. FirstEntry(found) = d
  BY <1>5, <1>6, <1>7, FirstOfOne
<1>9. sys_get_env_value(name, s)' = IF found = {} THEN UNSET
                                    ELSE env_value'[FirstEntry(found)].value
  BY DEF sys_get_env_value
<1> HIDE DEF found
<1> QED BY <1>2, <1>4, <1>5, <1>8, <1>9

\* What a shell has declared, for itself or for all, it reads (declare.c, sh.c's $name):
\* invalid entries of the same name in front of the new one, and the char that stood
\* for the identifier on the way, make no difference, as long as there are fewer shells
\* than half the values of a char and no more names than entries.
THEOREM DeclaredRead ==
    ASSUME "few names" \in TableRules, 2 * MaxShells < CharMod
    PROVE  TableSpec => DeclaredIsRead
<1> USE TableConstantsAssumption
<1>1. TableInit => TableKept
  BY TableStart
<1>2. TableKept /\ [TableNext]_tableVars => TableKept'
  BY TableStep
<1>3. TableKept /\ TableKept' /\ [TableNext]_tableVars => [DeclareReads]_tableVars
  BY DeclareIsRead DEF DeclareReads
<1> QED BY <1>1, <1>2, <1>3, PTL DEF TableSpec, DeclaredIsRead

\* Both: the table is a store per shell and one for all, and what is declared is read.
THEOREM ScopesImplemented ==
    ASSUME "own names" \in TableRules, "few names" \in TableRules, 2 * MaxShells < CharMod
    PROVE  TableSpec => ImplementsScopes
BY TableKeepsScopes, DeclaredRead DEF ImplementsScopes

-----------------------------------------------------------------------------
(* The current path.                                                        *)

\* A confirmed path, of the shells or of a cd that is about to set it, is a
\* directory's.
IsDir(d) == d \in DOMAIN tree /\ tree[d] = "dir"
Confirmed == \A p \in Caller : pc[p] = "cd_chdir" => IsDir(Components(path[p]))
PathInv ==
    /\ PathTypeOK /\ IsDir(<<>>) /\ started \in Seq(Shells)
    /\ started # <<>> => IsDir(Components(cur_path))
    /\ Confirmed

LEMMA RootIsRoot == Components(<<"/">>) = <<>>
<1> DEFINE starts == {i \in DOMAIN <<"/">> : <<"/">>[i] # "/" /\ (i = 1 \/ <<"/">>[i - 1] = "/")}
           start(k) == CHOOSE i \in starts : Cardinality({j \in starts : j <= i}) = k
           end(i) == CHOOSE j \in i..Len(<<"/">>) :
                         /\ \A m \in i..j : <<"/">>[m] # "/"
                         /\ j = Len(<<"/">>) \/ <<"/">>[j + 1] = "/"
           parts(c) == [k \in 1..c |-> SubSeq(<<"/">>, start(k), end(start(k)))]
<1>1. Components(<<"/">>) = parts(Cardinality(starts))
  BY Zenon DEF Components
<1>2. starts = {}
  OBVIOUS
<1>3. Cardinality({}) = Cardinality({})
  BY Zenon DEF Cardinality, Cardinality
<1>4. Cardinality(starts) = 0
  BY <1>2, <1>3, FS_EmptySet
<1>5. parts(0) = <<>>
  <2> HIDE DEF start, end
  <2> QED OBVIOUS
<1> HIDE DEF starts, parts
<1> QED BY <1>1, <1>4, <1>5

LEMMA ArgIsString == ASSUME PathConstantsOK PROVE Arg \subseteq Seq(Char)
<1>1. Slashes \in Seq(Char)
  BY DEF PathConstantsOK, Slashes, Char
<1>2. BoundedSeq(Char, MaxArg) \subseteq Seq(Char)
  BY DEF BoundedSeq, SeqOf
<1> QED BY <1>1, <1>2 DEF Arg

LEMMA FullIsString ==
    ASSUME PathConstantsOK, PathTypeOK, NEW a \in Arg, NEW s \in Full(a)
    PROVE  s \in Seq(Char)
<1>1. a \in Seq(Char) /\ cur_path \in Seq(Char) /\ "/" \in Char
  BY ArgIsString DEF PathTypeOK, Char
<1>2. CASE a[1] = "/"
  BY <1>1, <1>2 DEF Full
<1>3. CASE a[1] # "/"
  <2>1. \A rest \in Rests(a) : rest \in Seq(Char)
    <3>1. CASE a = <<".">>
      <4>1. Rests(a) = Arg \cup {<<>>}
        BY <3>1 DEF Rests
      <4>2. <<>> \in Seq(Char)
        OBVIOUS
      <4> QED BY <4>1, <4>2, ArgIsString
    <3>2. CASE a # <<".">> /\ a[1] = "."
      <4>1. Rests(a) = {SubSeq(a, 3, Len(a))}
        BY <3>2 DEF Rests
      <4>2. SubSeq(a, 3, Len(a)) \in Seq(Char)
        BY <1>1
      <4> QED BY <4>1, <4>2
    <3>3. CASE a # <<".">> /\ a[1] # "."
      BY <1>1, <3>3 DEF Rests
    <3> QED BY <3>1, <3>2, <3>3
  <2>2. PICK rest \in Rests(a) :
          s = (IF Len(cur_path) = 1 THEN cur_path ELSE Append(cur_path, "/")) \o rest
    BY <1>3 DEF Full, pathcat
  <2> QED BY <1>1, <2>1, <2>2
<1> QED BY <1>2, <1>3

LEMMA PathStart == PathConstantsOK /\ PathInit => PathInv
<1> SUFFICES ASSUME PathConstantsOK, PathInit PROVE PathInv
  OBVIOUS
<1>1. tree \in [DOMAIN tree -> {"reg", "dir"}] /\ IsDir(<<>>)
  BY DEF PathInit, IsDir
<1>2. cur_path \in Seq(Char) /\ Len(cur_path) < PathLen
  <2>1. cur_path = <<>>
    BY DEF PathInit
  <2>2. <<>> \in Seq(Char) /\ Len(<<>>) = 0
    OBVIOUS
  <2>3. PathLen \in Nat \ {0, 1}
    BY DEF PathConstantsOK
  <2> QED BY <2>1, <2>2, <2>3
<1>3. started \in Seq(Shells) /\ Range(started) = {}
  BY DEF PathInit, Range
<1>4. /\ own \in [Shells -> Seq(Char)] /\ path \in [Caller -> Seq(Char)]
      /\ arg \in [Caller -> Arg \cup {<<>>}] /\ overrun \in BOOLEAN /\ calls \in 0..MaxCalls
  <2>1. <<>> \in Seq(Char)
    OBVIOUS
  <2>2. calls = 0 /\ 0 \in 0..MaxCalls
    BY DEF PathInit, PathConstantsOK
  <2> QED BY <2>1, <2>2 DEF PathInit
<1>5. pc \in [Caller -> {"idle"}]
  BY DEF PathInit
<1> QED BY <1>1, <1>2, <1>3, <1>4, <1>5 DEF PathInv, PathTypeOK, Confirmed, PathInit, IsDir

\* What the processes do and the tree and the path they leave, apart.
LEMMA BeginKeeps ==
    ASSUME PathConstantsOK, PathInv, NEW p \in Caller, NEW a \in Given,
           NEW label \in Calls \cup InCd, Begin(p, label, a),
           label = "cd_chdir" => a[1] = "/" /\ IsDir(Components(a))
    PROVE  PathInv'
<1>1. a \in Arg
  BY DEF Given
<1>2. PICK s \in Full(a) :
        path' = [path EXCEPT ![p] = s] /\ overrun' = (overrun \/ (a[1] # "/" /\ Len(s) >= PathLen))
  BY DEF Begin
<1>3. s \in Seq(Char) /\ (a[1] = "/" => s = a)
  BY <1>1, FullIsString DEF PathInv, Full
<1>4. /\ pc' = [pc EXCEPT ![p] = label] /\ arg' = [arg EXCEPT ![p] = a]
      /\ calls' \in 0..MaxCalls /\ UNCHANGED <<tree, cur_path, started, own>>
  <2>1. calls # MaxCalls /\ calls \in 0..MaxCalls /\ MaxCalls \in Nat /\ calls' = calls + 1
    BY DEF Begin, Ready, PathInv, PathTypeOK, PathConstantsOK
  <2>2. calls' \in 0..MaxCalls
    BY <2>1
  <2> QED BY <2>2 DEF Begin
<1>5. PathTypeOK'
  <2>1. pc' \in [Caller -> {"idle"} \cup Calls \cup InCd]
    BY <1>4 DEF PathInv, PathTypeOK
  <2>2. arg' \in [Caller -> Arg \cup {<<>>}] /\ path' \in [Caller -> Seq(Char)]
    BY <1>1, <1>2, <1>3, <1>4 DEF PathInv, PathTypeOK
  <2>3. overrun' \in BOOLEAN
    BY <1>2 DEF PathInv, PathTypeOK
  <2> QED BY <1>4, <2>1, <2>2, <2>3 DEF PathInv, PathTypeOK
<1>6. Confirmed'
  <2> SUFFICES ASSUME NEW q \in Caller, pc'[q] = "cd_chdir"
               PROVE  IsDir(Components(path[q]))'
    BY DEF Confirmed
  <2>1. CASE q = p
    <3>1. label = "cd_chdir" /\ path'[q] = a
      BY <1>2, <1>3, <1>4, <2>1 DEF PathInv, PathTypeOK
    <3> QED BY <1>4, <3>1 DEF IsDir
  <2>2. CASE q # p
    <3>1. pc[q] = "cd_chdir" /\ path'[q] = path[q]
      BY <1>2, <1>4, <2>2 DEF PathInv, PathTypeOK
    <3> QED BY <1>4, <3>1 DEF PathInv, Confirmed, IsDir
  <2> QED BY <2>1, <2>2
<1> QED BY <1>4, <1>5, <1>6 DEF PathInv, IsDir

\* A process goes on, or leaves its call.
LEMMA StepKeepsTypes ==
    ASSUME PathInv, NEW p \in Caller,
           Leave(p) \/ (\E label \in InCd : Goto(p, label))
    PROVE  /\ pc' \in [Caller -> {"idle"} \cup Calls \cup InCd]
           /\ arg' \in [Caller -> Arg \cup {<<>>}] /\ path' \in [Caller -> Seq(Char)]
           /\ \A q \in Caller \ {p} : pc'[q] = pc[q] /\ path'[q] = path[q]
           /\ pc'[p] = "cd_chdir" => Goto(p, "cd_chdir") /\ path'[p] = path[p]
<1>1. CASE Leave(p)
  BY <1>1 DEF Leave, PathInv, PathTypeOK
<1>2. CASE \E label \in InCd : Goto(p, label)
  BY <1>2 DEF Goto, PathInv, PathTypeOK
<1> QED BY <1>1, <1>2

\* The directories of the confirmed paths stay directories.
LEMMA TreeKept ==
    ASSUME PathInv, NEW p \in Caller, Leave(p),
           tree' \in [DOMAIN tree' -> {"reg", "dir"}], IsDir(<<>>)',
           started # <<>> => IsDir(Components(cur_path))',
           \A q \in Caller \ {p} : pc[q] = "cd_chdir" =>
               (Components(path[q]) \in DOMAIN tree' /\ tree'[Components(path[q])] = "dir"),
           UNCHANGED <<cur_path, started, own, overrun, calls>>
    PROVE  PathInv'
<1>1. PathTypeOK'
  BY StepKeepsTypes DEF PathInv, PathTypeOK, IsDir
<1>2. Confirmed'
  BY StepKeepsTypes DEF Confirmed, IsDir, Leave, PathInv, PathTypeOK
<1> QED BY <1>1, <1>2 DEF PathInv

\* The path of a shell is set to the root, or to a directory's.
LEMMA SetKeeps ==
    ASSUME PathInv, NEW s \in Shells, NEW new \in Seq(Char), IsDir(Components(new)),
           PathConstantsOK, sys_set_cur_path(s, new), UNCHANGED tree
    PROVE  /\ cur_path' \in Seq(Char) /\ Len(cur_path') < PathLen
           /\ own' \in [Shells -> Seq(Char)]
           /\ started # <<>> => IsDir(Components(cur_path))'
           /\ Components(new) = <<>> /\ Len(new) < PathLen => IsDir(Components(cur_path))'
<1>1. CASE Len(new) >= PathLen
  <2>1. UNCHANGED <<cur_path, own, tree>>
    BY <1>1 DEF sys_set_cur_path
  <2>2. ~(Len(new) < PathLen)
    <3>1. PathLen \in Nat
      BY DEF PathConstantsOK
    <3> QED BY <1>1, <3>1
  <2>3. /\ cur_path \in Seq(Char) /\ Len(cur_path) < PathLen
        /\ own \in [Shells -> Seq(Char)]
        /\ started # <<>> => IsDir(Components(cur_path))
    BY DEF PathInv, PathTypeOK
  <2> QED BY <2>1, <2>2, <2>3 DEF IsDir
<1>2. CASE ~(Len(new) >= PathLen)
  <2>1. cur_path' = new /\ own' = [own EXCEPT ![s] = new] /\ tree' = tree
    BY <1>2 DEF sys_set_cur_path
  <2>2. Len(new) < PathLen
    <3>1. PathLen \in Nat
      BY DEF PathConstantsOK
    <3> QED BY <1>2, <3>1
  <2>3. own' \in [Shells -> Seq(Char)]
    BY <2>1 DEF PathInv, PathTypeOK
  <2>4. IsDir(Components(cur_path))'
    BY <2>1 DEF IsDir
  <2> QED BY <2>1, <2>2, <2>3, <2>4
<1> QED BY <1>1, <1>2

LEMMA RootIsDir ==
    ASSUME PathConstantsOK, PathInv
    PROVE  /\ <<"/">> \in Seq(Char) /\ Len(<<"/">>) < PathLen
           /\ Components(<<"/">>) = <<>> /\ IsDir(Components(<<"/">>))
<1>1. <<"/">> \in Seq(Char) /\ Len(<<"/">>) < PathLen
  <2>1. "/" \in Char /\ PathLen \in Nat \ {0, 1}
    BY DEF Char, PathConstantsOK
  <2> QED BY <2>1
<1> QED BY <1>1, RootIsRoot DEF PathInv

LEMMA MainKeeps ==
    ASSUME PathConstantsOK, PathInv, NEW s \in Shells, main(s)
    PROVE  PathInv'
<1>1. /\ started' = Append(started, s) /\ sys_set_cur_path(s, <<"/">>)
      /\ UNCHANGED <<tree, pc, arg, path, overrun, calls>>
  BY DEF main
<1>2. started' \in Seq(Shells)
  BY <1>1 DEF PathInv
<1>3. Range(started') \subseteq Shells
  BY <1>2 DEF Range
<1>4. /\ cur_path' \in Seq(Char) /\ Len(cur_path') < PathLen
      /\ own' \in [Shells -> Seq(Char)] /\ IsDir(Components(cur_path))'
  BY <1>1, SetKeeps, RootIsDir
<1>5. PathTypeOK'
  BY <1>1, <1>3, <1>4 DEF PathInv, PathTypeOK
<1>6. Confirmed' /\ IsDir(<<>>)'
  BY <1>1 DEF PathInv, Confirmed, IsDir
<1> QED BY <1>2, <1>4, <1>5, <1>6 DEF PathInv

LEMMA RootKeeps ==
    ASSUME PathConstantsOK, PathInv, NEW p \in Caller, cd_root(p)
    PROVE  PathInv'
<1>1. /\ sys_set_cur_path(Sh(p), <<"/">>) /\ calls' = calls + 1 /\ p \in Ready
      /\ UNCHANGED <<tree, started, pc, arg, path, overrun>>
  BY DEF cd_root
<1>2. Sh(p) \in Shells
  BY DEF Sh, Caller
<1>3. /\ cur_path' \in Seq(Char) /\ Len(cur_path') < PathLen
      /\ own' \in [Shells -> Seq(Char)] /\ IsDir(Components(cur_path))'
  BY <1>1, <1>2, SetKeeps, RootIsDir
<1>4. calls' \in 0..MaxCalls
  <2>1. calls # MaxCalls /\ calls \in 0..MaxCalls /\ MaxCalls \in Nat
    BY <1>1 DEF Ready, PathInv, PathTypeOK, PathConstantsOK
  <2> QED BY <1>1, <2>1
<1>5. PathTypeOK'
  BY <1>1, <1>3, <1>4 DEF PathInv, PathTypeOK
<1>6. Confirmed' /\ IsDir(<<>>)'
  BY <1>1 DEF PathInv, Confirmed, IsDir
<1> QED BY <1>1, <1>3, <1>5, <1>6 DEF PathInv

LEMMA ChdirKeeps ==
    ASSUME PathConstantsOK, PathInv, NEW p \in Caller, cd_chdir(p)
    PROVE  PathInv'
<1>1. /\ pc[p] = "cd_chdir" /\ sys_set_cur_path(Sh(p), path[p]) /\ Leave(p)
      /\ UNCHANGED <<tree, started, overrun, calls>>
  BY DEF cd_chdir
<1>2. Sh(p) \in Shells /\ path[p] \in Seq(Char) /\ IsDir(Components(path[p]))
  BY <1>1 DEF Sh, Caller, PathInv, PathTypeOK, Confirmed
<1>3. /\ cur_path' \in Seq(Char) /\ Len(cur_path') < PathLen
      /\ own' \in [Shells -> Seq(Char)]
      /\ started # <<>> => IsDir(Components(cur_path))'
  BY <1>1, <1>2, SetKeeps
<1>4. PathTypeOK'
  BY <1>1, <1>3, StepKeepsTypes DEF PathInv, PathTypeOK
<1>5. Confirmed'
  <2>1. pc'[p] = "idle"
    BY <1>1 DEF Leave, PathInv, PathTypeOK
  <2> QED BY <1>1, <2>1, StepKeepsTypes DEF PathInv, Confirmed, IsDir
<1>6. IsDir(<<>>)'
  BY <1>1 DEF PathInv, IsDir
<1> QED BY <1>1, <1>3, <1>4, <1>5, <1>6 DEF PathInv

\* A call that leaves the tree and the path alone.
LEMMA LookKeeps ==
    ASSUME PathInv, NEW p \in Caller,
           Leave(p) \/ (\E label \in InCd : Goto(p, label)),
           Goto(p, "cd_chdir") => IsDir(Components(path[p])),
           UNCHANGED <<tree, cur_path, started, own, overrun, calls>>
    PROVE  PathInv'
<1>1. PathTypeOK'
  BY StepKeepsTypes DEF PathInv, PathTypeOK
<1>2. Confirmed'
  <2> SUFFICES ASSUME NEW q \in Caller, pc'[q] = "cd_chdir"
               PROVE  IsDir(Components(path[q]))'
    BY DEF Confirmed
  <2>1. path'[q] = path[q] /\ IsDir(Components(path[q]))
    BY StepKeepsTypes DEF PathInv, Confirmed
  <2> QED BY <2>1 DEF IsDir
<1> QED BY <1>1, <1>2 DEF PathInv, IsDir

LEMMA CreateKeeps ==
    ASSUME PathInv, NEW p \in Caller, file_create(p)
    PROVE  PathInv'
<1>1. Leave(p) /\ UNCHANGED <<cur_path, started, own, overrun, calls>>
  BY DEF file_create
<1>2. /\ tree' \in [DOMAIN tree' -> {"reg", "dir"}]
      /\ \A t \in DOMAIN tree : t \in DOMAIN tree' /\ tree'[t] = tree[t]
  BY DEF file_create, PathInv, PathTypeOK
<1>3. \A d : IsDir(d) => d \in DOMAIN tree' /\ tree'[d] = "dir"
  BY <1>2 DEF IsDir
<1>4. IsDir(<<>>)' /\ (started # <<>> => IsDir(Components(cur_path))')
  BY <1>1, <1>3 DEF PathInv, IsDir
<1>5. \A q \in Caller \ {p} : pc[q] = "cd_chdir" =>
        Components(path[q]) \in DOMAIN tree' /\ tree'[Components(path[q])] = "dir"
  BY <1>3 DEF PathInv, Confirmed
<1> QED BY <1>1, <1>2, <1>4, <1>5, TreeKept

LEMMA RemoveKeeps ==
    ASSUME "kept" \in PathRules, PathInv, NEW p \in Caller, file_remove(p)
    PROVE  PathInv'
<1> DEFINE inUse == {Components(cur_path)}
                      \cup {Components(path[o]) : o \in {q \in Others(p) : pc[q] \in InCd}}
           kept == {t \in DOMAIN tree : t = <<>> \/ ~IsPrefix(Components(path[p]), t)}
<1>1. Leave(p) /\ UNCHANGED <<cur_path, started, own, overrun, calls>>
  BY DEF file_remove
<1>2. tree' = tree \/ tree' = [t \in kept |-> tree[t]]
  BY DEF file_remove
<1>3. \A u \in inUse : ~IsPrefix(Components(path[p]), u)
  BY DEF file_remove, UserKeeps
<1>4. \A d : IsDir(d) /\ d \in inUse \cup {<<>>} => d \in DOMAIN tree' /\ tree'[d] = "dir"
  BY <1>2, <1>3 DEF IsDir
<1>5. tree' \in [DOMAIN tree' -> {"reg", "dir"}]
  BY <1>2 DEF PathInv, PathTypeOK
<1>6. IsDir(<<>>)' /\ (started # <<>> => IsDir(Components(cur_path))')
  BY <1>1, <1>4 DEF PathInv, IsDir
<1>7. \A q \in Caller \ {p} : pc[q] = "cd_chdir" =>
        Components(path[q]) \in DOMAIN tree' /\ tree'[Components(path[q])] = "dir"
  <2> SUFFICES ASSUME NEW q \in Caller \ {p}, pc[q] = "cd_chdir"
               PROVE  Components(path[q]) \in DOMAIN tree' /\ tree'[Components(path[q])] = "dir"
    OBVIOUS
  <2>1. IsDir(Components(path[q])) /\ Components(path[q]) \in inUse
    BY DEF PathInv, Confirmed, Others, InCd
  <2> QED BY <1>4, <2>1
<1> QED BY <1>1, <1>5, <1>6, <1>7, TreeKept

LEMMA PathStep ==
    PathConstantsOK /\ {"kept", "exists"} \subseteq PathRules /\ PathInv /\ [PathNext]_pathVars
        => PathInv'
<1> SUFFICES ASSUME PathConstantsOK, "kept" \in PathRules, "exists" \in PathRules, PathInv,
                    [PathNext]_pathVars
             PROVE  PathInv'
  OBVIOUS
<1>1. ASSUME NEW s \in Shells, main(s) PROVE PathInv'
  BY <1>1, MainKeeps
<1>2. ASSUME NEW p \in Ready PROVE p \in Caller
  BY <1>2 DEF Ready
<1>3. ASSUME NEW p \in Ready, cd_root(p) PROVE PathInv'
  BY <1>2, <1>3, RootKeeps
<1>4. ASSUME NEW p \in Ready, NEW a \in Given, cd(p, a) PROVE PathInv'
  BY <1>2, <1>4, BeginKeeps DEF cd, InCd
<1>5. ASSUME NEW p \in Ready, NEW a \in Given, cd_absolute(p, a) PROVE PathInv'
  <2>1. a[1] = "/" /\ IsDir(Components(a)) /\ Begin(p, "cd_chdir", a)
    BY <1>5 DEF cd_absolute, UserKeeps, IsDir
  <2> QED BY <1>2, <2>1, BeginKeeps DEF InCd
<1>6. ASSUME NEW p \in Ready, NEW a \in Given, NEW f \in Calls, call(p, f, a)
      PROVE  PathInv'
  BY <1>2, <1>6, BeginKeeps DEF call, Calls
<1>7. ASSUME NEW p \in Caller, cd_open(p) PROVE PathInv'
  <2>1. pc[p] = "cd_open" /\ (Goto(p, "cd_stat") \/ Leave(p))
        /\ UNCHANGED <<tree, cur_path, started, own, overrun, calls>>
    BY <1>7 DEF cd_open
  <2>2. ~Goto(p, "cd_chdir")
    BY <2>1 DEF Goto, Leave, PathInv, PathTypeOK
  <2> QED BY <2>1, <2>2, LookKeeps DEF InCd
<1>8. ASSUME NEW p \in Caller, cd_stat(p) PROVE PathInv'
  <2>1. /\ (Goto(p, "cd_chdir") /\ IsDir(Components(path[p]))) \/ Leave(p)
        /\ UNCHANGED <<tree, cur_path, started, own, overrun, calls>>
    BY <1>8 DEF cd_stat, Found, IsDir
  <2>2. Leave(p) => ~Goto(p, "cd_chdir")
    BY DEF Goto, Leave, PathInv, PathTypeOK
  <2> QED BY <2>1, <2>2, LookKeeps DEF InCd
<1>9. ASSUME NEW p \in Caller, cd_chdir(p) PROVE PathInv'
  BY <1>9, ChdirKeeps
<1>10. ASSUME NEW p \in Caller, file_open(p) PROVE PathInv'
  <2>1. Leave(p) /\ UNCHANGED <<tree, cur_path, started, own, overrun, calls>>
    BY <1>10 DEF file_open
  <2>2. Leave(p) => ~Goto(p, "cd_chdir")
    BY DEF Goto, Leave, PathInv, PathTypeOK
  <2> QED BY <2>1, <2>2, LookKeeps
<1>11. ASSUME NEW p \in Caller, file_create(p) PROVE PathInv'
  BY <1>11, CreateKeeps
<1>12. ASSUME NEW p \in Caller, file_remove(p) PROVE PathInv'
  BY <1>12, RemoveKeeps
<1>13. CASE UNCHANGED pathVars
  BY <1>13 DEF pathVars, PathInv, PathTypeOK, Confirmed, IsDir
<1> QED BY <1>1, <1>3, <1>4, <1>5, <1>6, <1>7, <1>8, <1>9, <1>10, <1>11, <1>12, <1>13 DEF PathNext

\* The current path is a string that fits its array and names a directory (sh.c cd,
\* sys_set_cur_path): between cd's look at a directory and its chdir any number of
\* processes of any number of shells may create and remove files and change the path.
\* What it rests on is what the code does not check: an absolute path given to cd
\* exists, and the directories in use are not removed.
THEOREM CurPathIsKept ==
    ASSUME "kept" \in PathRules, "exists" \in PathRules
    PROVE  PathSpec => []CurPathKept
<1> USE PathConstantsAssumption
<1>1. PathInit => PathInv
  BY PathStart
<1>2. PathInv /\ [PathNext]_pathVars => PathInv'
  BY PathStep
<1>3. PathInv => CurPathKept
  BY DEF PathInv, CurPathKept, CurPathIsDir, IsDir
<1> QED BY <1>1, <1>2, <1>3, PTL DEF PathSpec

-----------------------------------------------------------------------------
(* The line and the history: sequences.                                     *)

LEMMA Sliced ==
    ASSUME NEW S, NEW s \in Seq(S), NEW a \in Int, NEW b \in Int, 1 <= a, b <= Len(s), a <= b + 1
    PROVE  /\ SubSeq(s, a, b) \in Seq(S) /\ Len(SubSeq(s, a, b)) = b - a + 1
           /\ \A k \in 1..(b - a + 1) : SubSeq(s, a, b)[k] = s[a + k - 1]
OBVIOUS

LEMMA Joined ==
    ASSUME NEW S, NEW s \in Seq(S), NEW t \in Seq(S)
    PROVE  /\ s \o t \in Seq(S) /\ Len(s \o t) = Len(s) + Len(t)
           /\ \A k \in 1..(Len(s) + Len(t)) :
                 (s \o t)[k] = IF k <= Len(s) THEN s[k] ELSE t[k - Len(s)]
OBVIOUS

LEMMA Alike ==
    ASSUME NEW S, NEW s \in Seq(S), NEW t \in Seq(S), Len(s) = Len(t),
           \A k \in 1..Len(s) : s[k] = t[k]
    PROVE  s = t
OBVIOUS

\* What InsertAt and RemoveAt of SequencesExt give, place by place.
LEMMA Inserted ==
    ASSUME NEW S, NEW s \in Seq(S), NEW a \in 1..(Len(s) + 1), NEW c \in S
    PROVE  /\ InsertAt(s, a, c) \in Seq(S) /\ Len(InsertAt(s, a, c)) = Len(s) + 1
           /\ \A k \in 1..(Len(s) + 1) : InsertAt(s, a, c)[k] =
                 IF k < a THEN s[k] ELSE IF k = a THEN c ELSE s[k - 1]
<1> DEFINE u == SubSeq(s, 1, a - 1)
           v == SubSeq(s, a, Len(s))
<1>1. u \in Seq(S) /\ Len(u) = a - 1 /\ \A k \in 1..(a - 1) : u[k] = s[k]
  OBVIOUS
<1>2. /\ v \in Seq(S) /\ Len(v) = Len(s) - a + 1
      /\ \A k \in 1..(Len(s) - a + 1) : v[k] = s[a + k - 1]
  OBVIOUS
<1>3. <<c>> \in Seq(S) /\ Len(<<c>>) = 1 /\ <<c>>[1] = c
  OBVIOUS
<1> HIDE DEF u, v
<1>4. /\ u \o <<c>> \in Seq(S) /\ Len(u \o <<c>>) = a
      /\ \A k \in 1..a : (u \o <<c>>)[k] = IF k < a THEN s[k] ELSE c
  <2>1. /\ u \o <<c>> \in Seq(S) /\ Len(u \o <<c>>) = (a - 1) + 1
        /\ \A k \in 1..((a - 1) + 1) :
              (u \o <<c>>)[k] = IF k <= a - 1 THEN u[k] ELSE <<c>>[k - (a - 1)]
    BY <1>1, <1>3, Joined
  <2> QED BY <1>1, <1>3, <2>1
<1>5. /\ (u \o <<c>>) \o v \in Seq(S) /\ Len((u \o <<c>>) \o v) = a + (Len(s) - a + 1)
      /\ \A k \in 1..(a + (Len(s) - a + 1)) :
            ((u \o <<c>>) \o v)[k] = IF k <= a THEN (u \o <<c>>)[k] ELSE v[k - a]
  BY <1>2, <1>4, Joined
<1>6. InsertAt(s, a, c) = (u \o <<c>>) \o v
  BY DEF InsertAt, u, v
<1>7. Len(s) \in Nat /\ a \in Nat /\ a + (Len(s) - a + 1) = Len(s) + 1
  OBVIOUS
<1> DEFINE uc == u \o <<c>>
           w == uc \o v
<1>8. /\ \A k \in 1..a : uc[k] = IF k < a THEN s[k] ELSE c
      /\ \A k \in 1..(Len(s) + 1) : w[k] = IF k <= a THEN uc[k] ELSE v[k - a]
      /\ w \in Seq(S) /\ Len(w) = Len(s) + 1 /\ InsertAt(s, a, c) = w
  BY <1>4, <1>5, <1>6, <1>7
<1> HIDE DEF uc, w
<1>9. ASSUME NEW k \in 1..(Len(s) + 1)
      PROVE  w[k] = IF k < a THEN s[k] ELSE IF k = a THEN c ELSE s[k - 1]
  <2>1. CASE k <= a
    BY <1>7, <1>8, <2>1
  <2>2. CASE k > a
    <3>1. k - a \in 1..(Len(s) - a + 1) /\ a + (k - a) - 1 = k - 1
      BY <1>7, <2>2
    <3>2. w[k] = v[k - a]
      BY <1>7, <1>8, <2>2
    <3> QED BY <1>2, <1>7, <2>2, <3>1, <3>2
  <2> QED BY <1>7, <2>1, <2>2
<1> QED BY <1>8, <1>9

LEMMA Removed ==
    ASSUME NEW S, NEW s \in Seq(S), NEW a \in 1..Len(s)
    PROVE  /\ RemoveAt(s, a) \in Seq(S) /\ Len(RemoveAt(s, a)) = Len(s) - 1
           /\ \A k \in 1..(Len(s) - 1) : RemoveAt(s, a)[k] = IF k < a THEN s[k] ELSE s[k + 1]
<1> DEFINE u == SubSeq(s, 1, a - 1)
           v == SubSeq(s, a + 1, Len(s))
<1>1. u \in Seq(S) /\ Len(u) = a - 1 /\ \A k \in 1..(a - 1) : u[k] = s[k]
  OBVIOUS
<1>2. /\ v \in Seq(S) /\ Len(v) = Len(s) - a
      /\ \A k \in 1..(Len(s) - a) : v[k] = s[a + k]
  OBVIOUS
<1> HIDE DEF u, v
<1>3. /\ u \o v \in Seq(S) /\ Len(u \o v) = Len(u) + Len(v)
      /\ \A k \in 1..(Len(u) + Len(v)) :
            (u \o v)[k] = IF k <= Len(u) THEN u[k] ELSE v[k - Len(u)]
  BY <1>1, <1>2, Joined
<1>5. Len(s) \in Nat /\ a \in Nat /\ Len(u) + Len(v) = Len(s) - 1
  BY <1>1, <1>2
<1>6. ASSUME NEW k \in 1..(Len(s) - 1)
      PROVE  (u \o v)[k] = IF k < a THEN s[k] ELSE s[k + 1]
  <2>1. CASE k < a
    BY <1>1, <1>3, <1>5, <2>1
  <2>2. CASE k >= a
    <3>1. k - (a - 1) \in 1..(Len(s) - a) /\ a + (k - (a - 1)) = k + 1
      BY <1>5, <2>2
    <3>2. (u \o v)[k] = v[k - (a - 1)]
      BY <1>1, <1>3, <1>5, <2>2
    <3> QED BY <1>2, <1>5, <2>2, <3>1, <3>2
  <2> QED BY <1>5, <2>1, <2>2
<1>4. RemoveAt(s, a) = u \o v
  BY DEF RemoveAt, u, v
<1> QED BY <1>3, <1>4, <1>5, <1>6

-----------------------------------------------------------------------------
(* The line and the history: the invariant.                                 *)

\* The buffer has the line, and no store has left it.
BufferSound ==
    /\ buf[-1] = Guard /\ buf[N] = Guard
    /\ \A k \in 0..(N - 1) : buf[k] # Guard
    /\ \A k \in 0..(len - 1) : buf[k] \in Key

\* Where the k-th command ends in the file, and the ends of its lines.
EndOf(k) == IF k = 0 THEN 0 ELSE hisoffsets[k - 1]
Newlines == {k \in 1..Len(history) : history[k] = NL}

\* The offsets cut the file into commands that fit the buffer.
OffsetsSound ==
    /\ hisinit <=> hislen > 0
    /\ hislen <= MaxHis /\ hisoffsets[MaxHis] = Guard
    /\ \A k \in 0..(MaxHis - 1) : hisoffsets[k] \in Nat
    /\ EndOf(hislen) = Len(history)
    /\ \A k \in 1..hislen :
          /\ EndOf(k - 1) < EndOf(k) /\ EndOf(k) <= Len(history)
          /\ EndOf(k) - EndOf(k - 1) <= N
          /\ history[EndOf(k)] = NL
          /\ \A j \in EndOf(k - 1) + 1 .. EndOf(k) - 1 : history[j] \in Key
    /\ hislen = Cardinality(Newlines) /\ {hisoffsets[k] : k \in 0..(hislen - 1)} = Newlines

LineInv == LineTypeOK /\ BufferSound /\ OffsetsSound

LEMMA LineConstants ==
    ASSUME LineConstantsOK
    PROVE  /\ N \in Nat /\ N > 1 /\ MaxHis \in Nat /\ MaxHis > 0 /\ MaxCmds \in Nat
           /\ NUL \notin Key /\ Guard \notin Key /\ NL \notin Key
           /\ NL # NUL /\ NL # Guard /\ NUL # Guard
           /\ \A k \in 0..N : k \in Cells
           /\ -1 \in Cells
BY DEF LineConstantsOK, Cells

LEMMA LineTypes ==
    ASSUME LineConstantsOK, LineTypeOK
    PROVE  /\ len \in Nat /\ len <= N - 1 /\ cursor \in Nat /\ cursor <= len
           /\ hislen \in Nat /\ index \in Nat /\ index <= hislen /\ hislen <= MaxCmds
           /\ Len(history) \in Nat /\ Len(curcmd) \in Nat
BY LineConstants DEF LineTypeOK

\* The text is what the buffer holds up to len.
LEMMA TextIs ==
    ASSUME LineConstantsOK, LineInv
    PROVE  /\ Text \in Seq(Key) /\ Len(Text) = len
           /\ \A k \in 1..len : Text[k] = buf[k - 1]
<1>1. len \in Nat /\ \A k \in 1..len : buf[k - 1] \in Key
  BY LineTypes DEF LineInv, BufferSound
<1> QED BY <1>1 DEF Text

LEMMA PlaceBefore ==
    ASSUME NEW m \in Nat
    PROVE  \A k \in 1..m : k - 1 \in 0..(m - 1)
OBVIOUS

LEMMA NextTextIs ==
    ASSUME LineConstantsOK, LineInv'
    PROVE  /\ Text' \in Seq(Key) /\ Len(Text') = len'
           /\ \A k \in 1..len' : Text'[k] = buf'[k - 1]
<1>1. len' \in Nat
  BY LineConstants DEF LineInv, LineTypeOK
<1>2. \A k \in 0..(len' - 1) : buf'[k] \in Key
  BY DEF LineInv, BufferSound
<1>3. \A k \in 1..len' : buf'[k - 1] \in Key
  <2>1. \A k \in 1..len' : k - 1 \in 0..(len' - 1)
    BY <1>1, PlaceBefore
  <2> QED BY <1>2, <2>1
<1> QED BY <1>1, <1>3 DEF Text

\* Where commands end.
LEMMA EndsIncrease ==
    ASSUME LineConstantsOK, LineInv, NEW k \in 1..hislen
    PROVE  /\ EndOf(k - 1) \in Nat /\ EndOf(k) \in Nat /\ EndOf(k - 1) < EndOf(k)
           /\ EndOf(k) <= Len(history) /\ EndOf(k) - EndOf(k - 1) <= N
           /\ \A j \in EndOf(k - 1) + 1 .. EndOf(k) - 1 : history[j] \in Key
<1>1. /\ EndOf(k - 1) < EndOf(k) /\ EndOf(k) <= Len(history) /\ EndOf(k) - EndOf(k - 1) <= N
      /\ \A j \in EndOf(k - 1) + 1 .. EndOf(k) - 1 : history[j] \in Key
  BY DEF LineInv, OffsetsSound
<1>2. \A j \in 0..hislen : EndOf(j) \in Nat
  <2>1. hislen \in Nat /\ hislen <= MaxHis /\ MaxHis \in Nat
    BY LineTypes, LineConstants DEF LineInv, OffsetsSound
  <2>2. \A j \in 0..(MaxHis - 1) : hisoffsets[j] \in Nat
    BY DEF LineInv, OffsetsSound
  <2>3. \A j \in 1..hislen : j - 1 \in 0..(MaxHis - 1)
    BY <2>1
  <2> QED BY <2>1, <2>2, <2>3 DEF EndOf
<1>3. k \in 0..hislen /\ k - 1 \in 0..hislen
  BY LineTypes DEF LineInv
<1> QED BY <1>1, <1>2, <1>3

\* The commands are what the offsets cut out of the file.
LEMMA CommandsAre ==
    ASSUME LineConstantsOK, LineInv
    PROVE  /\ Commands \in Seq(Seq(Key)) /\ Len(Commands) = hislen
           /\ \A k \in 1..hislen :
                 /\ Commands[k] = SubSeq(history, EndOf(k - 1) + 1, EndOf(k) - 1)
                 /\ Commands[k] \in Seq(Key) /\ Len(Commands[k]) = EndOf(k) - EndOf(k - 1) - 1
                 /\ \A j \in 1..Len(Commands[k]) : Commands[k][j] = history[EndOf(k - 1) + j]
<1>1. ASSUME NEW k \in 1..hislen
      PROVE  /\ Commands[k] = SubSeq(history, EndOf(k - 1) + 1, EndOf(k) - 1)
             /\ Commands[k] \in Seq(Key) /\ Len(Commands[k]) = EndOf(k) - EndOf(k - 1) - 1
             /\ \A j \in 1..Len(Commands[k]) : Commands[k][j] = history[EndOf(k - 1) + j]
  <2> DEFINE a == EndOf(k - 1)
             b == EndOf(k)
             s == SubSeq(history, a + 1, b - 1)
  <2>1. Commands[k] = s
    <3>1. hislen \in Nat /\ k \in Nat /\ k # 0 /\ (k - 1 = 0 <=> k = 1) /\ (k - 1) - 1 = k - 2
      BY LineTypes DEF LineInv
    <3> QED BY <3>1 DEF Commands, EndOf
  <2>2. /\ a \in Nat /\ b \in Nat /\ a < b /\ b <= Len(history)
        /\ \A j \in a + 1 .. b - 1 : history[j] \in Key
    BY EndsIncrease
  <2>3. Len(history) \in Nat /\ history \in Seq(Key \cup {NL})
    BY LineTypes DEF LineInv, LineTypeOK
  <2> HIDE DEF a, b
  <2>4. /\ s \in Seq(Key \cup {NL}) /\ Len(s) = (b - 1) - (a + 1) + 1
        /\ \A j \in 1..((b - 1) - (a + 1) + 1) : s[j] = history[(a + 1) + j - 1]
    BY <2>2, <2>3, Sliced
  <2>5. Len(s) = b - a - 1 /\ \A j \in 1..Len(s) : s[j] = history[a + j]
    <3>1. (b - 1) - (a + 1) + 1 = b - a - 1 /\ \A j \in Nat : (a + 1) + j - 1 = a + j
      BY <2>2
    <3> QED BY <2>2, <2>4, <3>1
  <2> HIDE DEF s
  <2>6. s \in Seq(Key)
    <3>1. \A j \in 1..Len(s) : s[j] \in Key
      BY <2>2, <2>5
    <3> QED BY <2>4, <3>1
  <2> QED BY <2>1, <2>5, <2>6 DEF a, b, s
<1>2. hislen \in Nat
  BY LineTypes DEF LineInv
<1>3. Commands \in Seq(Seq(Key)) /\ Len(Commands) = hislen
  <2>1. Commands = [k \in 1..hislen |-> Commands[k]]
    BY DEF Commands
  <2>2. \A k \in 1..hislen : Commands[k] \in Seq(Key)
    BY <1>1
  <2> QED BY <1>2, <2>1, <2>2
<1> QED BY <1>1, <1>3

\* The history stays, and so do the commands.
LEMMA SameHistory ==
    ASSUME LineInv, UNCHANGED <<history, hisinit, hislen, hisoffsets>>
    PROVE  OffsetsSound' /\ Commands' = Commands
BY DEF LineInv, OffsetsSound, EndOf, Newlines, Commands

-----------------------------------------------------------------------------
(* The line and the history: keys that change the line.                     *)

\* Two lines of the same characters.
LEMMA SameText ==
    ASSUME LineConstantsOK, LineInv', NEW t \in Seq(Key), Len(t) = len',
           \A k \in 1..len' : buf'[k - 1] = t[k]
    PROVE  Text' = t
<1> DEFINE u == Text'
           m == len'
<1>1. u \in Seq(Key) /\ Len(u) = m /\ \A k \in 1..m : u[k] = t[k]
  BY NextTextIs
<1> HIDE DEF u, m
<1>2. Len(t) = m
  BY DEF m
<1>3. u = t
  BY <1>1, <1>2, Alike
<1> QED BY <1>3 DEF u

LEMMA InsertSound ==
    ASSUME LineConstantsOK, LineInv, NEW c \in Key, insert(c), "room" \in LineRules
    PROVE  LineInv' /\ Editor!Insert(c)
<1> DEFINE cell(k) == IF k = cursor THEN c
                      ELSE IF cursor < len /\ k = len + 1 THEN NUL
                      ELSE IF k > cursor /\ k <= len THEN buf[k - 1] ELSE buf[k]
           moved == [k \in Cells |-> cell(k)]
           full == len + 1 >= N
<1>1. /\ ~skipping /\ (cursor = len \/ len + 1 < N)
      /\ buf' = IF full THEN [moved EXCEPT ![0] = NUL] ELSE moved
      /\ len' = IF full THEN 0 ELSE len + 1
      /\ cursor' = IF full THEN 0 ELSE cursor + 1
      /\ skipping' = full
      /\ UNCHANGED <<index, curcmd, history, hisinit, hislen, hisoffsets>>
  BY DEF insert, TypistKeeps
<1> HIDE DEF full, moved, cell
<1>2. /\ len \in Nat /\ cursor \in Nat /\ cursor <= len /\ len <= N - 1 /\ N \in Nat /\ N > 1
      /\ NUL # Guard /\ Guard \notin Key /\ 0 \in Cells
  BY LineTypes, LineConstants DEF LineInv
<1>3. /\ LineTypeOK /\ buf[-1] = Guard /\ buf[N] = Guard
      /\ \A k \in 0..(N - 1) : buf[k] # Guard
      /\ \A k \in 0..(len - 1) : buf[k] \in Key
  BY DEF LineInv, BufferSound
<1>4. \A k \in Cells : buf[k] \in Key \cup {NUL, Guard} /\ cell(k) \in Key \cup {NUL, Guard}
  <2>1. \A k \in Cells : buf[k] \in Key \cup {NUL, Guard}
    BY <1>3 DEF LineTypeOK
  <2>2. \A k \in Cells : k > cursor /\ k <= len => k - 1 \in Cells
    BY <1>2 DEF Cells
  <2> QED BY <2>1, <2>2 DEF cell
<1>5. full \in BOOLEAN
  BY DEF full
<1>6. OffsetsSound' /\ Commands' = Commands
  BY <1>1, SameHistory
<1>7. CASE full
  <2>1. cursor = len /\ len = N - 1
    BY <1>1, <1>2, <1>7 DEF full
  <2>2. \A k \in Cells : buf'[k] = IF k = 0 THEN NUL ELSE cell(k)
    BY <1>1, <1>2, <1>7 DEF moved
  <2>3. \A k \in Cells : k # len => cell(k) = buf[k]
    BY <1>2, <2>1 DEF cell, Cells
  <2>4. buf' \in [Cells -> Key \cup {NUL, Guard}]
    <3>1. moved \in [Cells -> Key \cup {NUL, Guard}]
      BY <1>4 DEF moved
    <3> QED BY <1>1, <1>7, <3>1
  <2>5. buf'[-1] = Guard /\ buf'[N] = Guard
    <3>1. -1 \in Cells /\ N \in Cells /\ -1 # len /\ N # len /\ N # 0
      BY <1>2, <2>1 DEF Cells
    <3> QED BY <1>3, <2>2, <2>3, <3>1
  <2>6. \A k \in 0..(N - 1) : buf'[k] # Guard
    <3> SUFFICES ASSUME NEW k \in 0..(N - 1) PROVE buf'[k] # Guard
      OBVIOUS
    <3>1. k \in Cells
      BY <1>2 DEF Cells
    <3>2. cell(k) # Guard
      BY <1>2, <1>3, <2>1, <2>3, <3>1 DEF cell
    <3> QED BY <1>2, <2>2, <3>1, <3>2
  <2>7. len' = 0 /\ cursor' = 0 /\ skipping' = TRUE
    BY <1>1, <1>5, <1>7
  <2>8. LineTypeOK'
    BY <1>1, <1>2, <1>3, <2>4, <2>7 DEF LineTypeOK
  <2>9. LineInv'
    BY <1>6, <2>5, <2>6, <2>7, <2>8 DEF LineInv, BufferSound
  <2>10. Text' = <<>>
    <3>1. <<>> \in Seq(Key) /\ Len(<<>>) = 0 /\ \A k \in 1..0 : FALSE
      OBVIOUS
    <3>2. Len(<<>>) = len' /\ \A k \in 1..len' : buf'[k - 1] = <<>>[k]
      BY <2>7, <3>1
    <3> QED BY <2>9, <3>1, <3>2, SameText
  <2>11. ~(Len(Text) + 1 < N)
    BY <1>2, <2>1, TextIs
  <2> QED BY <1>1, <1>6, <2>7, <2>9, <2>10, <2>11 DEF Editor!Insert
<1>8. CASE ~full
  <2>1. len + 1 < N
    BY <1>2, <1>8 DEF full
  <2>2. \A k \in Cells : buf'[k] = cell(k)
    BY <1>1, <1>8 DEF moved
  <2>3. buf' \in [Cells -> Key \cup {NUL, Guard}]
    BY <1>1, <1>4, <1>8 DEF moved
  <2>4. buf'[-1] = Guard /\ buf'[N] = Guard
    <3>1. -1 \in Cells /\ N \in Cells
      BY <1>2 DEF Cells
    <3>2. cell(-1) = buf[-1] /\ cell(N) = buf[N]
      BY <1>2, <2>1 DEF cell
    <3> QED BY <1>3, <2>2, <3>1, <3>2
  <2>5. \A k \in 0..len : cell(k) \in Key
    BY <1>2, <1>3 DEF cell
  <2>6. \A k \in 0..(N - 1) : buf'[k] # Guard
    <3> SUFFICES ASSUME NEW k \in 0..(N - 1) PROVE cell(k) # Guard
      BY <1>2, <2>2 DEF Cells
    <3>1. CASE k <= len
      BY <1>2, <2>5, <3>1
    <3>2. CASE k > len
      BY <1>2, <1>3, <3>2 DEF cell
    <3> QED BY <1>2, <3>1, <3>2
  <2>7. len' = len + 1 /\ cursor' = cursor + 1 /\ skipping' = FALSE
    BY <1>1, <1>5, <1>8
  <2>8. LineTypeOK'
    <3>1. len + 1 \in 0..(N - 1) /\ cursor + 1 \in 0..(len + 1)
      BY <1>2, <2>1
    <3> QED BY <1>1, <1>3, <2>3, <2>7, <3>1 DEF LineTypeOK
  <2>9. \A k \in 0..(len' - 1) : buf'[k] \in Key
    BY <1>2, <2>1, <2>2, <2>5, <2>7 DEF Cells
  <2>10. LineInv'
    BY <1>6, <2>4, <2>6, <2>8, <2>9 DEF LineInv, BufferSound
  <2>11. Text \in Seq(Key) /\ Len(Text) = len /\ \A k \in 1..len : Text[k] = buf[k - 1]
    BY TextIs
  <2> DEFINE t == InsertAt(Text, cursor + 1, c)
  <2>12. /\ t \in Seq(Key) /\ Len(t) = len + 1
         /\ \A k \in 1..(len + 1) : t[k] = IF k < cursor + 1 THEN Text[k]
                                           ELSE IF k = cursor + 1 THEN c ELSE Text[k - 1]
    <3>1. cursor + 1 \in 1..(Len(Text) + 1)
      BY <1>2, <2>11
    <3>2. /\ t \in Seq(Key) /\ Len(t) = Len(Text) + 1
          /\ \A k \in 1..(Len(Text) + 1) : t[k] = IF k < cursor + 1 THEN Text[k]
                                                  ELSE IF k = cursor + 1 THEN c ELSE Text[k - 1]
      <4>1. t \in Seq(Key)
        BY <2>11, <3>1, Inserted DEF t
      <4>2. Len(t) = Len(Text) + 1
        BY <2>11, <3>1, Inserted DEF t
      <4>3. \A k \in 1..(Len(Text) + 1) : t[k] = IF k < cursor + 1 THEN Text[k]
                                                  ELSE IF k = cursor + 1 THEN c ELSE Text[k - 1]
        <5>1. ASSUME NEW x \in Seq(Key), NEW a \in 1..(Len(x) + 1)
              PROVE  \A k \in 1..(Len(x) + 1) : InsertAt(x, a, c)[k] =
                        IF k < a THEN x[k] ELSE IF k = a THEN c ELSE x[k - 1]
          BY Inserted
        <5>2. Text \in Seq(Key)
          BY <2>11
        <5> QED BY <3>1, <5>1, <5>2 DEF t
      <4> QED BY <4>1, <4>2, <4>3
    <3> QED BY <2>11, <3>2
  <2> HIDE DEF t
  <2>13. \A k \in 1..(len + 1) : cell(k - 1) = t[k]
    <3> SUFFICES ASSUME NEW k \in 1..(len + 1) PROVE cell(k - 1) = t[k]
      OBVIOUS
    <3>1. CASE k < cursor + 1
      BY <1>2, <2>11, <2>12, <3>1 DEF cell
    <3>2. CASE k = cursor + 1
      BY <1>2, <2>12, <3>2 DEF cell
    <3>3. CASE k > cursor + 1
      BY <1>2, <2>11, <2>12, <3>3 DEF cell
    <3> QED BY <1>2, <3>1, <3>2, <3>3
  <2>14. \A k \in 1..len' : buf'[k - 1] = t[k]
    BY <1>2, <2>1, <2>2, <2>7, <2>13 DEF Cells
  <2>15. Text' = t
    BY <2>7, <2>10, <2>12, <2>14, SameText
  <2>16. Len(Text) + 1 < N
    BY <2>1, <2>11
  <2>17. Editor!InsertAt(Text, cursor + 1, c) = t
    BY DEF Editor!InsertAt, InsertAt, t
  <2> QED BY <1>1, <1>6, <2>7, <2>10, <2>15, <2>16, <2>17 DEF Editor!Insert
<1> QED BY <1>7, <1>8

LEMMA BackspaceSound ==
    ASSUME LineConstantsOK, LineInv, backspace
    PROVE  LineInv' /\ Editor!Erase
<1> DEFINE cell(k) == IF k = len - 1 THEN NUL
                      ELSE IF k \in (cursor - 1)..(len - 2) THEN buf[k + 1] ELSE buf[k]
<1>1. /\ ~skipping /\ cursor > 0 /\ buf' = [k \in Cells |-> cell(k)]
      /\ len' = len - 1 /\ cursor' = cursor - 1
      /\ UNCHANGED <<index, curcmd, skipping, history, hisinit, hislen, hisoffsets>>
  BY DEF backspace
<1> HIDE DEF cell
<1>2. /\ len \in Nat /\ cursor \in Nat /\ cursor <= len /\ len <= N - 1 /\ N \in Nat /\ N > 1
      /\ NUL # Guard /\ Guard \notin Key
  BY LineTypes, LineConstants DEF LineInv
<1>3. /\ LineTypeOK /\ buf[-1] = Guard /\ buf[N] = Guard
      /\ \A k \in 0..(N - 1) : buf[k] # Guard
      /\ \A k \in 0..(len - 1) : buf[k] \in Key
  BY DEF LineInv, BufferSound
<1>4. \A k \in Cells : buf'[k] = cell(k) /\ cell(k) \in Key \cup {NUL, Guard}
  <2>1. \A k \in Cells : buf[k] \in Key \cup {NUL, Guard}
    BY <1>3 DEF LineTypeOK
  <2>2. \A k \in Cells : k \in (cursor - 1)..(len - 2) => k + 1 \in Cells
    BY <1>1, <1>2 DEF Cells
  <2> QED BY <1>1, <2>1, <2>2 DEF cell
<1>5. OffsetsSound' /\ Commands' = Commands
  BY <1>1, SameHistory
<1>6. buf' \in [Cells -> Key \cup {NUL, Guard}]
  BY <1>1, <1>4
<1>7. buf'[-1] = Guard /\ buf'[N] = Guard
  <2>1. -1 \in Cells /\ N \in Cells
    BY <1>2 DEF Cells
  <2>2. cell(-1) = buf[-1] /\ cell(N) = buf[N]
    BY <1>1, <1>2 DEF cell
  <2> QED BY <1>3, <1>4, <2>1, <2>2
<1>8. \A k \in 0..(N - 1) : buf'[k] # Guard
  <2> SUFFICES ASSUME NEW k \in 0..(N - 1) PROVE cell(k) # Guard
    BY <1>2, <1>4 DEF Cells
  <2>1. k \in (cursor - 1)..(len - 2) => k + 1 \in 0..(N - 1)
    BY <1>1, <1>2
  <2> QED BY <1>2, <1>3, <2>1 DEF cell
<1>9. LineTypeOK'
  BY <1>1, <1>2, <1>3, <1>6 DEF LineTypeOK
<1>10. Text \in Seq(Key) /\ Len(Text) = len /\ \A k \in 1..len : Text[k] = buf[k - 1]
  BY TextIs
<1> DEFINE t == RemoveAt(Text, cursor)
<1>11. /\ t \in Seq(Key) /\ Len(t) = len - 1
       /\ \A k \in 1..(len - 1) : t[k] = IF k < cursor THEN Text[k] ELSE Text[k + 1]
  <2>1. cursor \in 1..Len(Text)
    BY <1>1, <1>2, <1>10
  <2> QED BY <1>10, <2>1, Removed
<1> HIDE DEF t
<1>12. \A k \in 1..(len - 1) : buf'[k - 1] = t[k]
  <2> SUFFICES ASSUME NEW k \in 1..(len - 1) PROVE cell(k - 1) = t[k]
    BY <1>2, <1>4 DEF Cells
  <2>1. CASE k < cursor
    BY <1>2, <1>10, <1>11, <2>1 DEF cell
  <2>2. CASE k >= cursor
    <3>1. k + 1 \in 1..len /\ k - 1 \in (cursor - 1)..(len - 2) /\ (k - 1) + 1 = (k + 1) - 1
      BY <1>1, <1>2, <2>2
    <3>2. cell(k - 1) = buf[(k + 1) - 1]
      BY <1>2, <3>1 DEF cell
    <3> QED BY <1>2, <1>10, <1>11, <2>2, <3>1, <3>2
  <2> QED BY <1>2, <2>1, <2>2
<1>13. \A k \in 0..(len' - 1) : buf'[k] \in Key
  <2> SUFFICES ASSUME NEW k \in 0..(len - 2) PROVE buf'[k] \in Key
    BY <1>1, <1>2
  <2>1. k + 1 \in 1..(len - 1) /\ (k + 1) - 1 = k
    BY <1>2
  <2>2. buf'[k] = t[k + 1]
    BY <1>12, <2>1
  <2> QED BY <1>11, <2>1, <2>2
<1>14. LineInv'
  BY <1>5, <1>7, <1>8, <1>9, <1>13 DEF LineInv, BufferSound
<1>15. Text' = t
  BY <1>1, <1>11, <1>12, <1>14, SameText
<1>16. Editor!RemoveAt(Text, cursor) = t
  BY DEF Editor!RemoveAt, RemoveAt, t
<1> QED BY <1>1, <1>5, <1>14, <1>15, <1>16 DEF Editor!Erase

LEMMA MoveSound ==
    ASSUME LineConstantsOK, LineInv, left_right
    PROVE  LineInv' /\ \E to \in {cursor - 1, cursor + 1} : Editor!Move(to)
<1>1. PICK d \in {-1, 1} : ~skipping /\ cursor + d \in 0..len /\ cursor' = cursor + d
  BY DEF left_right
<1>2. UNCHANGED <<buf, len, index, curcmd, skipping, history, hisinit, hislen, hisoffsets>>
  BY DEF left_right
<1>3. OffsetsSound' /\ Commands' = Commands
  BY <1>2, SameHistory
<1>4. LineTypeOK'
  BY <1>1, <1>2 DEF LineInv, LineTypeOK
<1>5. LineInv'
  BY <1>2, <1>3, <1>4 DEF LineInv, BufferSound
<1>6. Text' = Text /\ Len(Text) = len
  BY <1>2, TextIs DEF Text
<1>7. cursor + d \in {cursor - 1, cursor + 1}
  BY LineTypes DEF LineInv
<1>8. Editor!Move(cursor + d)
  BY <1>1, <1>2, <1>3, <1>6 DEF Editor!Move
<1> QED BY <1>5, <1>7, <1>8

-----------------------------------------------------------------------------
(* The line and the history: keys that show a command.                      *)

LEMMA StrlenIs ==
    ASSUME LineConstantsOK, NEW b, NEW m \in 0..(N - 1), b[m] = NUL,
           \A k \in 0..(m - 1) : b[k] \in Key
    PROVE  strlen(b) = m
<1> DEFINE ends == {k \in 0..N : b[k] \in {NUL, Guard}}
<1>1. N \in Nat /\ NUL \notin Key /\ Guard \notin Key
  BY LineConstants
<1>2. m \in ends /\ \A k \in ends : k \in Nat /\ m <= k
  <2>1. m \in ends
    BY <1>1
  <2>2. ASSUME NEW k \in ends PROVE k \in Nat /\ m <= k
    <3>1. k \in Nat /\ k \in 0..N /\ b[k] \notin Key
      BY <1>1
    <3>2. ~(k < m)
      BY <1>1, <3>1
    <3> QED BY <1>1, <3>1, <3>2
  <2> QED BY <2>1, <2>2
<1>3. strlen(b) = Min(ends)
  BY DEF strlen
<1> HIDE DEF ends
<1>4. Min(ends) \in ends /\ \A k \in ends : Min(ends) <= k
  BY <1>2 DEF Min
<1>5. Min(ends) \in Nat /\ m <= Min(ends) /\ Min(ends) <= m
  BY <1>2, <1>4
<1>6. m \in Nat
  BY <1>2
<1> QED BY <1>3, <1>5, <1>6

\* A buffer may be shown when it holds a line and nothing behind it was stored.
HoldsLine(b, t) ==
    /\ b \in [Cells -> Key \cup {NUL, Guard}]
    /\ b[-1] = Guard /\ b[N] = Guard /\ \A k \in 0..(N - 1) : b[k] # Guard
    /\ t \in Seq(Key) /\ Len(t) < N /\ b[Len(t)] = NUL
    /\ \A k \in 0..(Len(t) - 1) : b[k] = t[k + 1]

LEMMA ShownSound ==
    ASSUME LineConstantsOK, LineInv, NEW b, NEW t, HoldsLine(b, t), Shown(b),
           UNCHANGED <<skipping, history, hisinit, hislen, hisoffsets>>,
           index' \in 0..hislen, curcmd' \in Seq(Key), Len(curcmd') < N
    PROVE  LineInv' /\ Text' = t /\ cursor' = Len(t)
<1>1. /\ b \in [Cells -> Key \cup {NUL, Guard}]
      /\ b[-1] = Guard /\ b[N] = Guard /\ \A k \in 0..(N - 1) : b[k] # Guard
      /\ t \in Seq(Key) /\ Len(t) < N /\ b[Len(t)] = NUL
      /\ \A k \in 0..(Len(t) - 1) : b[k] = t[k + 1]
  BY DEF HoldsLine
<1>2. Len(t) \in Nat /\ Len(t) \in 0..(N - 1) /\ N \in Nat
  BY <1>1, LineConstants
<1>3. \A k \in 0..(Len(t) - 1) : b[k] \in Key
  BY <1>1, <1>2
<1>4. strlen(b) = Len(t)
  BY <1>1, <1>2, <1>3, StrlenIs
<1>5. buf' = b /\ len' = Len(t) /\ cursor' = Len(t)
  BY <1>4 DEF Shown
<1>6. OffsetsSound'
  BY SameHistory
<1>7. LineTypeOK'
  BY <1>1, <1>2, <1>5 DEF LineInv, LineTypeOK
<1>8. LineInv'
  BY <1>1, <1>3, <1>5, <1>6, <1>7 DEF LineInv, BufferSound
<1>9. \A k \in 1..len' : buf'[k - 1] = t[k]
  BY <1>1, <1>2, <1>5
<1>10. Text' = t
  BY <1>1, <1>5, <1>8, <1>9, SameText
<1> QED BY <1>5, <1>8, <1>10

\* A buffer behind which nothing was stored.
Unbroken(b) ==
    /\ b \in [Cells -> Key \cup {NUL, Guard}]
    /\ b[-1] = Guard /\ b[N] = Guard /\ \A k \in 0..(N - 1) : b[k] # Guard

\* gethis puts a command, which fits, into the buffer.
LEMMA GethisIs ==
    ASSUME LineConstantsOK, LineInv, NEW k \in 0..(hislen - 1), NEW b, Unbroken(b)
    PROVE  HoldsLine(gethis(k, b), Commands[k + 1])
<1> DEFINE start == EndOf(k)
           cmdlen == EndOf(k + 1) - EndOf(k)
           t == Commands[k + 1]
           cell(c) == IF c = cmdlen - 1 THEN NUL
                      ELSE IF c >= 0 /\ c < cmdlen THEN history[start + c + 1] ELSE b[c]
           h == gethis(k, b)
<1>1. hislen \in Nat /\ k \in Nat /\ k + 1 \in 1..hislen /\ (k + 1) - 1 = k
  BY LineTypes DEF LineInv
<1>2. /\ start \in Nat /\ EndOf(k + 1) \in Nat /\ start < EndOf(k + 1) /\ cmdlen <= N
  BY <1>1, EndsIncrease
<1>3. cmdlen \in Nat /\ cmdlen > 0 /\ N \in Nat /\ NUL # Guard /\ Guard \notin Key
  BY <1>2, LineConstants
<1>4. h = [c \in Cells |-> cell(c)]
  BY <1>1 DEF gethis, EndOf
<1>5. t \in Seq(Key) /\ Len(t) = cmdlen - 1 /\ \A j \in 1..Len(t) : t[j] = history[start + j]
  <2>1. /\ Commands[k + 1] \in Seq(Key)
        /\ Len(Commands[k + 1]) = EndOf(k + 1) - EndOf((k + 1) - 1) - 1
        /\ \A j \in 1..Len(Commands[k + 1]) :
              Commands[k + 1][j] = history[EndOf((k + 1) - 1) + j]
    BY <1>1, CommandsAre
  <2> QED BY <1>1, <1>2, <2>1
<1>6. /\ b \in [Cells -> Key \cup {NUL, Guard}]
      /\ b[-1] = Guard /\ b[N] = Guard /\ \A j \in 0..(N - 1) : b[j] # Guard
  BY DEF Unbroken
<1> HIDE DEF start, cmdlen, t, h
<1>7. \A c \in 0..(cmdlen - 2) : cell(c) = t[c + 1] /\ t[c + 1] \in Key
  <2> SUFFICES ASSUME NEW c \in 0..(cmdlen - 2) PROVE cell(c) = t[c + 1] /\ t[c + 1] \in Key
    OBVIOUS
  <2>1. c + 1 \in 1..Len(t) /\ start + c + 1 = start + (c + 1)
    BY <1>2, <1>3, <1>5
  <2>2. cell(c) = history[start + (c + 1)]
    BY <1>3, <2>1
  <2> QED BY <1>5, <2>1, <2>2
<1>8. \A c \in Cells : cell(c) \in Key \cup {NUL, Guard}
  <2> SUFFICES ASSUME NEW c \in Cells PROVE cell(c) \in Key \cup {NUL, Guard}
    OBVIOUS
  <2>1. c \in Int
    BY <1>3 DEF Cells
  <2>2. CASE c \in 0..(cmdlen - 2)
    BY <1>7, <2>2
  <2>3. CASE c \notin 0..(cmdlen - 2)
    <3>1. cell(c) = IF c = cmdlen - 1 THEN NUL ELSE b[c]
      BY <1>3, <2>1, <2>3
    <3> QED BY <1>6, <3>1
  <2> QED BY <2>2, <2>3
<1>9. h[-1] = Guard /\ h[N] = Guard
  <2>1. -1 \in Cells /\ N \in Cells
    BY <1>3 DEF Cells
  <2>2. cell(-1) = b[-1] /\ cell(N) = b[N]
    BY <1>2, <1>3
  <2> QED BY <1>4, <1>6, <2>1, <2>2
<1>10. \A c \in 0..(N - 1) : c \in Cells /\ h[c] = cell(c)
  BY <1>3, <1>4 DEF Cells
<1>11. \A c \in 0..(N - 1) : h[c] # Guard
  <2> SUFFICES ASSUME NEW c \in 0..(N - 1) PROVE cell(c) # Guard
    BY <1>10
  <2>1. CASE c \in 0..(cmdlen - 2)
    BY <1>3, <1>7, <2>1
  <2>2. CASE c \notin 0..(cmdlen - 2)
    <3>1. cell(c) = IF c = cmdlen - 1 THEN NUL ELSE b[c]
      BY <1>3, <2>2
    <3> QED BY <1>3, <1>6, <3>1
  <2> QED BY <2>1, <2>2
<1>12. Len(t) < N /\ h[Len(t)] = NUL
  <2>1. Len(t) \in 0..(N - 1)
    BY <1>2, <1>3, <1>5
  <2>2. cell(Len(t)) = NUL
    BY <1>5
  <2> QED BY <1>3, <1>10, <2>1, <2>2
<1>13. \A c \in 0..(Len(t) - 1) : h[c] = t[c + 1]
  <2> SUFFICES ASSUME NEW c \in 0..(Len(t) - 1) PROVE h[c] = t[c + 1]
    OBVIOUS
  <2>1. c \in 0..(cmdlen - 2) /\ c \in 0..(N - 1)
    BY <1>2, <1>3, <1>5
  <2> QED BY <1>7, <1>10, <2>1
<1>14. h \in [Cells -> Key \cup {NUL, Guard}]
  BY <1>4, <1>8
<1> QED BY <1>5, <1>9, <1>11, <1>12, <1>13, <1>14 DEF HoldsLine, h, t

LEMMA UpSound ==
    ASSUME LineConstantsOK, LineInv, up, "some" \in LineRules
    PROVE  LineInv' /\ \E p \in {index, index - 1, index + 1} : Editor!Show(p)
<1> DEFINE b == IF index = hislen THEN [buf EXCEPT ![len] = NUL] ELSE buf
           k == IF index > 0 THEN index - 1 ELSE index
           t == Commands[k + 1]
<1>1. /\ ~skipping /\ hislen > 0
      /\ curcmd' = IF index = hislen THEN Text ELSE curcmd
      /\ index' = k /\ Shown(gethis(k, b))
      /\ UNCHANGED <<skipping, history, hisinit, hislen, hisoffsets>>
  BY DEF up, TypistKeeps
<1>2. /\ hislen \in Nat /\ index \in Nat /\ index <= hislen /\ len \in Nat /\ len <= N - 1
      /\ N \in Nat /\ NUL # Guard /\ len \in Cells /\ -1 \in Cells /\ N \in Cells
  BY LineTypes, LineConstants DEF LineInv, Cells
<1>3. k \in 0..(hislen - 1) /\ k + 1 \in 1..hislen /\ k \in {index, index - 1}
      /\ k \in 0..hislen /\ k # hislen
  BY <1>1, <1>2
<1>4. /\ LineTypeOK /\ buf[-1] = Guard /\ buf[N] = Guard
      /\ \A j \in 0..(N - 1) : buf[j] # Guard
  BY DEF LineInv, BufferSound
<1>5. Unbroken(b)
  <2>1. CASE index = hislen
    <3>1. b = [buf EXCEPT ![len] = NUL] /\ buf \in [Cells -> Key \cup {NUL, Guard}]
      BY <1>4, <2>1 DEF LineTypeOK
    <3>2. b \in [Cells -> Key \cup {NUL, Guard}]
          /\ \A j \in Cells : b[j] = IF j = len THEN NUL ELSE buf[j]
      BY <1>2, <3>1
    <3>3. b[-1] = Guard /\ b[N] = Guard
      BY <1>2, <1>4, <3>2
    <3>4. \A j \in 0..(N - 1) : b[j] # Guard
      BY <1>2, <1>4, <3>2 DEF Cells
    <3> QED BY <3>2, <3>3, <3>4 DEF Unbroken
  <2>2. CASE index # hislen
    <3>1. b = buf
      BY <2>2
    <3> QED BY <1>4, <3>1 DEF Unbroken, LineTypeOK
  <2> QED BY <2>1, <2>2
<1> HIDE DEF b, k, t
<1>6. HoldsLine(gethis(k, b), t)
  BY <1>3, <1>5, GethisIs DEF t
<1>7. Text \in Seq(Key) /\ Len(Text) = len
  BY TextIs
<1>8. index' \in 0..hislen /\ curcmd' \in Seq(Key) /\ Len(curcmd') < N
  BY <1>1, <1>2, <1>3, <1>4, <1>7 DEF LineTypeOK
<1>9. LineInv' /\ Text' = t /\ cursor' = Len(t)
  BY <1>1, <1>6, <1>8, ShownSound
<1>10. Commands' = Commands /\ Len(Commands) = hislen
  BY <1>1, SameHistory, CommandsAre
<1>11. Editor!Show(k)
  BY <1>1, <1>3, <1>9, <1>10 DEF Editor!Show, t
<1> QED BY <1>3, <1>9, <1>11

LEMMA DownSound ==
    ASSUME LineConstantsOK, LineInv, down
    PROVE  LineInv' /\ \E p \in {index, index - 1, index + 1} : Editor!Show(p)
<1> DEFINE p == index + 1
           m == Len(curcmd)
           typed == [k \in Cells |-> IF k \in 0..(m - 1) THEN curcmd[k + 1]
                                     ELSE IF k = m THEN NUL ELSE buf[k]]
<1>1. /\ ~skipping /\ index < hislen /\ index' = index + 1
      /\ UNCHANGED <<curcmd, skipping, history, hisinit, hislen, hisoffsets>>
      /\ IF index = hislen - 1 THEN Shown(typed) ELSE Shown(gethis(index + 1, buf))
  BY DEF down
<1>2. /\ hislen \in Nat /\ index \in Nat /\ m \in Nat /\ N \in Nat /\ NUL # Guard
      /\ NUL \notin Key /\ Guard \notin Key
  BY LineTypes, LineConstants DEF LineInv
<1>3. /\ LineTypeOK /\ buf[-1] = Guard /\ buf[N] = Guard
      /\ \A j \in 0..(N - 1) : buf[j] # Guard
  BY DEF LineInv, BufferSound
<1>4. curcmd \in Seq(Key) /\ m < N /\ buf \in [Cells -> Key \cup {NUL, Guard}]
  BY <1>3 DEF LineTypeOK
<1>5. p \in 0..hislen /\ index' \in 0..hislen /\ index # hislen
  BY <1>1, <1>2
<1>6. Commands' = Commands /\ Len(Commands) = hislen
  BY <1>1, SameHistory, CommandsAre
<1>7. curcmd' \in Seq(Key) /\ Len(curcmd') < N
  BY <1>1, <1>4
<1>8. CASE index = hislen - 1
  <2>1. \A k \in 0..(m - 1) : curcmd[k + 1] \in Key
    BY <1>2, <1>4
  <2>2. \A k \in Cells : typed[k] = IF k \in 0..(m - 1) THEN curcmd[k + 1]
                                    ELSE IF k = m THEN NUL ELSE buf[k]
    OBVIOUS
  <2>3. typed \in [Cells -> Key \cup {NUL, Guard}]
    BY <1>4, <2>1
  <2>4. Shown(typed)
    BY <1>1, <1>8
  <2> HIDE DEF typed
  <2>5. -1 \in Cells /\ N \in Cells /\ \A k \in 0..(N - 1) : k \in Cells
    BY <1>2 DEF Cells
  <2>6. typed[-1] = Guard /\ typed[N] = Guard
    <3>1. -1 \notin 0..(m - 1) /\ -1 # m /\ N \notin 0..(m - 1) /\ N # m
      BY <1>2, <1>4
    <3> QED BY <1>3, <2>2, <2>5, <3>1
  <2>7. \A k \in 0..(N - 1) : typed[k] # Guard
    BY <1>2, <1>3, <2>1, <2>2, <2>5
  <2>8. typed[m] = NUL /\ \A k \in 0..(m - 1) : typed[k] = curcmd[k + 1]
    <3>1. m \in Cells /\ m \notin 0..(m - 1) /\ \A k \in 0..(m - 1) : k \in Cells
      BY <1>2, <1>4, <2>5
    <3> QED BY <2>2, <3>1
  <2>9. HoldsLine(typed, curcmd)
    BY <1>4, <2>3, <2>6, <2>7, <2>8 DEF HoldsLine
  <2>10. LineInv' /\ Text' = curcmd /\ cursor' = Len(curcmd)
    BY <1>1, <1>5, <1>7, <2>4, <2>9, ShownSound
  <2>11. p = hislen /\ hislen > 0
    BY <1>2, <1>8
  <2>12. Editor!Show(p)
    BY <1>1, <1>5, <1>6, <2>10, <2>11 DEF Editor!Show
  <2> QED BY <2>10, <2>12
<1>9. CASE index # hislen - 1
  <2>1. p \in 0..(hislen - 1) /\ p # hislen /\ hislen > 0
    BY <1>1, <1>2, <1>9
  <2>2. Unbroken(buf)
    BY <1>3, <1>4 DEF Unbroken
  <2>3. HoldsLine(gethis(p, buf), Commands[p + 1])
    BY <2>1, <2>2, GethisIs
  <2>4. Shown(gethis(p, buf))
    BY <1>1, <1>9
  <2>5. LineInv' /\ Text' = Commands[p + 1] /\ cursor' = Len(Commands[p + 1])
    BY <1>1, <1>5, <1>7, <2>3, <2>4, ShownSound
  <2>6. Editor!Show(p)
    BY <1>1, <1>5, <1>6, <2>1, <2>5 DEF Editor!Show
  <2> QED BY <2>5, <2>6
<1> QED BY <1>8, <1>9

-----------------------------------------------------------------------------
(* The line and the history: a command is entered.                          *)

\* What savecmd makes of the file.
LEMMA FileGrows ==
    ASSUME NEW h \in Seq(Key \cup {NL}), NEW s \in Seq(Key)
    PROVE  LET g == h \o s \o <<NL>> IN
           /\ g \in Seq(Key \cup {NL}) /\ Len(g) = Len(h) + Len(s) + 1
           /\ \A k \in 1..Len(h) : g[k] = h[k]
           /\ \A k \in 1..Len(s) : g[Len(h) + k] = s[k]
           /\ g[Len(h) + Len(s) + 1] = NL
<1> DEFINE S == Key \cup {NL}
           u == h \o s
           v == <<NL>>
           g == u \o v
<1>1. h \in Seq(S) /\ s \in Seq(S) /\ v \in Seq(S) /\ Len(v) = 1 /\ v[1] = NL
      /\ Len(h) \in Nat /\ Len(s) \in Nat
  OBVIOUS
<1> HIDE DEF S, v
<1>2. /\ u \in Seq(S) /\ Len(u) = Len(h) + Len(s)
      /\ \A k \in 1..(Len(h) + Len(s)) : u[k] = IF k <= Len(h) THEN h[k] ELSE s[k - Len(h)]
  BY <1>1, Joined
<1> HIDE DEF u
<1>3. /\ g \in Seq(S) /\ Len(g) = Len(u) + Len(v)
      /\ \A k \in 1..(Len(u) + Len(v)) : g[k] = IF k <= Len(u) THEN u[k] ELSE v[k - Len(u)]
  <2>1. u \in Seq(S) /\ v \in Seq(S)
    BY <1>1, <1>2
  <2> QED BY <2>1, Joined
<1> HIDE DEF g
<1>4. \A k \in 1..Len(h) : g[k] = h[k]
  BY <1>1, <1>2, <1>3
<1>5. \A k \in 1..Len(s) : g[Len(h) + k] = s[k]
  <2> SUFFICES ASSUME NEW k \in 1..Len(s) PROVE g[Len(h) + k] = s[k]
    OBVIOUS
  <2>1. Len(h) + k \in 1..(Len(h) + Len(s)) /\ ~(Len(h) + k <= Len(h)) /\ (Len(h) + k) - Len(h) = k
    BY <1>1
  <2>2. g[Len(h) + k] = u[Len(h) + k]
    BY <1>1, <1>2, <1>3, <2>1
  <2> QED BY <1>2, <2>1, <2>2
<1>6. g[Len(h) + Len(s) + 1] = NL
  BY <1>1, <1>2, <1>3
<1>7. g \in Seq(Key \cup {NL}) /\ Len(g) = Len(h) + Len(s) + 1
  BY <1>1, <1>2, <1>3 DEF S
<1> QED BY <1>4, <1>5, <1>6, <1>7 DEF g, u, v

LEMMA Appended ==
    ASSUME NEW S, NEW s \in Seq(S), NEW x \in S
    PROVE  Append(s, x) = [k \in 1..(Len(s) + 1) |-> IF k <= Len(s) THEN s[k] ELSE x]
<1> DEFINE t == [k \in 1..(Len(s) + 1) |-> IF k <= Len(s) THEN s[k] ELSE x]
           u == Append(s, x)
<1>1. t \in Seq(S) /\ Len(t) = Len(s) + 1
      /\ \A k \in 1..(Len(s) + 1) : t[k] = IF k <= Len(s) THEN s[k] ELSE x
  <2>1. \A k \in 1..(Len(s) + 1) : (IF k <= Len(s) THEN s[k] ELSE x) \in S
    OBVIOUS
  <2>2. Len(s) + 1 \in Nat
    OBVIOUS
  <2> QED BY <2>1, <2>2
<1>2. u \in Seq(S) /\ Len(u) = Len(s) + 1
      /\ \A k \in 1..(Len(s) + 1) : u[k] = IF k <= Len(s) THEN s[k] ELSE x
  OBVIOUS
<1> HIDE DEF t, u
<1>3. u = t
  BY <1>1, <1>2, Alike
<1> QED BY <1>3 DEF t, u

LEMMA EnterSound ==
    ASSUME LineConstantsOK, LineInv, enter, "few" \in LineRules
    PROVE  LineInv' /\ Editor!Enter
<1> DEFINE H == Len(history)
           last == H + len + 1
           e(k) == IF k = 0 THEN 0 ELSE hisoffsets'[k - 1]
<1>1. /\ hislen < MaxCmds /\ hislen < MaxHis
      /\ history' = history \o Text \o <<NL>>
      /\ hisinit' = TRUE /\ hislen' = hislen + 1
      /\ hisoffsets' = [hisoffsets EXCEPT ![hislen] =
                          (IF hisinit THEN hisoffsets[hislen - 1] ELSE 0) + Len(Text) + 1]
      /\ buf' = [buf EXCEPT ![len] = NUL]
      /\ len' = 0 /\ cursor' = 0 /\ index' = hislen + 1 /\ curcmd' = <<>> /\ skipping' = FALSE
  BY DEF enter, savecmd, TypistKeeps
<1>2. /\ hislen \in Nat /\ len \in Nat /\ len <= N - 1 /\ N \in Nat /\ MaxHis \in Nat
      /\ MaxCmds \in Nat /\ NUL # Guard /\ NL \notin Key /\ len \in Cells /\ N > 1
  BY LineTypes, LineConstants DEF LineInv
<1>3. /\ LineTypeOK /\ buf[-1] = Guard /\ buf[N] = Guard
      /\ \A k \in 0..(N - 1) : buf[k] # Guard
  BY DEF LineInv, BufferSound
<1>4. Text \in Seq(Key) /\ Len(Text) = len
  BY TextIs
<1>5. history \in Seq(Key \cup {NL}) /\ H \in Nat
  BY <1>3 DEF LineTypeOK
<1>6. /\ history' \in Seq(Key \cup {NL}) /\ Len(history') = last
      /\ \A k \in 1..H : history'[k] = history[k]
      /\ \A k \in 1..len : history'[H + k] = Text[k]
      /\ history'[last] = NL
  BY <1>1, <1>4, <1>5, FileGrows
<1>7. /\ hisinit <=> hislen > 0
      /\ hisoffsets[MaxHis] = Guard /\ EndOf(hislen) = H
      /\ \A k \in 0..(MaxHis - 1) : hisoffsets[k] \in Nat
      /\ hislen = Cardinality(Newlines) /\ {hisoffsets[k] : k \in 0..(hislen - 1)} = Newlines
  BY DEF LineInv, OffsetsSound
<1>8. (IF hisinit THEN hisoffsets[hislen - 1] ELSE 0) + Len(Text) + 1 = last
  BY <1>2, <1>4, <1>7 DEF EndOf
<1>9. hisoffsets \in [0..MaxHis -> Nat \cup {Guard}]
  BY <1>3 DEF LineTypeOK
<1>10. /\ hisoffsets' \in [0..MaxHis -> Nat \cup {Guard}]
       /\ \A k \in 0..MaxHis : hisoffsets'[k] = IF k = hislen THEN last ELSE hisoffsets[k]
       /\ last \in Nat
  BY <1>1, <1>2, <1>5, <1>8, <1>9
<1>11. \A k \in 0..hislen : e(k) = EndOf(k)
  <2> SUFFICES ASSUME NEW k \in 0..hislen PROVE e(k) = EndOf(k)
    OBVIOUS
  <2>1. CASE k = 0
    BY <2>1 DEF EndOf
  <2>2. CASE k # 0
    <3>1. k - 1 \in 0..MaxHis /\ k - 1 # hislen
      BY <1>1, <1>2, <2>2
    <3> QED BY <1>10, <2>2, <3>1 DEF EndOf
  <2> QED BY <2>1, <2>2
<1>12. e(hislen + 1) = last
  BY <1>1, <1>2, <1>10
<1> HIDE DEF e, last, H
<1>13. last = H + len + 1
  BY DEF last
<1>14. ASSUME NEW k \in 1..(hislen + 1)
       PROVE  /\ e(k - 1) < e(k) /\ e(k) <= last /\ e(k) - e(k - 1) <= N
              /\ history'[e(k)] = NL
              /\ \A j \in e(k - 1) + 1 .. e(k) - 1 : history'[j] \in Key
  <2>1. CASE k <= hislen
    <3>1. k \in 1..hislen /\ k \in 0..hislen /\ k - 1 \in 0..hislen
      BY <1>2, <2>1
    <3>2. /\ EndOf(k - 1) \in Nat /\ EndOf(k) \in Nat /\ EndOf(k - 1) < EndOf(k)
          /\ EndOf(k) <= H /\ EndOf(k) - EndOf(k - 1) <= N
          /\ \A j \in EndOf(k - 1) + 1 .. EndOf(k) - 1 : history[j] \in Key
      BY <3>1, EndsIncrease DEF H
    <3>3. history[EndOf(k)] = NL
      BY <3>1 DEF LineInv, OffsetsSound
    <3>4. e(k) = EndOf(k) /\ e(k - 1) = EndOf(k - 1)
      BY <1>11, <3>1
    <3>5. EndOf(k) \in 1..H /\ \A j \in EndOf(k - 1) + 1 .. EndOf(k) - 1 : j \in 1..H
      BY <1>5, <3>2
    <3>6. EndOf(k) <= last
      BY <1>2, <1>5, <1>13, <3>2
    <3> QED BY <1>6, <3>2, <3>3, <3>4, <3>5, <3>6
  <2>2. CASE k > hislen
    <3>1. k = hislen + 1 /\ k - 1 = hislen /\ hislen \in 0..hislen
      BY <1>2, <2>2
    <3>2. e(k) = last /\ e(k - 1) = H
      BY <1>7, <1>11, <1>12, <3>1
    <3>3. \A j \in H + 1 .. last - 1 : history'[j] \in Key
      <4> SUFFICES ASSUME NEW j \in H + 1 .. last - 1 PROVE history'[j] \in Key
        OBVIOUS
      <4>1. j - H \in 1..len /\ H + (j - H) = j
        BY <1>2, <1>5, <1>13
      <4>2. Text[j - H] \in Key
        BY <1>4, <4>1
      <4> QED BY <1>6, <4>1, <4>2
    <3>4. H < last /\ last - H <= N /\ last \in Nat
      BY <1>2, <1>5, <1>13
    <3> QED BY <1>6, <3>2, <3>3, <3>4
  <2> QED BY <1>2, <2>1, <2>2
<1>15. /\ hislen + 1 = Cardinality(Newlines')
       /\ {hisoffsets'[k] : k \in 0..hislen} = Newlines'
  <2>1. Newlines' = Newlines \cup {last}
    <3>1. ASSUME NEW k \in 1..last
          PROVE  history'[k] = NL <=> (k \in Newlines \/ k = last)
      <4>1. CASE k <= H
        <5>1. k \in 1..H /\ k # last
          BY <1>2, <1>5, <1>13, <4>1
        <5> QED BY <1>6, <5>1 DEF Newlines, H
      <4>2. CASE k > H /\ k # last
        <5>1. k - H \in 1..len /\ H + (k - H) = k
          BY <1>2, <1>5, <1>13, <4>2
        <5>2. Text[k - H] \in Key
          BY <1>4, <5>1
        <5>3. history'[k] # NL
          BY <1>2, <1>6, <5>1, <5>2
        <5>4. k \notin Newlines
          BY <1>5, <4>2 DEF Newlines, H
        <5> QED BY <4>2, <5>3, <5>4
      <4>3. CASE k = last
        BY <1>6, <4>3
      <4> QED BY <1>2, <1>5, <1>13, <4>1, <4>2, <4>3
    <3>2. Newlines \subseteq 1..last /\ last \in 1..last
      <4>1. Newlines \subseteq 1..H
        BY DEF Newlines, H
      <4>2. 1..H \subseteq 1..last /\ last \in 1..last
        BY <1>2, <1>5, <1>13
      <4> QED BY <4>1, <4>2
    <3>3. Newlines' = {k \in 1..last : history'[k] = NL}
      BY <1>6 DEF Newlines
    <3> QED BY <3>1, <3>2, <3>3
  <2>2. IsFiniteSet(Newlines) /\ last \notin Newlines
    <3>1. Newlines \subseteq 1..H
      BY DEF Newlines, H
    <3>2. IsFiniteSet(1..H) /\ last \notin 1..H
      BY <1>2, <1>5, <1>13, FS_Interval
    <3> QED BY <3>1, <3>2, FS_Subset
  <2>3. Cardinality(Newlines') = Cardinality(Newlines) + 1
    BY <2>1, <2>2, FS_AddElement
  <2>4. {hisoffsets'[k] : k \in 0..hislen} = {hisoffsets[k] : k \in 0..(hislen - 1)} \cup {last}
    <3>1. hislen \in 0..MaxHis /\ hisoffsets'[hislen] = last
      BY <1>1, <1>2, <1>10
    <3>2. \A k \in 0..(hislen - 1) : hisoffsets'[k] = hisoffsets[k]
      <4> SUFFICES ASSUME NEW k \in 0..(hislen - 1) PROVE hisoffsets'[k] = hisoffsets[k]
        OBVIOUS
      <4>1. k \in 0..MaxHis /\ k # hislen
        BY <1>1, <1>2
      <4> QED BY <1>10, <4>1
    <3>3. 0..hislen = 0..(hislen - 1) \cup {hislen}
      BY <1>2
    <3> QED BY <3>1, <3>2, <3>3
  <2> QED BY <1>7, <2>1, <2>3, <2>4
<1>16. OffsetsSound'
  <2>1. e(hislen + 1) = Len(history')
    BY <1>6, <1>12
  <2>2. hislen + 1 > 0 /\ hislen + 1 <= MaxHis /\ (hislen + 1) - 1 = hislen /\ MaxHis \in 0..MaxHis
        /\ MaxHis # hislen
    BY <1>1, <1>2
  <2>3. hisoffsets'[MaxHis] = Guard
    BY <1>7, <1>10, <2>2
  <2>4. \A k \in 0..(MaxHis - 1) : hisoffsets'[k] \in Nat
    <3>1. \A k \in 0..(MaxHis - 1) : k \in 0..MaxHis
      BY <1>2
    <3> QED BY <1>7, <1>10, <3>1
  <2>5. \A k : e(k) = EndOf(k)'
    BY DEF e, EndOf
  <2>6. (EndOf(hislen) = Len(history))'
    BY <1>1, <2>1 DEF e, EndOf
  <2>7. \A k \in 1..hislen' :
          /\ EndOf(k - 1)' < EndOf(k)' /\ EndOf(k)' <= Len(history')
          /\ EndOf(k)' - EndOf(k - 1)' <= N
          /\ history'[EndOf(k)'] = NL
          /\ \A j \in EndOf(k - 1)' + 1 .. EndOf(k)' - 1 : history'[j] \in Key
    BY <1>1, <1>6, <1>14, <2>5
  <2>8. /\ hislen' = Cardinality(Newlines')
        /\ {hisoffsets'[k] : k \in 0..(hislen' - 1)} = Newlines'
    BY <1>1, <1>15, <2>2
  <2> QED BY <1>1, <2>2, <2>3, <2>4, <2>6, <2>7, <2>8 DEF OffsetsSound
<1>17. LineTypeOK'
  <2>1. buf' \in [Cells -> Key \cup {NUL, Guard}]
    BY <1>1, <1>2, <1>3 DEF LineTypeOK
  <2>2. 0 \in 0..(N - 1) /\ 0 \in 0..0 /\ hislen + 1 \in 0..MaxCmds
        /\ hislen + 1 \in 0..(hislen + 1) /\ <<>> \in Seq(Key) /\ Len(<<>>) < N
    BY <1>1, <1>2
  <2> QED BY <1>1, <1>6, <1>10, <2>1, <2>2 DEF LineTypeOK
<1>18. BufferSound'
  <2>1. \A k \in Cells : buf'[k] = IF k = len THEN NUL ELSE buf[k]
    BY <1>1, <1>3 DEF LineTypeOK
  <2>2. -1 \in Cells /\ N \in Cells /\ -1 # len /\ N # len /\ \A k \in 0..(N - 1) : k \in Cells
    BY <1>2 DEF Cells
  <2>3. \A k \in 0..(len' - 1) : FALSE
    BY <1>1
  <2> QED BY <1>2, <1>3, <2>1, <2>2, <2>3 DEF BufferSound
<1>19. LineInv'
  BY <1>16, <1>17, <1>18 DEF LineInv
<1>20. Text' = <<>>
  <2>1. <<>> \in Seq(Key) /\ Len(<<>>) = 0 /\ \A k \in 1..0 : FALSE
    OBVIOUS
  <2>2. Len(<<>>) = len' /\ \A k \in 1..len' : buf'[k - 1] = <<>>[k]
    BY <1>1, <2>1
  <2> QED BY <1>19, <2>1, <2>2, SameText
<1>21. Commands' = Append(Commands, Text)
  <2> DEFINE cut(k) == SubSeq(history', e(k - 1) + 1, e(k) - 1)
  <2>1. Commands' = [k \in 1..(hislen + 1) |-> cut(k)]
    <3>1. \A k \in 1..(hislen + 1) : (k - 1 = 0 <=> k = 1) /\ (k - 1) - 1 = k - 2 /\ k # 0
      BY <1>2
    <3> DEFINE start(k) == IF k = 1 THEN 0 ELSE hisoffsets'[k - 2]
               c(k) == SubSeq(history', start(k) + 1, hisoffsets'[k - 1] - 1)
    <3>2. Commands' = [k \in 1..(hislen + 1) |-> c(k)]
      BY <1>1 DEF Commands
    <3>3. \A k \in 1..(hislen + 1) : c(k) = cut(k)
      BY <3>1 DEF e
    <3> HIDE DEF c, cut
    <3> QED BY <3>2, <3>3
  <2>2. /\ Commands \in Seq(Seq(Key)) /\ Len(Commands) = hislen
        /\ \A k \in 1..hislen : Commands[k] = SubSeq(history, EndOf(k - 1) + 1, EndOf(k) - 1)
    BY CommandsAre
  <2>3. ASSUME NEW k \in 1..hislen PROVE cut(k) = Commands[k]
    <3> DEFINE a == EndOf(k - 1) + 1
               b == EndOf(k) - 1
    <3>1. k \in 0..hislen /\ k - 1 \in 0..hislen
      BY <1>2
    <3>2. cut(k) = SubSeq(history', a, b)
      BY <1>11, <3>1
    <3>3. a \in Nat /\ b \in Int /\ 1 <= a /\ b <= H /\ a <= b + 1 /\ b <= last
      <4> DEFINE x == EndOf(k - 1)
                 y == EndOf(k)
      <4>1. x \in Nat /\ y \in Nat /\ x < y /\ y <= H
        BY EndsIncrease DEF H
      <4>2. a = x + 1 /\ b = y - 1
        OBVIOUS
      <4> HIDE DEF x, y, a, b
      <4> QED BY <1>2, <1>5, <1>13, <4>1, <4>2
    <3> HIDE DEF a, b
    <3>4. /\ SubSeq(history, a, b) \in Seq(Key \cup {NL})
          /\ Len(SubSeq(history, a, b)) = b - a + 1
          /\ \A j \in 1..(b - a + 1) : SubSeq(history, a, b)[j] = history[a + j - 1]
      BY <1>5, <3>3, Sliced DEF H
    <3>5. /\ SubSeq(history', a, b) \in Seq(Key \cup {NL})
          /\ Len(SubSeq(history', a, b)) = b - a + 1
          /\ \A j \in 1..(b - a + 1) : SubSeq(history', a, b)[j] = history'[a + j - 1]
      BY <1>6, <3>3, Sliced
    <3>6. \A j \in 1..(b - a + 1) : a + j - 1 \in 1..H
      BY <1>5, <3>3
    <3>7. SubSeq(history', a, b) = SubSeq(history, a, b)
      <4>1. \A j \in 1..(b - a + 1) : SubSeq(history', a, b)[j] = SubSeq(history, a, b)[j]
        BY <1>6, <3>4, <3>5, <3>6
      <4> DEFINE s == SubSeq(history', a, b)
                 u == SubSeq(history, a, b)
      <4>2. /\ s \in Seq(Key \cup {NL}) /\ u \in Seq(Key \cup {NL}) /\ Len(s) = Len(u)
            /\ \A j \in 1..Len(s) : s[j] = u[j]
        BY <3>4, <3>5, <4>1
      <4> HIDE DEF s, u
      <4>3. s = u
        BY <4>2, Alike
      <4> QED BY <4>3 DEF s, u
    <3> QED BY <2>2, <3>2, <3>7 DEF a, b
  <2>4. cut(hislen + 1) = Text
    <3> DEFINE t == SubSeq(history', H + 1, last - 1)
    <3>1. hislen \in 0..hislen /\ (hislen + 1) - 1 = hislen
      BY <1>2
    <3>2. cut(hislen + 1) = t
      BY <1>7, <1>11, <1>12, <3>1
    <3>3. H + 1 \in Nat /\ last - 1 \in Nat /\ 1 <= H + 1 /\ last - 1 <= last
          /\ H + 1 <= (last - 1) + 1 /\ (last - 1) - (H + 1) + 1 = len
          /\ \A j \in 1..len : (H + 1) + j - 1 = H + j
      BY <1>2, <1>5, <1>13
    <3>4. /\ t \in Seq(Key \cup {NL}) /\ Len(t) = (last - 1) - (H + 1) + 1
          /\ \A j \in 1..((last - 1) - (H + 1) + 1) : t[j] = history'[(H + 1) + j - 1]
      BY <1>6, <3>3, Sliced
    <3>5. Len(t) = len /\ \A j \in 1..len : t[j] = Text[j]
      BY <1>6, <3>3, <3>4
    <3>6. Text \in Seq(Key \cup {NL})
      BY <1>4
    <3> HIDE DEF t
    <3>7. t = Text
      BY <1>4, <3>4, <3>5, <3>6, Alike
    <3> QED BY <3>2, <3>7
  <2> HIDE DEF cut
  <2>5. Commands' = [k \in 1..(hislen + 1) |-> IF k <= hislen THEN Commands[k] ELSE Text]
    <3>1. \A k \in 1..(hislen + 1) : cut(k) = IF k <= hislen THEN Commands[k] ELSE Text
      BY <1>2, <2>3, <2>4
    <3> QED BY <2>1, <3>1
  <2>6. Append(Commands, Text) =
          [k \in 1..(hislen + 1) |-> IF k <= hislen THEN Commands[k] ELSE Text]
    <3>1. Text \in Seq(Key)
      BY <1>4
    <3> QED BY <2>2, <3>1, Appended
  <2> QED BY <2>5, <2>6
<1>22. Len(Commands) = hislen
  BY CommandsAre
<1> QED BY <1>1, <1>19, <1>20, <1>21, <1>22 DEF Editor!Enter

-----------------------------------------------------------------------------
(* The line and the history: the theorems.                                  *)

LEMMA LineStart ==
    ASSUME LineConstantsOK, LineInit, Older = FALSE
    PROVE  LineInv /\ Editor!Init
<1>1. /\ buf = [k \in Cells |-> IF k \in {-1, N} THEN Guard ELSE NUL]
      /\ len = 0 /\ cursor = 0 /\ index = 0 /\ curcmd = <<>> /\ skipping = FALSE
      /\ history = <<>> /\ hisinit = FALSE /\ hislen = 0
      /\ hisoffsets = [k \in 0..MaxHis |-> IF k = MaxHis THEN Guard ELSE 0]
  BY DEF LineInit
<1>2. /\ N \in Nat /\ N > 1 /\ MaxHis \in Nat /\ MaxHis > 0 /\ MaxCmds \in Nat /\ NUL # Guard
      /\ \A k \in 0..N : k \in Cells
  BY LineConstants
<1>3. LineTypeOK
  <2>1. buf \in [Cells -> Key \cup {NUL, Guard}]
    BY <1>1
  <2>2. hisoffsets \in [0..MaxHis -> Nat \cup {Guard}]
    BY <1>1
  <2>3. 0 \in 0..(N - 1) /\ 0 \in 0..0 /\ 0 \in 0..MaxCmds /\ Len(<<>>) < N
    BY <1>2
  <2>4. <<>> \in Seq(Key) /\ <<>> \in Seq(Key \cup {NL})
    OBVIOUS
  <2> QED BY <1>1, <2>1, <2>2, <2>3, <2>4 DEF LineTypeOK
<1>4. BufferSound
  <2>1. -1 \in Cells /\ N \in Cells
    BY <1>2 DEF Cells
  <2>2. \A k \in 0..(N - 1) : k \in Cells /\ k # -1 /\ k # N
    BY <1>2
  <2>3. \A k \in 0..(len - 1) : FALSE
    BY <1>1
  <2> QED BY <1>1, <1>2, <2>1, <2>2, <2>3 DEF BufferSound
<1>5. OffsetsSound
  <2>1. Newlines = {} /\ {hisoffsets[k] : k \in 0..(hislen - 1)} = {}
    BY <1>1 DEF Newlines
  <2>2. Cardinality(Newlines) = 0
    BY <2>1, FS_EmptySet
  <2>3. /\ hisoffsets[MaxHis] = Guard /\ \A k \in 0..(MaxHis - 1) : hisoffsets[k] \in Nat
    BY <1>1, <1>2
  <2>4. EndOf(hislen) = Len(history)
    BY <1>1 DEF EndOf
  <2>5. \A k \in 1..hislen : FALSE
    BY <1>1
  <2>6. hisinit <=> hislen > 0
    BY <1>1
  <2> QED BY <1>1, <1>2, <2>1, <2>2, <2>3, <2>4, <2>5, <2>6 DEF OffsetsSound
<1>6. LineInv
  BY <1>3, <1>4, <1>5 DEF LineInv
<1>7. Text = <<>> /\ Commands = <<>>
  <2>1. Text \in Seq(Key) /\ Len(Text) = 0
    BY <1>1, <1>6, TextIs
  <2>2. Commands \in Seq(Seq(Key)) /\ Len(Commands) = 0
    BY <1>1, <1>6, CommandsAre
  <2> QED BY <2>1, <2>2
<1> QED BY <1>1, <1>6, <1>7 DEF Editor!Init

LEMMA LineStutters ==
    ASSUME LineInv, UNCHANGED lineVars
    PROVE  LineInv' /\ UNCHANGED Editor!vars
<1>1. UNCHANGED <<buf, len, cursor, index, curcmd, skipping, history, hisinit, hislen, hisoffsets>>
  BY DEF lineVars
<1>2. OffsetsSound' /\ Commands' = Commands
  BY <1>1, SameHistory
<1>3. LineTypeOK' /\ BufferSound'
  BY <1>1 DEF LineInv, LineTypeOK, BufferSound
<1>4. Text' = Text
  BY <1>1 DEF Text
<1> QED BY <1>1, <1>2, <1>3, <1>4 DEF LineInv, Editor!vars

LEMMA LineSteps ==
    ASSUME LineConstantsOK, LineInv, LineNext,
           "room" \in LineRules, "some" \in LineRules, "few" \in LineRules
    PROVE  LineInv' /\ Editor!Next
<1>1. CASE \E c \in Key : insert(c)
  BY <1>1, InsertSound DEF Editor!Next
<1>2. CASE backspace
  BY <1>2, BackspaceSound DEF Editor!Next
<1>3. CASE left_right
  BY <1>3, MoveSound DEF Editor!Next
<1>4. CASE up
  BY <1>4, UpSound DEF Editor!Next
<1>5. CASE down
  BY <1>5, DownSound DEF Editor!Next
<1>6. CASE enter
  BY <1>6, EnterSound DEF Editor!Next
<1> QED BY <1>1, <1>2, <1>3, <1>4, <1>5, <1>6 DEF LineNext

LEMMA LineInvKept ==
    ASSUME LineInv
    PROVE  LineKept
<1>1. InBounds
  BY DEF LineInv, BufferSound, OffsetsSound, InBounds
<1>2. HistoryTold
  BY DEF LineInv, OffsetsSound, HistoryTold, Newlines
<1> QED BY <1>1, <1>2 DEF LineInv, LineKept

\* readline, savecmd and gethis (user/sh.c): no key makes the shell store outside buf
\* or hisoffsets, for any sizes of the two, and hisoffsets are where the lines of
\* /.history end.  It is assumed that nothing is inserted into a full line, that the
\* up key is used when there is a command, that no more commands are entered than
\* hisoffsets has room for, and that /.history is empty when the shell starts.
THEOREM LineIsKept ==
    ASSUME "room" \in LineRules, "some" \in LineRules, "few" \in LineRules, Older = FALSE
    PROVE  LineSpec => []LineKept
<1> USE LineConstantsAssumption
<1>1. LineInit => LineInv
  BY LineStart
<1>2. LineInv /\ [LineNext]_lineVars => LineInv'
  BY LineSteps, LineStutters
<1>3. LineInv => LineKept
  BY LineInvKept
<1> QED BY <1>1, <1>2, <1>3, PTL DEF LineSpec

\* The shell's buffer with a length, a cursor and a history file (readline, savecmd,
\* gethis in user/sh.c) implements EditLine, a line with a cursor and a list of
\* commands: no key loses, changes or invents a character, and the up and down keys
\* show the commands that were entered, under the same assumptions.
THEOREM EditorImplemented ==
    ASSUME "room" \in LineRules, "some" \in LineRules, "few" \in LineRules, Older = FALSE
    PROVE  LineSpec => ImplementsEditor
<1> USE LineConstantsAssumption
<1>1. LineInit => LineInv /\ Editor!Init
  BY LineStart
<1>2. LineInv /\ [LineNext]_lineVars => LineInv'
  BY LineSteps, LineStutters
<1>3. LineInv /\ [LineNext]_lineVars => [Editor!Next]_(Editor!vars)
  BY LineSteps, LineStutters
<1> QED BY <1>1, <1>2, <1>3, PTL DEF LineSpec, ImplementsEditor, Editor!Spec

=============================================================================
