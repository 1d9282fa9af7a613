------------------------------ MODULE PipeRefs ------------------------------
(***************************************************************************)
(* How user code finds out that the other end of a pipe is gone             *)
(* (user/lib/pipe.c, fd.c, pageref.c, and the page sharing of fork.c).      *)
(*                                                                         *)
(* Nobody counts readers and writers of a pipe.  Each end is an Fd page, the *)
(* buffer is a third page mapped once beside every Fd page, and             *)
(* _pipe_is_closed compares the reference counts of the last two: equal     *)
(* counts mean that every mapping of the buffer belongs to the caller's own *)
(* end.  Mappings change one system call at a time, and the timer may       *)
(* switch environments between any two, so the order of those calls decides *)
(* whether the comparison can be trusted.                                   *)
(*                                                                         *)
(* The model is one pipe.  One step is one system call or one read of       *)
(* memory that other environments change.  env_runs is only ever compared   *)
(* with an earlier value of itself, so the model keeps whether it changed.  *)
(***************************************************************************)
EXTENDS Integers, FiniteSets

CONSTANTS Env,             \* environments that may come to hold the pipe
          NFd,             \* size of a descriptor table (MAXFD)
          NONE,            \* nothing mapped, or no environment
          SharedFork       \* whether an end may be passed on by fork or spawn
                           \* while another environment holds it

Fd == 0..(NFd - 1)
Ends == {"reader", "writer"}
Other(end) == IF end = "reader" THEN "writer" ELSE "reader"

ASSUME EnvAssumption == IsFiniteSet(Env) /\ NONE \notin Env
ASSUME FdAssumption == NFd \in Nat /\ NFd >= 2
ASSUME NoneAssumption == NONE \notin Ends
ASSUME ForkAssumption == SharedFork \in BOOLEAN

VARIABLES fdpage,    \* fdpage[e][f]: the end whose Fd page is mapped as f, or NONE
          buffer,    \* buffer[e][f]: the pipe's buffer is mapped at fd2data(f)
          status,    \* "free", "building" (a child fork is filling) or "alive"
          pc,        \* where the environment is in the library, "user" outside
          loc,       \* local variables of the library call in progress
          ran,       \* FALSE only while a value of env_runs that _pipe_is_closed
                     \* has read is still the current one
          curenv     \* the running environment

vars == <<fdpage, buffer, status, pc, loc, ran, curenv>>

PCs == {"user", "close_data", "dup_close_data", "dup_data", "dup_fd", "fork",
        "runs", "fd_ref", "pipe_ref", "again"}

Locals == [fd : Fd, newfd : Fd, child : Env \cup {NONE}, next : 0..(2 * NFd),
           fd_ref : Nat, pipe_ref : Nat]
NoLocals == [fd |-> 0, newfd |-> 0, child |-> NONE, next |-> 0,
             fd_ref |-> 0, pipe_ref |-> 0]

TypeOK ==
    /\ fdpage \in [Env -> [Fd -> Ends \cup {NONE}]]
    /\ buffer \in [Env -> [Fd -> BOOLEAN]]
    /\ status \in [Env -> {"free", "building", "alive"}]
    /\ pc \in [Env -> PCs]
    /\ loc \in [Env -> Locals]
    /\ ran \in [Env -> BOOLEAN]
    /\ curenv \in Env \cup {NONE}

\* One environment has called pipe(): descriptor 0 reads, descriptor 1 writes.
Init ==
    \E creator \in Env :
        /\ fdpage = [e \in Env |-> [f \in Fd |->
              IF e = creator /\ f = 0 THEN "reader"
              ELSE IF e = creator /\ f = 1 THEN "writer" ELSE NONE]]
        /\ buffer = [e \in Env |-> [f \in Fd |-> e = creator /\ f \in {0, 1}]]
        /\ status = [e \in Env |-> IF e = creator THEN "alive" ELSE "free"]
        /\ pc = [e \in Env |-> "user"]
        /\ loc = [e \in Env |-> NoLocals]
        /\ ran = [e \in Env |-> TRUE]
        /\ curenv = creator

-----------------------------------------------------------------------------
(* pageref: what pp_ref says of an Fd page and of the buffer.              *)

Slots == Env \X Fd
FdSlots(end) == {x \in Slots : fdpage[x[1]][x[2]] = end}
BufferSlots == {x \in Slots : buffer[x[1]][x[2]]}

pageref_fd(end) == Cardinality(FdSlots(end))
pageref_pipe == Cardinality(BufferSlots)

\* Environment e holds an end.
Holds(e, end) == \E f \in Fd : fdpage[e][f] = end

Goto(e, label) == pc' = [pc EXCEPT ![e] = label]
Return(e) == Goto(e, "user") /\ loc' = [loc EXCEPT ![e] = NoLocals]

\* e runs and is at this point of the library.
At(e, label) == curenv = e /\ pc[e] = label

-----------------------------------------------------------------------------
\* Faulty variant: env_runs is not incremented.
env_run_uncounted(e) ==
    /\ status[e] = "alive"
    /\ curenv' = e
    /\ UNCHANGED <<fdpage, buffer, status, pc, loc, ran>>

\* env_run: a switch to e, or back to it after a tick, increments its env_runs.
env_run(e) ==
    /\ status[e] = "alive"
    /\ curenv' = e
    /\ ran' = [ran EXCEPT ![e] = TRUE]
    /\ UNCHANGED <<fdpage, buffer, status, pc, loc>>

\* close, first the Fd page and then the buffer (pipe_close); fd_close unmaps the
\* Fd page once more, to no effect.
close(e, f) ==
    /\ At(e, "user") /\ fdpage[e][f] # NONE
    /\ fdpage' = [fdpage EXCEPT ![e][f] = NONE]
    /\ Goto(e, "close_data")
    /\ loc' = [loc EXCEPT ![e].fd = f]
    /\ UNCHANGED <<buffer, status, ran, curenv>>

close_data(e) ==
    /\ At(e, "close_data")
    /\ buffer' = [buffer EXCEPT ![e][loc[e].fd] = FALSE]
    /\ Return(e)
    /\ UNCHANGED <<fdpage, status, ran, curenv>>

\* Faulty variant: dup maps the Fd page before the buffer.
dup_fd_first(e, f, g) ==
    /\ At(e, "user") /\ fdpage[e][f] # NONE /\ f # g
    /\ loc' = [loc EXCEPT ![e].fd = f, ![e].newfd = g]
    /\ fdpage' = [fdpage EXCEPT ![e][g] = fdpage[e][f]]
    /\ Goto(e, "dup_data")
    /\ UNCHANGED <<buffer, status, ran, curenv>>

\* dup closes newfd if it is open, then maps the buffer, then the Fd page.
dup(e, f, g) ==
    /\ At(e, "user") /\ fdpage[e][f] # NONE /\ f # g
    /\ loc' = [loc EXCEPT ![e].fd = f, ![e].newfd = g]
    /\ fdpage' = [fdpage EXCEPT ![e][g] = NONE]
    /\ Goto(e, IF fdpage[e][g] # NONE THEN "dup_close_data" ELSE "dup_data")
    /\ UNCHANGED <<buffer, status, ran, curenv>>

dup_close_data(e) ==
    /\ At(e, "dup_close_data")
    /\ buffer' = [buffer EXCEPT ![e][loc[e].newfd] = FALSE]
    /\ Goto(e, "dup_data")
    /\ UNCHANGED <<fdpage, status, loc, ran, curenv>>

dup_data(e) ==
    /\ At(e, "dup_data")
    /\ buffer' = [buffer EXCEPT ![e][loc[e].newfd] = buffer[e][loc[e].fd]]
    /\ Goto(e, "dup_fd")
    /\ UNCHANGED <<fdpage, status, loc, ran, curenv>>

dup_fd(e) ==
    /\ At(e, "dup_fd")
    /\ fdpage' = [fdpage EXCEPT ![e][loc[e].newfd] = fdpage[e][loc[e].fd]]
    /\ Return(e)
    /\ UNCHANGED <<buffer, status, ran, curenv>>

\* fork: syscall_exofork makes the child.
fork(e, child) ==
    /\ At(e, "user") /\ status[child] = "free"
    /\ \/ SharedFork
       \/ \A x \in Env \ {e}, end \in Ends : ~(Holds(x, end) /\ Holds(e, end))
    /\ status' = [status EXCEPT ![child] = "building"]
    /\ loc' = [loc EXCEPT ![e].child = child]
    /\ Goto(e, "fork")
    /\ UNCHANGED <<fdpage, buffer, ran, curenv>>

\* duppage, or the PTE_LIBRARY loop of spawn: one page a call in the order of
\* their addresses, so the Fd pages (FDTABLE) come before the buffers (FILEBASE).
fork_duppage(e) ==
    LET child == loc[e].child
        n == loc[e].next
    IN  /\ At(e, "fork") /\ n < 2 * NFd
        /\ loc' = [loc EXCEPT ![e].next = n + 1]
        /\ IF n < NFd
           THEN /\ fdpage' = [fdpage EXCEPT ![child][n] = fdpage[e][n]]
                /\ UNCHANGED buffer
           ELSE /\ buffer' = [buffer EXCEPT ![child][n - NFd] = buffer[e][n - NFd]]
                /\ UNCHANGED fdpage
        /\ UNCHANGED <<status, pc, ran, curenv>>

\* syscall_set_env_status(child, ENV_RUNNABLE).
fork_done(e) ==
    /\ At(e, "fork") /\ loc[e].next = 2 * NFd
    /\ status' = [status EXCEPT ![loc[e].child] = "alive"]
    /\ Return(e)
    /\ UNCHANGED <<fdpage, buffer, ran, curenv>>

\* syscall_env_destroy(0): env_free unmaps everything in one system call.
exit(e) ==
    /\ At(e, "user")
    /\ fdpage' = [fdpage EXCEPT ![e] = [f \in Fd |-> NONE]]
    /\ buffer' = [buffer EXCEPT ![e] = [f \in Fd |-> FALSE]]
    /\ status' = [status EXCEPT ![e] = "free"]
    /\ curenv' = NONE
    /\ UNCHANGED <<pc, loc, ran>>

\* _pipe_is_closed(fd): from pipe_read, pipe_write or pipe_is_closed.
pipe_is_closed(e, f) ==
    /\ At(e, "user") /\ fdpage[e][f] # NONE
    /\ loc' = [loc EXCEPT ![e].fd = f]
    /\ Goto(e, "runs")
    /\ UNCHANGED <<fdpage, buffer, status, ran, curenv>>

read_runs(e) ==
    /\ At(e, "runs")
    /\ ran' = [ran EXCEPT ![e] = FALSE]
    /\ Goto(e, "fd_ref")
    /\ UNCHANGED <<fdpage, buffer, status, loc, curenv>>

read_fd_ref(e) ==
    /\ At(e, "fd_ref")
    /\ loc' = [loc EXCEPT ![e].fd_ref = pageref_fd(fdpage[e][loc[e].fd])]
    /\ Goto(e, "pipe_ref")
    /\ UNCHANGED <<fdpage, buffer, status, ran, curenv>>

read_pipe_ref(e) ==
    /\ At(e, "pipe_ref")
    /\ loc' = [loc EXCEPT ![e].pipe_ref = pageref_pipe]
    /\ Goto(e, "again")
    /\ UNCHANGED <<fdpage, buffer, status, ran, curenv>>

\* The while condition: once more if env_runs has changed.
retry(e) ==
    /\ At(e, "again") /\ ran[e]
    /\ Goto(e, "runs")
    /\ loc' = [loc EXCEPT ![e].fd_ref = 0, ![e].pipe_ref = 0]
    /\ UNCHANGED <<fdpage, buffer, status, ran, curenv>>

\* The result is about to be returned.
Answering(e) == At(e, "again") /\ ~ran[e]
AnswersClosed(e) == loc[e].fd_ref = loc[e].pipe_ref

answer(e) ==
    /\ Answering(e)
    /\ Return(e)
    /\ ran' = [ran EXCEPT ![e] = TRUE]
    /\ UNCHANGED <<fdpage, buffer, status, curenv>>

LibraryStep(e) ==
    \/ \E f \in Fd : close(e, f) \/ pipe_is_closed(e, f)
    \/ \E f, g \in Fd : dup(e, f, g)
    \/ \E child \in Env : fork(e, child)
    \/ close_data(e) \/ dup_close_data(e) \/ dup_data(e) \/ dup_fd(e)
    \/ fork_duppage(e) \/ fork_done(e) \/ exit(e)
    \/ read_runs(e) \/ read_fd_ref(e) \/ read_pipe_ref(e) \/ retry(e) \/ answer(e)

Next == \E e \in Env : env_run(e) \/ LibraryStep(e)

Spec == Init /\ [][Next]_vars

-----------------------------------------------------------------------------
(* Properties.                                                             *)

EndOpen(end) == \E e \in Env : Holds(e, end)

\* pipe.c:87: the answer "closed" is right.  When _pipe_is_closed is about to
\* return 1, no environment holds the other end, in whatever state its peers'
\* closes, dups and forks are interrupted.
NoFalseClose ==
    \A e \in Env : Answering(e) /\ AnswersClosed(e) =>
        ~EndOpen(Other(fdpage[e][loc[e].fd]))

\* The answer "open" is right too, unless somebody is interrupted between the
\* system calls of a close or a dup: readers of a dead pipe do not wait forever.
NoMissedClose ==
    \A e \in Env :
        /\ Answering(e) /\ ~AnswersClosed(e)
        /\ \A x \in Env : pc[x] \notin {"close_data", "dup_close_data", "dup_fd"}
        => EndOpen(Other(fdpage[e][loc[e].fd]))

\* The two reference counts an answer rests on are a snapshot of one moment: the
\* retry on env_runs excludes any change between the two reads.
AnswerIsSnapshot ==
    \A e \in Env : Answering(e) =>
        /\ loc[e].fd_ref = pageref_fd(fdpage[e][loc[e].fd])
        /\ loc[e].pipe_ref = pageref_pipe

\* _pipe_is_closed is right both ways: it says "closed" only if the other end is,
\* and says it if the other end is.
AnswerRight == TypeOK /\ NoFalseClose /\ NoMissedClose

=============================================================================
