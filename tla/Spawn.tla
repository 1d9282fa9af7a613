------------------------------- MODULE Spawn --------------------------------
(***************************************************************************)
(* spawn (user/lib/spawn.c): a child is made, its stack and its segments    *)
(* are built through a window at UTEMP, the library pages are shared with   *)
(* it, and only then it may run.  Every system call and every request to    *)
(* the file server may fail, at every place of the loops.  One step is one  *)
(* such call; children that run exit at any time and their slots are used   *)
(* again.                                                                   *)
(***************************************************************************)
EXTENDS Naturals

CONSTANTS Slot,        \* environments that may be children
          NSegs,       \* program headers
          NLibs,       \* pages of the caller that are mapped PTE_LIBRARY
          MaxFd,       \* file descriptors the caller has free
          ShortFiles,  \* whether files shorter than an ELF header are spawned
          NONE,
          BadId        \* the result of an exofork that failed, as an envid

ConstantsOK ==
    /\ NSegs \in Nat /\ NLibs \in Nat /\ MaxFd \in Nat /\ ShortFiles \in BOOLEAN
    /\ NONE \notin Slot /\ BadId \notin Slot /\ NONE # BadId

ASSUME ConstantsAssumption == ConstantsOK

VARIABLES pc,       \* where the caller is, "user" outside spawn
          fds,      \* descriptors the caller has come to use
          lost,     \* history: those left by an open that returned an error
          utemp,    \* a page is mapped at UTEMP
          child, k, \* spawn's child and the index of its loops
          r,        \* its result: "child", "error", or "count", a number of bytes
          status,   \* of the slots: "free", "building", "runnable"
          given,    \* what each has been given of what it needs to run
          made      \* whether this call made a child runnable

vars == <<pc, fds, lost, utemp, child, k, r, status, given, made>>

\* All that main() of the child relies on.
Complete == {<<"stack", 1>>, <<"trapframe", 1>>} \cup ({"segment"} \X (1..NSegs))
            \cup ({"library"} \X (1..NLibs))

TypeOK ==
    /\ pc \in {"user", "header", "exofork", "stack", "stack_map", "segment",
               "seg_page", "seg_copy", "close", "trapframe", "share", "run",
               "err", "err1", "err2"}
    /\ fds \in 0..MaxFd /\ lost \in 0..MaxFd /\ utemp \in BOOLEAN /\ made \in BOOLEAN
    /\ child \in Slot \cup {NONE, BadId}
    /\ k \in 1..(NSegs + NLibs + 1)
    /\ r \in {"none", "child", "error", "count"}
    /\ status \in [Slot -> {"free", "building", "runnable"}]
    /\ given \in [Slot -> SUBSET Complete]

Init ==
    /\ pc = "user" /\ r = "none" /\ child = NONE /\ k = 1
    /\ fds = 0 /\ lost = 0 /\ utemp = FALSE /\ made = FALSE
    /\ status = [s \in Slot |-> "free"]
    /\ given = [s \in Slot |-> {}]

-----------------------------------------------------------------------------

\* The step of spawn at label `from` succeeds and goes on at label `to`.
Step(from, to) == pc = from /\ pc' = to

\* The step fails: r is set and control goes to one of the error labels.
Fail(from, to) ==
    /\ pc = from /\ pc' = to /\ r' = "error"
    /\ UNCHANGED <<fds, lost, utemp, child, k, status, given, made>>

\* A system call about this child is accepted by envid2env.
Accepted == child \in Slot

Give(x) == given' = [given EXCEPT ![child] = @ \cup {x}]

\* Step 1: open prog, or else /prog.b.  An open that fails after fsipc_open, in
\* fsipc_map, returns its error with the page of its descriptor mapped (file.c:59).
open ==
    /\ pc = "user"
    /\ child' = NONE /\ k' = 1 /\ made' = FALSE
    /\ \E left \in 0..2 :
          /\ lost' = lost + left
          /\ \/ pc' = "header" /\ left < 2 /\ fds' = fds + left + 1 /\ r' = "none"
             \/ pc' = "user" /\ fds' = fds + left /\ r' = "error"
    /\ fds' <= MaxFd
    /\ UNCHANGED <<utemp, status, given>>

\* Step 2: readn of the header, and elf_from.
read_header ==
    \/ /\ Step("header", "exofork")
       /\ UNCHANGED <<fds, lost, utemp, child, k, r, status, given, made>>
    \/ Fail("header", "err")
    \/ /\ ShortFiles
       /\ Step("header", "err") /\ r' = "count"
       /\ UNCHANGED <<fds, lost, utemp, child, k, status, given, made>>

\* Faulty variant: the first slot is taken, free or not.
exofork_any ==
    /\ Step("exofork", "stack")
    /\ \E s \in Slot :
           /\ child' = s
           /\ status' = [status EXCEPT ![s] = "building"]
           /\ given' = [given EXCEPT ![s] = {}]
    /\ UNCHANGED <<fds, lost, utemp, k, r, made>>

\* Step 3: the result is unsigned, so that it is never below 0.
exofork ==
    /\ Step("exofork", "stack")
    /\ \/ \E s \in Slot :
           /\ status[s] = "free"
           /\ child' = s
           /\ status' = [status EXCEPT ![s] = "building"]
           /\ given' = [given EXCEPT ![s] = {}]
       \/ child' = BadId /\ UNCHANGED <<status, given>>
    /\ UNCHANGED <<fds, lost, utemp, k, r, made>>

\* Step 4: init_stack fails if the arguments do not fit or UTEMP gets no page.
init_stack ==
    \/ /\ Step("stack", "stack_map") /\ utemp' = TRUE
       /\ UNCHANGED <<fds, lost, child, k, r, status, given, made>>
    \/ Fail("stack", "err1")

\* The page at UTEMP becomes the child's stack; UTEMP is unmapped in any case.
init_stack_map ==
    /\ \/ Step("stack_map", "segment") /\ Accepted /\ Give(<<"stack", 1>>) /\ UNCHANGED r
       \/ Step("stack_map", "err1") /\ r' = "error" /\ UNCHANGED given
    /\ utemp' = FALSE
    /\ UNCHANGED <<fds, lost, child, k, status, made>>

\* Step 5: seek, readn and read_map of a program header; a segment that is not
\* loadable is passed over.
read_segment ==
    \/ /\ k <= NSegs /\ Step("segment", "seg_page")
       /\ UNCHANGED <<fds, lost, utemp, child, k, r, status, given, made>>
    \/ /\ k <= NSegs /\ Step("segment", "segment")
       /\ k' = k + 1 /\ Give(<<"segment", k>>)
       /\ UNCHANGED <<fds, lost, utemp, child, r, status, made>>
    \/ k <= NSegs /\ Fail("segment", "err1")
    \/ /\ k > NSegs /\ Step("segment", "close")
       /\ UNCHANGED <<fds, lost, utemp, child, k, r, status, given, made>>

\* spawn_mapper: a page for the child, mapped at UTEMP too.
spawn_mapper ==
    \/ /\ Step("seg_page", "seg_copy") /\ utemp' = TRUE
       /\ UNCHANGED <<fds, lost, child, k, r, status, given, made>>
    \/ Fail("seg_page", "err1")

\* The copy, and the end of the window; then another page or another segment.
spawn_mapper_copy ==
    /\ utemp' = FALSE
    /\ \/ Step("seg_copy", "seg_page") /\ UNCHANGED <<k, given>>
       \/ Step("seg_copy", "segment") /\ k' = k + 1 /\ Give(<<"segment", k>>)
    /\ UNCHANGED <<fds, lost, child, r, status, made>>

close_fd ==
    /\ Step("close", "trapframe")
    /\ fds' = fds - 1 /\ k' = 1
    /\ UNCHANGED <<lost, utemp, child, r, status, given, made>>

set_trapframe ==
    \/ /\ Step("trapframe", "share") /\ Give(<<"trapframe", 1>>)
       /\ UNCHANGED <<fds, lost, utemp, child, k, r, status, made>>
    \/ Fail("trapframe", "err2")

\* The loop over the PTE_LIBRARY pages.
share ==
    \/ /\ k <= NLibs /\ Step("share", "share")
       /\ k' = k + 1 /\ Give(<<"library", k>>)
       /\ UNCHANGED <<fds, lost, utemp, child, r, status, made>>
    \/ k <= NLibs /\ Fail("share", "err2")
    \/ /\ k > NLibs /\ Step("share", "run")
       /\ UNCHANGED <<fds, lost, utemp, child, k, r, status, given, made>>

set_runnable ==
    \/ /\ Step("run", "user") /\ r' = "child" /\ made' = TRUE
       /\ status' = [status EXCEPT ![child] = "runnable"]
       /\ UNCHANGED <<fds, lost, utemp, child, k, given>>
    \/ Fail("run", "err2")

\* syscall_env_destroy: nothing happens for a child that does not exist.
Destroyed == IF Accepted THEN [status EXCEPT ![child] = "free"] ELSE status

\* Labels err2 and err1.
destroy ==
    \/ /\ Step("err2", "user") /\ status' = Destroyed
       /\ UNCHANGED <<fds, lost, utemp, child, k, r, given, made>>
    \/ /\ Step("err1", "err") /\ status' = Destroyed
       /\ UNCHANGED <<fds, lost, utemp, child, k, r, given, made>>

\* Label err.
close_err ==
    /\ Step("err", "user") /\ fds' = fds - 1
    /\ UNCHANGED <<lost, utemp, child, k, r, status, given, made>>

\* A child that runs comes to its end.
child_exit(s) ==
    /\ status[s] = "runnable"
    /\ status' = [status EXCEPT ![s] = "free"]
    /\ UNCHANGED <<pc, fds, lost, utemp, child, k, r, given, made>>

Next ==
    \/ open \/ read_header \/ exofork \/ init_stack \/ init_stack_map
    \/ read_segment \/ spawn_mapper \/ spawn_mapper_copy \/ close_fd
    \/ set_trapframe \/ share \/ set_runnable \/ destroy \/ close_err
    \/ \E s \in Slot : child_exit(s)

Spec == Init /\ [][Next]_vars

-----------------------------------------------------------------------------
(* Properties                                                              *)

\* When spawn returns, whichever call has failed, UTEMP is unmapped, no child is
\* left half-built, and no descriptor is in use but those that a failing open has
\* left itself, about which spawn learns nothing that it could close.
NothingLeft ==
    pc = "user" => /\ fds = lost /\ ~utemp
                   /\ \A s \in Slot : status[s] # "building"

\* A child runs only if it has its stack, all its segments, its registers and
\* every library page of its parent.
RunsComplete == \A s \in Slot : status[s] = "runnable" => given[s] = Complete

\* Building a child never touches one that exists: a failed exofork leads to no
\* call that any other environment would be affected by.
OthersUntouched ==
    [][\A s \in Slot : s # child /\ status[s] = "runnable"
           => given'[s] = given[s] /\ (status'[s] = "runnable" \/ child_exit(s))]_vars

\* The caller learns what happened: a result that is not an error means a child
\* (spawn.c:129, "close the file and return the error").
ResultTold == pc = "user" /\ r \in {"child", "count"} => made

\* Whichever call of spawn fails, spawn leaves nothing of its own behind and the
\* caller is told; a child that runs has all its parts; no other is changed
\* (spawn.c:104-254).
SpawnSound == [](TypeOK /\ NothingLeft /\ RunsComplete /\ ResultTold) /\ OthersUntouched

=============================================================================
