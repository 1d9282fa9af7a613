------------------------------ MODULE ForkCow -------------------------------
(***************************************************************************)
(* Copy-on-write fork (user/lib/fork.c) over the TLB Mod exception          *)
(* (do_tlb_mod of kern/tlbex.c) and the mapping system calls.               *)
(*                                                                         *)
(* fork marks the pages of parent and child read-only and copy-on-write, a  *)
(* page at a time, while it runs on a stack that is itself one of those     *)
(* pages.  A store to such a page enters cow_entry, which gives the         *)
(* environment a copy.  One step makes one access to what another           *)
(* environment can see: a store, a copy of a page, a mapping.               *)
(***************************************************************************)
EXTENDS Naturals, FiniteSets

CONSTANTS Env, Value,
          Zero,       \* the contents of a cleared page
          NPages,     \* user pages, in the order of their addresses
          Library,    \* pages mapped PTE_LIBRARY
          NFrames,    \* physical pages: enough for all that is mapped
          MaxForks,   \* bound: calls of fork
          MapMayFail, \* whether sys_mem_map may find no memory for a page table
          NIL         \* no page, no environment

Page == 1..NPages
Stack == NPages            \* the page in use below USTACKTOP is the highest
Frame == 1..NFrames
Bits == {"D", "COW", "LIB"}
Pte == [frame : Frame, perm : SUBSET Bits]

ForkConstantsOK ==
    /\ NPages \in Nat \ {0} /\ Library \subseteq Page \ {Stack}
    /\ IsFiniteSet(Env)
    /\ NFrames \in Nat /\ NFrames > (NPages + 1) * Cardinality(Env)
    /\ Zero \in Value
    /\ NIL \notin Env \cup Pte \cup Page \cup Frame \cup [Page -> Value \cup {NIL}]
    /\ MaxForks \in Nat /\ MapMayFail \in BOOLEAN

ASSUME ForkConstantsAssumption == ForkConstantsOK

VARIABLES pt,          \* pt[e][v]: page table entry, or NIL
          ucow,        \* ucow[e]: the frame mapped at UCOW, or NIL
          content,     \* contents of the frames
          fork_status, \* "free", "building" (ENV_NOT_RUNNABLE) or "alive"
          entry,       \* entry[e]: env_user_tlb_mod_entry is cow_entry (or 0)
          fork_pc,     \* where e is in fork, "user" outside
          loc,         \* fork's child and i, duppage's perm
          cow,         \* cow_entry: the step it is at and the faulting page
          forks,       \* calls of fork so far
          panicked     \* "TLB Mod but no user handler registered"

forkVars == <<pt, ucow, content, fork_status, entry, fork_pc, loc, cow, forks, panicked>>

NoCow == [step |-> "none", va |-> NIL]
NoLocals == [child |-> NIL, i |-> 1, perm |-> {}]

ForkTypeOK ==
    /\ pt \in [Env -> [Page -> Pte \cup {NIL}]]
    /\ ucow \in [Env -> Frame \cup {NIL}]
    /\ content \in [Frame -> Value]
    /\ fork_status \in [Env -> {"free", "building", "alive"}]
    /\ entry \in [Env -> BOOLEAN]
    /\ fork_pc \in [Env -> {"user", "loop", "child", "parent", "entry", "run"}]
    /\ loc \in [Env -> [child : Env \cup {NIL}, i : 1..(NPages + 1),
                        perm : SUBSET Bits]]
    /\ cow \in [Env -> [step : {"none", "copy", "map"},
                        va : Page \cup {NIL}]]
    /\ forks \in 0..MaxForks
    /\ panicked \in BOOLEAN

Unmapped == [v \in Page |-> NIL]

\* One environment made by load_icode or spawn: its pages are its own.
ForkInit ==
    \E root \in Env :
        /\ pt = [e \in Env |-> IF e = root
                  THEN [v \in Page |-> [frame |-> v, perm |->
                           {"D"} \cup IF v \in Library THEN {"LIB"} ELSE {}]]
                  ELSE Unmapped]
        /\ ucow = [e \in Env |-> NIL]
        /\ content = [f \in Frame |-> Zero]
        /\ fork_status = [e \in Env |-> IF e = root THEN "alive" ELSE "free"]
        /\ entry = [e \in Env |-> FALSE]
        /\ fork_pc = [e \in Env |-> "user"]
        /\ loc = [e \in Env |-> NoLocals]
        /\ cow = [e \in Env |-> NoCow]
        /\ forks = 0
        /\ panicked = FALSE

-----------------------------------------------------------------------------

InUse == ({ucow[e] : e \in Env} \cup
          {IF pt[e][v] = NIL THEN NIL ELSE pt[e][v].frame : e \in Env, v \in Page})
         \ {NIL}

\* page_alloc; which free frame it is makes no difference.
NewFrame == CHOOSE f \in Frame : f \notin InUse

\* page_alloc clears a page.  Here that happens when it becomes free, so that
\* what nobody can read makes no states.
Cleared == [f \in Frame |-> IF f \in InUse' THEN content[f] ELSE Zero]

\* e executes code outside cow_entry, at this point of fork.
At(e, label) == /\ fork_status[e] = "alive" /\ ~panicked
                /\ cow[e].step = "none" /\ fork_pc[e] = label

InCow(e, step) == fork_status[e] = "alive" /\ ~panicked /\ cow[e].step = step

\* A store by e.  While fork runs, its stack is all it writes.
MayStore(e, v) == /\ fork_status[e] = "alive" /\ ~panicked /\ cow[e].step = "none"
                  /\ fork_pc[e] = "user" \/ v = Stack

\* A page that is not mapped is allocated on the way (passive_alloc).
store(e, v, x) ==
    /\ MayStore(e, v)
    /\ IF pt[e][v] = NIL
       THEN /\ pt' = [pt EXCEPT ![e][v] = [frame |-> NewFrame, perm |-> {"D"}]]
            /\ content' = [content EXCEPT ![NewFrame] = x]
       ELSE /\ "D" \in pt[e][v].perm
            /\ content' = [content EXCEPT ![pt[e][v].frame] = x]
            /\ UNCHANGED pt
    /\ UNCHANGED <<ucow, fork_status, entry, fork_pc, loc, cow, forks, panicked>>

\* A store to a page without PTE_D: do_tlb_mod enters cow_entry, which will
\* execute the store again.
do_tlb_mod(e, v) ==
    /\ MayStore(e, v)
    /\ pt[e][v] # NIL /\ "D" \notin pt[e][v].perm
    /\ IF entry[e] THEN /\ cow' = [cow EXCEPT ![e] = [step |-> "copy", va |-> v]]
                        /\ UNCHANGED panicked
                   ELSE panicked' = TRUE /\ UNCHANGED cow
    /\ UNCHANGED <<pt, ucow, content, fork_status, entry, fork_pc, loc, forks>>

\* syscall_mem_alloc(0, UCOW, perm) and memcpy(UCOW, va).
cow_copy(e) ==
    /\ InCow(e, "copy")
    /\ ucow' = [ucow EXCEPT ![e] = NewFrame]
    /\ content' = [content EXCEPT ![NewFrame] = content[pt[e][cow[e].va].frame]]
    /\ cow' = [cow EXCEPT ![e].step = "map"]
    /\ UNCHANGED <<pt, fork_status, entry, fork_pc, loc, forks, panicked>>

\* Faulty variant: the faulting page itself is made writable.
cow_map_in_place(e) ==
    LET va == cow[e].va
    IN  /\ InCow(e, "map")
        /\ pt' = [pt EXCEPT ![e][va].perm = (@ \ {"COW"}) \cup {"D"}]
        /\ ucow' = [ucow EXCEPT ![e] = NIL]
        /\ cow' = [cow EXCEPT ![e] = NoCow]
        /\ UNCHANGED <<content, fork_status, entry, fork_pc, loc, forks, panicked>>

\* syscall_mem_map(0, UCOW, 0, va, perm), perm with PTE_D and without PTE_COW,
\* syscall_mem_unmap(0, UCOW), and syscall_set_trapframe to resume the store.
cow_map(e) ==
    LET va == cow[e].va
    IN  /\ InCow(e, "map")
        /\ pt' = [pt EXCEPT ![e][va] = [frame |-> ucow[e],
                     perm |-> (pt[e][va].perm \ {"COW"}) \cup {"D"}]]
        /\ ucow' = [ucow EXCEPT ![e] = NIL]
        /\ cow' = [cow EXCEPT ![e] = NoCow]
        /\ content' = Cleared
        /\ UNCHANGED <<fork_status, entry, fork_pc, loc, forks, panicked>>

-----------------------------------------------------------------------------

Goto(e, label) == fork_pc' = [fork_pc EXCEPT ![e] = label]
Return(e) == Goto(e, "user") /\ loc' = [loc EXCEPT ![e] = NoLocals]

\* fork, Steps 1 and 2: the caller's handler, if it is not there yet, and
\* syscall_exofork; env_alloc clears the child's entry.
fork(e, c) ==
    /\ At(e, "user") /\ forks < MaxForks /\ fork_status[c] = "free"
    /\ forks' = forks + 1
    /\ fork_status' = [fork_status EXCEPT ![c] = "building"]
    /\ entry' = [entry EXCEPT ![e] = TRUE, ![c] = FALSE]
    /\ loc' = [loc EXCEPT ![e].child = c]
    /\ Goto(e, "loop")
    /\ UNCHANGED <<pt, ucow, content, cow, panicked>>

\* The result of syscall_exofork is unsigned and not tested: fork goes on with a
\* child that no system call will accept.
fork_no_child(e) ==
    /\ At(e, "user") /\ forks < MaxForks /\ \A c \in Env : fork_status[c] # "free"
    /\ forks' = forks + 1
    /\ entry' = [entry EXCEPT ![e] = TRUE]
    /\ Goto(e, "loop")
    /\ UNCHANGED <<pt, ucow, content, fork_status, loc, cow, panicked>>

\* Faulty variant: perm is read before the call has touched the stack.
fork_duppage_inline(e) ==
    LET i == loc[e].i
    IN  /\ At(e, "loop") /\ i <= NPages
        /\ IF pt[e][i] = NIL
           THEN loc' = [loc EXCEPT ![e].i = i + 1] /\ UNCHANGED fork_pc
           ELSE loc' = [loc EXCEPT ![e].perm = pt[e][i].perm] /\ Goto(e, "child")
        /\ UNCHANGED <<pt, ucow, content, fork_status, entry, cow, forks, panicked>>

\* Step 3: the loop calls duppage for each mapped page, and duppage reads perm.
\* The call has just stored its frame, so by now the stack is writable.
fork_duppage(e) ==
    LET i == loc[e].i
    IN  /\ At(e, "loop") /\ i <= NPages
        /\ pt[e][Stack] # NIL /\ "D" \in pt[e][Stack].perm
        /\ IF pt[e][i] = NIL
           THEN loc' = [loc EXCEPT ![e].i = i + 1] /\ UNCHANGED fork_pc
           ELSE loc' = [loc EXCEPT ![e].perm = pt[e][i].perm] /\ Goto(e, "child")
        /\ UNCHANGED <<pt, ucow, content, fork_status, entry, cow, forks, panicked>>

\* Writable and not shared: to be marked copy-on-write in both.
ToCow(perm) == "D" \in perm /\ "LIB" \notin perm
CowPerm(perm) == IF ToCow(perm) THEN (perm \ {"D"}) \cup {"COW"} ELSE perm

\* What syscall_mem_map(0, addr, child, addr, perm) leaves in the child.
MapToChild(e) ==
    LET c == loc[e].child
        i == loc[e].i
    IN  IF c = NIL THEN {pt}
        ELSE {[pt EXCEPT ![c][i] = [frame |-> pt[e][i].frame,
                                    perm |-> CowPerm(loc[e].perm)]]}
             \cup IF MapMayFail THEN {pt} ELSE {}

NextPage(e) == [loc EXCEPT ![e].i = @ + 1, ![e].perm = {}]

duppage_child(e) ==
    /\ At(e, "child")
    /\ pt' \in MapToChild(e)
    /\ IF ToCow(loc[e].perm) THEN Goto(e, "parent") /\ UNCHANGED loc
                             ELSE Goto(e, "loop") /\ loc' = NextPage(e)
    /\ UNCHANGED <<ucow, content, fork_status, entry, cow, forks, panicked>>

\* syscall_mem_map(0, addr, 0, addr, perm)
duppage_parent(e) ==
    /\ At(e, "parent")
    /\ pt' = [pt EXCEPT ![e][loc[e].i].perm = CowPerm(loc[e].perm)]
    /\ Goto(e, "loop") /\ loc' = NextPage(e)
    /\ UNCHANGED <<ucow, content, fork_status, entry, cow, forks, panicked>>

\* Step 4: syscall_set_tlb_mod_entry(child), which ends a fork without a child.
fork_entry(e) ==
    /\ At(e, "loop") /\ loc[e].i > NPages
    /\ IF loc[e].child = NIL
       THEN Return(e) /\ UNCHANGED entry
       ELSE /\ entry' = [entry EXCEPT ![loc[e].child] = TRUE]
            /\ Goto(e, "run") /\ UNCHANGED loc
    /\ UNCHANGED <<pt, ucow, content, fork_status, cow, forks, panicked>>

\* syscall_set_env_status(child, ENV_RUNNABLE)
fork_run(e) ==
    /\ At(e, "run")
    /\ fork_status' = [fork_status EXCEPT ![loc[e].child] = "alive"]
    /\ Return(e)
    /\ UNCHANGED <<pt, ucow, content, entry, cow, forks, panicked>>

exit(e) ==
    /\ At(e, "user")
    /\ fork_status' = [fork_status EXCEPT ![e] = "free"]
    /\ pt' = [pt EXCEPT ![e] = Unmapped]
    /\ UNCHANGED <<ucow, entry, fork_pc, loc, cow, forks, panicked>>
    /\ content' = Cleared

ForkNext ==
    \E e \in Env :
        \/ \E v \in Page, x \in Value : store(e, v, x)
        \/ \E v \in Page : do_tlb_mod(e, v)
        \/ cow_copy(e) \/ cow_map(e)
        \/ \E c \in Env : fork(e, c)
        \/ fork_no_child(e)
        \/ fork_duppage(e) \/ duppage_child(e) \/ duppage_parent(e)
        \/ fork_entry(e) \/ fork_run(e)
        \/ exit(e)

ForkSpec == ForkInit /\ [][ForkNext]_forkVars

-----------------------------------------------------------------------------
(* Properties                                                              *)

\* do_tlb_mod never panics: wherever a page is mapped copy-on-write, the
\* environment has registered cow_entry before it can store to it.
HandlerRegistered == ~panicked

Mapped(e, v, f) == pt[e][v] # NIL /\ pt[e][v].frame = f

\* e is in duppage, between the child's mapping of v and its own.
InWindow(e, v) == fork_pc[e] = "parent" /\ loc[e].i = v

\* A frame that some environment can write without a fault, and that is not
\* shared on purpose, is mapped nowhere else.  The one exception is a page that
\* duppage has given to the child and not yet taken from the parent.
WritableIsPrivate ==
    \A e \in Env, v \in Page :
        /\ pt[e][v] # NIL
        /\ "D" \in pt[e][v].perm /\ "LIB" \notin pt[e][v].perm
        => \A a \in Env, w \in Page :
               Mapped(a, w, pt[e][v].frame) =>
                   \/ <<a, w>> = <<e, v>>
                   \/ InWindow(e, v) /\ <<a, w>> = <<loc[e].child, v>>

\* fork.c and tlbex.c keep copy-on-write safe in every order of stores, faults, forks of
\* children and exits: an environment that faults on a copy-on-write page has a handler
\* for it (tlbex.c: do_tlb_mod panics if not), and a page that an environment may write
\* without a fault is mapped by no other, library pages excepted (fork.c duppage).
ForkSafe == ForkTypeOK /\ HandlerRegistered /\ WritableIsPrivate

\* What an environment reads.
Memory == [e \in Env |-> IF fork_status[e] # "alive" THEN NIL
             ELSE [v \in Page |-> IF pt[e][v] = NIL THEN NIL
                                  ELSE content[pt[e][v].frame]]]

Abstract == INSTANCE ForkMemory WITH
              Shared <- Library, Scratch <- {Stack}, mem <- Memory, NONE <- NIL

\* fork copies the address space and the copies are independent, in every order
\* of stores, faults, forks of children and exits.
CopiesMemory == Abstract!MemorySpec

=============================================================================
