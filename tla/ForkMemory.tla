---------------------------- MODULE ForkMemory ------------------------------
(***************************************************************************)
(* What fork promises: every environment has memory of its own, a child     *)
(* starts with a copy of its parent's, and afterwards neither sees what the *)
(* other writes, except on the pages they share on purpose.  ForkCow is     *)
(* shown to implement this.                                                 *)
(***************************************************************************)
CONSTANTS Env, Page, Value,
          Shared,    \* pages every environment sees (PTE_LIBRARY)
          Scratch,   \* pages fork itself writes while it copies (its stack)
          NONE

VARIABLE mem         \* mem[e][v]: what e reads on page v; NONE: e does not run

MemoryInit ==
    \E root \in Env, x \in Value :
        mem = [e \in Env |-> IF e = root THEN [v \in Page |-> x] ELSE NONE]

\* A store reaches the environment that makes it, and on a shared page all.
Store(e, v, x) ==
    /\ mem[e] # NONE
    /\ mem' = [a \in Env |-> IF mem[a] # NONE /\ (a = e \/ v \in Shared)
                             THEN [mem[a] EXCEPT ![v] = x] ELSE mem[a]]

Fork(e, c) ==
    /\ mem[e] # NONE /\ mem[c] = NONE
    /\ \E scratch \in [Scratch -> Value] :
           mem' = [mem EXCEPT ![c] = [v \in Page |->
                      IF v \in Scratch THEN scratch[v] ELSE mem[e][v]]]

Exit(e) == mem' = [mem EXCEPT ![e] = NONE]

MemoryNext ==
    /\ mem' # mem
    /\ \E e \in Env :
          \/ \E v \in Page, x \in Value : Store(e, v, x)
          \/ \E c \in Env : Fork(e, c)
          \/ Exit(e)

MemorySpec == MemoryInit /\ [][MemoryNext]_mem

=============================================================================
