------------------------------ MODULE EnvSched ------------------------------
(***************************************************************************)
(* Environments, the round-robin scheduler and blocking IPC of the kernel:  *)
(* kern/env.c, kern/sched.c and the system calls of kern/syscall_all.c that *)
(* create, wake, suspend, block and destroy environments.                   *)
(*                                                                         *)
(* The kernel runs with interrupts off, so a system call or a timer tick is *)
(* one atomic step; the interleaving is that of the environments' calls and *)
(* of the timer.  A call that returns an error before changing anything is  *)
(* a stuttering step.  Trap frames, page mappings, IPC values and env_runs  *)
(* are data no guard here reads; address spaces are modelled in Pmap.       *)
(***************************************************************************)
EXTENDS Integers, Sequences, FiniteSets

CONSTANTS NENV,        \* size of the envs array
          NASID,       \* number of address space identifiers
          NULL, HEAD,  \* null pointer, and address of the run queue's head
          Priorities,  \* priorities the boot code gives to its environments
          NBoot,       \* environments created at boot by mips_init
          MaxIds,      \* bound: calls of mkenvid (2^21 in the code)
          Discipline   \* rules that user code keeps; see Permits

Env == 0..(NENV - 1)
AllRules == {"destroy_queued", "wake_fresh", "suspend_others"}

ASSUME SizesAssumption == /\ NENV \in Nat \ {0} /\ NASID \in Nat \ {0}
                          /\ NBoot \in 1..NENV /\ NBoot <= NASID
                          /\ MaxIds \in Nat /\ NBoot <= MaxIds
ASSUME NullAssumption == NULL \notin Env /\ HEAD \notin Env /\ NULL # HEAD
ASSUME PriorityAssumption == Priorities \subseteq Nat \ {0} /\ Priorities # {}
ASSUME RulesAssumption == Discipline \subseteq AllRules

INSTANCE TailQueue WITH Elem <- Env

VARIABLES env_status, env_id, env_parent_id, env_pri,  \* fields of struct Env
          env_ipc_recving, env_ipc_from,
          env_sched_list,   \* the run queue (TailQueue)
          env_free_list,    \* free environments; used as a stack
          curenv,           \* the running environment
          count,            \* schedule()'s static count of remaining slices
          last_id,          \* mkenvid()'s static counter
          irq_on,           \* mips_init has reached enable_irq
          halted,           \* "no", or the panic that stopped the kernel
          reading           \* sys_cgetc spins in the kernel for a key

envFields == <<env_status, env_id, env_parent_id, env_pri>>
ipcFields == <<env_ipc_recving, env_ipc_from>>
runState == <<env_sched_list, curenv, count, halted>>
kernelVars == <<env_status, env_id, env_parent_id, env_pri, env_ipc_recving,
                env_ipc_from, env_sched_list, env_free_list, curenv, count,
                last_id, irq_on, halted>>
vars == <<kernelVars, reading>>

Statuses == {"ENV_FREE", "ENV_RUNNABLE", "ENV_NOT_RUNNABLE"}
Panics == {"no runnable envs", "assertion failed", "address too low"}

\* An envid is the pair of mkenvid's counter and the index in envs; the pair
\* <<0, 0>> is the envid 0 that stands for the caller.
EnvIds == (0..MaxIds) \X Env
Zero == <<0, 0>>
ENVX(envid) == envid[2]

KernelTypeOK ==
    /\ env_status \in [Env -> Statuses]
    /\ env_id \in [Env -> EnvIds]
    /\ env_parent_id \in [Env -> EnvIds]
    /\ env_pri \in [Env -> Nat]
    /\ env_ipc_recving \in [Env -> BOOLEAN]
    /\ env_ipc_from \in [Env -> EnvIds]
    /\ env_sched_list \in TailqType
    /\ env_free_list \in Seq(Env)
    /\ curenv \in Env \cup {NULL}
    /\ count \in Nat
    /\ last_id \in 0..MaxIds
    /\ irq_on \in BOOLEAN
    /\ halted \in {"no"} \cup Panics
TypeOK == KernelTypeOK /\ reading \in BOOLEAN

\* env_init, and the zeroed envs array it runs on.
Init ==
    /\ env_status = [e \in Env |-> "ENV_FREE"]
    /\ env_id = [e \in Env |-> Zero]
    /\ env_parent_id = [e \in Env |-> Zero]
    /\ env_pri = [e \in Env |-> 0]
    /\ env_ipc_recving = [e \in Env |-> FALSE]
    /\ env_ipc_from = [e \in Env |-> Zero]
    /\ env_sched_list = TAILQ_INIT
    /\ env_free_list = [i \in 1..NENV |-> i - 1]
    /\ curenv = NULL
    /\ count = 0
    /\ last_id = 0
    /\ irq_on = FALSE
    /\ halted = "no"
    /\ reading = FALSE

-----------------------------------------------------------------------------
(* Helpers of the handlers.                                                *)

\* Faulty variant: an envid also names a slot that has been freed.
envid2env_freed(envid, checkperm) ==
    LET e == ENVX(envid) IN
    IF envid = Zero THEN curenv
    ELSE IF \/ env_id[e] # envid
            \/ checkperm /\ e # curenv /\ env_parent_id[e] # env_id[curenv]
         THEN NULL
         ELSE e

\* The environment an envid names for the running one, NULL for -E_BAD_ENV.
envid2env(envid, checkperm) ==
    LET e == ENVX(envid) IN
    IF envid = Zero THEN curenv
    ELSE IF \/ env_status[e] = "ENV_FREE"
            \/ env_id[e] # envid
            \/ checkperm /\ e # curenv /\ env_parent_id[e] # env_id[curenv]
         THEN NULL
         ELSE e

\* asid_alloc succeeds: each environment off the free list holds one ASID.
AsidAvailable == NENV - Len(env_free_list) < NASID

\* env_alloc when it succeeds, except for the caller's own settings of status
\* and priority.  The IPC fields keep what the slot's last user left there.
env_alloc(e, parent) ==
    /\ env_free_list # <<>>
    /\ e = Head(env_free_list)
    /\ AsidAvailable
    /\ last_id < MaxIds
    /\ last_id' = last_id + 1
    /\ env_id' = [env_id EXCEPT ![e] = <<last_id + 1, e>>]
    /\ env_parent_id' = [env_parent_id EXCEPT ![e] = parent]
    /\ env_free_list' = Tail(env_free_list)

panic(msg) == halted' = msg

\* env_run(e), with the assertion it starts with; prev is curenv until then.
env_run(e, status, prev) ==
    IF status[e] = "ENV_RUNNABLE" THEN curenv' = e /\ UNCHANGED halted
    ELSE panic("assertion failed") /\ curenv' = prev

\* schedule(yield), called with the statuses, the run queue and the current
\* environment that the handler calling it has reached.
schedule(yield, status, queue, e) ==
    LET runnable == e # NULL /\ status[e] = "ENV_RUNNABLE"
        removed  == IF e = NULL THEN queue ELSE TAILQ_REMOVE(queue, e)
        requeued == IF runnable THEN TAILQ_INSERT_TAIL(removed, e) ELSE removed
        next     == TAILQ_FIRST(requeued)
    IN  \/ /\ ~yield /\ count > 0 /\ runnable
           /\ count' = count - 1
           /\ env_sched_list' = queue
           /\ env_run(e, status, e)
        \/ /\ yield \/ count <= 0 \/ ~runnable
           /\ IF e # NULL /\ RemoveFaults(queue, e)
              THEN /\ panic("address too low")
                   /\ env_sched_list' = queue
                   /\ UNCHANGED <<curenv, count>>
              ELSE /\ env_sched_list' = requeued
                   /\ IF TAILQ_EMPTY(requeued)
                      THEN /\ panic("no runnable envs")
                           /\ curenv' = e /\ UNCHANGED count
                      ELSE /\ count' = env_pri[next] - 1
                           /\ env_run(next, status, e)

\* The running environment can trap into the kernel.
Running == irq_on /\ halted = "no" /\ curenv # NULL

\* What user code is assumed to do, rule by rule: destroy only environments
\* that are on the run queue, make runnable only those not blocked in
\* sys_ipc_recv, and suspend only others.
Permits(rule, ok) == rule \in Discipline => ok

-----------------------------------------------------------------------------
(* Boot: mips_init creates the first environments, then enables the timer. *)

env_create(priority) ==
    /\ ~irq_on /\ last_id < NBoot
    /\ \E e \in Env :
          /\ env_alloc(e, Zero)
          /\ env_pri' = [env_pri EXCEPT ![e] = priority]
          /\ env_status' = [env_status EXCEPT ![e] = "ENV_RUNNABLE"]
          /\ env_sched_list' = TAILQ_INSERT_HEAD(env_sched_list, e)
    /\ UNCHANGED <<ipcFields, curenv, count, irq_on, halted>>

enable_irq ==
    /\ ~irq_on /\ last_id = NBoot
    /\ irq_on' = TRUE
    /\ UNCHANGED <<envFields, ipcFields, runState, env_free_list, last_id>>

\* The timer interrupt: handle_int jumps to schedule(0).
timer_irq ==
    /\ irq_on /\ halted = "no"
    /\ schedule(FALSE, env_status, env_sched_list, curenv)
    /\ UNCHANGED <<envFields, ipcFields, env_free_list, last_id, irq_on>>

-----------------------------------------------------------------------------
(* System calls of the running environment.                                *)

sys_yield ==
    /\ Running
    /\ schedule(TRUE, env_status, env_sched_list, curenv)
    /\ UNCHANGED <<envFields, ipcFields, env_free_list, last_id, irq_on>>

sys_exofork ==
    /\ Running
    /\ \E e \in Env :
          /\ env_alloc(e, env_id[curenv])
          /\ env_status' = [env_status EXCEPT ![e] = "ENV_NOT_RUNNABLE"]
          /\ env_pri' = [env_pri EXCEPT ![e] = env_pri[curenv]]
    /\ UNCHANGED <<ipcFields, runState, irq_on>>

\* sys_exofork when asid_alloc fails: env_alloc has already renamed the slot,
\* which stays on the free list.
sys_exofork_no_asid ==
    /\ Running
    /\ env_free_list # <<>> /\ ~AsidAvailable
    /\ last_id < MaxIds
    /\ last_id' = last_id + 1
    /\ LET e == Head(env_free_list) IN
          env_id' = [env_id EXCEPT ![e] = <<last_id + 1, e>>]
    /\ UNCHANGED <<env_status, env_parent_id, env_pri, ipcFields, runState,
                   env_free_list, irq_on>>

sys_set_env_status(envid, status) ==
    /\ Running
    /\ LET e == envid2env(envid, TRUE) IN
          /\ e # NULL
          /\ status = "ENV_RUNNABLE" => Permits("wake_fresh", ~env_ipc_recving[e])
          /\ status # "ENV_RUNNABLE" => Permits("suspend_others", e # curenv)
          /\ env_sched_list' =
                IF status = "ENV_RUNNABLE" /\ env_status[e] # "ENV_RUNNABLE"
                  THEN TAILQ_INSERT_TAIL(env_sched_list, e)
                ELSE IF status # "ENV_RUNNABLE" /\ env_status[e] = "ENV_RUNNABLE"
                  THEN TAILQ_REMOVE(env_sched_list, e)
                ELSE env_sched_list
          /\ env_status' = [env_status EXCEPT ![e] = status]
    /\ UNCHANGED <<env_id, env_parent_id, env_pri, ipcFields, env_free_list,
                   curenv, count, last_id, irq_on, halted>>

\* Faulty variants: the receiver stays runnable; it keeps the processor.
sys_ipc_recv_runnable ==
    /\ Running
    /\ env_ipc_recving' = [env_ipc_recving EXCEPT ![curenv] = TRUE]
    /\ schedule(TRUE, env_status, env_sched_list, curenv)
    /\ UNCHANGED <<envFields, env_ipc_from, env_free_list, last_id, irq_on>>

sys_ipc_recv_unscheduled ==
    /\ Running
    /\ env_ipc_recving' = [env_ipc_recving EXCEPT ![curenv] = TRUE]
    /\ env_status' = [env_status EXCEPT ![curenv] = "ENV_NOT_RUNNABLE"]
    /\ env_sched_list' = TAILQ_REMOVE(env_sched_list, curenv)
    /\ UNCHANGED <<env_id, env_parent_id, env_pri, env_ipc_from, env_free_list,
                   curenv, count, last_id, irq_on, halted>>

sys_ipc_recv ==
    /\ Running
    /\ env_ipc_recving' = [env_ipc_recving EXCEPT ![curenv] = TRUE]
    /\ env_status' = [env_status EXCEPT ![curenv] = "ENV_NOT_RUNNABLE"]
    /\ schedule(TRUE, env_status', TAILQ_REMOVE(env_sched_list, curenv), curenv)
    /\ UNCHANGED <<env_id, env_parent_id, env_pri, env_ipc_from,
                   env_free_list, last_id, irq_on>>

\* Faulty variant: a message is delivered whether or not it is waited for.
sys_ipc_try_send_unasked(envid) ==
    /\ Running
    /\ LET e == envid2env(envid, FALSE) IN
          /\ e # NULL
          /\ env_ipc_from' = [env_ipc_from EXCEPT ![e] = env_id[curenv]]
          /\ env_ipc_recving' = [env_ipc_recving EXCEPT ![e] = FALSE]
          /\ env_status' = [env_status EXCEPT ![e] = "ENV_RUNNABLE"]
          /\ env_sched_list' = IF env_status[e] = "ENV_RUNNABLE" THEN env_sched_list
                               ELSE TAILQ_INSERT_TAIL(env_sched_list, e)
    /\ UNCHANGED <<env_id, env_parent_id, env_pri, env_free_list, curenv,
                   count, last_id, irq_on, halted>>

\* The target is woken and its fields set whether or not the page that goes
\* with the message can then be mapped.
sys_ipc_try_send(envid) ==
    /\ Running
    /\ LET e == envid2env(envid, FALSE) IN
          /\ e # NULL
          /\ env_ipc_recving[e]
          /\ env_ipc_from' = [env_ipc_from EXCEPT ![e] = env_id[curenv]]
          /\ env_ipc_recving' = [env_ipc_recving EXCEPT ![e] = FALSE]
          /\ env_status' = [env_status EXCEPT ![e] = "ENV_RUNNABLE"]
          /\ env_sched_list' = TAILQ_INSERT_TAIL(env_sched_list, e)
    /\ UNCHANGED <<env_id, env_parent_id, env_pri, env_free_list, curenv,
                   count, last_id, irq_on, halted>>

\* sys_env_destroy, env_destroy and the bookkeeping of env_free.
sys_env_destroy(envid) ==
    /\ Running
    /\ LET e == envid2env(envid, TRUE)
           freed == TAILQ_REMOVE(env_sched_list, e)
       IN /\ e # NULL
          /\ Permits("destroy_queued", env_status[e] = "ENV_RUNNABLE")
          /\ env_status' = [env_status EXCEPT ![e] = "ENV_FREE"]
          /\ env_free_list' = <<e>> \o env_free_list
          /\ IF RemoveFaults(env_sched_list, e)
             THEN /\ panic("address too low")
                  /\ UNCHANGED <<env_sched_list, curenv, count>>
             ELSE IF e = curenv THEN schedule(TRUE, env_status', freed, NULL)
             ELSE /\ env_sched_list' = freed
                  /\ UNCHANGED <<curenv, count, halted>>
    /\ UNCHANGED <<env_id, env_parent_id, env_pri, ipcFields, last_id, irq_on>>

\* sys_cgetc polls the console inside the kernel, where interrupts are off: no
\* environment runs and no timer tick is taken until a key has been typed.
sys_cgetc ==
    /\ Running /\ ~reading
    /\ reading' = TRUE
    /\ UNCHANGED kernelVars

key ==
    /\ reading
    /\ reading' = FALSE
    /\ UNCHANGED kernelVars

Handlers ==
    \/ \E priority \in Priorities : env_create(priority)
    \/ enable_irq
    \/ timer_irq
    \/ sys_yield
    \/ sys_exofork
    \/ sys_exofork_no_asid
    \/ \E envid \in EnvIds, status \in Statuses \ {"ENV_FREE"} :
          sys_set_env_status(envid, status)
    \/ sys_ipc_recv
    \/ \E envid \in EnvIds : sys_ipc_try_send(envid)
    \/ \E envid \in EnvIds : sys_env_destroy(envid)

Next ==
    \/ ~reading /\ Handlers /\ UNCHANGED reading
    \/ sys_cgetc
    \/ key

\* Boot completes.  A timer interrupt stays pending while the kernel spins in
\* sys_cgetc and is taken on the return to user mode: a kernel that returns there
\* again and again takes interrupts again and again.  Nobody has to type.
Fairness == /\ WF_vars(~reading /\ \E priority \in Priorities :
                                      env_create(priority) /\ UNCHANGED reading)
            /\ WF_vars(~reading /\ enable_irq /\ UNCHANGED reading)
            /\ SF_vars(~reading /\ timer_irq /\ UNCHANGED reading)

Spec == Init /\ [][Next]_vars
FairSpec == Spec /\ Fairness

-----------------------------------------------------------------------------
(* Properties.                                                             *)

\* env.c:18 and sched.c:14: an environment is on env_sched_list if and only if
\* its env_status is ENV_RUNNABLE, whatever mix of calls and ticks came before.
SchedListInv ==
    halted = "no" => \A e \in Env :
        e \in Linked(env_sched_list) <=> env_status[e] = "ENV_RUNNABLE"

\* The run queue's forward and back pointers agree in every state, so that each
\* TAILQ_REMOVE of a handler unlinks its own element and no other.
QueueWellLinked == halted = "no" => WellLinked(env_sched_list)

\* schedule()'s panic "no runnable envs" means what it says, and neither the
\* assertion of env_run nor a store through a null link ever stops the kernel.
PanicOnlyWhenIdle ==
    /\ halted \in {"no", "no runnable envs"}
    /\ halted # "no" => \A e \in Env : env_status[e] # "ENV_RUNNABLE"

\* An environment marked as waiting in sys_ipc_recv is blocked, so the wake-up
\* of sys_ipc_try_send never queues one that is queued already; and a slot is
\* given back with the mark cleared, so a new environment does not inherit it.
BlockedWhileReceiving ==
    \A e \in Env : env_ipc_recving[e] => env_status[e] = "ENV_NOT_RUNNABLE"

\* The environment the kernel returns to is runnable.
CurenvRunnable ==
    halted = "no" /\ curenv # NULL => env_status[curenv] = "ENV_RUNNABLE"

\* The free list holds exactly the ENV_FREE slots, each once: no slot is handed
\* out twice, none is lost, also after an env_alloc that failed half-way.
FreeListExact ==
    /\ \A e \in Env : env_status[e] = "ENV_FREE" <=>
                         \E i \in 1..Len(env_free_list) : env_free_list[i] = e
    /\ \A i, j \in 1..Len(env_free_list) :
          env_free_list[i] = env_free_list[j] => i = j

\* A message that has been delivered stays as it is until its receiver has run:
\* env_ipc_from of an environment that is runnable and not running is stable.
MessageNotOverwritten ==
    [][\A e \in Env : e # curenv /\ env_status[e] = "ENV_RUNNABLE"
                        => env_ipc_from'[e] = env_ipc_from[e]]_vars

\* sched.c:9: a step that yields gives the processor to another environment
\* unless the caller is the only runnable one.
YieldGivesWay ==
    [][sys_yield /\ curenv' = curenv =>
          {e \in Env : env_status[e] = "ENV_RUNNABLE"} \subseteq {curenv}]_vars

Position(q, e) == CHOOSE n \in 0..NENV : NthElem(q, n) = e

\* Nobody is overtaken: while it waits, an environment never moves back in the
\* run queue, whoever is created, woken, blocked or destroyed meanwhile.
NoOvertaking ==
    [][\A e \in Env :
          /\ irq_on /\ halted' = "no" /\ e # curenv
          /\ env_status[e] = "ENV_RUNNABLE" /\ env_status'[e] = "ENV_RUNNABLE"
          => Position(env_sched_list', e) <= Position(env_sched_list, e)]_vars

\* Every runnable environment gets the processor, unless it stops being runnable
\* or the kernel panics, as long as no sys_cgetc waits for a key for ever.
NoStarvation ==
    []<>(~reading) => \A e \in Env : env_status[e] = "ENV_RUNNABLE" ~>
        (curenv = e \/ env_status[e] # "ENV_RUNNABLE" \/ halted # "no")

\* The pointer-level scheduler implements the round-robin line: every handler
\* is one step of RoundRobin on the sequence that the links spell out.
Line == INSTANCE RoundRobin WITH
            queue   <- AsSequence(env_sched_list),
            running <- IF halted = "no" THEN curenv ELSE NULL,
            slices  <- count
ImplementsRoundRobin == Line!RRSpec

\* schedule() can rely on its queue: the variables keep their types, no link of
\* the queue is stale, and the kernel stops only when nobody can run.
QueueUsable == TypeOK /\ QueueWellLinked /\ PanicOnlyWhenIdle

\* Turns are fair: a yield gives way, nobody who waits is overtaken, and everybody
\* who can run does unless the kernel spins for a key for ever (sched.c, schedule).
FairTurns == YieldGivesWay /\ NoOvertaking /\ NoStarvation

=============================================================================
